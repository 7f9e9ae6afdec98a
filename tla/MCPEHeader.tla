----------------------------- MODULE MCPEHeader -----------------------------
(***************************************************************************)
(* Small PEs for TLC, built field by field: good ones with one and two     *)
(* sections in every order, and ones that are each wrong in one respect.   *)
(***************************************************************************)
EXTENDS PEHeader, TLC

At0 == 64                                \* where the PE header starts

Section(rva, virtualSize, offset, rawSize, flags) ==
  [rva |-> rva, virtualSize |-> virtualSize, offset |-> offset, rawSize |-> rawSize,
   flags |-> flags]

(* The table starts behind an optional header of optHdr bytes.             *)
Positions(optHdr, sects) == [s \in DOMAIN sects |-> At0 + 24 + optHdr + (s - 1) * 40]

Base(optHdr, sects) ==
  (0 :> 23117) @@ (60 :> At0) @@ (At0 + 4 :> 498) @@ (At0 + 6 :> Len(sects))
  @@ (At0 + 20 :> optHdr) @@ (At0 + 40 :> 4096) @@ (At0 + 52 :> 8192)
  @@ (At0 + 56 :> 4096) @@ (At0 + 92 :> 14) @@ (At0 + 120 :> 4100) @@ (At0 + 128 :> 4104)

Table(optHdr, sects) ==
  LET at == Positions(optHdr, sects)
      Part(s, p) == CASE p = at[s] + 8  -> sects[s].virtualSize
                      [] p = at[s] + 12 -> sects[s].rva
                      [] p = at[s] + 16 -> sects[s].rawSize
                      [] p = at[s] + 20 -> sects[s].offset
      SectionOf(p) == CHOOSE s \in DOMAIN sects : at[s] < p /\ p < at[s] + 40
  IN  [p \in UNION {{at[s] + 8, at[s] + 12, at[s] + 16, at[s] + 20} : s \in DOMAIN sects} |->
         Part(SectionOf(p), p)]

PE(len, optHdr, changed, sects) ==
  [len   |-> len,
   word  |-> changed @@ Table(optHdr, sects) @@ Base(optHdr, sects),
   flags |-> (At0 + 22 :> {"DLL"})
             @@ [p \in {Positions(optHdr, sects)[s] + 36 : s \in DOMAIN sects} |->
                   sects[CHOOSE s \in DOMAIN sects :
                           p = Positions(optHdr, sects)[s] + 36].flags]]

Unchanged == <<>>

(* Behind the headers of two sections, 392 bytes, there are 12 of data.    *)
Text(virtualSize, rawSize) ==
  Section(4096, virtualSize, 392, rawSize, {"EXECUTE", "READ"})
Data(rva, offset, rawSize) ==
  Section(rva, 3, offset, rawSize, {"WRITE", "READ"})

TwoSections(n, m) == <<Text(n, n), Data(8192, 392 + n, m)>>

Good == {PE(404, 224, Unchanged, TwoSections(n, m)) : n \in 1 .. 4, m \in 1 .. 4}
        \cup {PE(404, 224, Unchanged, <<Text(v, 2), Data(4100, 394, 3)>>) : v \in 1 .. 4}

(* No raw data, a gap in the file, the table in the reverse order.         *)
Odd == {PE(404, 224, Unchanged, <<Text(4, 0), Data(8192, 392, 3)>>),
        PE(404, 224, Unchanged, <<Text(4, 4), Data(8192, 400, 3)>>),
        PE(404, 224, Unchanged, <<Data(8192, 396, 3), Text(4, 4)>>),
        PE(404, 224, Unchanged, <<Text(4, 4), Section(8192, 8, 0, 0, {"WRITE"})>>)}

OtherFlags == {PE(404, 224, Unchanged, <<Section(4096, 4, 392, 4, flags)>>) :
                 flags \in SUBSET {"READ", "WRITE", "DISCARDABLE"}}

(* The optional header is longer by an entry, shorter by one, or empty.    *)
OtherHeaders == {PE(444, optHdr, Unchanged, TwoSections(2, 2)) : optHdr \in {264, 184, 0}}

Short == {PE(len, 224, Unchanged, TwoSections(0, 0)) : len \in {0, 63, 64, 68, 80, 391, 392, 393}}
         \cup {PE(392, 224, Unchanged, <<Text(0, 0), Section(8192, 4, 0, 0, {"WRITE"})>>)}

Wrong == {PE(404, 224, changed, TwoSections(2, 2)) :
            changed \in {0 :> 0, 60 :> 500, 60 :> 404, At0 + 4 :> 332, At0 + 6 :> 0,
                         At0 + 92 :> 3, At0 + 56 :> 512, At0 + 56 :> 65536,
                         At0 + Tls :> 4096, At0 + Tls + 4 :> 8, At0 + 120 :> 0}}

Outside == {PE(404, 224, Unchanged, <<Text(4, 4), Data(8192, offset, 4)>>) :
              offset \in {400, 401, Word - 4, Word - 3}}

MCPEs == Good \cup Odd \cup OtherFlags \cup OtherHeaders \cup Short \cup Wrong \cup Outside
=============================================================================
