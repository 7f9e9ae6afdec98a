----------------------------- MODULE MCPEMapper -----------------------------
(***************************************************************************)
(* Small PEs for TLC: pages of four and of eight cells, a header, and two  *)
(* sections of every size up to a page (an empty one included), the first  *)
(* without imports or with up to three libraries, imported by ordinal or   *)
(* by name; sections longer in memory than in the file, three sections     *)
(* that are not in order, and IATs that share entries, run into data or    *)
(* leave the image.                                                        *)
(***************************************************************************)
EXTENDS PEMapper

Plain(s, n) == [o \in 1 .. n |-> Data(s, o)]

(* IAT entries in the first section, at rva p: one by ordinal, and one by  *)
(* name, whose hint is the third cell.                                     *)
Importing(p, n) == [o \in 1 .. n |-> CASE o = 1 -> Ordinal(7)
                                       [] o = 2 -> NameRVA(p + 2)
                                       [] o = 3 -> Hint(5)
                                       [] OTHER -> Data(1, o)]

Ordinals(n) == [o \in 1 .. n |-> Ordinal(o)]

IAT(rva, importCount) == [rva |-> rva, importCount |-> importCount]

SectionAt(rva, virtualSize, rawSize, offset, permFlag) ==
  [rva |-> rva, virtualSize |-> virtualSize, rawSize |-> rawSize, offset |-> offset,
   permFlag |-> permFlag]

(* A section at the second page and one at the third.                      *)
PE(p, first, second, tables) ==
  [pageSize  |-> p, headerLen |-> 3,
   cells     |-> Plain(0, 3) \o first \o Plain(2, second),
   sections  |-> <<SectionAt(p, Len(first), Len(first), 3, "code"),
                   SectionAt(2 * p, second, second, 3 + Len(first), "rwdata")>>,
   tables    |-> tables]

Four == SmallPage
Eight == LargePage

Bss == [pageSize  |-> Four, headerLen |-> 3,
        cells     |-> Plain(0, 3) \o Plain(1, 4) \o Plain(2, 2),
        sections  |-> <<SectionAt(4, 6, 4, 3, "code"), SectionAt(12, 4, 2, 7, "rwdata"),
                        SectionAt(16, 4, 0, 0, "rwdata")>>,
        tables    |-> <<>>]

Shuffled == [pageSize  |-> Four, headerLen |-> 3,
             cells     |-> Plain(0, 3) \o Plain(1, 4) \o Plain(2, 2) \o Plain(3, 3),
             sections  |-> <<SectionAt(8, 4, 4, 3, "code"), SectionAt(4, 2, 2, 7, "rodata"),
                             SectionAt(12, 3, 2, 9, "rwdata")>>,
             tables    |-> <<>>]

MCPEs == {PE(Four, Plain(1, n), m, <<>>) : n \in {0, 2, 4}, m \in 0 .. 4}
         \cup {PE(Eight, Plain(1, n), m, <<>>) : n \in {0, 8}, m \in {0, 5, 7, 8}}
         \cup {PE(p, Importing(p, n), m, <<IAT(p, 1), IAT(p + 1, 1)>>) :
                 p \in {Four, Eight}, n \in {3, 4}, m \in 0 .. 4}
         \cup {PE(p, Importing(p, 4), 1, <<IAT(p, 2)>>) : p \in {Four, Eight}}
         \cup {PE(Four, Ordinals(4), 0, <<IAT(6, 2)>>)}
         \cup {PE(Four, Ordinals(3), m, <<IAT(4, 1), IAT(5, 1), IAT(6, 1)>>) : m \in 1 .. 2}
         \cup {PE(Four, Importing(4, 3), 1, tables) :
                 tables \in {<<IAT(4, 2), IAT(4, 1)>>, <<IAT(4, 2), IAT(5, 2)>>,
                            <<IAT(6, 2), IAT(8, 2)>>, <<IAT(4, 1), IAT(20, 1)>>}}
         \cup {Bss, Shuffled}
=============================================================================
