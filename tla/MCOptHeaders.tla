---------------------------- MODULE MCOptHeaders ----------------------------
(***************************************************************************)
(* Small import tables for TLC: the libraries the builder knows, tables    *)
(* without imports, as many imports as 16 bits (here 2) cannot count and   *)
(* one more, one table too many, and names with one mistake or another.    *)
(***************************************************************************)
EXTENDS OptHeaders

PETable(name, imports) == [name |-> name, imports |-> imports]

Versions == <<"1", ".", "2", "+", "3", "1", ".", "5">>

Named(library) == <<library, "@">> \o Versions

Xboxkrnl(imports) == PETable(Named("xboxkrnl"), imports)
Xam(imports)      == PETable(Named("xam"), imports)
Xbdm(imports)     == PETable(Named("xbdm"), imports)

(* One character less, one more, or another.                               *)
Edits(name) ==
  {RemoveAt(name, k) : k \in 1 .. Len(name)}
  \cup {InsertAt(name, k, c) : k \in 1 .. Len(name) + 1, c \in {"@", ".", "+", "-", "x", "7"}}
  \cup {ReplaceAt(name, k, c) : k \in 1 .. Len(name), c \in {"@", ".", "+", "0", "other"}}

MCPEImportTables ==
  {<<Xboxkrnl(<<100, 101>>)>>,
   <<Xam(<<100>>), Xboxkrnl(<<200, 201, 202>>)>>,
   <<Xboxkrnl(<<100, 101>>), Xam(<<>>), Xbdm(<<300>>)>>,
   <<Xbdm(<<>>), Xbdm(<<200>>), Xam(<<200>>)>>,
   <<Xam(<<100, 101, 102, 103>>)>>,
   <<Xboxkrnl(<<100>>), Xam(<<100, 101, 102, 103, 104>>)>>,
   [t \in 1 .. 4 |-> Xbdm(<<t>>)],
   <<>>, <<Xam(<<>>)>>}
  \cup {<<PETable(name, <<100>>), Xam(<<200>>)>> : name \in Edits(Named("xboxkrnl"))}

Executable(dll, exportCount, override) ==
  [dll |-> dll, exportCount |-> exportCount, baseAddr |-> 8192, entryPoint |-> 16,
   override |-> override]

MCExecutables ==
  {Executable(FALSE, 0, {}), Executable(TRUE, 1, {}), Executable(TRUE, 0, {"EXPORTS", "DLL"})}
=============================================================================
