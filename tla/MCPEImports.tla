---------------------------- MODULE MCPEImports ----------------------------
(***************************************************************************)
(* Small PEs for TLC.  One section holds the IATs and the names of up to   *)
(* two libraries, the other the directory; either may come first in the    *)
(* file, and the terminators or a name may be missing.                     *)
(***************************************************************************)
EXTENDS PEImports

IATs  == <<ImportEntry(1), ImportEntry(2), Blank, ImportEntry(3), Blank>>
NoIAT == <<Blank, ImportEntry(2), Blank, ImportEntry(3), Blank>>
NameChunks == <<NameChunk(FALSE), NameChunk(TRUE), NameChunk(TRUE)>>

(* Directories of a data section at rva 10: IATs at 10 and 13, names at 15 *)
(* and 17.                                                                 *)
Directories == {<<IDT(15, 10), Blank>>, <<IDT(15, 10), IDT(17, 13), Blank>>,
                <<IDT(17, 13), IDT(15, 10)>>, <<IDT(15, 10), IDT(99, 13), Blank>>,
                <<IDT(15, 10), IDT(17, 9), Blank>>}

(* rvaToOffset takes an RVA between two sections for one of the section    *)
(* before it, whatever its size; such an RVA (9 when the directory comes   *)
(* first) is no address of the image, and is not among these.              *)
(* A directory without its blank entry would run on into the data.         *)
LaterDirectories == {e \in Directories : /\ IDT(17, 9) \notin {e[i] : i \in DOMAIN e}
                                         /\ e[Len(e)] = Blank}

Header == <<Blank>>

Sect(rva, virtualSize, offset, rawSize) ==
  [rva |-> rva, virtualSize |-> virtualSize, offset |-> offset, rawSize |-> rawSize]

(* rva of the directory: 20 when the data comes first, else 3.             *)
DataFirst(data, directory) ==
  [cells    |-> Header \o data \o directory,
   sections |-> <<Sect(10, Len(data), 1, Len(data)),
                  Sect(20, Len(directory), 1 + Len(data), Len(directory))>>,
   idtRVA   |-> 20]

DirectoryFirst(data, directory) ==
  [cells    |-> Header \o directory \o data,
   sections |-> <<Sect(3, 5, 1, Len(directory)),
                  Sect(10, Len(data), 1 + Len(directory), Len(data))>>,
   idtRVA   |-> 3]

NoDirectory == [DataFirst(IATs, <<Blank>>) EXCEPT !.idtRVA = 0]
BadRVA      == [DataFirst(IATs, <<Blank>>) EXCEPT !.idtRVA = 2]

(* A section without raw data at the end of the table: offsetToRVA takes   *)
(* every position for one beyond the PE, and the imports are rejected.     *)
BssLast ==
  [DataFirst(IATs \o NameChunks, <<IDT(15, 10), Blank>>) EXCEPT
     !.sections = Append(@, Sect(30, 1, 0, 0))]

Datas == {IATs \o NameChunks, NoIAT \o NameChunks}

MCPEs ==
  {DataFirst(d, e) : d \in Datas, e \in Directories}
  \cup {DirectoryFirst(d, e) : d \in Datas, e \in LaterDirectories}
  \cup {NoDirectory, BadRVA, BssLast}

(* A section without raw data (.bss) between two others: its raw offset is *)
(* 0, as linkers write it.                                                 *)
MCWithBss ==
  {[DataFirst(d, <<IDT(15, 10), Blank>>) EXCEPT
      !.sections = <<@[1], Sect(19, 1, 0, 0), @[2]>>] : d \in Datas}
=============================================================================
