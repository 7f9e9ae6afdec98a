----------------------------- MODULE MCWriteXEX -----------------------------
(***************************************************************************)
(* Small images for TLC.  The imports: none, the smallest library (one     *)
(* table of one address and an 8-byte name), and two libraries whose       *)
(* tables differ in size, small ones and 3600 bytes of them.  The pages:   *)
(* one to three, and the counts on both sides of the point where the       *)
(* headers fill their first 4 KiB.                                         *)
(***************************************************************************)
EXTENDS WriteXEX

Library(nameTableSize, addressCounts) ==
  [size          |-> ImportLibrariesSize(nameTableSize, addressCounts),
   tableCount    |-> Len(addressCounts),
   nameTableSize |-> nameTableSize,
   addressCounts |-> addressCounts]

NoLibrary == [size |-> 0, tableCount |-> 0, nameTableSize |-> 0, addressCounts |-> <<>>]

MCImportLibraries == {NoLibrary, Library(8, <<1>>), Library(24, <<3, 2>>),
                      Library(500, <<400, 345>>)}

Case(pages, pageSize, tail, littleEndianHost, reliableIO) ==
  [pages |-> pages, pageSize |-> pageSize, tail |-> tail,
   littleEndian |-> littleEndianHost, reliable |-> reliableIO]

(* Both kinds of host and both page sizes; with failures, one page is      *)
(* enough to have one in every kind of write.                              *)
MCCases ==
  {Case(n, 4096, t, TRUE, TRUE) : n \in 1 .. 3, t \in {0, 4095}}
  \cup {Case(n, 65536, t, FALSE, TRUE) : n \in {1, 2}, t \in {0, 65535}}
  \cup {Case(n, 4096, 0, TRUE, TRUE) : n \in 147 .. 153}
  \cup {Case(1, 4096, 0, TRUE, FALSE)}

MCUnreliable == {Case(1, 4096, 0, TRUE, FALSE)}
=============================================================================
