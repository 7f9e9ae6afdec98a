------------------------------ MODULE XexImage ------------------------------
(***************************************************************************)
(* What writing a XEX promises, whatever the order and the offsets: the    *)
(* file only ever gains structures, none that was written is damaged by a  *)
(* later write, and the header hash is put on, once and last, over an      *)
(* image in which nothing is missing unless a write came up short.         *)
(***************************************************************************)
CONSTANT Structure       \* names a structure may have

VARIABLES
  wanted,                \* the structures this image consists of
  written,               \* those that are whole in the file
  sealed,                \* the header hash is in place
  reliable               \* no write comes up short

imageVars == <<wanted, written, sealed, reliable>>

Init ==
  /\ wanted \in SUBSET Structure /\ written = {}
  /\ sealed = FALSE /\ reliable \in BOOLEAN

Write ==
  /\ ~sealed
  /\ written' \in SUBSET wanted
  /\ written \subseteq written' /\ written' # written
  /\ UNCHANGED <<wanted, sealed, reliable>>

Seal ==
  /\ ~sealed
  /\ reliable => written = wanted
  /\ sealed' = TRUE
  /\ UNCHANGED <<wanted, written, reliable>>

Next == Write \/ Seal

Spec == Init /\ [][Next]_imageVars
=============================================================================
