---------------------------- MODULE ImportNames ----------------------------
(***************************************************************************)
(* How setImportLibsInfo (setdata/optheaders.c) reads the name of an       *)
(* imported library, as in "xam.xex@1861.0+1861.0": strtok cuts it at "@", *)
(* ".", "+" and ".", and strtoul makes numbers of the last four pieces.    *)
(*                                                                         *)
(* A string is a sequence of characters, but for the file name of a        *)
(* library, which is one element.  Bounds: the numbers fit in an unsigned  *)
(* long, and strtoul meets no white space.                                 *)
(***************************************************************************)
EXTENDS Integers, SequencesExt

CONSTANTS Byte, Short  \* 2^8 and 2^16 in the program

ASSUME ImportNamesAssumption == Byte \in Nat \ {0} /\ Short \in Nat \ {0}

FileNames == [xboxkrnl |-> 12, xam |-> 7, xbdm |-> 8, other |-> 9]     \* strlen of each

(* Those whose unknown value is known.                                     *)
KnownLibraries == {"xboxkrnl", "xam", "xbdm"}

Digits == <<"0", "1", "2", "3", "4", "5", "6", "7", "8", "9">>

AllDigits(s) == s # <<>> /\ ToSet(s) \subseteq ToSet(Digits)

strlen(s) ==
  FoldLeft(LAMBDA len, c : len + IF c \in DOMAIN FileNames THEN FileNames[c] ELSE 1, 0, s)

FirstIn(s, chars) ==
  LET at == {k \in DOMAIN s : s[k] \in chars} IN IF at = {} THEN Len(s) + 1 ELSE Min(at)

(* The first token at or behind the delimiters s starts with, and what is  *)
(* behind it and its own delimiter.  An empty one stands for NULL.         *)
strtok(s, delim) ==
  LET from  == FirstIn(s, ToSet(s) \ {delim})
      begun == SubSeq(s, from, Len(s))
      to    == FirstIn(begun, {delim})
  IN  [token |-> SubSeq(begun, 1, to - 1), rest |-> SubSeq(begun, to + 1, Len(begun))]

(* strtoul takes a sign.                                                   *)
Unsigned(token) == IF token # <<>> /\ token[1] \in {"+", "-"} THEN Tail(token) ELSE token

IsNumber(token) == AllDigits(Unsigned(token))

ValueOf(digits) ==
  FoldLeft(LAMBDA v, c : 10 * v + SelectInSeq(Digits, LAMBDA d : d = c) - 1, 0, digits)

strtoul(token) == IF token[1] = "-" THEN -ValueOf(Tail(token)) ELSE ValueOf(Unsigned(token))

(***************************************************************************)
(* The name in pieces: of the library, target build and hotfix, minimum    *)
(* build and hotfix.                                                       *)
(***************************************************************************)
Tokens(name) ==
  LET library == strtok(name, "@")
      build   == strtok(library.rest, ".")
      hotfix  == strtok(build.rest, "+")
      minimum == strtok(hotfix.rest, ".")
  IN  <<library.token, build.token, hotfix.token, minimum.token, minimum.rest>>

(* The first k tokens, with what is between them, make up the whole name.  *)
EndsAt(name, tokens, k) ==
  strlen(FlattenSeq(SubSeq(tokens, 1, k))) + (k - 1) = strlen(name)

Accepted(name) ==
  LET tokens == Tokens(name)
  IN  /\ \A k \in 2 .. 5 : tokens[k] # <<>> /\ IsNumber(tokens[k])
      /\ \A k \in 2 .. 4 : ~EndsAt(name, tokens, k)
      /\ tokens[1] \in {<<l>> : l \in KnownLibraries}

Version(build, hotfix) == [build |-> strtoul(build) % Short, hotfix |-> strtoul(hotfix) % Byte]

TargetVersion(name) == Version(Tokens(name)[2], Tokens(name)[3])

(* Mutated form of MinimumVersion: the target's again.                     *)
MinimumFromTarget(name) == Version(Tokens(name)[2], Tokens(name)[3])

MinimumVersion(name) == Version(Tokens(name)[4], Tokens(name)[5])

-----------------------------------------------------------------------------
(***************************************************************************)
(* A reference for the above: a library, "@", and two pairs of numbers     *)
(* with a point in each and a plus between them; and the numbers that a    *)
(* reader sees in any text, the runs of digits as long as they go.         *)
(***************************************************************************)
WellFormed(name) ==
  \E at, point, plus, point2 \in DOMAIN name :
    /\ at = 2 /\ name[1] \in KnownLibraries
    /\ <<name[at], name[point], name[plus], name[point2]>> = <<"@", ".", "+", ".">>
    /\ AllDigits(SubSeq(name, at + 1, point - 1))
    /\ AllDigits(SubSeq(name, point + 1, plus - 1))
    /\ AllDigits(SubSeq(name, plus + 1, point2 - 1))
    /\ AllDigits(SubSeq(name, point2 + 1, Len(name)))

FirstRun(s) ==
  LET begun == SubSeq(s, FirstIn(s, ToSet(Digits)), Len(s))
      to    == FirstIn(begun, ToSet(begun) \ ToSet(Digits))
  IN  [digits |-> SubSeq(begun, 1, to - 1), rest |-> SubSeq(begun, to, Len(begun))]

RunsOfDigits(name) ==
  LET first  == FirstRun(name)
      second == FirstRun(first.rest)
      third  == FirstRun(second.rest)
  IN  <<first.digits, second.digits, third.digits, FirstRun(third.rest).digits>>
=============================================================================
