------------------------------- MODULE Versions -------------------------------
(***************************************************************************)
(* The order of release versions (internal/selfupdate/version.go) that a   *)
(* binary decides by whether a release is newer than it is.                *)
(*                                                                         *)
(* A version is [num, pre]: three numbers, and the identifiers of its      *)
(* pre-release, none for a release; what follows a + is dropped when it is *)
(* parsed.  An identifier is a number as it is written, [value, zeros]     *)
(* with its leading zeros, or a word, which is numbered in the order of    *)
(* its text.                                                               *)
(***************************************************************************)
EXTENDS Integers, Sequences, FiniteSets, SequencesExt

Identifier == [number : BOOLEAN, value : Nat, zeros : Nat]
ParsedVersion == [num : [1 .. 3 -> Nat], pre : Seq(Identifier)]

Number(value, zeros) == [number |-> TRUE, value |-> value, zeros |-> zeros]
Word(rank)           == [number |-> FALSE, value |-> rank, zeros |-> 0]

(* Mutant of CompareIdentifiers: a word comes before a number. *)
CompareWordsFirst(x, y) ==
  IF x.number = y.number THEN IF x.value < y.value THEN -1 ELSE 1
  ELSE IF x.number THEN 1 ELSE -1

(* Of two that are written differently: numbers by value, before words.    *)
(* Two spellings of one number make the second the lower, either way.      *)
CompareIdentifiers(x, y) ==
  IF x.number = y.number THEN IF x.value < y.value THEN -1 ELSE 1
  ELSE IF x.number THEN -1 ELSE 1

(* A release comes after its pre-releases; then the first identifiers that *)
(* differ decide, and then the longer one is the later.                    *)
ComparePrerelease(a, b) ==
  LET differ == {i \in DOMAIN a \cap DOMAIN b : a[i] # b[i]}
  IN CASE a = b                    -> 0
       [] a = << >> /\ a # b        -> 1
       [] b = << >> /\ a # b        -> -1
       [] OTHER ->
            IF differ # {} THEN CompareIdentifiers(a[Min(differ)], b[Min(differ)])
            ELSE IF Len(a) < Len(b) THEN -1 ELSE 1

Compare(a, b) ==
  LET differ == {i \in 1 .. 3 : a.num[i] # b.num[i]}
  IN IF differ # {} THEN IF a.num[Min(differ)] < b.num[Min(differ)] THEN -1 ELSE 1
     ELSE ComparePrerelease(a.pre, b.pre)

-----------------------------------------------------------------------------
Plain(v) == \A i \in DOMAIN v.pre : v.pre[i].zeros = 0

(* Compare orders the versions written without leading zeros as semantic   *)
(* versioning does: never both newer than each other, equal only when they *)
(* are, and without circles, so a binary that follows newer releases never *)
(* comes back to one it had.                                               *)
OrdersVersions(a, b, c) ==
  Plain(a) /\ Plain(b) /\ Plain(c) =>
    /\ Compare(a, b) = -Compare(b, a)
    /\ Compare(a, b) = 0 <=> a = b
    /\ Compare(a, b) = -1 /\ Compare(b, c) = -1 => Compare(a, c) = -1
    /\ a.num = b.num /\ a.pre # << >> /\ b.pre = << >> => Compare(a, b) = -1
    /\ a.num = b.num /\ a.pre # << >> /\ IsStrictPrefix(a.pre, b.pre) => Compare(a, b) = -1
    /\ \A x, y \in {a, b} :
         x.num = y.num /\ Len(x.pre) = 1 /\ Len(y.pre) = 1 /\ x.pre[1].number /\ ~y.pre[1].number
           => Compare(x, y) = -1
=============================================================================
