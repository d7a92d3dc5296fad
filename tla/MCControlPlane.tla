--------------------------- MODULE MCControlPlane ---------------------------
(***************************************************************************)
(* Instances of ControlPlane: the charts the runs start from.              *)
(***************************************************************************)
EXTENDS ControlPlane, TLC

CONSTANTS w1, w2, w3, lead

ReportsTo(p) == [reportsTo |-> p, role |-> lead]

Charted(edges) ==
  [w \in Worker |-> IF w \in DOMAIN edges THEN ReportsTo(edges[w]) ELSE Absent]

(* w2 and w3 report to w1; a chain; one worker alone. *)
Pair   == Charted(w1 :> NoOne @@ w2 :> w1 @@ w3 :> w1)
Chain  == Charted(w1 :> NoOne @@ w2 :> w1 @@ w3 :> w2)
Alone  == Charted(w1 :> NoOne)

TreesOfThree == {Pair, Chain}
FromChain    == {Chain}

NoFile    == EmptyChart
OneInFile == Alone

=============================================================================
