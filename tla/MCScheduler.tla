---------------------------- MODULE MCScheduler -----------------------------
(***************************************************************************)
(* Instances of Scheduler: two crons, one that matches every second minute *)
(* and one that matches every third.                                       *)
(***************************************************************************)
EXTENDS Scheduler

CONSTANTS every2, every3

After(n) == [t \in Minute |-> (t \div n + 1) * n]

TwoCrons == [c \in {every2, every3} |-> After(IF c = every2 THEN 2 ELSE 3)]
=============================================================================
