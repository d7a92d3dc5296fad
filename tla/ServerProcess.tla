---------------------------- MODULE ServerProcess ----------------------------
(***************************************************************************)
(* `dream server init` as a process (cmd/dream cmd_server.go): the state   *)
(* is opened, the listener, the scheduler and the HTTP server start; on an *)
(* interrupt requests are given time to finish, those still there are      *)
(* cancelled, and after a grace the process goes anyway; and however it    *)
(* returns, what was deferred happens in the opposite order: the scheduler *)
(* is waited for, requests are cancelled, the state is closed.             *)
(***************************************************************************)
EXTENDS FiniteSets, Naturals

CONSTANTS Request,
          Stream,        \* those that last until they are cancelled
          MaxRequests,   \* bound: requests the process begins
          MaxTicks       \* bound: ticks of the scheduler

VARIABLES at,        \* where runServerInit is
          opened,    \* the state: store, messaging and storage
          accepting, \* the listener
          active,    \* the requests being handled
          cancelled, \* their context
          scheduler, \* "none", "waiting", "ticking" or "returned"
          stopping,  \* its context
          graceOver, \* Shutdown gave up
          outcome,   \* what it will return
          begun, ticks

vars == <<at, opened, accepting, active, cancelled, scheduler, stopping, graceOver, outcome,
          begun, ticks>>

Places == {"open", "listen", "start", "serve", "drain", "cancelled", "unwind", "close", "gone"}

TypeOK ==
  /\ at \in Places
  /\ {opened, accepting, cancelled, stopping, graceOver} \subseteq BOOLEAN
  /\ active \subseteq Request
  /\ scheduler \in {"none", "waiting", "ticking", "returned"}
  /\ outcome \in {"none", "ok", "error"}
  /\ begun \in 0 .. MaxRequests /\ ticks \in 0 .. MaxTicks

Init ==
  /\ at = "open" /\ opened = FALSE /\ accepting = FALSE
  /\ active = {} /\ cancelled = FALSE
  /\ scheduler = "none" /\ stopping = FALSE
  /\ graceOver = FALSE /\ outcome = "none" /\ begun = 0 /\ ticks = 0

Goes(from, to) == at = from /\ at' = to /\ UNCHANGED <<begun, ticks>>

-----------------------------------------------------------------------------
OpenState ==
  /\ \/ Goes("open", "listen") /\ opened' = TRUE /\ UNCHANGED outcome
     \/ Goes("open", "gone") /\ outcome' = "error" /\ UNCHANGED opened
  /\ UNCHANGED <<accepting, active, cancelled, scheduler, stopping, graceOver>>

(* A port that is taken: only the state is closed. *)
Listen ==
  /\ \/ Goes("listen", "start") /\ accepting' = TRUE /\ UNCHANGED outcome
     \/ Goes("listen", "close") /\ outcome' = "error" /\ UNCHANGED accepting
  /\ UNCHANGED <<opened, active, cancelled, scheduler, stopping, graceOver>>

StartServing ==
  /\ Goes("start", "serve")
  /\ scheduler' = "waiting"
  /\ UNCHANGED <<opened, accepting, active, cancelled, stopping, graceOver, outcome>>

(* Requests come until the listener is closed, and end by themselves, or,  *)
(* for a stream, when they are cancelled or the client leaves.             *)
Accept(r) ==
  /\ accepting /\ at \in {"serve", "drain"} /\ r \notin active /\ begun < MaxRequests
  /\ active' = active \cup {r} /\ begun' = begun + 1
  /\ UNCHANGED <<at, opened, accepting, cancelled, scheduler, stopping, graceOver, outcome, ticks>>

Finish(r) ==
  /\ r \in active
  /\ active' = active \ {r}
  /\ UNCHANGED <<at, opened, accepting, cancelled, scheduler, stopping, graceOver, outcome,
                 begun, ticks>>

(* A tick begun before the context ended runs to its end. *)
SchedulerTicks ==
  /\ scheduler = "waiting" /\ ticks < MaxTicks
  /\ scheduler' = "ticking" /\ ticks' = ticks + 1
  /\ UNCHANGED <<at, opened, accepting, active, cancelled, stopping, graceOver, outcome, begun>>

SchedulerTicked ==
  /\ scheduler = "ticking" /\ scheduler' = "waiting"
  /\ UNCHANGED <<at, opened, accepting, active, cancelled, stopping, graceOver, outcome, begun, ticks>>

SchedulerReturns ==
  /\ scheduler = "waiting" /\ stopping /\ scheduler' = "returned"
  /\ UNCHANGED <<at, opened, accepting, active, cancelled, stopping, graceOver, outcome, begun, ticks>>

-----------------------------------------------------------------------------
(* Serve fails: runServerInit returns its error without a Shutdown. *)
ServeFails ==
  /\ Goes("serve", "unwind")
  /\ outcome' = "error" /\ accepting' = FALSE
  /\ UNCHANGED <<opened, active, cancelled, scheduler, stopping, graceOver>>

(* An interrupt: the scheduler is told to stop, the listener closed. *)
Interrupted ==
  /\ Goes("serve", "drain")
  /\ stopping' = TRUE
  /\ UNCHANGED <<opened, accepting, active, cancelled, scheduler, graceOver, outcome>>

Shutdown ==
  /\ at = "drain" /\ accepting
  /\ accepting' = FALSE
  /\ UNCHANGED <<at, opened, active, cancelled, scheduler, stopping, graceOver, outcome, begun, ticks>>

(* Everything has ended, before or after the requests were cancelled; *)
Drained ==
  /\ ~accepting /\ active = {}
  /\ \E from \in {"drain", "cancelled"} : Goes(from, "unwind")
  /\ outcome' = "ok"
  /\ UNCHANGED <<opened, accepting, active, cancelled, scheduler, stopping, graceOver>>

(* what is left after shutdownDrain is cancelled; *)
CancelRequests ==
  /\ ~accepting /\ Goes("drain", "cancelled")
  /\ cancelled' = TRUE
  /\ UNCHANGED <<opened, accepting, active, scheduler, stopping, graceOver, outcome>>

(* and what is left of that after shutdownGrace is left behind.  A stream  *)
(* that is cancelled returns before.                                       *)
GraceExceeded ==
  /\ Goes("cancelled", "unwind")
  /\ active \ Stream # {} /\ active \cap Stream = {}
  /\ graceOver' = TRUE /\ outcome' = "error"
  /\ UNCHANGED <<opened, accepting, active, cancelled, scheduler, stopping>>

(* Mutant of SchedulerIsDone: the state is closed without waiting. *)
SchedulerIsAsked == stopping

SchedulerIsDone == scheduler = "returned"

(* The deferred calls, the last one first. *)
StopScheduler ==
  /\ at = "unwind"
  /\ stopping' = TRUE
  /\ IF SchedulerIsDone THEN Goes("unwind", "close") /\ cancelled' = TRUE
     ELSE ~stopping /\ UNCHANGED <<at, begun, ticks, cancelled>>
  /\ UNCHANGED <<opened, accepting, active, scheduler, graceOver, outcome>>

CloseState ==
  /\ Goes("close", "gone")
  /\ opened' = FALSE
  /\ UNCHANGED <<accepting, active, cancelled, scheduler, stopping, graceOver, outcome>>

Next ==
  \/ OpenState \/ Listen \/ StartServing
  \/ \E r \in Request : Accept(r) \/ Finish(r)
  \/ SchedulerTicks \/ SchedulerTicked \/ SchedulerReturns
  \/ ServeFails \/ Interrupted \/ Shutdown \/ Drained \/ CancelRequests \/ GraceExceeded
  \/ StopScheduler \/ CloseState

Spec == Init /\ [][Next]_vars

-----------------------------------------------------------------------------
(* Nothing works on a closed store, queue or storage: the scheduler never, *)
(* a request only when Serve failed or the grace was exceeded.  An         *)
(* interrupt that ends well has waited for every request.                  *)
NothingOnClosedState ==
  /\ scheduler \in {"waiting", "ticking"} => opened
  /\ active # {} => opened \/ graceOver \/ outcome = "error"
  /\ outcome = "ok" => active = {} /\ stopping
=============================================================================
