---------------------------- MODULE WorkerClient ----------------------------
(***************************************************************************)
(* The worker's token client (pkg/security/client.go): Start fetches a     *)
(* token and leaves a goroutine that refreshes it, Stop cancels that       *)
(* goroutine and waits for its done channel.  Any goroutine of the         *)
(* embedding program may call either at any time.                          *)
(*                                                                         *)
(* Each Start that gets past the started flag makes a context and a done   *)
(* channel; they are numbered as run.  Time passes in ticks, never past a  *)
(* timer that is due, and a fetch takes at most MaxFetch of them; the      *)
(* token that arrives may have been issued at any moment of the fetch.     *)
(***************************************************************************)
EXTENDS Naturals

CONSTANTS Caller,    \* goroutines that call Start or Stop
          TTL,       \* lifetime of a token, in ticks
          MinWait,   \* MinRefreshInterval
          MaxFetch,  \* bound: ticks a fetch takes
          MaxRuns    \* bound: Starts that make a context

NoToken == TTL + 1   \* the age of a token that was never fetched
Run     == 1 .. MaxRuns

VARIABLES lifecycle, \* the lock is held for single steps only: started, and the last run made
          at,        \* where each caller is
          of,        \* the run a caller is about
          cancelled, \* runs whose context is cancelled
          closed,    \* runs whose done channel is closed
          loop,      \* refreshLoop: the run it belongs to, where it is, its timer
          spent,     \* how long the fetch of the loop, or of Start, has taken
          age,       \* ticks since c.current was issued, at most TTL
          failed,    \* ghost: a fetch of the loop has failed
          released   \* ghost: a Stop has returned after waiting

vars == <<lifecycle, at, of, cancelled, closed, loop, spent, age, failed, released>>

Init ==
  /\ lifecycle = [started |-> FALSE, run |-> 0]
  /\ at = [c \in Caller |-> "idle"]
  /\ of = [c \in Caller |-> 0]
  /\ cancelled = {} /\ closed = {}
  /\ loop = [run |-> 0, at |-> "none", timer |-> 0]
  /\ spent = [r \in 0 .. MaxRuns |-> 0]
  /\ age = NoToken
  /\ failed = FALSE /\ released = FALSE

(* Mutant of NextRefreshDelay: from now, not from when it was issued. *)
DelayFromNow(a) ==
  LET refreshIn == (TTL * 7) \div 10
  IN IF refreshIn < MinWait THEN MinWait ELSE refreshIn

(* nextRefreshDelay for a token of age a: at RefreshFraction of its TTL. *)
NextRefreshDelay(a) ==
  LET refreshAt == (TTL * 7) \div 10
  IN IF TTL = 0 \/ refreshAt < a + MinWait THEN MinWait ELSE refreshAt - a

Waiting(r, a) == [run |-> r, at |-> "timer", timer |-> NextRefreshDelay(a)]

-----------------------------------------------------------------------------

(* Mutant of BeginStart: started is not looked at. *)
BeginStartAgain(c) ==
  /\ at[c] = "idle"
  /\ lifecycle.run < MaxRuns
  /\ lifecycle' = [started |-> TRUE, run |-> lifecycle.run + 1]
  /\ at' = [at EXCEPT ![c] = "starting"]
  /\ of' = [of EXCEPT ![c] = lifecycle.run + 1]
  /\ UNCHANGED <<cancelled, closed, loop, spent, age, failed, released>>

(* The locked section of Start.  When somebody has started, or is about    *)
(* to, it returns at once.                                                 *)
BeginStart(c) ==
  /\ at[c] = "idle"
  /\ IF lifecycle.started
     THEN /\ at' = [at EXCEPT ![c] = "returned"]
          /\ UNCHANGED <<lifecycle, of>>
     ELSE /\ lifecycle.run < MaxRuns
          /\ lifecycle' = [started |-> TRUE, run |-> lifecycle.run + 1]
          /\ at' = [at EXCEPT ![c] = "starting"]
          /\ of' = [of EXCEPT ![c] = lifecycle.run + 1]
  /\ UNCHANGED <<cancelled, closed, loop, spent, age, failed, released>>

(* Refresh of Start answers, before or in spite of a cancellation. *)
Started(c) ==
  /\ at[c] = "starting"
  /\ at' = [at EXCEPT ![c] = "returned"]
  /\ \E a \in 0 .. spent[of[c]] : age' = a /\ loop' = Waiting(of[c], a)
  /\ failed' = FALSE
  /\ UNCHANGED <<lifecycle, of, cancelled, closed, spent, released>>

(* It fails: started is reset, the context cancelled, and no goroutine     *)
(* will ever close the done channel of this run.                           *)
StartFails(c) ==
  /\ at[c] = "starting"
  /\ lifecycle' = [lifecycle EXCEPT !.started = FALSE]
  /\ cancelled' = cancelled \cup {of[c]}
  /\ at' = [at EXCEPT ![c] = "returned"]
  /\ UNCHANGED <<of, closed, loop, spent, age, failed, released>>

(* The locked section of Stop, and the call of cancel. *)
BeginStop(c) ==
  /\ at[c] = "idle"
  /\ IF lifecycle.started
     THEN /\ cancelled' = cancelled \cup {lifecycle.run}
          /\ of' = [of EXCEPT ![c] = lifecycle.run]
          /\ at' = [at EXCEPT ![c] = "stopping"]
     ELSE /\ at' = [at EXCEPT ![c] = "returned"]
          /\ UNCHANGED <<cancelled, of>>
  /\ UNCHANGED <<lifecycle, closed, loop, spent, age, failed, released>>

(* <-done. *)
Stopped(c) ==
  /\ at[c] = "stopping" /\ of[c] \in closed
  /\ at' = [at EXCEPT ![c] = "returned"]
  /\ released' = TRUE
  /\ UNCHANGED <<lifecycle, of, cancelled, closed, loop, spent, age, failed>>

(* The goroutine calls again. *)
CallAgain(c) ==
  /\ at[c] = "returned"
  /\ at' = [at EXCEPT ![c] = "idle"]
  /\ of' = [of EXCEPT ![c] = 0]
  /\ UNCHANGED <<lifecycle, cancelled, closed, loop, spent, age, failed, released>>

(* The context given to Start ends. *)
ParentEnds ==
  /\ lifecycle.run # 0
  /\ cancelled' = cancelled \cup {lifecycle.run}
  /\ UNCHANGED <<lifecycle, at, of, closed, loop, spent, age, failed, released>>

-----------------------------------------------------------------------------
(* refreshLoop *)

(* The timer has run down: fetch; or, after a failed fetch, look at the    *)
(* token again for how long to wait.                                       *)
TimerFires ==
  /\ loop.at \in {"timer", "backoff"} /\ loop.timer = 0
  /\ loop' = IF loop.at = "timer" THEN [loop EXCEPT !.at = "fetch"] ELSE Waiting(loop.run, age)
  /\ spent' = [spent EXCEPT ![loop.run] = 0]
  /\ UNCHANGED <<lifecycle, at, of, cancelled, closed, age, failed, released>>

Refreshed ==
  /\ loop.at = "fetch"
  /\ \E a \in 0 .. spent[loop.run] : age' = a /\ loop' = Waiting(loop.run, a)
  /\ UNCHANGED <<lifecycle, at, of, cancelled, closed, spent, failed, released>>

RefreshFails ==
  /\ loop.at = "fetch"
  /\ loop' = [loop EXCEPT !.at = "backoff", !.timer = MinWait]
  /\ failed' = TRUE
  /\ UNCHANGED <<lifecycle, at, of, cancelled, closed, spent, age, released>>

(* Mutant of LoopReturns: it leaves the done channel open. *)
LoopReturnsOpen ==
  /\ loop.at \in {"timer", "backoff"} /\ loop.run \in cancelled
  /\ loop' = [run |-> 0, at |-> "none", timer |-> 0]
  /\ UNCHANGED <<lifecycle, at, of, cancelled, closed, spent, age, failed, released>>

(* Either select sees ctx.Done; the deferred close. *)
LoopReturns ==
  /\ loop.at \in {"timer", "backoff"} /\ loop.run \in cancelled
  /\ closed' = closed \cup {loop.run}
  /\ loop' = [run |-> 0, at |-> "none", timer |-> 0]
  /\ UNCHANGED <<lifecycle, at, of, cancelled, spent, age, failed, released>>

Fetching(r) ==
  \/ loop.at = "fetch" /\ loop.run = r
  \/ \E c \in Caller : at[c] = "starting" /\ of[c] = r

(* Time passes, for the timer, the fetches under way and the token. *)
Tick ==
  /\ \E r \in Run : Fetching(r) \/ loop.run = r
  /\ loop.at \in {"timer", "backoff"} => loop.timer > 0
  /\ \A r \in Run : Fetching(r) => spent[r] < MaxFetch
  /\ spent' = [r \in DOMAIN spent |-> IF Fetching(r) THEN spent[r] + 1 ELSE spent[r]]
  /\ loop' = IF loop.timer > 0 THEN [loop EXCEPT !.timer = @ - 1] ELSE loop
  /\ age' = IF age < TTL THEN age + 1 ELSE age
  /\ UNCHANGED <<lifecycle, at, of, cancelled, closed, failed, released>>

-----------------------------------------------------------------------------

Calling(c) == Started(c) \/ StartFails(c) \/ Stopped(c)

Looping == TimerFires \/ Refreshed \/ RefreshFails

Next ==
  \/ \E c \in Caller : BeginStart(c) \/ BeginStop(c) \/ Calling(c) \/ CallAgain(c)
  \/ Looping \/ LoopReturns
  \/ ParentEnds
  \/ Tick

Spec == Init /\ [][Next]_vars

(* A fetch ends, a goroutine runs, and a cancelled context is noticed: its *)
(* select has no other case for long, a tick being MinRefreshInterval.     *)
Fairness ==
  /\ \A c \in Caller : WF_vars(Calling(c))
  /\ WF_vars(Looping) /\ WF_vars(Tick) /\ SF_vars(LoopReturns)

FairSpec == Spec /\ Fairness

TypeOK ==
  /\ lifecycle \in [started : BOOLEAN, run : 0 .. MaxRuns]
  /\ at \in [Caller -> {"idle", "starting", "stopping", "returned"}]
  /\ of \in [Caller -> 0 .. MaxRuns]
  /\ {cancelled, closed} \subseteq SUBSET Run
  /\ loop \in [run : 0 .. MaxRuns, at : {"none", "timer", "fetch", "backoff"}, timer : Nat]
  /\ spent \in [0 .. MaxRuns -> 0 .. MaxFetch]
  /\ age \in 0 .. NoToken
  /\ {failed, released} \subseteq BOOLEAN

(* While the loop runs and none of its fetches has failed, the token has   *)
(* not expired: refreshing at RefreshFraction of the lifetime, counted     *)
(* from when it was issued, leaves room for a fetch that takes MaxFetch.   *)
KeptFresh == loop.at # "none" /\ ~failed => age < TTL

(* Once a Stop has waited, no goroutine refreshes, then or ever after,     *)
(* whatever other callers start.                                           *)
StoppedForGood == released => loop.at = "none"

(* A Stop that finds the goroutine running returns. *)
StopEndsLoop ==
  \A c \in Caller : (at[c] = "stopping" /\ loop.run = of[c]) ~> (at[c] # "stopping")

(* The comment on Stop: it "halts the background refresh goroutine and     *)
(* waits for it to exit"; so it returns, with or without such a goroutine. *)
StopReturns == \A c \in Caller : (at[c] = "stopping") ~> (at[c] # "stopping")
=============================================================================
