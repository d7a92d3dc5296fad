--------------------------- MODULE WorkerCommands ---------------------------
(***************************************************************************)
(* The dream commands that act as a worker (cmd/dream cmd_worker.go,       *)
(* httpclient.go, internal/identity keypair.go), as processes of one       *)
(* machine: they share the key file and the configuration under            *)
(* ~/.dream/<server-id>/, and, at the control plane, the one challenge a   *)
(* worker may have pending (api/auth.go).                                  *)
(*                                                                         *)
(* Every step on a file and every request is a step here.  A command is a  *)
(* number; so is a key, by the command that generated it, and a nonce, by  *)
(* the command it was issued to.                                           *)
(***************************************************************************)
EXTENDS Naturals

CONSTANTS Worker, Process,
          None, Half,    \* no configuration; one whose writing was cut short
          MaxCommands,   \* bound: commands run
          MaxFaults      \* bound: requests without an answer, commands killed

VARIABLES keyFile, config,             \* the two files
          registered, revoked,         \* the plane: the key of each worker
          pending,                     \* the nonce issued to each, 0 when none
          versions, apps,              \* who has declared its versions, its app
          at, cmd, verb, worker, key,  \* the commands: key is what it has loaded
          commands, faults,
          overlapped, removed          \* ghosts: a key file was replaced or half
                                       \* written; a worker was deleted

files == <<keyFile, config>>
plane == <<registered, revoked, pending, versions, apps>>
procs == <<at, cmd, verb, worker, key>>
vars == <<files, plane, procs, commands, faults, overlapped, removed>>

Command == 1 .. MaxCommands
NoFile == 0
Torn   == MaxCommands + 1     \* created, and not yet written

Idle == {"done", "failed"}
Places == Idle \cup {"stat", "create", "write", "resolve", "load", "challenge", "register",
                     "save", "saving", "declare", "token", "call"}

TypeOK ==
  /\ keyFile \in {NoFile, Torn} \cup Command
  /\ config \in Worker \cup {None, Half}
  /\ registered \in [Worker -> {0} \cup Command]
  /\ revoked \subseteq Worker /\ versions \subseteq Worker /\ apps \subseteq Worker
  /\ pending \in [Worker -> {0} \cup Command]
  /\ at \in [Process -> Places]
  /\ cmd \in [Process -> {0} \cup Command]
  /\ verb \in [Process -> {"connect", "versions", "app", "set", "clear", "other"}]
  /\ worker \in [Process -> Worker \cup {None}]
  /\ key \in [Process -> {0} \cup Command]
  /\ commands \in 0 .. MaxCommands /\ faults \in 0 .. MaxFaults
  /\ overlapped \in BOOLEAN /\ removed \in BOOLEAN

Init ==
  /\ keyFile = NoFile /\ config = None
  /\ registered = [w \in Worker |-> 0] /\ pending = [w \in Worker |-> 0]
  /\ revoked = {} /\ versions = {} /\ apps = {}
  /\ at = [p \in Process |-> "done"] /\ cmd = [p \in Process |-> 0]
  /\ verb = [p \in Process |-> "other"]
  /\ worker = [p \in Process |-> None] /\ key = [p \in Process |-> 0]
  /\ commands = 0 /\ faults = 0 /\ overlapped = FALSE /\ removed = FALSE

-----------------------------------------------------------------------------
(* What a step of a command leaves alone unless it says otherwise. *)
Goes(p, from, to) ==
  /\ at[p] = from
  /\ at' = [at EXCEPT ![p] = to]
  /\ UNCHANGED <<cmd, commands, removed>>

Begin(p, v, w, from) ==
  /\ at[p] \in Idle /\ commands < MaxCommands
  /\ commands' = commands + 1
  /\ at' = [at EXCEPT ![p] = from]
  /\ cmd' = [cmd EXCEPT ![p] = commands + 1]
  /\ verb' = [verb EXCEPT ![p] = v]
  /\ worker' = [worker EXCEPT ![p] = w]
  /\ key' = [key EXCEPT ![p] = 0]
  /\ UNCHANGED <<files, plane, faults, overlapped, removed>>

(* The worker commands: connect names its worker; the others may.  "other" *)
(* is every command whose effect on the plane is in another module.        *)
RunWorkerConnect(p, w)  == Begin(p, "connect", w, "stat")
RunWorkerAppSet(p, as)  == Begin(p, "set", as, "resolve")
RunWorkerAppClear(p, as) == Begin(p, "clear", as, "resolve")
RunCommand(p, as)       == Begin(p, "other", as, "resolve")

(* LoadOrGenerateKeyPair looks whether there is a file, *)
Stat(p) ==
  /\ Goes(p, "stat", IF keyFile = NoFile THEN "create" ELSE "load")
  /\ UNCHANGED <<files, plane, verb, worker, key, faults, overlapped>>

(* and when there was none creates it, or empties the one there is by now, *)
Create(p) ==
  /\ Goes(p, "create", "write")
  /\ keyFile' = Torn
  /\ overlapped' = (overlapped \/ keyFile # NoFile)
  /\ UNCHANGED <<config, plane, verb, worker, key, faults>>

(* and writes its own key. *)
Write(p) ==
  /\ Goes(p, "write", "challenge")
  /\ keyFile' = cmd[p]
  /\ key' = [key EXCEPT ![p] = cmd[p]]
  /\ overlapped' = (overlapped \/ keyFile # Torn)
  /\ UNCHANGED <<config, plane, verb, worker, faults>>

(* resolveTarget: the worker is the flag's or the configuration's. *)
ResolveTarget(p) ==
  LET w == IF worker[p] # None THEN worker[p] ELSE config IN
  /\ Goes(p, "resolve", IF w \in Worker THEN "load" ELSE "failed")
  /\ worker' = [worker EXCEPT ![p] = IF w \in Worker THEN w ELSE None]
  /\ UNCHANGED <<files, plane, verb, key, faults, overlapped>>

LoadKeyPair(p) ==
  /\ IF keyFile \in Command
     THEN Goes(p, "load", "challenge") /\ key' = [key EXCEPT ![p] = keyFile]
     ELSE Goes(p, "load", "failed") /\ UNCHANGED key
  /\ UNCHANGED <<files, plane, verb, worker, faults, overlapped>>

-----------------------------------------------------------------------------
(* A challenge takes the place of the one that was pending. *)
RequestChallenge(p) ==
  /\ at[p] = "challenge"
  /\ Goes(p, "challenge", IF verb[p] = "connect" THEN "register" ELSE "token")
  /\ pending' = [pending EXCEPT ![worker[p]] = cmd[p]]
  /\ UNCHANGED <<files, registered, revoked, versions, apps, verb, worker, key, faults, overlapped>>

(* Mutant of Verified: any nonce of the worker will do. *)
VerifiedAnyNonce(p, k) == pending[worker[p]] # 0 /\ key[p] = k

(* verifyChallenge: the nonce the plane issued last to the worker, signed  *)
(* with the key k.  It is consumed whatever the answer is.                 *)
Verified(p, k) == pending[worker[p]] = cmd[p] /\ key[p] = k

Consume(p) == pending' = [pending EXCEPT ![worker[p]] = 0]

(* POST /api/workers, under the key the request brings. *)
Register(p) ==
  LET w == worker[p] IN
  /\ at[p] = "register"
  /\ IF Verified(p, key[p]) /\ w \notin revoked /\ registered[w] = 0
     THEN Goes(p, "register", "save") /\ registered' = [registered EXCEPT ![w] = key[p]]
     ELSE Goes(p, "register", "failed") /\ UNCHANGED registered
  /\ Consume(p)
  /\ UNCHANGED <<files, revoked, versions, apps, verb, worker, key, faults, overlapped>>

(* saveLocalConfig empties the file and writes it. *)
Save(p) ==
  /\ \/ Goes(p, "save", "saving") /\ config' = Half /\ UNCHANGED verb
     \/ Goes(p, "saving", "challenge") /\ config' = worker[p]
        /\ verb' = [verb EXCEPT ![p] = "versions"]
  /\ UNCHANGED <<keyFile, plane, worker, key, faults, overlapped>>

(* connect goes on to its app after its versions, whatever became of       *)
(* those, when it was given one; a command of its own fails instead.       *)
AfterVersions(p) == \E next \in {"done", "challenge"} :
  /\ Goes(p, "declare", next)
  /\ verb' = [verb EXCEPT ![p] = "app"]
  /\ UNCHANGED <<files, plane, worker, key, faults, overlapped>>

Refused(p) == CASE verb[p] = "versions" -> "declare"
                [] verb[p] = "app" -> "done"
                [] OTHER -> "failed"

(* POST /api/token, under the key the worker is registered with. *)
FetchToken(p) ==
  LET w == worker[p] IN
  /\ at[p] = "token"
  /\ Goes(p, "token", IF Verified(p, registered[w]) /\ w \notin revoked THEN "call" ELSE Refused(p))
  /\ Consume(p)
  /\ UNCHANGED <<files, registered, revoked, versions, apps, verb, worker, key, faults, overlapped>>

(* The request the command is for: one of a worker that has left the       *)
(* chart is refused.                                                       *)
Call(p) ==
  LET w == worker[p]
      stands == registered[w] # 0 IN
  /\ at[p] = "call"
  /\ Goes(p, "call", IF stands /\ verb[p] # "versions" THEN "done" ELSE Refused(p))
  /\ versions' = IF stands /\ verb[p] = "versions" THEN versions \cup {w} ELSE versions
  /\ apps' = IF ~stands THEN apps
             ELSE IF verb[p] \in {"app", "set"} THEN apps \cup {w}
             ELSE IF verb[p] = "clear" THEN apps \ {w} ELSE apps
  /\ UNCHANGED <<files, registered, revoked, pending, verb, worker, key, faults, overlapped>>

-----------------------------------------------------------------------------
(* A command is killed, or a request of it gets no answer, before or after *)
(* the plane has seen it: then the next step was the plane's.              *)
Ends(p) ==
  /\ at[p] \notin Idle /\ faults < MaxFaults /\ faults' = faults + 1
  /\ at' = [at EXCEPT ![p] = "failed"]
  /\ UNCHANGED <<files, plane, cmd, verb, worker, key, commands, overlapped, removed>>

(* An administrator deletes a worker, which revokes it. *)
DeleteWorker(w) ==
  /\ registered[w] # 0
  /\ registered' = [registered EXCEPT ![w] = 0]
  /\ revoked' = revoked \cup {w}
  /\ removed' = TRUE
  /\ UNCHANGED <<files, pending, versions, apps, procs, commands, faults, overlapped>>

Step(p) ==
  \/ Stat(p) \/ Create(p) \/ Write(p) \/ ResolveTarget(p) \/ LoadKeyPair(p)
  \/ RequestChallenge(p) \/ Register(p) \/ Save(p) \/ AfterVersions(p)
  \/ FetchToken(p) \/ Call(p)

Next ==
  \/ \E p \in Process, w \in Worker : RunWorkerConnect(p, w)
  \/ \E p \in Process, as \in Worker \cup {None} :
       RunWorkerAppSet(p, as) \/ RunWorkerAppClear(p, as) \/ RunCommand(p, as)
  \/ \E p \in Process : Step(p) \/ Ends(p)
  \/ \E w \in Worker : DeleteWorker(w)

Spec == Init /\ [][Next]_vars

-----------------------------------------------------------------------------
Running(p) == at[p] \notin Idle

(* The key a worker is registered with stays in the key file: it can only  *)
(* be lost when two first connects of the machine overlap, or one starts   *)
(* over what another left half written (LoadOrGenerateKeyPair looks first  *)
(* and writes later).                                                      *)
KeyServes == ~overlapped => \A w \in Worker : registered[w] \in {0, keyFile}

(* What is registered is what a command under the local configuration      *)
(* acts as: the configuration names a worker only once the plane has it,   *)
(* and between commands, when none was cut short, there is one.            *)
ConfigServes ==
  /\ ~removed /\ config \in Worker => registered[config] # 0
  /\ faults = 0 /\ (\A p \in Process : ~Running(p)) /\ (\E w \in Worker : registered[w] # 0)
       => config \in Worker

(* A command is past its challenge only with the key the worker is         *)
(* registered with, whatever other commands asked for meanwhile.           *)
ActsAsItself ==
  \A p \in Process : at[p] = "call" => registered[worker[p]] \in {0, key[p]}

(* One nonce, one use: of the commands of a worker that wait for a token   *)
(* or a registration, only the one that asked last can still get it.       *)
LastAskedIsServed ==
  \A p, q \in Process :
    /\ p # q /\ worker[p] = worker[q]
    /\ at[p] \in {"token", "register"} /\ at[q] \in {"token", "register"}
    => ~(Verified(p, key[p]) /\ Verified(q, key[q]))
=============================================================================
