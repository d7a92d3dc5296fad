------------------------------- MODULE DataDir -------------------------------
(***************************************************************************)
(* The data directory of a control plane and the processes that open it:   *)
(* `dream server init`, the commands that open it to mint themselves an    *)
(* admin token (revoke, remove-scope: mintLocalAdminToken), and            *)
(* `rotate-enrollment`.  server.New (internal/server/server.go) resolves   *)
(* and saves the backends' URIs, loads or generates the signing key and    *)
(* the enrollment token, and opens the backends.                           *)
(*                                                                         *)
(* A run is a number; so are a key and an enrollment token, by the run     *)
(* that generated them.  Every step is an operation on files, the store or *)
(* a backend and may fail, which ends the process with an error.           *)
(***************************************************************************)
EXTENDS Naturals, FiniteSets

CONSTANTS Process,
          Backend,                  \* messaging and storage
          URI, Default, Unusable,   \* of a backend; those New cannot open
          NoConfig,                 \* no row in server_config
          MaxRuns,                  \* bound: processes started
          MaxFaults                 \* bound: operations that fail, processes killed

VARIABLES saved,              \* the row of server_config
          keyFile, token,     \* the two files
          at, run, verb, flags, uris, key,   \* the processes
          sound,              \* of each: no report library or chart it was given was refused
          runs, faults,
          refusals,           \* admin tokens the running server did not accept
          printed,            \* what rotate-enrollment printed last, or 0
          spoiled,            \* ghost: one ended with its key file created and not written
          overlapped          \* ghost: two of them met while one opened the directory, or two servers

dir   == <<saved, keyFile, token>>
procs == <<at, run, verb, flags, uris, key, sound>>
told  == <<refusals, printed>>
vars  == <<dir, procs, runs, faults, told, spoiled, overlapped>>

NotGiven == ""                                \* a flag that is not given
Places == [Backend -> URI]
Flags  == [Backend -> URI \cup {NotGiven}]
Run    == 1 .. MaxRuns
NoFile == 0
Torn   == MaxRuns + 1                         \* a key file that is not as long as a key

Opening == {"resolve", "save", "stat", "create", "write", "load", "read", "generate", "open"}
Steps  == {"idle", "failed", "erred", "serving", "mint", "rotate"} \cup Opening

TypeOK ==
  /\ saved \in Places \cup {NoConfig}
  /\ keyFile \in {NoFile, Torn} \cup Run
  /\ token \in 0 .. MaxRuns
  /\ at \in [Process -> Steps] /\ run \in [Process -> 0 .. MaxRuns]
  /\ verb \in [Process -> {"init", "revoke", "rotate"}]
  /\ flags \in [Process -> Flags]
  /\ uris \in [Process -> Places] /\ key \in [Process -> 0 .. MaxRuns]
  /\ sound \in [Process -> BOOLEAN]
  /\ runs \in 0 .. MaxRuns /\ faults \in 0 .. MaxFaults
  /\ refusals \in Nat /\ printed \in 0 .. MaxRuns
  /\ spoiled \in BOOLEAN /\ overlapped \in BOOLEAN

Flagless == [b \in Backend |-> NotGiven]
Defaults == [b \in Backend |-> Default]

Init ==
  /\ saved = NoConfig /\ keyFile = NoFile /\ token = 0
  /\ at = [p \in Process |-> "idle"] /\ run = [p \in Process |-> 0]
  /\ verb = [p \in Process |-> "init"] /\ flags = [p \in Process |-> Flagless]
  /\ uris = [p \in Process |-> Defaults] /\ key = [p \in Process |-> 0]
  /\ sound = [p \in Process |-> TRUE]
  /\ runs = 0 /\ faults = 0 /\ refusals = 0 /\ printed = 0
  /\ spoiled = FALSE /\ overlapped = FALSE

Idle(p)    == at[p] \in {"idle", "failed", "erred"}
Serving(p) == at[p] = "serving"

(* What a step leaves alone unless it says otherwise. *)
Goes(p, from, to) ==
  /\ at[p] = from
  /\ at' = [at EXCEPT ![p] = to]
  /\ UNCHANGED <<run, verb, flags, runs, faults, refusals, spoiled, overlapped>>

-----------------------------------------------------------------------------
(* A server, or a command that opens the directory beside it.  The         *)
(* directory may be opened by two at a time; rotate-enrollment wants that  *)
(* there is a key file.                                                    *)
Begin(p, v, fs) ==
  /\ Idle(p) /\ runs < MaxRuns
  /\ v = "rotate" => keyFile # NoFile
  /\ runs' = runs + 1
  /\ at' = [at EXCEPT ![p] = IF v = "rotate" THEN "rotate" ELSE "resolve"]
  /\ run' = [run EXCEPT ![p] = runs + 1]
  /\ verb' = [verb EXCEPT ![p] = v]
  /\ flags' = [flags EXCEPT ![p] = fs]
  /\ uris' = [uris EXCEPT ![p] = Defaults]
  /\ key' = [key EXCEPT ![p] = 0]
  /\ sound' = [sound EXCEPT ![p] = TRUE]
  /\ overlapped' = \/ overlapped
                   \/ \E q \in Process \ {p} : at[q] \in Opening \cup {"rotate"}
                   \/ v = "init" /\ \E q \in Process \ {p} : ~Idle(q)
  /\ UNCHANGED <<dir, faults, told, spoiled>>

RunServerInit(p, fs)   == Begin(p, "init", fs)
RunServerRevoke(p)     == Begin(p, "revoke", Flagless)
RunRotateEnrollment(p) == Begin(p, "rotate", Flagless)

(* Mutant of Resolved: without a flag it is the default. *)
ResolvedByFlags(fs, old) ==
  [b \in DOMAIN fs |-> IF fs[b] = NotGiven THEN Default ELSE fs[b]]

(* resolveBackendURIs: the flag, or what was saved, or the default. *)
Resolved(fs, old) ==
  [b \in DOMAIN fs |-> IF fs[b] # NotGiven THEN fs[b]
                       ELSE IF old # NoConfig THEN old[b] ELSE Default]

Resolve(p) ==
  /\ Goes(p, "resolve", "save")
  /\ uris' = [uris EXCEPT ![p] = Resolved(flags[p], saved)]
  /\ UNCHANGED <<dir, key, printed, sound>>

(* Saved before anybody knows whether they can be opened. *)
SetConfig(p) ==
  /\ Goes(p, "save", "stat")
  /\ saved' = uris[p]
  /\ UNCHANGED <<keyFile, token, uris, key, printed, sound>>

(* LoadOrGenerateKeyPair *)
Stat(p) ==
  /\ Goes(p, "stat", IF keyFile = NoFile THEN "create" ELSE "load")
  /\ UNCHANGED <<dir, uris, key, printed, sound>>

Create(p) ==
  /\ Goes(p, "create", "write")
  /\ keyFile' = Torn
  /\ UNCHANGED <<saved, token, uris, key, printed, sound>>

Write(p) ==
  /\ Goes(p, "write", "read")
  /\ keyFile' = run[p] /\ key' = [key EXCEPT ![p] = run[p]]
  /\ UNCHANGED <<saved, token, uris, printed, sound>>

LoadKeyPair(p) ==
  /\ IF keyFile \in Run
     THEN Goes(p, "load", "read") /\ key' = [key EXCEPT ![p] = keyFile]
     ELSE Goes(p, "load", "failed") /\ UNCHANGED key
  /\ UNCHANGED <<dir, uris, printed, sound>>

(* loadOrGenerateEnrollmentToken reads the file, *)
ReadToken(p) ==
  /\ Goes(p, "read", IF token = 0 THEN "generate" ELSE "open")
  /\ UNCHANGED <<dir, uris, key, printed, sound>>

(* RotateEnrollmentToken: a whole file is renamed over the one there is.   *)
(* The command may print it; a start does not.                             *)
Rotate(p) ==
  /\ \/ Goes(p, "generate", "open") /\ UNCHANGED printed
     \/ Goes(p, "rotate", "idle") /\ printed' = run[p]
  /\ token' = run[p]
  /\ UNCHANGED <<saved, keyFile, uris, key, sound>>

(* The messaging backend and the storage backend; then the report library  *)
(* and the chart, which only a server is given.                            *)
OpenBackends(p) ==
  /\ sound' \in {sound} \cup IF verb[p] = "init" THEN {[sound EXCEPT ![p] = FALSE]} ELSE {}
  /\ Goes(p, "open", IF (\E b \in Backend : uris[p][b] \in Unusable) \/ ~sound'[p] THEN "failed"
                     ELSE IF verb[p] = "init" THEN "serving" ELSE "mint")
  /\ UNCHANGED <<dir, uris, key, printed>>

(* mintLocalAdminToken and the request with it, to the server that runs:   *)
(* it verifies with the key it has loaded.                                 *)
Mint(p) ==
  /\ at[p] = "mint"
  /\ at' = [at EXCEPT ![p] = "idle"]
  /\ refusals' = refusals + (IF \E q \in Process : Serving(q) /\ key[q] # key[p] THEN 1 ELSE 0)
  /\ UNCHANGED <<dir, run, verb, flags, uris, key, sound, runs, faults, printed, spoiled,
                 overlapped>>

(* A server stops. *)
Exit(p) ==
  /\ Serving(p)
  /\ at' = [at EXCEPT ![p] = "idle"]
  /\ UNCHANGED <<dir, run, verb, flags, uris, key, sound, runs, faults, told, spoiled, overlapped>>

(* A process ends short of what it was to do; its key file may be there    *)
(* and have nothing in it.                                                 *)
EndsEarly(p, to) ==
  /\ faults < MaxFaults /\ faults' = faults + 1
  /\ at' = [at EXCEPT ![p] = to]
  /\ spoiled' = (spoiled \/ at[p] = "write")
  /\ UNCHANGED <<saved, token, run, verb, flags, uris, key, sound, runs, told, overlapped>>

(* An operation fails: a statement of the store, an access to a file, a    *)
(* backend, the listener, the request with the token.  What the key file   *)
(* has then is nothing, or the key when it is its Close that fails; a new  *)
(* enrollment token is in no file, or in one that was not renamed.         *)
StepFails(p) ==
  /\ at[p] \in Opening \cup {"mint", "rotate"}
  /\ EndsEarly(p, "erred")
  /\ IF at[p] = "write" THEN keyFile' \in {Torn, run[p]} ELSE UNCHANGED keyFile

(* Any process is killed wherever it is. *)
Die(p) ==
  /\ ~Idle(p)
  /\ EndsEarly(p, "idle")
  /\ UNCHANGED keyFile

Next ==
  \E p \in Process :
    \/ \E fs \in Flags : RunServerInit(p, fs)
    \/ RunServerRevoke(p) \/ RunRotateEnrollment(p)
    \/ Resolve(p) \/ SetConfig(p) \/ Stat(p) \/ Create(p) \/ Write(p) \/ LoadKeyPair(p)
    \/ ReadToken(p) \/ Rotate(p) \/ OpenBackends(p) \/ Mint(p)
    \/ Exit(p) \/ StepFails(p) \/ Die(p)

Spec == Init /\ [][Next]_vars

-----------------------------------------------------------------------------
(* server.go, cmd_server.go: unless two of them opened the directory at    *)
(* once, a server that serves has the backends a later flagless run would  *)
(* take, and the key in the file; what commands minted beside it was       *)
(* accepted, and the enrollment token that was printed last is the one in  *)
(* force.                                                                  *)
CommandsBesideAreHarmless ==
  ~overlapped =>
    /\ \A p \in Process : Serving(p) => saved = uris[p] /\ keyFile = key[p] /\ token # 0
    /\ refusals = 0
    /\ printed \in {0, token}

(* keypair.go, server.go: nobody is left with a key file that cannot be    *)
(* loaded but after an operation failed or a process was killed right      *)
(* between the file's creation and its content; what else refuses a start  *)
(* without a failing operation is what it was given, or another run in the *)
(* middle of its first start.                                              *)
StartsFailForAReason ==
  /\ keyFile = Torn => spoiled \/ \E p \in Process : at[p] = "write"
  /\ \A p \in Process : at[p] = "failed" =>
       \/ \E b \in Backend : uris[p][b] \in Unusable
       \/ ~sound[p] \/ spoiled \/ overlapped
=============================================================================
