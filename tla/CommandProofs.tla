---------------------------- MODULE CommandProofs ----------------------------
(***************************************************************************)
(* What the commands of dream keep, for any number of processes, workers,  *)
(* versions, messages and things, and any bounds: the commands that act as *)
(* a worker, the follower, an update of the binary, the removal of a       *)
(* scope, the server as a process and the data directory, in this order.   *)
(* Each has its inductive invariant; what they need of the constants is    *)
(* MCCommands' PartsAssumption.  Access has its proofs in AccessProofs.    *)
(***************************************************************************)
EXTENDS MCCommands, AccessProofs, Integers, FiniteSetTheorems, SequenceTheorems,
        NaturalsInduction, WellFoundedInduction

-----------------------------------------------------------------------------
(* The commands that act as a worker.  That the file's key is the          *)
(* registered one needs that every command past its key step has it; that  *)
(* a call is made as its own worker needs that a worker who was registered *)
(* and is not any more is revoked, so nobody registers another key for it. *)

(* Where a command has its key; where it has its worker. *)
Keyed  == {"challenge", "register", "save", "saving", "declare", "token", "call"}
Naming == Keyed \cup {"stat", "create", "write", "load"}

(* No two commands that run have a number in common. *)
CommandNumbers ==
  /\ \A p \in Process : cmd[p] <= commands /\ (Commands!Running(p) => cmd[p] # 0)
  /\ \A p, q \in Process : p # q /\ Commands!Running(p) /\ Commands!Running(q) => cmd[p] # cmd[q]

(* What a command has of its worker: it names one; it has a key once it    *)
(* asks; it calls as the worker registered with that key, or revoked       *)
(* since; it saves the worker it has registered.                           *)
Acting ==
  \A p \in Process :
    /\ commandAt[p] \in Naming => worker[p] \in Worker
    /\ commandAt[p] \in Keyed => key[p] # 0
    /\ commandAt[p] = "call" => \/ registered[worker[p]] = key[p]
                                \/ registered[worker[p]] = 0 /\ worker[p] \in revokedIds
    /\ commandAt[p] \in {"save", "saving"} /\ ~removed => registered[worker[p]] # 0

Saved ==
  /\ ~removed /\ config \in Worker => registered[config] # 0
  /\ commandFaults = 0 /\ (\E w \in Worker : registered[w] # 0)
       => config \in Worker \/ \E p \in Process : commandAt[p] \in {"save", "saving"}

(* Unless a key file was replaced, every key in use is the one in it.      *)
Shared ==
  /\ \A w \in Worker : registered[w] \in {0, keyFile}
  /\ \A p \in Process : commandAt[p] \in Keyed => key[p] = keyFile

CommandInv == Commands!TypeOK /\ CommandNumbers /\ Acting /\ Saved /\ (~overlapped => Shared)

LEMMA CommandsBegin == ASSUME CommandConstants, Commands!Init PROVE CommandInv
<1> USE DEF Commands!Init, CommandConstants, Commands!Idle
<1>1. Commands!TypeOK
  <2>1. registered \in [Worker -> {0} \cup Commands!Command]
          /\ nonce \in [Worker -> {0} \cup Commands!Command]
    OBVIOUS
  <2>2. commandAt \in [Process -> Commands!Places]
          /\ cmd \in [Process -> {0} \cup Commands!Command] BY DEF Commands!Places
  <2>3. verb \in [Process -> {"connect", "versions", "app", "set", "clear", "other"}] OBVIOUS
  <2>4. worker \in [Process -> Worker \cup {None}]
          /\ key \in [Process -> {0} \cup Commands!Command]
    OBVIOUS
  <2>5. commands \in 0 .. MaxCommands /\ commandFaults \in 0 .. MaxCommandFaults OBVIOUS
  <2> QED BY <2>1, <2>2, <2>3, <2>4, <2>5 DEF Commands!TypeOK
<1>2. CommandNumbers BY DEF CommandNumbers, Commands!Running
<1>3. Acting BY DEF Acting, Naming, Keyed
<1>4. Saved BY DEF Saved
<1>5. Shared BY DEF Shared, Commands!NoFile, Keyed
<1> QED BY <1>1, <1>2, <1>3, <1>4, <1>5 DEF CommandInv

(* A command begins: nobody has its number. *)
LEMMA BeginCommandKeeps ==
  ASSUME CommandConstants, CommandInv, NEW p \in Process,
         NEW v \in {"connect", "versions", "app", "set", "clear", "other"},
         NEW w \in Worker \cup {None}, NEW from \in {"stat", "resolve"},
         from = "stat" => w \in Worker, Commands!Begin(p, v, w, from)
  PROVE  CommandInv'
<1> USE DEF CommandInv, Commands!TypeOK, Commands!Begin, Commands!files, Commands!plane
<1>1. /\ commandAt'[p] = from /\ cmd'[p] = commands + 1 /\ worker'[p] = w /\ key'[p] = 0
      /\ commandAt[p] \in Commands!Idle /\ commands' = commands + 1
      /\ \A q \in Process \ {p} :
           commandAt'[q] = commandAt[q] /\ cmd'[q] = cmd[q] /\ worker'[q] = worker[q]
             /\ key'[q] = key[q]
      /\ keyFile' = keyFile /\ config' = config /\ registered' = registered
           /\ revokedIds' = revokedIds
      /\ commandFaults' = commandFaults /\ removed' = removed /\ overlapped' = overlapped
  OBVIOUS
<1>2. Commands!TypeOK'
  <2>1. commandAt' \in [Process -> Commands!Places]
          /\ cmd' \in [Process -> {0} \cup Commands!Command]
    BY DEF Commands!Places, Commands!Command, CommandConstants
  <2> QED BY <2>1 DEF CommandConstants, Commands!Command
<1>3. CommandNumbers' BY <1>1 DEF CommandNumbers, Commands!Running, Commands!Command
<1>4. Acting' BY <1>1 DEF Acting, Naming, Keyed
<1>5. Saved' BY <1>1 DEF Saved, Commands!Idle
<1>6. ASSUME ~overlapped PROVE Shared' BY <1>1, <1>6 DEF Shared, Keyed
<1> QED BY <1>1, <1>2, <1>3, <1>4, <1>5, <1>6

(* The steps of the files, of the resolution and of an end. *)
LEMMA OwnStepsKeep ==
  ASSUME CommandConstants, CommandInv, NEW p \in Process,
         Commands!Stat(p) \/ Commands!Create(p) \/ Commands!Write(p)
           \/ Commands!ResolveTarget(p) \/ Commands!LoadKeyPair(p) \/ Commands!AfterVersions(p)
           \/ Commands!Ends(p)
  PROVE  CommandInv'
<1> USE DEF CommandInv, Commands!TypeOK, Commands!Goes, Commands!files, Commands!plane
<1>1. /\ Commands!Running(p) /\ cmd' = cmd /\ commands' = commands /\ removed' = removed
      /\ config' = config /\ registered' = registered /\ revokedIds' = revokedIds /\ nonce' = nonce
      /\ versions' = versions /\ apps' = apps
      /\ \A q \in Process \ {p} : commandAt'[q] = commandAt[q] /\ worker'[q] = worker[q]
           /\ key'[q] = key[q]
      /\ commandAt'[p] \in {"create", "write", "load", "challenge", "done", "failed"}
      /\ commandFaults' \in 0 .. MaxCommandFaults /\ commandFaults <= commandFaults'
      /\ commandAt[p] \in {"save", "saving"} => commandFaults' # 0
  BY DEF Commands!Stat, Commands!Create, Commands!Write, Commands!ResolveTarget,
    Commands!LoadKeyPair, Commands!AfterVersions, Commands!Ends, Commands!Running, Commands!Idle,
         CommandConstants
<1>2. commandAt' \in [Process -> Commands!Places]
  BY DEF Commands!Stat, Commands!Create, Commands!Write, Commands!ResolveTarget,
    Commands!LoadKeyPair, Commands!AfterVersions, Commands!Ends, Commands!Places, Commands!Idle
<1>3. /\ verb' \in [Process -> {"connect", "versions", "app", "set", "clear", "other"}]
      /\ worker' \in [Process -> Worker \cup {None}]
      /\ key' \in [Process -> {0} \cup Commands!Command]
      /\ commandAt[p] # "resolve" => worker'[p] = worker[p]
      /\ commandAt[p] = "resolve" /\ commandAt'[p] # "failed" => worker'[p] \in Worker
  BY DEF Commands!Stat, Commands!Create, Commands!Write, Commands!ResolveTarget,
    Commands!LoadKeyPair, Commands!AfterVersions, Commands!Ends
<1>4. commandAt[p] = "write" => cmd[p] \in Commands!Command BY DEF CommandNumbers,
    Commands!Running, Commands!Idle, Commands!Command
<1>5. keyFile' \in {Commands!NoFile, Commands!Torn} \cup Commands!Command
        /\ overlapped' \in BOOLEAN
  BY <1>4 DEF Commands!Stat, Commands!Create, Commands!Write, Commands!ResolveTarget,
    Commands!LoadKeyPair, Commands!AfterVersions, Commands!Ends
<1>6. Commands!TypeOK' BY <1>1, <1>2, <1>3, <1>5
<1>7. CommandNumbers' BY <1>1 DEF CommandNumbers, Commands!Running, Commands!Idle
<1>8. Acting'
  <2>1. commandAt'[p] \in Naming => worker'[p] \in Worker
    <3>1. commandAt'[p] \in Naming => commandAt[p] = "resolve" \/ commandAt[p] \in Naming
      BY DEF Commands!Stat, Commands!Create, Commands!Write, Commands!ResolveTarget,
        Commands!LoadKeyPair, Commands!AfterVersions, Commands!Ends, Naming, Keyed
    <3> QED BY <1>1, <1>3, <3>1 DEF Acting, Naming, Keyed
  <2>2. commandAt'[p] = "challenge" => key'[p] # 0
    <3>1. 0 \notin Commands!Command BY DEF Commands!Command
    <3> QED BY <1>4, <3>1 DEF Commands!Stat, Commands!Create, Commands!Write,
        Commands!ResolveTarget, Commands!LoadKeyPair, Commands!AfterVersions, Commands!Ends,
                       Acting, Keyed
  <2> QED BY <1>1, <2>1, <2>2 DEF Acting, Keyed
<1>9. Saved'
  <2>1. commandFaults' = 0 => commandFaults = 0 BY <1>1
  <2>2. \A q \in Process : commandAt[q] \in {"save",
      "saving"} /\ q # p => commandAt'[q] = commandAt[q] BY <1>1
  <2> QED BY <1>1, <2>1, <2>2 DEF Saved
<1>10. ASSUME ~overlapped' PROVE Shared'
  <2>1. CASE Commands!Create(p)
    <3>1. ~overlapped /\ keyFile = Commands!NoFile BY <1>10, <2>1 DEF Commands!Create
    <3>2. \A q \in Process : commandAt[q] \notin Keyed BY <3>1 DEF Shared, Acting, Commands!NoFile
    <3> QED BY <1>1, <2>1, <3>1, <3>2 DEF Shared, Commands!NoFile, Commands!Create, Keyed
  <2>2. CASE Commands!Write(p)
    <3>1. ~overlapped /\ keyFile = Commands!Torn BY <1>10, <2>2 DEF Commands!Write
    <3>2. Commands!Torn \notin {0} \cup Commands!Command BY DEF Commands!Torn, Commands!Command,
        CommandConstants
    <3>3. \A q \in Process : commandAt[q] \notin Keyed BY <3>1, <3>2 DEF Shared
    <3>4. \A w \in Worker : registered[w] = 0
      <4>1. \A w \in Worker : registered[w] \in {0} \cup Commands!Command OBVIOUS
      <4>2. \A w \in Worker : registered[w] \in {0, Commands!Torn} BY <3>1 DEF Shared
      <4> QED BY <3>2, <4>1, <4>2
    <3>5. keyFile' = cmd[p] /\ key'[p] = cmd[p] BY <2>2 DEF Commands!Write
    <3> QED BY <1>1, <3>3, <3>4, <3>5 DEF Shared
  <2>3. CASE Commands!Stat(p) \/ Commands!ResolveTarget(p) \/ Commands!LoadKeyPair(p)
               \/ Commands!AfterVersions(p) \/ Commands!Ends(p)
    <3>1. ~overlapped /\ keyFile' = keyFile
      BY <1>10, <2>3 DEF Commands!Stat, Commands!ResolveTarget, Commands!LoadKeyPair,
        Commands!AfterVersions, Commands!Ends
    <3>2. commandAt'[p] \in Keyed => key'[p] = keyFile
      BY <2>3, <3>1 DEF Commands!Stat, Commands!ResolveTarget, Commands!LoadKeyPair,
        Commands!AfterVersions, Commands!Ends, Shared, Keyed
    <3> QED BY <1>1, <3>1, <3>2 DEF Shared
  <2> QED BY <2>1, <2>2, <2>3
<1> QED BY <1>6, <1>7, <1>8, <1>9, <1>10

(* The steps at the plane. *)
LEMMA PlaneStepsKeep ==
  ASSUME CommandConstants, CommandInv, NEW p \in Process,
         Commands!RequestChallenge(p) \/ Commands!Register(p) \/ Commands!Save(p)
           \/ Commands!FetchToken(p) \/ Commands!Call(p)
  PROVE  CommandInv'
<1> USE DEF CommandInv, Commands!TypeOK, Commands!Goes, Commands!files, Commands!plane
<1>1. /\ Commands!Running(p) /\ cmd' = cmd /\ commands' = commands /\ removed' = removed
      /\ keyFile' = keyFile /\ revokedIds' = revokedIds /\ worker' = worker /\ key' = key
      /\ commandFaults' = commandFaults /\ overlapped' = overlapped
      /\ \A q \in Process \ {p} : commandAt'[q] = commandAt[q]
      /\ commandAt[p] \in Keyed /\ commandAt'[p] \in Keyed \cup Commands!Idle
  BY DEF Commands!RequestChallenge, Commands!Register, Commands!Save, Commands!FetchToken,
    Commands!Call, Commands!Running, Commands!Idle, Keyed, Commands!Refused
<1>2. worker[p] \in Worker /\ key[p] # 0 /\ key[p] \in Commands!Command
        /\ cmd[p] \in Commands!Command
  BY <1>1 DEF Acting, Naming, CommandNumbers
<1>3. commandAt' \in [Process -> Commands!Places]
  BY DEF Commands!RequestChallenge, Commands!Register, Commands!Save, Commands!FetchToken,
    Commands!Call, Commands!Places, Commands!Idle, Commands!Refused
<1>4. /\ verb' \in [Process -> {"connect", "versions", "app", "set", "clear", "other"}]
      /\ versions' \subseteq Worker /\ apps' \subseteq Worker
      /\ config' \in Worker \cup {None, Half}
  BY <1>2 DEF Commands!RequestChallenge, Commands!Register, Commands!Save, Commands!FetchToken,
    Commands!Call
<1>5. nonce' \in [Worker -> {0} \cup Commands!Command]
  BY <1>2 DEF Commands!RequestChallenge, Commands!Register, Commands!Save, Commands!FetchToken,
    Commands!Call, Commands!Consume
<1>6. registered' \in [Worker -> {0} \cup Commands!Command]
  BY <1>2 DEF Commands!RequestChallenge, Commands!Register, Commands!Save, Commands!FetchToken,
    Commands!Call
<1>7. Commands!TypeOK' BY <1>1, <1>3, <1>4, <1>5, <1>6
<1>8. CommandNumbers' BY <1>1 DEF CommandNumbers, Commands!Running
<1>9. \A w \in Worker :
        \/ registered'[w] = registered[w]
        \/ /\ registered[w] = 0 /\ w \notin revokedIds /\ w = worker[p] /\ registered'[w] = key[p]
           /\ commandAt'[p] = "save" /\ commandAt[p] = "register"
  BY DEF Commands!RequestChallenge, Commands!Register, Commands!Save, Commands!FetchToken,
    Commands!Call
<1>10. Acting'
  <2>1. commandAt'[p] = "call" => registered'[worker[p]] = key[p]
    BY DEF Commands!RequestChallenge, Commands!Register, Commands!Save, Commands!FetchToken,
      Commands!Call, Commands!Verified, Commands!Refused
  <2>2. commandAt'[p] \in {"save", "saving"} /\ ~removed => registered'[worker[p]] # 0
    BY <1>2 DEF Commands!RequestChallenge, Commands!Register, Commands!Save, Commands!FetchToken,
      Commands!Call, Commands!Refused, Acting
  <2>3. \A q \in Process \ {p} : commandAt[q] = "call" => worker[q] \in Worker
    BY DEF Acting, Naming, Keyed
  <2>4. \A q \in Process \ {p} : commandAt[q] \in {"save", "saving"} => worker[q] \in Worker
    BY DEF Acting, Naming, Keyed
  <2> SUFFICES ASSUME NEW q \in Process
               PROVE  /\ commandAt'[q] \in Naming => worker[q] \in Worker
                      /\ commandAt'[q] \in Keyed => key[q] # 0
                      /\ commandAt'[q] = "call" =>
                           \/ registered'[worker[q]] = key[q]
                           \/ registered'[worker[q]] = 0 /\ worker[q] \in revokedIds
                      /\ commandAt'[q] \in {"save", "saving"}
                           /\ ~removed => registered'[worker[q]] # 0
    BY <1>1 DEF Acting
  <2>5. CASE q = p BY <1>1, <1>2, <2>1, <2>2, <2>5
  <2>6. CASE q # p
    <3>1. commandAt'[q] = commandAt[q] BY <1>1, <2>6
    <3>2. (commandAt[q] \in Naming => worker[q] \in Worker)
            /\ (commandAt[q] \in Keyed => key[q] # 0)
      BY DEF Acting
    <3>3. ASSUME commandAt[q] = "call"
          PROVE  \/ registered'[worker[q]] = key[q]
                 \/ registered'[worker[q]] = 0 /\ worker[q] \in revokedIds
      <4>1. worker[q] \in Worker /\ key[q] # 0 BY <2>3, <2>6, <3>3 DEF Acting, Keyed
      <4>2. \/ registered[worker[q]] = key[q]
            \/ registered[worker[q]] = 0 /\ worker[q] \in revokedIds
        BY <3>3 DEF Acting
      <4> QED BY <1>9, <4>1, <4>2
    <3>4. ASSUME commandAt[q] \in {"save", "saving"}, ~removed PROVE registered'[worker[q]] # 0
      <4>1. worker[q] \in Worker /\ registered[worker[q]] # 0 BY <2>4, <2>6, <3>4 DEF Acting
      <4> QED BY <1>9, <4>1
    <3> QED BY <3>1, <3>2, <3>3, <3>4
  <2> QED BY <2>5, <2>6
<1>11. Saved'
  <2>1. CASE Commands!Save(p)
    <3>1. /\ registered' = registered
          /\ \/ commandAt[p] = "save" /\ commandAt'[p] = "saving" /\ config' = Half
             \/ commandAt[p] = "saving" /\ config' = worker[p]
      BY <2>1 DEF Commands!Save
    <3>2. ~removed => registered[worker[p]] # 0 BY <3>1 DEF Acting
    <3> QED BY <1>1, <1>2, <3>1, <3>2 DEF Saved, CommandConstants
  <2>2. CASE Commands!RequestChallenge(p) \/ Commands!Register(p) \/ Commands!FetchToken(p)
               \/ Commands!Call(p)
    <3>1. config' = config /\ commandAt[p] \notin {"save", "saving"}
      BY <2>2 DEF Commands!RequestChallenge, Commands!Register, Commands!FetchToken, Commands!Call
    <3>2. \A w \in Worker : registered[w] # 0 => registered'[w] # 0 BY <1>9
    <3>3. \A w \in Worker : registered'[w] # 0 => registered[w] # 0 \/ commandAt'[p] = "save"
        BY <1>9
    <3> QED BY <1>1, <3>1, <3>2, <3>3 DEF Saved
  <2> QED BY <2>1, <2>2
<1>12. ASSUME ~overlapped PROVE Shared'
  <2>1. key[p] = keyFile BY <1>1, <1>12 DEF Shared
  <2> QED BY <1>1, <1>9, <1>12, <2>1 DEF Shared
<1> QED BY <1>1, <1>7, <1>8, <1>10, <1>11, <1>12

LEMMA DeleteKeeps ==
  ASSUME CommandConstants, CommandInv, NEW w \in Worker, Commands!DeleteWorker(w)
  PROVE  CommandInv'
<1> USE DEF CommandInv, Commands!TypeOK, Commands!DeleteWorker, Commands!files, Commands!procs
<1>1. Commands!TypeOK' OBVIOUS
<1>2. CommandNumbers' BY DEF CommandNumbers, Commands!Running
<1>3. Acting' BY DEF Acting, Naming, Keyed
<1>4. Saved' BY DEF Saved
<1>5. ASSUME ~overlapped PROVE Shared' BY <1>5 DEF Shared
<1> QED BY <1>1, <1>2, <1>3, <1>4, <1>5

LEMMA CommandStepKeeps ==
  ASSUME CommandConstants, CommandInv, [Commands!Next]_(Commands!vars)
  PROVE  CommandInv'
<1>1. ASSUME NEW p \in Process, NEW w \in Worker, Commands!RunWorkerConnect(p, w) PROVE CommandInv'
  BY <1>1, BeginCommandKeeps DEF Commands!RunWorkerConnect
<1>2. ASSUME NEW p \in Process, NEW as \in Worker \cup {None},
             Commands!RunWorkerAppSet(p, as) \/ Commands!RunWorkerAppClear(p, as)
               \/ Commands!RunCommand(p, as)
      PROVE  CommandInv'
  BY <1>2, BeginCommandKeeps DEF Commands!RunWorkerAppSet, Commands!RunWorkerAppClear,
    Commands!RunCommand
<1>3. ASSUME NEW p \in Process, Commands!Step(p) \/ Commands!Ends(p) PROVE CommandInv'
  BY <1>3, OwnStepsKeep, PlaneStepsKeep DEF Commands!Step
<1>4. ASSUME NEW w \in Worker, Commands!DeleteWorker(w) PROVE CommandInv' BY <1>4, DeleteKeeps
<1>5. CASE UNCHANGED Commands!vars
  <2> USE <1>5 DEF Commands!vars, Commands!files, Commands!plane, Commands!procs
  <2>1. Commands!TypeOK' BY DEF CommandInv, Commands!TypeOK
  <2>2. CommandNumbers' /\ Acting' /\ Saved' BY DEF CommandInv, CommandNumbers, Commands!Running,
      Acting, Saved
  <2>3. ~overlapped' => Shared' BY DEF CommandInv, Shared
  <2> QED BY <2>1, <2>2, <2>3 DEF CommandInv
<1> QED BY <1>1, <1>2, <1>3, <1>4, <1>5 DEF Commands!Next

(* cmd_worker.go, keypair.go, auth.go: the key a worker is registered with *)
(* and the configuration serve the commands of a machine, a command acts   *)
(* as its own worker, and of two that wait for one challenge only the last *)
(* is answered, whatever commands run at a time.                           *)
THEOREM CommandsAreTrue == Commands!Spec => []CommandsKeep
<1>1. ASSUME CommandInv PROVE CommandsKeep
  <2>1. Commands!TypeOK /\ Commands!KeyServes BY <1>1 DEF CommandInv, Shared, Commands!KeyServes
  <2>2. Commands!ConfigServes
    BY <1>1 DEF CommandInv, Saved, Commands!ConfigServes, Commands!Running, Commands!Idle
  <2>3. Commands!ActsAsItself BY <1>1 DEF CommandInv, Acting, Commands!ActsAsItself
  <2>4. Commands!LastAskedIsServed
    BY <1>1 DEF CommandInv, CommandNumbers, Commands!LastAskedIsServed, Commands!Verified,
                Commands!Running, Commands!Idle
  <2> QED BY <2>1, <2>2, <2>3, <2>4 DEF CommandsKeep
<1>2. Commands!Init => CommandInv BY PartsAssumption, CommandsBegin
<1>3. CommandInv /\ [Commands!Next]_(Commands!vars) => CommandInv'
  BY PartsAssumption, CommandStepKeeps
<1> QED BY <1>1, <1>2, <1>3, PTL DEF Commands!Spec

-----------------------------------------------------------------------------
(* The follower.  Each restart uses up the announcement it acknowledged,   *)
(* or the failure of a call; and, while binaries report what they are, one *)
(* of the versions between the first and the one that is installed.        *)

(* The sizes that the instance speaks of are sizes. *)
LEMMA SameSizes ==
  \A S : Following!Cardinality(S) = Cardinality(S) /\ Following!IsFiniteSet(S) = IsFiniteSet(S)
BY DEF Following!Cardinality, Cardinality, Following!IsFiniteSet, IsFiniteSet

(* The versions a follower can still have gone through on its way to v. *)
NewerThanFirst(v) == {w \in Announced : Initial < w /\ w <= v}

FollowerPlaces ==
  Following!Following \cup Following!Ended \cup {"applying", "installed", "acking", "exec"}

(* TypeOK, a conjunct at a time. *)
FollowerTypes ==
  /\ inbox \in Seq(Announced \cup {0}) /\ Len(inbox) <= MaxMessages
  /\ acked \subseteq Following!Sent /\ printed \subseteq Following!Sent
  /\ followerAt \in FollowerPlaces
  /\ cursor \in 0 .. Len(inbox) /\ request \in 0 .. Len(inbox)
  /\ runs \in Announced /\ installed \in Announced
  /\ selfUpdate \in BOOLEAN /\ managed \in BOOLEAN /\ own \in BOOLEAN
  /\ status \in [1 .. MaxMessages -> {"none", "in_progress", "applied", "declined", "failed"}]
  /\ had \subseteq Announced /\ asReleased \in BOOLEAN
  /\ execs \in 0 .. MaxExecs /\ starts \in 0 .. MaxStarts /\ followerFaults \in 0 .. MaxFollowerFaults

(* The follower runs what is installed until it has installed something    *)
(* else, which is newer when it reports what it was released as; what it   *)
(* applies is an announcement that waits for its acknowledgement, and what *)
(* it tells of it is true.                                                 *)
Applies ==
  /\ followerAt \in Following!Following \cup {"applying"} => runs = installed
  /\ followerAt \in {"installed", "acking", "exec"} /\ asReleased => runs < installed
  /\ followerAt \in {"applying", "installed", "acking"} =>
       request # 0 /\ inbox[request] # 0 /\ request \notin acked
  /\ followerAt \in {"installed", "acking"} => inbox[request] \in had
  /\ runs \in had /\ installed \in had
  /\ \A i \in 1 .. MaxMessages : i > Len(inbox) => status[i] = "none"

(* Versions grow while binaries report what they were released as. *)
Grows ==
  asReleased => Initial <= runs /\ runs <= installed /\ \A v \in had : v <= installed

(* The announcements that are used up. *)
Spent == {i \in acked : inbox[i] # 0}

(* A restart for each newer version; for each announcement or fault, of    *)
(* which the next one has had its own.                                     *)
Counts ==
  /\ asReleased => execs <= Cardinality(NewerThanFirst(runs))
  /\ own => execs + (IF followerAt = "exec" THEN 1 ELSE 0) <= Cardinality(Spent) + followerFaults

FollowerInv == FollowerTypes /\ Applies /\ Grows /\ Counts /\ Following!AppliedIsInstalled
  /\ Following!AckedIsInstalled

LEMMA TypesAreTypeOK == FollowerTypes => Following!TypeOK
  BY DEF FollowerTypes, Following!TypeOK, FollowerPlaces

LEMMA NewerCounts ==
  ASSUME FollowerConstants, NEW v \in Announced
  PROVE  /\ IsFiniteSet(NewerThanFirst(v)) /\ Cardinality(NewerThanFirst(v)) \in Nat
         /\ \A w \in Announced :
              v <= w => Cardinality(NewerThanFirst(v)) <= Cardinality(NewerThanFirst(w))
         /\ \A w \in Announced : v < w
              /\ Initial <= v => Cardinality(NewerThanFirst(v)) < Cardinality(NewerThanFirst(w))
<1>0. \A w \in Announced : w \in Nat BY DEF FollowerConstants
<1>1. \A w \in Announced : IsFiniteSet(NewerThanFirst(w)) /\ Cardinality(NewerThanFirst(w)) \in Nat
  BY FS_Subset, FS_CardinalityType DEF NewerThanFirst, FollowerConstants
<1>2. ASSUME NEW w \in Announced,
               v <= w PROVE Cardinality(NewerThanFirst(v)) <= Cardinality(NewerThanFirst(w))
  <2>1. NewerThanFirst(v) \subseteq NewerThanFirst(w) BY <1>0, <1>2 DEF NewerThanFirst
  <2> QED BY <1>1, <2>1, FS_Subset
<1>3. ASSUME NEW w \in Announced, v < w, Initial <= v
      PROVE  Cardinality(NewerThanFirst(v)) < Cardinality(NewerThanFirst(w))
  <2>0. Initial \in Nat BY <1>0 DEF FollowerConstants
  <2>1. NewerThanFirst(v) \subseteq NewerThanFirst(w) BY <1>0, <1>3 DEF NewerThanFirst
  <2>2. w \in NewerThanFirst(w) /\ w \notin NewerThanFirst(v) BY <1>0, <1>3, <2>0
      DEF NewerThanFirst
  <2>3. NewerThanFirst(v) # NewerThanFirst(w) BY <2>2
  <2> QED BY <1>1, <2>1, <2>3, FS_Subset
<1> QED BY <1>1, <1>2, <1>3

(* There are so many announcements in the inbox and no more. *)
LEMMA SpentCounts ==
  ASSUME FollowerTypes
  PROVE  IsFiniteSet(Following!Sent) /\ IsFiniteSet(Spent) /\ Cardinality(Spent) \in Nat
<1>1. IsFiniteSet(Following!Sent) BY FS_Interval DEF Following!Sent, FollowerTypes
<1>2. Spent \subseteq Following!Sent BY DEF Spent, FollowerTypes
<1> QED BY <1>1, <1>2, FS_Subset, FS_CardinalityType

LEMMA FollowerBegins == ASSUME FollowerConstants, Following!Init PROVE FollowerInv
<1>1. Announced \subseteq Nat /\ 0 \notin Announced /\ Initial \in Announced BY
    DEF FollowerConstants
<1>2. FollowerTypes BY DEF Following!Init, FollowerTypes, FollowerPlaces, Following!Following,
    FollowerConstants, Following!Sent
<1>3. Applies BY <1>1 DEF Following!Init, Applies, Following!Following
<1>4. Grows BY <1>1 DEF Following!Init, Grows
<1>5. Counts
  <2>1. Cardinality(NewerThanFirst(runs)) \in Nat BY <1>1, NewerCounts DEF Following!Init
  <2>2. Cardinality(Spent) \in Nat BY <1>2, SpentCounts
  <2> QED BY <2>1, <2>2 DEF Following!Init, Counts
<1>6. Following!AppliedIsInstalled /\ Following!AckedIsInstalled
  BY DEF Following!Init, Following!AppliedIsInstalled, Following!AckedIsInstalled, Following!Sent
<1> QED BY <1>2, <1>3, <1>4, <1>5, <1>6 DEF FollowerInv

(* The message an announcement or an acknowledgement is about is still the *)
(* one it was when others follow it.                                       *)
LEMMA SendKeeps ==
  ASSUME FollowerConstants, FollowerInv, NEW c \in Announced \cup {0}, Following!Send(c)
  PROVE  FollowerInv'
<1> USE DEF Following!Send, Following!setup, Following!past
<1>1. /\ Len(inbox') = Len(inbox) + 1 /\ \A i \in Following!Sent : inbox'[i] = inbox[i]
      /\ inbox' \in Seq(Announced \cup {0}) /\ Following!Sent \subseteq Following!Sent'
           /\ Len(inbox) \in Nat
  BY DEF FollowerInv, FollowerTypes, Following!Sent
<1>2. FollowerTypes' BY <1>1 DEF FollowerInv, FollowerTypes, FollowerConstants
<1>3. Applies'
  BY <1>1 DEF FollowerInv, Applies, FollowerTypes, Following!Sent
<1>4. Counts'
  <2>1. Spent' = Spent BY <1>1 DEF Spent, FollowerInv, FollowerTypes
  <2> QED BY <2>1 DEF FollowerInv, Counts, NewerThanFirst
<1>7. Grows' BY DEF FollowerInv, Grows
<1>5. Following!AppliedIsInstalled'
  <2>1. status[Len(inbox) + 1] = "none"
    BY <1>1 DEF FollowerInv, Applies, FollowerTypes, FollowerConstants
  <2>2. \A i \in Following!Sent' : i \in Following!Sent \/ i = Len(inbox) + 1 BY <1>1
      DEF Following!Sent
  <2> QED BY <1>1, <2>1, <2>2 DEF FollowerInv, Following!AppliedIsInstalled
<1>6. Following!AckedIsInstalled' BY <1>1 DEF FollowerInv, Following!AckedIsInstalled,
    FollowerTypes
<1> QED BY <1>2, <1>3, <1>4, <1>5, <1>6, <1>7 DEF FollowerInv

(* A step that leaves the messages, the versions and the setup. *)
Still ==
  /\ inbox' = inbox /\ runs' = runs /\ installed' = installed /\ execs' = execs
  /\ had' = had /\ asReleased' = asReleased
  /\ selfUpdate' = selfUpdate /\ managed' = managed /\ own' = own

(* What is reported of message i is the only status that changes. *)
LEMMA ReportChanges ==
  ASSUME FollowerConstants, FollowerInv, NEW i \in Following!Sent, NEW fails \in BOOLEAN,
         NEW s \in {"none", "in_progress", "applied", "declined", "failed"},
         Following!Reports(i, s, fails)
  PROVE  /\ status' \in [1 .. MaxMessages ->
                           {"none", "in_progress", "applied", "declined", "failed"}]
         /\ \A j \in 1 .. MaxMessages : status'[j] \in {status[j]} \cup IF j = i THEN {s} ELSE {}
  BY DEF Following!Reports, FollowerInv, FollowerTypes

LEMMA MovesKeep ==
  ASSUME FollowerConstants, FollowerInv,
         Following!TokenStarted \/ Following!Opened
           \/ (\E from \in Following!Following : Following!ReturnsError(from))
                \/ Following!StreamEnds
           \/ Following!Reconnect \/ Following!RestartFails \/ Following!Interrupt
                \/ Following!Killed \/ UNCHANGED Following!vars
           \/ (\E i \in Following!Sent : Following!MessageAck(i))
  PROVE  FollowerInv'
<1> USE DEF Following!Moves, Following!Fault, Following!setup, Following!past, Following!Following, Following!Ended
<1>1. Still /\ status' = status /\ printed' = printed /\ (followerAt' = followerAt
        \/ followerAt' \in Following!Following \cup Following!Ended)
  BY DEF Following!TokenStarted, Following!Opened, Following!ReturnsError, Following!StreamEnds,
    Following!Reconnect, Following!RestartFails, Following!Interrupt,
         Following!Killed, Following!MessageAck, Following!vars, Still
<1>2. /\ acked \subseteq acked' /\ acked' \subseteq Following!Sent
      /\ \A i \in acked' \ acked : inbox[i] = 0
  BY DEF Following!TokenStarted, Following!Opened, Following!ReturnsError, Following!StreamEnds,
    Following!Reconnect, Following!RestartFails, Following!Interrupt,
         Following!Killed, Following!MessageAck, Following!vars, FollowerInv, FollowerTypes
<1>3. Following!Sent' = Following!Sent BY <1>1 DEF Still, Following!Sent
<1>4. FollowerTypes'
  <2>1. followerAt' \in FollowerPlaces BY <1>1 DEF FollowerInv, FollowerTypes, FollowerPlaces
  <2>2. request' \in 0 .. Len(inbox)
    BY DEF Following!TokenStarted, Following!Opened, Following!ReturnsError, Following!StreamEnds,
      Following!Reconnect, Following!RestartFails, Following!Interrupt,
         Following!Killed, Following!MessageAck, Following!vars, FollowerInv, FollowerTypes
  <2>3. cursor' \in 0 .. Len(inbox)
    BY DEF Following!TokenStarted, Following!Opened, Following!ReturnsError, Following!StreamEnds,
      Following!Reconnect, Following!RestartFails, Following!Interrupt,
         Following!Killed, Following!MessageAck, Following!vars, FollowerInv, FollowerTypes
  <2>4. starts' = starts /\ followerFaults' \in 0 .. MaxFollowerFaults
    BY DEF Following!TokenStarted, Following!Opened, Following!ReturnsError, Following!StreamEnds,
      Following!Reconnect, Following!RestartFails, Following!Interrupt,
         Following!Killed, Following!MessageAck, Following!vars, FollowerInv,
         FollowerTypes, FollowerConstants
  <2> QED BY <1>1, <1>2, <1>3, <2>1, <2>2, <2>3, <2>4 DEF FollowerInv, FollowerTypes, Still
<1>5. Applies'
  <2>1. (followerAt' = followerAt /\ request' = request) \/ followerAt' \in Following!Ended
          \/ (followerAt \in Following!Following /\ followerAt' \in Following!Following)
    BY DEF Following!TokenStarted, Following!Opened, Following!ReturnsError, Following!StreamEnds,
      Following!Reconnect, Following!RestartFails, Following!Interrupt,
         Following!Killed, Following!MessageAck, Following!vars
  <2>2. request' = request /\ inbox[request] # 0 => (request \in acked' <=> request \in acked)
    BY <1>2
  <2> QED BY <1>1, <2>1, <2>2 DEF FollowerInv, Applies, Still
<1>6. Counts'
  <2>1. Spent' = Spent BY <1>1, <1>2 DEF Spent, Still
  <2>2. Cardinality(Spent) \in Nat BY SpentCounts DEF FollowerInv
  <2>3. /\ followerFaults <= followerFaults'
        /\ followerAt' = "exec" => followerAt = "exec"
    BY DEF Following!TokenStarted, Following!Opened, Following!ReturnsError, Following!StreamEnds,
      Following!Reconnect, Following!RestartFails, Following!Interrupt,
         Following!Killed, Following!MessageAck, Following!vars, FollowerInv, FollowerTypes
  <2>4. own' = own /\ runs' = runs /\ execs' = execs /\ asReleased' = asReleased
    BY <1>1 DEF Still
  <2>5. execs \in Nat /\ followerFaults \in Nat /\ followerFaults' \in Nat
    BY <1>4 DEF FollowerInv, FollowerTypes
  <2> QED BY <2>1, <2>2, <2>3, <2>4, <2>5 DEF FollowerInv, Counts, NewerThanFirst
<1>9. Grows' BY <1>1 DEF FollowerInv, Grows, Still
<1>7. Following!AppliedIsInstalled' BY <1>1, <1>3 DEF FollowerInv, Following!AppliedIsInstalled,
    Still
<1>8. Following!AckedIsInstalled' BY <1>1, <1>2 DEF FollowerInv, Following!AckedIsInstalled, Still
<1> QED BY <1>4, <1>5, <1>6, <1>7, <1>8, <1>9 DEF FollowerInv

LEMMA ReceiveKeeps == ASSUME FollowerConstants, FollowerInv, Following!Receive PROVE FollowerInv'
<1>1. PICK i \in Following!NextOf(cursor), fails \in BOOLEAN :
        /\ printed' = printed \cup {i} /\ cursor' = i
        /\ IF Following!UpdateRequestFor(i)
           THEN /\ Following!Moves("streaming", "applying")
                /\ request' = i /\ Following!Reports(i, "in_progress", fails)
                     /\ Following!Fails(fails)
           ELSE /\ Following!Moves("streaming", "streaming") /\ ~fails
                /\ UNCHANGED <<request, status, followerFaults>>
        /\ UNCHANGED <<acked, installed, had, asReleased, execs>>
  BY DEF Following!Receive, Following!past
<1>2. i \in Following!Sent /\ i \notin acked BY DEF Following!NextOf
<1> USE DEF Following!Moves, Following!setup
<1>3. Still /\ acked' = acked /\ followerAt = "streaming" /\ starts' = starts BY <1>1 DEF Still
<1>4. Following!Sent' = Following!Sent BY <1>3 DEF Still, Following!Sent
<1>5. /\ status' \in [1 .. MaxMessages -> {"none", "in_progress", "applied", "declined", "failed"}]
      /\ \A j \in 1 .. MaxMessages :
           status'[j] = status[j] \/ (j = i /\ status'[j] = "in_progress")
  <2>1. CASE Following!UpdateRequestFor(i) BY <1>1, <1>2, <2>1, ReportChanges
  <2>2. CASE ~Following!UpdateRequestFor(i) BY <1>1, <2>2 DEF FollowerInv, FollowerTypes
  <2> QED BY <2>1, <2>2
<1>6. followerAt' \in {"applying", "streaming"} /\ request' \in 0 .. Len(inbox)
        /\ followerFaults' \in 0 .. MaxFollowerFaults
  BY <1>1, <1>2 DEF FollowerInv, FollowerTypes, Following!Sent, Following!Fails, FollowerConstants
<1>7. FollowerTypes'
  BY <1>1, <1>2, <1>3, <1>4, <1>5, <1>6 DEF FollowerInv, FollowerTypes, Still, Following!Sent,
    FollowerPlaces, Following!Following
<1>8. Applies'
  <2>1. runs = installed BY <1>3 DEF FollowerInv, Applies, Following!Following
  <2>2. followerAt' = "applying" => request' = i /\ i # 0 /\ inbox[i] # 0 /\ i \notin acked'
    BY <1>1, <1>2, <1>3 DEF Following!UpdateRequestFor, Following!Sent
  <2>3. \A j \in 1 .. MaxMessages : j > Len(inbox) => status'[j] = "none"
    BY <1>2, <1>5 DEF FollowerInv, Applies, Following!Sent, FollowerTypes
  <2> QED BY <1>3, <1>6, <2>1, <2>2, <2>3 DEF FollowerInv, Applies, Still, Following!Following
<1>9. Counts' /\ Grows'
  <2>1. Spent' = Spent BY <1>3 DEF Spent, Still
  <2>2. Cardinality(Spent) \in Nat BY SpentCounts DEF FollowerInv
  <2>3. followerFaults <= followerFaults' /\ followerFaults \in Nat /\ followerFaults' \in Nat
    BY <1>1, <1>6 DEF Following!Fails, FollowerInv, FollowerTypes
  <2>4. followerAt' # "exec" /\ execs \in Nat BY <1>6 DEF FollowerInv, FollowerTypes
  <2> QED BY <1>3, <2>1, <2>2, <2>3, <2>4 DEF FollowerInv, Counts, Grows, NewerThanFirst, Still
<1>10. Following!AppliedIsInstalled'
  BY <1>3, <1>4, <1>5 DEF FollowerInv, Following!AppliedIsInstalled, Still, FollowerTypes,
    Following!Sent, FollowerConstants
<1>11. Following!AckedIsInstalled' BY <1>3 DEF FollowerInv, Following!AckedIsInstalled, Still
<1> QED BY <1>7, <1>8, <1>9, <1>10, <1>11 DEF FollowerInv

LEMMA ApplyKeeps ==
  ASSUME FollowerConstants, FollowerInv, NEW fails \in BOOLEAN, NEW lost \in BOOLEAN,
         Following!ApplyAnnouncedUpdate(fails, lost)
  PROVE  FollowerInv'
<1> DEFINE result == Following!Outcome(inbox[request], fails)
<1> USE DEF Following!Moves, Following!setup
<1>1. /\ followerAt = "applying" /\ inbox' = inbox /\ runs' = runs /\ execs' = execs
      /\ selfUpdate' = selfUpdate /\ managed' = managed /\ own' = own /\ starts' = starts
      /\ acked' = acked /\ cursor' = cursor /\ printed' = printed
  BY DEF Following!ApplyAnnouncedUpdate
<1>2. Following!Sent' = Following!Sent BY <1>1 DEF Following!Sent
<1>3. /\ request \in Following!Sent /\ inbox[request] \in Announced /\ runs = installed
      /\ runs \in Nat /\ inbox[request] \in Nat
  <2>1. /\ request \in Following!Sent /\ inbox[request] # 0 /\ runs = installed
        /\ runs \in Announced /\ inbox \in Seq(Announced \cup {0})
    BY <1>1 DEF FollowerInv, Applies, FollowerTypes, Following!Sent
  <2>2. \A v \in Announced : v \in Nat BY DEF FollowerConstants
  <2>3. inbox[request] \in Announced \cup {0} BY <2>1 DEF Following!Sent
  <2> QED BY <2>1, <2>2, <2>3
<1>4. followerFaults' \in 0 .. MaxFollowerFaults /\ followerFaults <= followerFaults'
  <2> DEFINE failed == {x \in {<<"run", fails>>, <<"report", lost>>} : x[2]}
  <2>1. IsFiniteSet({<<"run", fails>>, <<"report", lost>>})
    <3>1. IsFiniteSet({<<"run", fails>>}) BY FS_Singleton
    <3>2. IsFiniteSet({<<"run", fails>>} \cup {<<"report", lost>>}) BY <3>1, FS_AddElement
    <3>3. {<<"run", fails>>} \cup {<<"report", lost>>} = {<<"run", fails>>, <<"report", lost>>}
      OBVIOUS
    <3> QED BY <3>2, <3>3
  <2>2. failed \subseteq {<<"run", fails>>, <<"report", lost>>} OBVIOUS
  <2>3. Cardinality(failed) \in Nat
    <3> HIDE DEF failed
    <3> QED BY <2>1, <2>2, FS_Subset, FS_CardinalityType
  <2>4. followerFaults' = followerFaults + Cardinality(failed)
          /\ followerFaults' <= MaxFollowerFaults
    BY SameSizes DEF Following!ApplyAnnouncedUpdate
  <2> HIDE DEF failed
  <2> QED BY <2>3, <2>4 DEF FollowerInv, FollowerTypes, FollowerConstants
<1>5. Cardinality(Spent) \in Nat /\ Spent' = Spent
  BY <1>1, SpentCounts DEF FollowerInv, Spent
<1>6. followerFaults <= followerFaults' /\ followerFaults \in Nat /\ followerFaults' \in Nat
  BY <1>4 DEF FollowerInv, FollowerTypes, FollowerConstants
<1>7. ASSUME followerAt' # "exec", asReleased' => asReleased
      PROVE  Counts'
  BY <1>1, <1>5, <1>6, <1>7 DEF FollowerInv, FollowerTypes, Counts, NewerThanFirst
<1>8. CASE result = "updated"
  <2>1. PICK reported \in Reported[inbox[request]] :
          /\ installed' = reported
          /\ had' = had \cup {inbox[request], reported}
          /\ asReleased' = (asReleased /\ reported = inbox[request])
    BY <1>8 DEF Following!ApplyAnnouncedUpdate, Following!Installs
  <2>2. followerAt' = "installed" /\ request' = request /\ status' = status
    BY <1>8 DEF Following!ApplyAnnouncedUpdate
  <2>3. runs < inbox[request] BY <1>3, <1>8 DEF Following!Outcome
  <2>4. reported \in Announced /\ reported \in Nat BY <1>3 DEF FollowerConstants
  <2> HIDE DEF result
  <2>5. FollowerTypes'
    BY <1>1, <1>2, <1>3, <1>4, <2>1, <2>2, <2>4 DEF FollowerInv, FollowerTypes, FollowerPlaces
  <2>6. Applies' BY <1>1, <1>3, <2>1, <2>2, <2>3 DEF FollowerInv, Applies, Following!Following
  <2>7. Grows'
    <3> SUFFICES ASSUME asReleased'
                 PROVE  Initial <= runs /\ runs <= installed' /\ \A v \in had' : v <= installed'
      BY <1>1 DEF Grows
    <3>1. asReleased /\ installed' = inbox[request] /\ had' = had \cup {inbox[request]} BY <2>1
    <3>2. Initial <= runs /\ \A v \in had : v <= runs BY <1>3, <3>1 DEF FollowerInv, Grows
    <3>3. \A v \in had : v \in Nat BY DEF FollowerInv, FollowerTypes, FollowerConstants
    <3> QED BY <1>3, <2>3, <3>1, <3>2, <3>3
  <2>8. Counts' BY <1>7, <2>1, <2>2
  <2>9. Following!AppliedIsInstalled' BY <1>1, <1>2, <2>1, <2>2 DEF FollowerInv,
      Following!AppliedIsInstalled
  <2>10. Following!AckedIsInstalled' BY <1>1, <2>1 DEF FollowerInv, Following!AckedIsInstalled
  <2> QED BY <2>5, <2>6, <2>7, <2>8, <2>9, <2>10 DEF FollowerInv
<1>9. CASE result # "updated"
  <2>1. /\ followerAt' = "returned" /\ installed' = installed /\ request' = 0
        /\ had' = had /\ asReleased' = asReleased
        /\ Following!Reports(request, Following!Told(result), lost)
    BY <1>9 DEF Following!ApplyAnnouncedUpdate, Following!past
  <2>2. result \in {"current", "failed", "declined"} BY <1>3, <1>9 DEF Following!Outcome
  <2>3. /\ Following!Told(result) \in {"applied", "failed", "declined"}
        /\ Following!Told(result) = "applied" => inbox[request] = runs
    BY <1>3, <2>2 DEF Following!Told, Following!Outcome
  <2>4. /\ status' \in [1 .. MaxMessages ->
                          {"none", "in_progress", "applied", "declined", "failed"}]
        /\ \A j \in 1 .. MaxMessages :
             status'[j] \in {status[j]} \cup IF j = request THEN {Following!Told(result)} ELSE {}
    <3> HIDE DEF result
    <3> QED BY <1>3, <2>1, <2>3, ReportChanges
  <2> HIDE DEF result
  <2>5. FollowerTypes' BY <1>1, <1>2, <1>4, <2>1, <2>4 DEF FollowerInv, FollowerTypes,
      FollowerPlaces, Following!Ended
  <2>6. \A j \in 1 .. MaxMessages : j > Len(inbox) => status'[j] = "none"
    BY <1>3, <2>4 DEF FollowerInv, Applies, Following!Sent
  <2>7. Applies' BY <1>1, <2>1, <2>6 DEF FollowerInv, Applies, Following!Following
  <2>8. Counts' /\ Grows' BY <1>1, <1>7, <2>1 DEF FollowerInv, Grows
  <2>9. \A i \in Following!Sent : i \in 1 .. MaxMessages BY DEF FollowerInv, FollowerTypes,
      Following!Sent, FollowerConstants
  <2>10. Following!AppliedIsInstalled'
    <3> SUFFICES ASSUME NEW i \in Following!Sent,
                          status'[i] = "applied" PROVE inbox[i] \in had
      BY <1>1, <1>2, <2>1 DEF Following!AppliedIsInstalled
    <3>1. CASE status[i] = "applied" BY <3>1 DEF FollowerInv, Following!AppliedIsInstalled
    <3>2. CASE status[i] # "applied"
      <4>1. i = request /\ Following!Told(result) = "applied" BY <2>4, <2>9, <3>2
      <4> QED BY <1>3, <2>3, <4>1 DEF FollowerInv, Applies
    <3> QED BY <3>1, <3>2
  <2>11. Following!AckedIsInstalled' BY <1>1, <2>1 DEF FollowerInv, Following!AckedIsInstalled
  <2> QED BY <2>5, <2>7, <2>8, <2>10, <2>11 DEF FollowerInv
<1> QED BY <1>8, <1>9

LEMMA ReportAppliedKeeps ==
  ASSUME FollowerConstants, FollowerInv, NEW fails \in BOOLEAN,
    Following!ReportApplied(fails) PROVE FollowerInv'
<1> USE DEF Following!Moves, Following!setup, Following!past
<1>1. /\ followerAt = "installed" /\ followerAt' = "acking" /\ Still /\ starts' = starts
      /\ acked' = acked /\ cursor' = cursor /\ printed' = printed /\ request' = request
      /\ Following!Reports(request, "applied", fails) /\ Following!Fails(fails)
  BY DEF Following!ReportApplied, Still
<1>2. Following!Sent' = Following!Sent BY <1>1 DEF Still, Following!Sent
<1>3. request \in Following!Sent /\ inbox[request] \in had
  BY <1>1 DEF FollowerInv, Applies, FollowerTypes, Following!Sent, FollowerConstants
<1>4. /\ status' \in [1 .. MaxMessages -> {"none", "in_progress", "applied", "declined", "failed"}]
      /\ \A j \in 1 .. MaxMessages :
           status'[j] \in {status[j]} \cup IF j = request THEN {"applied"} ELSE {}
  BY <1>1, <1>3, ReportChanges
<1>5. followerFaults' \in 0 .. MaxFollowerFaults BY <1>1 DEF FollowerInv, FollowerTypes,
    Following!Fails, FollowerConstants
<1>6. FollowerTypes' BY <1>1, <1>2, <1>4, <1>5 DEF FollowerInv, FollowerTypes, Still,
    FollowerPlaces
<1>7. \A j \in 1 .. MaxMessages : j > Len(inbox) => status'[j] = "none"
  BY <1>3, <1>4 DEF FollowerInv, Applies, Following!Sent
<1>8. Applies' BY <1>1, <1>7 DEF FollowerInv, Applies, Still, Following!Following
<1>9. Counts' /\ Grows'
  <2>1. Spent' = Spent BY <1>1 DEF Spent, Still
  <2>2. Cardinality(Spent) \in Nat BY SpentCounts DEF FollowerInv
  <2>3. followerFaults <= followerFaults' /\ followerFaults \in Nat /\ followerFaults' \in Nat
    BY <1>1, <1>5 DEF Following!Fails, FollowerInv, FollowerTypes
  <2>4. execs \in Nat BY DEF FollowerInv, FollowerTypes
  <2> QED BY <1>1, <2>1, <2>2, <2>3, <2>4 DEF FollowerInv, Counts, Grows, NewerThanFirst, Still
<1>10. \A i \in Following!Sent : i \in 1 .. MaxMessages BY DEF FollowerInv, FollowerTypes,
    Following!Sent, FollowerConstants
<1>11. Following!AppliedIsInstalled'
  BY <1>1, <1>2, <1>3, <1>4, <1>10 DEF FollowerInv, Following!AppliedIsInstalled, Still
<1>12. Following!AckedIsInstalled' BY <1>1 DEF FollowerInv, Following!AckedIsInstalled, Still
<1> QED BY <1>6, <1>8, <1>9, <1>11, <1>12 DEF FollowerInv

LEMMA AckKeeps ==
  ASSUME FollowerConstants, FollowerInv, NEW fails \in BOOLEAN,
    Following!AckUpdateMessage(fails) PROVE FollowerInv'
<1> USE DEF Following!Moves, Following!setup, Following!past
<1>1. /\ followerAt = "acking" /\ followerAt' = "exec" /\ Still /\ starts' = starts
           /\ status' = status
      /\ cursor' = cursor /\ printed' = printed /\ request' = request
      /\ Following!Fails(fails) /\ acked' \in {acked, acked \cup {request}}
      /\ own => (fails /\ acked' = acked) \/ (~fails /\ acked' = acked \cup {request})
  BY DEF Following!AckUpdateMessage, Still
<1>2. Following!Sent' = Following!Sent BY <1>1 DEF Still, Following!Sent
<1>3. request \in Following!Sent /\ inbox[request] \in had /\ inbox[request] # 0
        /\ request \notin acked
  BY <1>1 DEF FollowerInv, Applies, FollowerTypes, Following!Sent, FollowerConstants
<1>4. followerFaults' \in 0 .. MaxFollowerFaults BY <1>1 DEF FollowerInv, FollowerTypes,
    Following!Fails, FollowerConstants
<1>5. FollowerTypes' BY <1>1, <1>2, <1>3, <1>4 DEF FollowerInv, FollowerTypes, Still,
    FollowerPlaces
<1>6. Applies' BY <1>1 DEF FollowerInv, Applies, Still, Following!Following
<1>7. Counts'
  <2>1. /\ IsFiniteSet(Spent) /\ Cardinality(Spent) \in Nat
        /\ execs \in Nat /\ followerFaults \in Nat /\ followerFaults' \in Nat
        /\ (followerFaults' = IF fails THEN followerFaults + 1 ELSE followerFaults)
    BY <1>1, <1>4, SpentCounts DEF FollowerInv, FollowerTypes, Following!Fails
  <2>2. ASSUME own PROVE execs + 1 <= Cardinality(Spent') + followerFaults'
    <3>1. execs <= Cardinality(Spent) + followerFaults BY <1>1, <2>2, <2>1 DEF FollowerInv, Counts
    <3>2. CASE fails
      <4>1. Spent' = Spent BY <1>1, <2>2, <3>2 DEF Spent, Still
      <4> QED BY <2>1, <3>1, <3>2, <4>1
    <3>3. CASE ~fails
      <4>1. Spent' = Spent \cup {request} BY <1>1, <1>3, <2>2, <3>3 DEF Spent, Still
      <4>2. request \notin Spent BY <1>3 DEF Spent
      <4>3. Cardinality(Spent') = Cardinality(Spent) + 1 BY <2>1, <4>1, <4>2, FS_AddElement
      <4> QED BY <2>1, <3>1, <3>3, <4>3
    <3> QED BY <3>2, <3>3
  <2> QED BY <1>1, <2>2 DEF FollowerInv, Counts, NewerThanFirst, Still
<1>10. Grows' BY <1>1 DEF FollowerInv, Grows, Still
<1>8. Following!AppliedIsInstalled' BY <1>1, <1>2 DEF FollowerInv, Following!AppliedIsInstalled,
    Still
<1>9. Following!AckedIsInstalled' BY <1>1, <1>3 DEF FollowerInv, Following!AckedIsInstalled, Still
<1> QED BY <1>5, <1>6, <1>7, <1>8, <1>9, <1>10 DEF FollowerInv

(* What it becomes is newer than what it was, or is what it was not        *)
(* released as: so the count has room.                                     *)
LEMMA RestartKeeps == ASSUME FollowerConstants, FollowerInv, Following!Restart PROVE FollowerInv'
<1> USE DEF Following!setup, Following!past, Following!Restart
<1>1. Following!Sent' = Following!Sent BY DEF Following!Sent
<1>2. /\ runs \in Announced /\ installed \in Announced /\ installed \in Nat /\ Initial \in Nat
      /\ runs \in Nat /\ execs \in Nat /\ (asReleased => runs < installed)
  BY DEF FollowerInv, Applies, FollowerTypes, FollowerConstants
<1>3. FollowerTypes' BY <1>1 DEF FollowerInv, FollowerTypes, FollowerPlaces, Following!Following,
    FollowerConstants
<1>4. Applies' BY <1>2 DEF FollowerInv, Applies, Following!Following
<1>5. Grows' BY <1>2 DEF FollowerInv, Grows
<1>6. Counts'
  <2>1. ASSUME asReleased PROVE execs + 1 <= Cardinality(NewerThanFirst(installed))
    <3>1. Initial <= runs BY <2>1 DEF FollowerInv, Grows
    <3>2. /\ Cardinality(NewerThanFirst(runs)) < Cardinality(NewerThanFirst(installed))
          /\ Cardinality(NewerThanFirst(runs)) \in Nat
          /\ Cardinality(NewerThanFirst(installed)) \in Nat
      BY <1>2, <2>1, <3>1, NewerCounts
    <3> QED BY <1>2, <2>1, <3>2 DEF FollowerInv, Counts
  <2>2. Spent' = Spent BY DEF Spent
  <2>3. own => execs + 1 <= Cardinality(Spent) + followerFaults BY DEF FollowerInv, Counts
  <2>4. Cardinality(Spent) \in Nat /\ followerFaults \in Nat
    BY SpentCounts DEF FollowerInv, FollowerTypes
  <2> QED BY <1>2, <2>1, <2>2, <2>3, <2>4 DEF Counts, NewerThanFirst
<1>7. Following!AppliedIsInstalled' BY <1>1 DEF FollowerInv, Following!AppliedIsInstalled
<1>8. Following!AckedIsInstalled' BY DEF FollowerInv, Following!AckedIsInstalled
<1> QED BY <1>3, <1>4, <1>5, <1>6, <1>7, <1>8 DEF FollowerInv

LEMMA StartAgainKeeps ==
  ASSUME FollowerConstants, FollowerInv, Following!StartAgain
  PROVE  FollowerInv'
<1> USE DEF Following!setup, Following!past, Following!StartAgain
<1>1. Following!Sent' = Following!Sent BY DEF Following!Sent
<1>2. /\ runs \in Announced /\ installed \in Announced /\ installed \in Nat /\ Initial \in Nat
      /\ runs \in Nat /\ execs \in Nat /\ (asReleased => runs <= installed)
  BY DEF FollowerInv, Grows, FollowerTypes, FollowerConstants
<1>3. FollowerTypes' BY <1>1 DEF FollowerInv, FollowerTypes, FollowerPlaces, Following!Following,
    FollowerConstants
<1>4. Applies' BY <1>2 DEF FollowerInv, Applies, Following!Following, Following!Ended
<1>5. Grows' BY <1>2 DEF FollowerInv, Grows
<1>6. Counts'
  <2>1. ASSUME asReleased PROVE execs <= Cardinality(NewerThanFirst(installed))
    <3>1. /\ Cardinality(NewerThanFirst(runs)) <= Cardinality(NewerThanFirst(installed))
          /\ Cardinality(NewerThanFirst(runs)) \in Nat
          /\ Cardinality(NewerThanFirst(installed)) \in Nat
      BY <1>2, <2>1, NewerCounts
    <3> QED BY <1>2, <2>1, <3>1 DEF FollowerInv, Counts
  <2>2. Spent' = Spent /\ followerAt # "exec" BY DEF Spent, Following!Ended
  <2> QED BY <2>1, <2>2 DEF FollowerInv, Counts, NewerThanFirst
<1>7. Following!AppliedIsInstalled' BY <1>1 DEF FollowerInv, Following!AppliedIsInstalled
<1>8. Following!AckedIsInstalled' BY DEF FollowerInv, Following!AckedIsInstalled
<1> QED BY <1>3, <1>4, <1>5, <1>6, <1>7, <1>8 DEF FollowerInv

LEMMA FollowerStepKeeps ==
  ASSUME FollowerConstants, FollowerInv, [Following!Next]_(Following!vars)
  PROVE  FollowerInv'
<1>1. ASSUME NEW c \in Announced \cup {0}, Following!Send(c) PROVE FollowerInv' BY <1>1, SendKeeps
<1>2. CASE Following!TokenStarted \/ Following!Opened
             \/ (\E from \in Following!Following : Following!ReturnsError(from))
                  \/ Following!StreamEnds
             \/ Following!Reconnect \/ Following!RestartFails \/ Following!Interrupt
                  \/ Following!Killed \/ UNCHANGED Following!vars
             \/ (\E i \in Following!Sent : Following!MessageAck(i))
  BY <1>2, MovesKeep
<1>3. CASE Following!Receive BY <1>3, ReceiveKeeps
<1>4. ASSUME NEW fails \in BOOLEAN, NEW lost \in BOOLEAN, Following!ApplyAnnouncedUpdate(fails,
               lost)
      PROVE FollowerInv'
  BY <1>4, ApplyKeeps
<1>5. ASSUME NEW fails \in BOOLEAN, Following!ReportApplied(fails) PROVE FollowerInv' BY <1>5,
    ReportAppliedKeeps
<1>6. ASSUME NEW fails \in BOOLEAN, Following!AckUpdateMessage(fails) PROVE FollowerInv' BY <1>6,
    AckKeeps
<1>7. CASE Following!Restart BY <1>7, RestartKeeps
<1>8. CASE Following!StartAgain BY <1>8, StartAgainKeeps
<1> QED BY <1>1, <1>2, <1>3, <1>4, <1>5, <1>6, <1>7, <1>8 DEF Following!Next

(* cmd_message.go, cmd_selfupdate.go, apply.go: every restart of the       *)
(* follower uses up an announcement to its own worker or a failed call,    *)
(* and is for a newer version when binaries report what they are; what it  *)
(* reported as applied, or acknowledged, it has had, and then still has,   *)
(* whatever fails and however often it is killed.                          *)
THEOREM FollowerIsTrue == Following!Spec => []FollowerEnds
<1>1. ASSUME FollowerInv PROVE Following!RestartsEnd
  <2>1. ASSUME asReleased PROVE execs <= Cardinality(NewerThanFirst(installed))
    <3>1. runs \in Announced /\ installed \in Announced /\ runs <= installed
      BY <1>1, <2>1 DEF FollowerInv, Grows, FollowerTypes
    <3>2. /\ Cardinality(NewerThanFirst(runs)) <= Cardinality(NewerThanFirst(installed))
          /\ Cardinality(NewerThanFirst(runs)) \in Nat
          /\ Cardinality(NewerThanFirst(installed)) \in Nat
      BY <3>1, PartsAssumption, NewerCounts
    <3> QED BY <1>1, <2>1, <3>2 DEF FollowerInv, FollowerTypes, Counts
  <2>2. ASSUME own PROVE execs <= Cardinality(Spent) + followerFaults
    <3>1. Cardinality(Spent) \in Nat /\ execs \in Nat /\ followerFaults \in Nat
      BY <1>1, SpentCounts DEF FollowerInv, FollowerTypes
    <3> QED BY <1>1, <2>2, <3>1 DEF FollowerInv, Counts
  <2> QED BY <2>1, <2>2, SameSizes DEF Following!RestartsEnd, NewerThanFirst, Spent
<1>2. ASSUME FollowerInv PROVE Following!NothingIsUndone
  BY <1>2 DEF FollowerInv, Grows, Following!NothingIsUndone
<1>3. FollowerInv => FollowerEnds
  BY <1>1, <1>2, TypesAreTypeOK DEF FollowerInv, FollowerEnds
<1>4. Following!Init => FollowerInv BY PartsAssumption, FollowerBegins
<1>5. FollowerInv /\ [Following!Next]_(Following!vars) => FollowerInv'
  BY PartsAssumption, FollowerStepKeeps
<1> QED BY <1>3, <1>4, <1>5, PTL DEF Following!Spec

-----------------------------------------------------------------------------
(* An update of the binary.                                                *)

(***************************************************************************)
(* Proofs about SelfUpdate: for any number of processes, versions, updates *)
(* and faults, what is installed is whole, and the binary is lost only     *)
(* where a lock was taken over, a backup taken away or a rollback failed.  *)
(***************************************************************************)

-----------------------------------------------------------------------------
(* The inductive invariant, in parts. *)

(* A process that is on its way to an installation has a target, and what  *)
(* it staged has passed.                                                   *)
Targeted ==
  \A p \in Updater :
    /\ updaterAt[p] \in {"lock", "unlink", "relock", "download", "unbackup", "aside", "install"}
         => target[p] # None
    /\ updaterAt[p] \in {"unbackup", "aside", "install"} => staged[p] \in Version

(* Neither of the files is a download that did not pass. *)
Whole == exe \in Version \cup {None} /\ backup \in Version \cup {None}

(* Short of a disturbance the lock is its owner's, *)
OwnerIsInside ==
  ~disturbed => \A p \in Updater : updaterAt[p] # "relock"
    /\ (updaterAt[p] \in Updating!Inside => lock = p)

(* a backup is there for who may have to put it back, *)
BackupIsThere ==
  ~disturbed => \A p \in Updater : updaterAt[p] \in {"install", "restore"} => backup # None

(* and an executable that is missing is being moved by the owner of the    *)
(* lock, or was when its process ended.                                    *)
MissingIsMoved ==
  ~disturbed /\ exe = None =>
    /\ backup # None /\ lock # None
    /\ \A p \in Updater :
         updaterAt[p] \in Updating!Inside => updaterAt[p] \in {"install", "restore"}
    /\ \E p \in Updater : updaterAt[p] \in {"install", "restore"} \/ running[p] = None

UpdateInv == Updating!TypeOK /\ Targeted /\ Whole /\ OwnerIsInside /\ BackupIsThere
  /\ MissingIsMoved

-----------------------------------------------------------------------------
(* Every step keeps the types. *)
LEMMA UpdateTypes ==
  ASSUME UpdateConstants, Updating!TypeOK, [Updating!Next]_(Updating!vars)
  PROVE  Updating!TypeOK'
<1> USE DEF Updating!TypeOK, UpdateConstants, Updating!Places, Updating!Goes, Updating!Fails,
    Updating!Fault, Updating!Drop
<1>1. ASSUME NEW p \in Updater, NEW v \in Version, Updating!Run(p, v) PROVE Updating!TypeOK'
  BY <1>1 DEF Updating!Run
<1>2. ASSUME NEW p \in Updater, Updating!Lock(p) PROVE Updating!TypeOK'
  BY <1>2 DEF Updating!Lock
<1>3. ASSUME NEW p \in Updater, Updating!Unlink(p) PROVE Updating!TypeOK'
  BY <1>3 DEF Updating!Unlink
<1>4. ASSUME NEW p \in Updater, Updating!Relock(p) PROVE Updating!TypeOK'
  BY <1>4 DEF Updating!Relock
<1>5. ASSUME NEW p \in Updater, Updating!Download(p) PROVE Updating!TypeOK'
  BY <1>5 DEF Updating!Download, Updating!Passes
<1>6. ASSUME NEW p \in Updater, Updating!RemoveBackup(p) PROVE Updating!TypeOK'
  BY <1>6 DEF Updating!RemoveBackup
<1>7. ASSUME NEW p \in Updater, Updating!MoveAside(p) PROVE Updating!TypeOK'
  BY <1>7 DEF Updating!MoveAside
<1>8. ASSUME NEW p \in Updater, Updating!MoveAsideFails(p) PROVE Updating!TypeOK'
  BY <1>8 DEF Updating!MoveAsideFails
<1>9. ASSUME NEW p \in Updater, Updating!InstallNew(p) PROVE Updating!TypeOK'
  BY <1>9 DEF Updating!InstallNew
<1>10. ASSUME NEW p \in Updater, Updating!InstallFails(p) PROVE Updating!TypeOK'
  BY <1>10 DEF Updating!InstallFails, Updating!InstallFailed
<1>11. ASSUME NEW p \in Updater, Updating!Restore(p) PROVE Updating!TypeOK'
  BY <1>11 DEF Updating!Restore
<1>12. ASSUME NEW p \in Updater, Updating!RestoreFails(p) PROVE Updating!TypeOK'
  BY <1>12 DEF Updating!RestoreFails
<1>13. ASSUME NEW p \in Updater, Updating!Unlock(p) PROVE Updating!TypeOK'
  BY <1>13 DEF Updating!Unlock
<1>14. ASSUME NEW p \in Updater, Updating!CleanupBackup(p) PROVE Updating!TypeOK'
  BY <1>14 DEF Updating!CleanupBackup
<1>15. ASSUME NEW p \in Updater, Updating!Exec(p) PROVE Updating!TypeOK'
  BY <1>15 DEF Updating!Exec
<1>16. ASSUME NEW p \in Updater, Updating!Crash(p) PROVE Updating!TypeOK'
  BY <1>16 DEF Updating!Crash
<1>17. ASSUME NEW p \in Updater, Updating!Start(p) PROVE Updating!TypeOK'
  BY <1>17 DEF Updating!Start
<1>18. CASE Updating!Age BY <1>18 DEF Updating!Age
<1>19. CASE UNCHANGED Updating!vars BY <1>19 DEF Updating!vars
<1> QED BY <1>1, <1>2, <1>3, <1>4, <1>5, <1>6, <1>7, <1>8, <1>9, <1>10, <1>11, <1>12,
           <1>13, <1>14, <1>15, <1>16, <1>17, <1>18, <1>19 DEF Updating!Next

(* Every step keeps the rest. *)
LEMMA UpdateStepKeeps ==
  ASSUME UpdateConstants, UpdateInv, [Updating!Next]_(Updating!vars)
  PROVE  UpdateInv'
<1> USE DEF UpdateInv, UpdateConstants, Targeted, Whole, OwnerIsInside, BackupIsThere,
    MissingIsMoved,
            Updating!Goes, Updating!Fails, Updating!Fault, Updating!Drop, Updating!Inside
<1>0. Updating!TypeOK' BY UpdateTypes
<1>1. ASSUME NEW p \in Updater, NEW v \in Version, Updating!Run(p, v) PROVE UpdateInv'
  BY <1>0, <1>1 DEF Updating!Run, Updating!TypeOK
<1>2. ASSUME NEW p \in Updater, Updating!Lock(p) PROVE UpdateInv'
  BY <1>0, <1>2 DEF Updating!Lock, Updating!TypeOK
<1>3. ASSUME NEW p \in Updater, Updating!Unlink(p) \/ Updating!Relock(p) PROVE UpdateInv'
  BY <1>0, <1>3 DEF Updating!Unlink, Updating!Relock, Updating!TypeOK
<1>4. ASSUME NEW p \in Updater, Updating!Download(p) PROVE UpdateInv'
  BY <1>0, <1>4 DEF Updating!Download, Updating!Passes, Updating!TypeOK
<1>5. ASSUME NEW p \in Updater, Updating!RemoveBackup(p) PROVE UpdateInv'
  BY <1>0, <1>5 DEF Updating!RemoveBackup, Updating!TypeOK
<1>6. ASSUME NEW p \in Updater, Updating!MoveAside(p) PROVE UpdateInv'
  BY <1>0, <1>6 DEF Updating!MoveAside, Updating!TypeOK
<1>7. ASSUME NEW p \in Updater, Updating!MoveAsideFails(p) PROVE UpdateInv'
  BY <1>0, <1>7 DEF Updating!MoveAsideFails, Updating!TypeOK
<1>8. ASSUME NEW p \in Updater, Updating!InstallNew(p) PROVE UpdateInv'
  BY <1>0, <1>8 DEF Updating!InstallNew, Updating!TypeOK
<1>9. ASSUME NEW p \in Updater, Updating!InstallFails(p) PROVE UpdateInv'
  BY <1>0, <1>9 DEF Updating!InstallFails, Updating!InstallFailed, Updating!TypeOK
<1>10. ASSUME NEW p \in Updater, Updating!Restore(p) PROVE UpdateInv'
  BY <1>0, <1>10 DEF Updating!Restore, Updating!TypeOK
<1>11. ASSUME NEW p \in Updater, Updating!RestoreFails(p) PROVE UpdateInv'
  BY <1>0, <1>11 DEF Updating!RestoreFails, Updating!TypeOK
<1>12. ASSUME NEW p \in Updater, Updating!Unlock(p) PROVE UpdateInv'
  BY <1>0, <1>12 DEF Updating!Unlock, Updating!TypeOK
<1>13. ASSUME NEW p \in Updater, Updating!CleanupBackup(p) PROVE UpdateInv'
  BY <1>0, <1>13 DEF Updating!CleanupBackup, Updating!TypeOK
<1>14. ASSUME NEW p \in Updater, Updating!Exec(p) PROVE UpdateInv'
  BY <1>0, <1>14 DEF Updating!Exec, Updating!TypeOK
<1>15. ASSUME NEW p \in Updater, Updating!Crash(p) PROVE UpdateInv'
  BY <1>0, <1>15 DEF Updating!Crash, Updating!TypeOK
<1>16. ASSUME NEW p \in Updater, Updating!Start(p) PROVE UpdateInv'
  BY <1>0, <1>16 DEF Updating!Start, Updating!TypeOK
<1>17. CASE Updating!Age \/ UNCHANGED Updating!vars
  BY <1>0, <1>17 DEF Updating!Age, Updating!vars, Updating!TypeOK
<1> QED BY <1>1, <1>2, <1>3, <1>4, <1>5, <1>6, <1>7, <1>8, <1>9, <1>10, <1>11, <1>12,
           <1>13,
           <1>14, <1>15, <1>16, <1>17 DEF Updating!Next

-----------------------------------------------------------------------------
(* The three facts about the invariant. *)
LEMMA UpdateBegins ==
  ASSUME UpdateConstants
  PROVE  Updating!Init => UpdateInv
<1> SUFFICES ASSUME Updating!Init PROVE UpdateInv OBVIOUS
<1> USE DEF Updating!Init, UpdateConstants
<1>1. Updating!TypeOK
  <2>1. updates \in 0 .. MaxUpdates /\ updateFaults \in 0 .. MaxUpdateFaults BY SMT
  <2>2. stale \in BOOLEAN /\ disturbed \in BOOLEAN BY Zenon
  <2>3. {exe, backup} \subseteq Version \cup {Bad, None} /\ lock \in Updater \cup {None}
    BY SMT
  <2>4. /\ updaterAt \in [Updater -> Updating!Places]
        /\ running \in [Updater -> Version \cup {None}]
        /\ target \in [Updater -> Version \cup {None}]
        /\ staged \in [Updater -> Version \cup {Bad, None}]
    BY SMT DEF Updating!Places
  <2> QED BY <2>1, <2>2, <2>3, <2>4 DEF Updating!TypeOK
<1>2. Targeted /\ Whole BY DEF Targeted, Whole
<1>3. OwnerIsInside /\ BackupIsThere BY DEF OwnerIsInside, BackupIsThere, Updating!Inside
<1>4. MissingIsMoved BY DEF MissingIsMoved
<1> QED BY <1>1, <1>2, <1>3, <1>4 DEF UpdateInv

(* It holds of every behaviour. *)
LEMMA UpdateInvHolds ==
  ASSUME UpdateConstants
  PROVE  Updating!Spec => []UpdateInv
<1>1. Updating!Init => UpdateInv BY UpdateBegins
<1>2. UpdateInv /\ [Updating!Next]_(Updating!vars) => UpdateInv' BY UpdateStepKeeps
<1> QED BY <1>1, <1>2, PTL DEF Updating!Spec

(* apply.go, update.go: what is installed passed the checksum and the      *)
(* smoke test; the lock excludes, and there is a binary at its place or    *)
(* beside it at every step, unless a lock was taken over, the backup of    *)
(* another update removed, or a rollback failed; while no process has      *)
(* ended, it is missing only between the two renames.                      *)
THEOREM UpdatesAreTrue == Updating!Spec => []SwapSound
<1>1. ASSUME UpdateInv PROVE SwapSound
  <2>1. Updating!OnlyWhole
    BY <1>1, PartsAssumption DEF UpdateInv, Whole, Updating!OnlyWhole, UpdateConstants
  <2>2. Updating!LostOnlyWhenDisturbed
    BY <1>1 DEF UpdateInv, OwnerIsInside, MissingIsMoved, Updating!LostOnlyWhenDisturbed,
                Updating!BinaryKept
  <2>3. Updating!MissingOnlyWhileMoved
    BY <1>1 DEF UpdateInv, MissingIsMoved, Updating!MissingOnlyWhileMoved
  <2> QED BY <1>1, <2>1, <2>2, <2>3 DEF UpdateInv, SwapSound
<1> QED BY <1>1, PartsAssumption, UpdateInvHolds, PTL

(* apply.go:47: when the binary cannot be moved aside, nothing was         *)
(* changed; there is a binary then, unless something had disturbed it.     *)
THEOREM NothingIsLostByFailing ==
  Updating!Spec => [][\A p \in Updater :
                      updaterAt[p] = "aside" /\ updaterAt'[p] = "unlock"
                        /\ ~disturbed' => exe' # None]_(Updating!vars)
<1> DEFINE A == \A p \in Updater :
                  updaterAt[p] = "aside" /\ updaterAt'[p] = "unlock" /\ ~disturbed' => exe' # None
<1>1. ASSUME UpdateInv, UpdateInv', [Updating!Next]_(Updating!vars) PROVE A
  <2> SUFFICES ASSUME NEW p \in Updater, updaterAt'[p] = "unlock", ~disturbed' PROVE exe' # None
    OBVIOUS
  <2> QED BY <1>1 DEF UpdateInv, MissingIsMoved, Updating!Inside
<1> HIDE DEF A
<1>2. Updating!Spec => [][A]_(Updating!vars)
  BY <1>1, PartsAssumption, UpdateInvHolds, PTL DEF Updating!Spec
<1> QED BY <1>2 DEF A

-----------------------------------------------------------------------------
(* The removal of a scope.                                                 *)

Deleting == {"unstore", "revoke", "unschedule"}

(* Of the things the scope names, those that are left are still listed, or *)
(* were written since.                                                     *)
Left ==
  /\ todo \subseteq Scoped
  /\ removalAt = "schedules" /\ todo # {} => Removal!Matching("schedule") \subseteq todo \cup late
  /\ removalAt = "objects" /\ todo # {} => Removal!Matching("object") \subseteq todo \cup late
  /\ removalAt \in {"objects", "reports"}
       \/ outcome = "done" => Removal!Matching("schedule") \subseteq late
  /\ removalAt = "reports" \/ outcome = "done" => Removal!Matching("object") \subseteq late
  /\ outcome = "done" => Removal!Matching("report") \subseteq late
  /\ removalAt \in {"workers", "reports"} \cup Deleting => todo = {}
  /\ outcome = "done" => removalAt = "idle"

(* The worker that is being deleted apart, one that is off the chart is    *)
(* out of the store and revoked, unless a cascade was broken off.          *)
Partial == IF removalAt \in Deleting THEN {Removing[next]} ELSE {}

Cascade ==
  /\ \A w \in Removal!Subtree \ Partial : w \in chart \/ (w \notin stored /\ w \in revokedScope)
  /\ removalAt \in Deleting => Removing[next] \notin chart
  /\ removalAt \in {"revoke", "unschedule"} => Removing[next] \notin stored
  /\ removalAt = "idle" \/ (removalAt = "workers" /\ next = 1) => chart \in {Removal!Subtree, {}}
  /\ removalAt \in {"workers"} \cup Deleting =>
       \A i \in 1 .. Len(Removing) : i < next => Removing[i] \notin chart
  /\ removalAt \in {"schedules", "objects", "reports"} \/ outcome = "done" => chart = {}
  /\ writes = 0 =>
       \A t \in things : Kind[t] = "schedule" /\ OwnerOf[t] \in Removal!Subtree \ Partial
                         => OwnerOf[t] \in chart

(* What was taken was the scope's or a removed worker's, and a dry run     *)
(* shows what is the scope's.                                              *)
Taken ==
  /\ removalAt \in Deleting => next <= Len(Removing)
  /\ removalAt = "unschedule" => Removing[next] \in revokedScope
  /\ \A t \in Thing \ things : t \in Scoped \/ (Kind[t] = "schedule"
       /\ OwnerOf[t] \in revokedScope)
  /\ removals = 0 => chart = Removal!Subtree /\ things = Thing /\ removalAt = "idle"
       /\ outcome = "none"
  /\ preview # {} => preview = Removal!Subtree \cup Scoped
  /\ writes = 0 => admitted = {} /\ late = {}

RemovalInv == Removal!TypeOK /\ Left /\ Taken /\ (~brokeOff => Cascade)

LEMMA RootIsOfIt ==
  ASSUME RemovalConstants
  PROVE  /\ Len(Removing) \in Nat /\ Removal!Root \in Removal!Subtree
         /\ \A i \in 1 .. Len(Removing) : Removing[i] \in Removal!Subtree
         /\ \A w \in Removal!Subtree : \E i \in 1 .. Len(Removing) : w = Removing[i]
  BY DEF RemovalConstants, Removal!Root, Removal!Subtree

LEMMA RemovalBegins == ASSUME RemovalConstants, Removal!Init PROVE RemovalInv
<1> USE RootIsOfIt
<1>1. Removal!TypeOK
  <2>1. next \in 1 .. Len(Removing) + 1 BY DEF Removal!Init
  <2>2. removals \in 0 .. MaxRemovals /\ writes \in 0 .. MaxWrites BY DEF Removal!Init,
      RemovalConstants
  <2>3. admitted \subseteq Removal!Subtree \X Thing
          /\ preview \subseteq Removal!Subtree \cup Thing BY DEF Removal!Init
  <2> QED BY <2>1, <2>2, <2>3 DEF Removal!Init, Removal!TypeOK, Removal!Steps
<1>2. Left BY DEF Removal!Init, Left, Deleting
<1>3. Taken BY DEF Removal!Init, Taken, Deleting
<1>4. Cascade BY DEF Removal!Init, Cascade, Partial, Deleting
<1> QED BY <1>1, <1>2, <1>3, <1>4 DEF RemovalInv

LEMMA RemovalTypes ==
  ASSUME RemovalConstants, RemovalInv, [Removal!Next]_(Removal!vars)
  PROVE  Removal!TypeOK'
<1> USE DEF RemovalInv, Removal!TypeOK, Removal!Same, Removal!Steps
<1>0. Len(Removing) \in Nat /\ MaxRemovals \in Nat /\ MaxWrites \in Nat BY RootIsOfIt
    DEF RemovalConstants
<1>1. ASSUME NEW w \in Removal!Subtree, NEW t \in Thing, Removal!Admit(w, t) \/ Removal!Act(w,
               t) PROVE Removal!TypeOK'
  <2>1. admitted' \subseteq Removal!Subtree \X Thing BY <1>1 DEF Removal!Admit, Removal!Act
  <2>2. things' \subseteq Thing /\ late' \subseteq Thing BY <1>1 DEF Removal!Admit, Removal!Act
  <2>3. writes' \in 0 .. MaxWrites BY <1>0, <1>1 DEF Removal!Admit, Removal!Act
  <2> QED BY <1>1, <2>1, <2>2, <2>3 DEF Removal!Admit, Removal!Act
<1>2. CASE Removal!RunServerRemoveScope BY <1>0, <1>2 DEF Removal!RunServerRemoveScope
<1>3. CASE Removal!Fails
  <2>1. brokeOff' \in BOOLEAN BY <1>3 DEF Removal!Fails
  <2> QED BY <1>3, <2>1 DEF Removal!Fails
<1>12. CASE Removal!DryRun BY <1>12 DEF Removal!DryRun, Removal!Matching, Removal!Of
<1>4. CASE Removal!RootIsGone \/ Removal!RemoveFromStore \/ Removal!WorkersRemoved
  BY <1>4 DEF Removal!RootIsGone, Removal!RemoveFromStore, Removal!WorkersRemoved
<1>5. CASE Removal!RemoveFromChart
  BY <1>0, <1>5 DEF Removal!RemoveFromChart
<1>6. CASE Removal!Revoke
  BY <1>0, <1>6, RootIsOfIt DEF Removal!Revoke, Taken, Deleting
<1>7. CASE Removal!DeleteWorkerSchedules
  BY <1>0, <1>7 DEF Removal!DeleteWorkerSchedules, Taken, Deleting
<1>8. ASSUME NEW step \in Removal!Steps, NEW kind, NEW then \in Removal!Steps,
               Removal!List(step, kind, then) PROVE Removal!TypeOK'
  BY <1>8 DEF Removal!List, Removal!Matching, Removal!Of
<1>9. ASSUME NEW t \in todo, NEW then \in Removal!Steps, Removal!DeleteListed(t,
               then) PROVE Removal!TypeOK'
  BY <1>9 DEF Removal!DeleteListed
<1>10. CASE Removal!PurgeReports BY <1>10 DEF Removal!PurgeReports
<1>11. CASE UNCHANGED Removal!vars BY <1>11 DEF Removal!vars
<1> QED
  BY <1>1, <1>2, <1>3, <1>4, <1>5, <1>6, <1>7, <1>8, <1>9, <1>10, <1>11, <1>12 DEF Removal!Next

LEMMA LeftStep == ASSUME RemovalConstants, RemovalInv, [Removal!Next]_(Removal!vars) PROVE Left'
<1> USE DEF RemovalInv, Removal!TypeOK, Removal!Same, Left, Removal!Matching, Removal!Of, Deleting
<1>1. ASSUME NEW w \in Removal!Subtree, NEW t \in Thing, Removal!Admit(w, t) \/ Removal!Act(w,
               t) PROVE Left'
  BY <1>1 DEF Removal!Admit, Removal!Act, Taken
<1>2. CASE Removal!RunServerRemoveScope \/ Removal!Fails BY <1>2 DEF Removal!RunServerRemoveScope,
    Removal!Fails
<1>3. CASE Removal!DryRun BY <1>3 DEF Removal!DryRun
<1>4. CASE Removal!RootIsGone \/ Removal!RemoveFromStore \/ Removal!WorkersRemoved
  BY <1>4 DEF Removal!RootIsGone, Removal!RemoveFromStore, Removal!WorkersRemoved
<1>5. CASE Removal!RemoveFromChart BY <1>5 DEF Removal!RemoveFromChart
<1>6. CASE Removal!Revoke BY <1>6 DEF Removal!Revoke
<1>7. CASE Removal!DeleteWorkerSchedules BY <1>7 DEF Removal!DeleteWorkerSchedules
<1>8. CASE Removal!List("schedules", "schedule", "objects") BY <1>8 DEF Removal!List
<1>9. CASE Removal!List("objects", "object", "reports") BY <1>9 DEF Removal!List
<1>10. ASSUME NEW t \in todo, Removal!DeleteListed(t, IF removalAt = "schedules"
                THEN "objects" ELSE "reports")
       PROVE Left'
  <2> USE DEF Removal!DeleteListed
  <2>1. /\ removalAt \in {"schedules", "objects"} /\ outcome # "done" /\ outcome' = outcome
        /\ todo' = todo \ {t} /\ things' = things \ {t} /\ late' = late \ {t}
    BY <1>10
  <2>2. CASE todo = {t} /\ removalAt = "schedules"
    <3>1. removalAt' = "objects" /\ todo' = {} BY <1>10, <2>2
    <3> QED BY <2>1, <2>2, <3>1
  <2>3. CASE todo = {t} /\ removalAt = "objects"
    <3>1. removalAt' = "reports" /\ todo' = {} BY <1>10, <2>3
    <3> QED BY <2>1, <2>3, <3>1
  <2>4. CASE todo # {t}
    <3>1. removalAt' = removalAt BY <1>10, <2>4
    <3> QED BY <2>1, <2>4, <3>1
  <2> QED BY <2>1, <2>2, <2>3, <2>4
<1>11. CASE Removal!PurgeReports BY <1>11 DEF Removal!PurgeReports, RemovalConstants
<1>12. CASE UNCHANGED Removal!vars BY <1>12 DEF Removal!vars
<1> QED
  BY <1>1, <1>2, <1>3, <1>4, <1>5, <1>6, <1>7, <1>8, <1>9, <1>10, <1>11, <1>12 DEF Removal!Next

LEMMA TakenStep == ASSUME RemovalConstants, RemovalInv, [Removal!Next]_(Removal!vars) PROVE Taken'
<1> USE DEF RemovalInv, Removal!TypeOK, Removal!Same, Taken, Deleting
<1>0. Len(Removing) \in Nat BY RootIsOfIt
<1>1. ASSUME NEW w \in Removal!Subtree, NEW t \in Thing, Removal!Admit(w, t) \/ Removal!Act(w,
               t) PROVE Taken'
  <2>1. writes \in Nat BY DEF RemovalConstants
  <2>2. CASE Removal!Admit(w, t) BY <2>1, <2>2 DEF Removal!Admit
  <2>3. CASE Removal!Act(w, t)
    <3>1. writes' # 0 BY <2>3 DEF Removal!Act
    <3> QED BY <2>3, <3>1 DEF Removal!Act
  <2> QED BY <1>1, <2>2, <2>3
<1>2. CASE Removal!RunServerRemoveScope \/ Removal!Fails BY <1>2 DEF Removal!RunServerRemoveScope,
    Removal!Fails
<1>3. CASE Removal!DryRun
  <2>1. Removal!Root \in chart /\ preview' = Removal!Subtree \cup Removal!Matching("schedule")
                         \cup Removal!Matching("object")
          \cup Removal!Matching("report") /\ things = Thing
    BY <1>3, RootIsOfIt DEF Removal!DryRun, Removal!Found
  <2>2. preview' = Removal!Subtree \cup Scoped
    BY <2>1 DEF Removal!Matching, Removal!Of, RemovalConstants
  <2> QED BY <1>3, <2>1, <2>2 DEF Removal!DryRun
<1>4. CASE Removal!RootIsGone \/ Removal!RemoveFromStore \/ Removal!WorkersRemoved
  BY <1>4 DEF Removal!RootIsGone, Removal!RemoveFromStore, Removal!WorkersRemoved
<1>5. CASE Removal!RemoveFromChart BY <1>0, <1>5 DEF Removal!RemoveFromChart
<1>6. CASE Removal!Revoke BY <1>6 DEF Removal!Revoke
<1>7. CASE Removal!DeleteWorkerSchedules BY <1>7 DEF Removal!DeleteWorkerSchedules, Removal!Of
<1>8. CASE Removal!List("schedules", "schedule", "objects") BY <1>8 DEF Removal!List
<1>9. CASE Removal!List("objects", "object", "reports") BY <1>9 DEF Removal!List
<1>10. ASSUME NEW t \in todo, Removal!DeleteListed(t, IF removalAt = "schedules"
                THEN "objects" ELSE "reports")
       PROVE Taken'
  BY <1>10 DEF Removal!DeleteListed, Left
<1>11. CASE Removal!PurgeReports BY <1>11 DEF Removal!PurgeReports, Removal!Matching, Removal!Of
<1>12. CASE UNCHANGED Removal!vars BY <1>12 DEF Removal!vars
<1> QED
  BY <1>1, <1>2, <1>3, <1>4, <1>5, <1>6, <1>7, <1>8, <1>9, <1>10, <1>11, <1>12 DEF Removal!Next

LEMMA CascadeStep ==
  ASSUME RemovalConstants, RemovalInv, [Removal!Next]_(Removal!vars), ~brokeOff'
  PROVE  Cascade'
<1> USE DEF RemovalInv, Removal!TypeOK, Removal!Same, Cascade, Partial, Deleting
<1>0. Len(Removing) \in Nat BY RootIsOfIt
<1>1. ASSUME NEW w \in Removal!Subtree, NEW t \in Thing, Removal!Admit(w, t) \/ Removal!Act(w,
               t) PROVE Cascade'
  <2>1. writes \in Nat BY DEF RemovalConstants
  <2>2. Removal!Admit(w, t) => writes' # 0 BY <2>1 DEF Removal!Admit
  <2>3. Removal!Act(w, t) => writes # 0 BY DEF Removal!Act, Taken
  <2> QED BY <1>1, <2>2, <2>3 DEF Removal!Admit, Removal!Act
<1>2. CASE Removal!RunServerRemoveScope BY <1>2 DEF Removal!RunServerRemoveScope
<1>3. CASE Removal!Fails
  <2>0. ~(brokeOff \/ removalAt \in {"unstore", "revoke", "unschedule"}
            \/ (removalAt = "workers" /\ next > 1))
    BY <1>3, Zenon DEF Removal!Fails
  <2>1. removalAt \notin Deleting /\ (removalAt = "workers" => next = 1) /\ ~brokeOff
    BY <1>0, <2>0
  <2>2. chart \in {Removal!Subtree, {}} BY <2>1, <1>3 DEF Removal!Fails, Removal!Steps
  <2>3. /\ removalAt' = "idle" /\ outcome' = "error" /\ chart' = chart /\ stored' = stored
        /\ revokedScope' = revokedScope
    BY <1>3 DEF Removal!Fails
  <2>4. Partial' = Partial BY <2>1, <2>3, <1>3 DEF Removal!Fails
  <2> QED BY <2>1, <2>2, <2>3, <2>4, <1>3 DEF Removal!Fails
<1>4. CASE Removal!DryRun BY <1>4 DEF Removal!DryRun
<1>5. CASE Removal!RootIsGone BY <1>5, RootIsOfIt DEF Removal!RootIsGone, Removal!Found
<1>6. CASE Removal!WorkersRemoved BY <1>0, <1>6, RootIsOfIt DEF Removal!WorkersRemoved
<1>7. CASE Removal!RemoveFromChart BY <1>0, <1>7, RootIsOfIt DEF Removal!RemoveFromChart
<1>8. CASE Removal!RemoveFromStore BY <1>8, RootIsOfIt DEF Removal!RemoveFromStore
<1>9. CASE Removal!Revoke BY <1>9 DEF Removal!Revoke
<1>10. CASE Removal!DeleteWorkerSchedules
  <2> USE <1>10, <1>0, RootIsOfIt DEF Removal!DeleteWorkerSchedules, Taken
  <2>1. things' = {t \in things : ~(Kind[t] = "schedule" /\ OwnerOf[t] = Removing[next])}
    BY DEF Removal!Of
  <2>2. removalAt' = "workers" /\ Partial' = {} /\ Partial = {Removing[next]} OBVIOUS
  <2>3. writes' = 0 =>
          \A t \in things' : Kind[t] = "schedule" /\ OwnerOf[t] \in Removal!Subtree \ Partial'
                             => OwnerOf[t] \in chart'
    BY <2>1, <2>2
  <2>4. \A w \in Removal!Subtree \ Partial' :
          w \in chart' \/ (w \notin stored' /\ w \in revokedScope')
    BY <2>2
  <2>5. \A i \in 1 .. Len(Removing) : i < next' => Removing[i] \notin chart'
    BY <2>2
  <2>6. next' = next + 1 /\ next \in 1 .. Len(Removing) /\ outcome' # "done"
    BY DEF Left
  <2> QED BY <2>2, <2>3, <2>4, <2>5, <2>6
<1>11. CASE Removal!List("schedules", "schedule", "objects") BY <1>11 DEF Removal!List
<1>12. CASE Removal!List("objects", "object", "reports") BY <1>12 DEF Removal!List
<1>13. ASSUME NEW t \in todo, Removal!DeleteListed(t, IF removalAt = "schedules"
                THEN "objects" ELSE "reports")
       PROVE Cascade'
  BY <1>13 DEF Removal!DeleteListed
<1>14. CASE Removal!PurgeReports BY <1>14 DEF Removal!PurgeReports
<1>15. CASE UNCHANGED Removal!vars BY <1>15 DEF Removal!vars
<1> QED
  BY <1>1, <1>2, <1>3, <1>4, <1>5, <1>6, <1>7, <1>8, <1>9, <1>10, <1>11, <1>12, <1>13, <1>14, <1>15
     DEF Removal!Next

(* cmd_server.go remove-scope over server.go DeleteWorker: a run that says *)
(* it is done left nothing of the scope, but what the scope's own workers  *)
(* wrote since a run began and, of workers, what a cascade that was broken *)
(* off left; it took nothing that is neither of the scope nor a schedule   *)
(* of a removed worker; and what a dry run printed is, but for the         *)
(* schedules a removed worker had under other names, what goes.            *)
THEOREM RemovalIsTrue == Removal!Spec => []ScopeIsGone
<1>1. RemovalInv => Removal!DoneMeansGone
  BY DEF RemovalInv, Removal!TypeOK, Left, Cascade, Removal!DoneMeansGone, Removal!Done,
         Removal!Matching, Removal!Of, Partial, Deleting
<1>2. RemovalInv => Removal!OnlyTheScope
  <2> SUFFICES ASSUME RemovalInv PROVE Removal!OnlyTheScope OBVIOUS
  <2> USE DEF RemovalInv, Removal!TypeOK, Taken
  <2>1. ASSUME preview # {} PROVE Removal!Removed \subseteq preview \cup Removal!Unlisted
    BY <2>1 DEF Removal!Removed, Removal!Unlisted
  <2>2. ASSUME preview # {}, writes = 0, outcome = "done", ~brokeOff
        PROVE  preview \cup Removal!Unlisted \subseteq Removal!Removed
    <3>1. chart = {} /\ Partial = {} /\ late = {} BY <2>2 DEF Cascade, Partial, Left, Deleting
    <3>2. Scoped \cap things = {}
      BY <2>2, <3>1, PartsAssumption
         DEF Left, Removal!Matching, Removal!Of, RemovalConstants
    <3>3. Removal!Unlisted \cap things = {} BY <2>2, <3>1 DEF Cascade, Removal!Unlisted
    <3>4. Scoped \subseteq Thing BY PartsAssumption DEF RemovalConstants
    <3> QED BY <2>2, <3>1, <3>2, <3>3, <3>4 DEF Removal!Removed, Removal!Unlisted
  <2> QED BY <2>1, <2>2 DEF Removal!OnlyTheScope, Removal!Done
<1>3. RemovalInv => ScopeIsGone BY <1>1, <1>2 DEF RemovalInv, ScopeIsGone
<1>4. Removal!Init => RemovalInv BY PartsAssumption, RemovalBegins
<1>5. RemovalInv /\ [Removal!Next]_(Removal!vars) => RemovalInv'
  BY PartsAssumption, RemovalTypes, LeftStep, TakenStep, CascadeStep DEF RemovalInv
<1> QED BY <1>3, <1>4, <1>5, PTL DEF Removal!Spec

-----------------------------------------------------------------------------
(* The server as a process.                                                *)

(* What there is while runServerInit is where it is. *)
Stages ==
  /\ opened <=> processAt \notin {"open", "gone"}
  /\ scheduler # "none" => processAt \in {"serve", "drain", "cancelled", "unwind", "close", "gone"}
  /\ processAt \in {"close", "gone"} => scheduler \in {"none", "returned"}
  /\ accepting => processAt \in {"start", "serve", "drain"}
  /\ processAt \in {"drain", "cancelled"} => stopping
  /\ active # {} => processAt \in {"serve", "drain", "cancelled"} \/ graceOver
       \/ returned = "error"
  /\ returned # "none" <=> processAt \in {"unwind", "close", "gone"}
  /\ returned = "ok" => active = {} /\ stopping

ProcessInv == Serving!TypeOK /\ Stages

LEMMA ProcessStepKeeps ==
  ASSUME ProcessConstants, ProcessInv, [Serving!Next]_(Serving!vars)
  PROVE  ProcessInv'
<1>1. Serving!TypeOK'
  <2> USE DEF ProcessInv, Serving!TypeOK, Serving!Places, Serving!Goes, ProcessConstants
  <2>1. CASE Serving!OpenState \/ Serving!Listen \/ Serving!StartServing BY <2>1
      DEF Serving!OpenState, Serving!Listen, Serving!StartServing
  <2>2. ASSUME NEW r \in Incoming, Serving!Accept(r) \/ Serving!Finish(r) PROVE Serving!TypeOK'
    BY <2>2 DEF Serving!Accept, Serving!Finish
  <2>3. CASE Serving!SchedulerTicks \/ Serving!SchedulerTicked \/ Serving!SchedulerReturns
    BY <2>3 DEF Serving!SchedulerTicks, Serving!SchedulerTicked, Serving!SchedulerReturns
  <2>4. CASE Serving!ServeFails \/ Serving!Interrupted \/ Serving!Shutdown
    BY <2>4 DEF Serving!ServeFails, Serving!Interrupted, Serving!Shutdown
  <2>5. CASE Serving!Drained \/ Serving!CancelRequests \/ Serving!GraceExceeded
    BY <2>5 DEF Serving!Drained, Serving!CancelRequests, Serving!GraceExceeded
  <2>6. CASE Serving!StopScheduler \/ Serving!CloseState BY <2>6 DEF Serving!StopScheduler,
      Serving!SchedulerIsDone, Serving!CloseState
  <2>7. CASE UNCHANGED Serving!vars BY <2>7 DEF Serving!vars
  <2> QED BY <2>1, <2>2, <2>3, <2>4, <2>5, <2>6, <2>7 DEF Serving!Next
<1>2. Stages'
  <2> USE DEF ProcessInv, Stages, Serving!TypeOK, Serving!Goes
  <2>1. CASE Serving!OpenState BY <2>1 DEF Serving!OpenState
  <2>2. CASE Serving!Listen BY <2>2 DEF Serving!Listen
  <2>3. CASE Serving!StartServing BY <2>3 DEF Serving!StartServing
  <2>4. ASSUME NEW r \in Incoming, Serving!Accept(r) \/ Serving!Finish(r) PROVE Stages'
    BY <2>4 DEF Serving!Accept, Serving!Finish
  <2>5. CASE Serving!SchedulerTicks \/ Serving!SchedulerTicked \/ Serving!SchedulerReturns
    BY <2>5 DEF Serving!SchedulerTicks, Serving!SchedulerTicked, Serving!SchedulerReturns
  <2>6. CASE Serving!ServeFails \/ Serving!Interrupted \/ Serving!Shutdown
    BY <2>6 DEF Serving!ServeFails, Serving!Interrupted, Serving!Shutdown
  <2>7. CASE Serving!Drained BY <2>7 DEF Serving!Drained
  <2>8. CASE Serving!CancelRequests \/ Serving!GraceExceeded BY <2>8 DEF Serving!CancelRequests,
      Serving!GraceExceeded
  <2>9. CASE Serving!StopScheduler BY <2>9 DEF Serving!StopScheduler, Serving!SchedulerIsDone
  <2>10. CASE Serving!CloseState \/ UNCHANGED Serving!vars BY <2>10 DEF Serving!CloseState,
      Serving!vars
  <2> QED BY <2>1, <2>2, <2>3, <2>4, <2>5, <2>6, <2>7, <2>8, <2>9, <2>10 DEF Serving!Next
<1> QED BY <1>1, <1>2 DEF ProcessInv

LEMMA ProcessBegins == ASSUME ProcessConstants, Serving!Init PROVE ProcessInv
<1>1. {opened, accepting, cancelled, stopping, graceOver} \subseteq BOOLEAN BY DEF Serving!Init
<1>2. Serving!TypeOK BY <1>1 DEF Serving!Init, Serving!TypeOK, Serving!Places, ProcessConstants
<1>3. Stages BY DEF Serving!Init, Stages
<1> QED BY <1>2, <1>3 DEF ProcessInv

-----------------------------------------------------------------------------
(* The data directory.                                                     *)

Busy == Directory!Opening \cup {"rotate"}

(* What a run brings with it. *)
Starts ==
  \A p \in Process :
    /\ ~Directory!Idle(p) => start[p] # 0
    /\ starting[p] # "init" => flags[p] = Directory!Flagless
    /\ starterAt[p] = "serving" => starting[p] = "init"
    /\ starterAt[p] = "mint" => starting[p] = "revoke"
    /\ starterAt[p] \in Directory!Opening => starting[p] \in {"init", "revoke"}

(* Unless two met: one opens the directory at a time, and a server has it  *)
(* for itself while it does.                                               *)
OneAtATime ==
  /\ \A p, q \in Process : starterAt[p] \in Busy /\ starterAt[q] \in Busy => p = q
  /\ \A p, q \in Process : p # q /\ ~Directory!Idle(p) /\ ~Directory!Idle(q)
       /\ starting[p] = "init" => starting[q] # "init"
  /\ \A p, q \in Process : p # q /\ starterAt[p] \in Directory!Opening
       /\ starting[p] = "init" => Directory!Idle(q)

(* What a process has of the directory. *)
SavedIsOurs ==
  \A p \in Process :
    /\ starterAt[p] = "save" /\ starting[p] = "revoke" /\ saved # None => uris[p] = saved
    /\ starterAt[p] \in {"stat", "create", "write", "load", "read", "generate", "open", "serving"}
         => saved = uris[p]

KeyIsOurs ==
  \A p \in Process :
    /\ starterAt[p] = "create" => serverKey = Directory!NoFile
    /\ starterAt[p] = "write" => serverKey = Directory!Torn
    /\ starterAt[p] = "load" => serverKey # Directory!NoFile
    /\ starterAt[p] \in {"read", "generate", "open", "mint", "serving"} =>
         loaded[p] = serverKey /\ serverKey \in Directory!Run

TokenIsSet ==
  /\ \A p \in Process : starterAt[p] \in {"open", "mint", "serving"} => token # 0
  /\ \A p \in Process : starterAt[p] = "generate" => token = 0
  /\ refusals = 0 /\ shown \in {0, token}

Refused ==
  \A p \in Process :
    starterAt[p] = "failed" => (\E b \in Backend : uris[p][b] \in Unusable) \/ ~sound[p] \/ spoiled

Harmless == OneAtATime /\ SavedIsOurs /\ KeyIsOurs /\ TokenIsSet /\ Refused

(* Even if two met: a key file that cannot be loaded is being written.     *)
TornIsWritten ==
  serverKey = Directory!Torn => spoiled \/ \E p \in Process : starterAt[p] = "write"

DirectoryInv == Directory!TypeOK /\ Starts /\ TornIsWritten /\ (~met => Harmless)

LEMMA DirectoryBegins == ASSUME DirectoryConstants, Directory!Init PROVE DirectoryInv
<1>1. Directory!Defaults \in Directory!Places BY DEF Directory!Defaults, Directory!Places,
    DirectoryConstants
<1>2. Directory!Flagless \in Directory!Flags BY DEF Directory!Flagless, Directory!Flags
<1>3. Directory!TypeOK
  <2>1. starterAt \in [Process -> Directory!Steps]
          /\ starting \in [Process -> {"init", "revoke", "rotate"}]
    BY DEF Directory!Init, Directory!Steps
  <2>2. flags \in [Process -> Directory!Flags] /\ uris \in [Process -> Directory!Places] BY <1>1,
      <1>2 DEF Directory!Init
  <2>3. start \in [Process -> 0 .. MaxStarted] /\ loaded \in [Process -> 0 .. MaxStarted]
    BY DEF Directory!Init, DirectoryConstants
  <2>7. sound \in [Process -> BOOLEAN] BY DEF Directory!Init
  <2>8. spoiled \in BOOLEAN BY Zenon DEF Directory!Init
  <2>4. saved \in Directory!Places \cup {None} /\ serverKey \in {Directory!NoFile,
      Directory!Torn} \cup Directory!Run BY DEF Directory!Init
  <2>5. 0 \in 0 .. MaxStarted /\ 0 \in 0 .. MaxStartFaults BY DEF DirectoryConstants
  <2>6. /\ token \in 0 .. MaxStarted /\ shown \in 0 .. MaxStarted /\ met \in BOOLEAN
        /\ started \in 0 .. MaxStarted /\ startFaults \in 0 .. MaxStartFaults /\ refusals \in Nat
    BY <2>5 DEF Directory!Init
  <2> QED BY <2>1, <2>2, <2>3, <2>4, <2>6, <2>7, <2>8 DEF Directory!TypeOK
<1>4. Starts BY DEF Directory!Init, Starts, Directory!Idle, Directory!Opening
<1>5. Harmless
  BY DEF Directory!Init, Harmless, OneAtATime, SavedIsOurs, KeyIsOurs, TokenIsSet, Refused, Busy,
    Directory!Opening,
         Directory!NoFile, Directory!Torn, DirectoryConstants, Directory!Idle
<1>6. TornIsWritten BY DEF Directory!Init, TornIsWritten, Directory!NoFile, Directory!Torn,
    DirectoryConstants
<1> QED BY <1>3, <1>4, <1>5, <1>6 DEF DirectoryInv

LEMMA DirectoryTypes ==
  ASSUME DirectoryConstants, DirectoryInv, [Directory!Next]_(Directory!vars)
  PROVE  Directory!TypeOK'
<1> USE DEF DirectoryInv, Directory!TypeOK, DirectoryConstants
<1>0. Directory!Flagless \in Directory!Flags /\ Directory!Defaults \in Directory!Places BY
    DEF Directory!Flagless, Directory!Flags, Directory!Defaults, Directory!Places
<1>1. ASSUME NEW p \in Process, NEW v \in {"init", "revoke", "rotate"}, NEW fs \in Directory!Flags,
             Directory!Begin(p, v, fs)
      PROVE  Directory!TypeOK'
  BY <1>0, <1>1 DEF Directory!Begin, Directory!dir, Directory!told, Directory!Steps,
    Directory!Opening
<1>2. ASSUME NEW p \in Process, Directory!Resolve(p) PROVE Directory!TypeOK'
  <2>1. Directory!Resolved(flags[p], saved) \in Directory!Places
    <3>1. flags[p] \in [Backend -> URI \cup {Directory!NotGiven}] BY DEF Directory!Flags
    <3>2. DOMAIN flags[p] = Backend BY <3>1
    <3>3. saved # None => saved \in [Backend -> URI] BY DEF Directory!Places
    <3>4. ASSUME NEW b \in Backend
          PROVE  (IF flags[p][b] # Directory!NotGiven THEN flags[p][b]
                  ELSE IF saved # None THEN saved[b] ELSE Default) \in URI
      BY <3>1, <3>3
    <3> QED BY <3>2, <3>4 DEF Directory!Resolved, Directory!Places
  <2>2. starterAt' \in [Process -> Directory!Steps] BY <1>2 DEF Directory!Resolve, Directory!Goes,
      Directory!Steps, Directory!Opening
  <2>3. uris' \in [Process -> Directory!Places] BY <1>2, <2>1 DEF Directory!Resolve
  <2> QED BY <1>2, <2>2, <2>3 DEF Directory!Resolve, Directory!Goes, Directory!dir
<1>3. ASSUME NEW p \in Process,
             Directory!SetConfig(p) \/ Directory!Stat(p) \/ Directory!Create(p)
               \/ Directory!Write(p) \/ Directory!LoadKeyPair(p)
               \/ Directory!ReadToken(p) \/ Directory!Rotate(p) \/ Directory!OpenBackends(p)
      PROVE  Directory!TypeOK'
  <2>1. starterAt' \in [Process -> Directory!Steps]
    BY <1>3 DEF Directory!SetConfig, Directory!Stat, Directory!Create, Directory!Write,
      Directory!LoadKeyPair, Directory!ReadToken, Directory!Rotate, Directory!OpenBackends,
                Directory!Goes, Directory!Steps, Directory!Opening
  <2>2. /\ start' = start /\ starting' = starting /\ flags' = flags /\ started' = started
        /\ startFaults' = startFaults /\ spoiled' = spoiled
        /\ refusals' = refusals /\ met' = met /\ uris' = uris
    BY <1>3 DEF Directory!SetConfig, Directory!Stat, Directory!Create, Directory!Write,
      Directory!LoadKeyPair, Directory!ReadToken, Directory!Rotate,
         Directory!OpenBackends, Directory!Goes
  <2>3. saved' \in Directory!Places \cup {None}
    BY <1>3 DEF Directory!SetConfig, Directory!Stat, Directory!Create, Directory!Write,
      Directory!LoadKeyPair, Directory!ReadToken, Directory!Rotate,
         Directory!OpenBackends, Directory!dir
  <2>4. starterAt[p] = "write" => start[p] \in Directory!Run BY DEF Starts, Directory!Idle,
      Directory!Run
  <2>5. serverKey' \in {Directory!NoFile, Directory!Torn} \cup Directory!Run
          /\ loaded' \in [Process -> 0 .. MaxStarted]
    BY <1>3, <2>4 DEF Directory!SetConfig, Directory!Stat, Directory!Create, Directory!Write,
      Directory!LoadKeyPair, Directory!ReadToken, Directory!Rotate,
                      Directory!OpenBackends, Directory!dir, Directory!Goes, Directory!Run
  <2>6. token' \in 0 .. MaxStarted /\ shown' \in 0 .. MaxStarted
    BY <1>3 DEF Directory!SetConfig, Directory!Stat, Directory!Create, Directory!Write,
      Directory!LoadKeyPair, Directory!ReadToken, Directory!Rotate,
         Directory!OpenBackends, Directory!dir
  <2>7. sound' \in [Process -> BOOLEAN]
    BY <1>3 DEF Directory!SetConfig, Directory!Stat, Directory!Create, Directory!Write,
      Directory!LoadKeyPair, Directory!ReadToken, Directory!Rotate, Directory!OpenBackends
  <2> QED BY <2>1, <2>2, <2>3, <2>5, <2>6, <2>7
<1>4. ASSUME NEW p \in Process, Directory!Mint(p) \/ Directory!Exit(p)
      PROVE  Directory!TypeOK'
  <2>1. starterAt' \in [Process -> Directory!Steps] BY <1>4 DEF Directory!Mint, Directory!Exit,
      Directory!Steps
  <2>2. refusals' \in Nat BY <1>4 DEF Directory!Mint, Directory!Exit, Directory!told
  <2> QED BY <1>4, <2>1, <2>2 DEF Directory!Mint, Directory!Exit, Directory!dir, Directory!told
<1>6. ASSUME NEW p \in Process, Directory!StepFails(p) \/ Directory!Die(p)
      PROVE  Directory!TypeOK'
  <2> USE DEF Directory!StepFails, Directory!Die, Directory!EndsEarly
  <2>1. starterAt' \in [Process -> Directory!Steps] BY <1>6 DEF Directory!Steps
  <2>2. startFaults' \in 0 .. MaxStartFaults BY <1>6
  <2>5. spoiled' \in BOOLEAN BY <1>6, Zenon
  <2>3. starterAt[p] = "write" => start[p] \in Directory!Run BY DEF Starts, Directory!Idle,
      Directory!Run
  <2>4. serverKey' \in {Directory!NoFile, Directory!Torn} \cup Directory!Run BY <1>6, <2>3
  <2> QED BY <1>6, <2>1, <2>2, <2>4, <2>5 DEF Directory!told
<1>5. CASE UNCHANGED Directory!vars BY <1>5 DEF Directory!vars, Directory!dir, Directory!procs,
    Directory!told
<1> QED
  BY <1>0, <1>1, <1>2, <1>3, <1>4, <1>5, <1>6
     DEF Directory!Next, Directory!RunServerInit, Directory!RunServerRevoke,
       Directory!RunRotateEnrollment

(* The steps of one process but for its beginning: nobody else moves, and  *)
(* where it goes.                                                          *)
LEMMA OpeningMoves ==
  ASSUME DirectoryConstants, DirectoryInv, NEW p \in Process,
         Directory!Resolve(p) \/ Directory!SetConfig(p) \/ Directory!Stat(p)
           \/ Directory!Create(p) \/ Directory!Write(p) \/ Directory!LoadKeyPair(p)
           \/ Directory!ReadToken(p) \/ Directory!Rotate(p) \/ Directory!OpenBackends(p)
                \/ Directory!Mint(p) \/ Directory!Exit(p)
                \/ Directory!StepFails(p) \/ Directory!Die(p)
  PROVE  /\ start' = start /\ starting' = starting /\ flags' = flags /\ met' = met
         /\ \A q \in Process \ {p} : starterAt'[q] = starterAt[q] /\ uris'[q] = uris[q]
              /\ loaded'[q] = loaded[q]
         /\ ~Directory!Idle(p)
         /\ starterAt'[p] \in Busy => starterAt[p] \in Busy
         /\ starterAt'[p] \in Directory!Opening => starterAt[p] \in Directory!Opening
         /\ starterAt'[p] = "serving" => starting[p] = "init" /\ starterAt[p] = "open"
         /\ starterAt'[p] = "mint" => starting[p] = "revoke" /\ starterAt[p] = "open"
<1> USE DEF DirectoryInv, Directory!TypeOK, Directory!Goes
<1>1. CASE Directory!Resolve(p) BY <1>1 DEF Directory!Resolve, Directory!Idle, Busy,
    Directory!Opening
<1>2. CASE Directory!SetConfig(p) \/ Directory!Stat(p) \/ Directory!Create(p)
  BY <1>2 DEF Directory!SetConfig, Directory!Stat, Directory!Create, Directory!Idle, Busy,
    Directory!Opening
<1>3. CASE Directory!Write(p) \/ Directory!LoadKeyPair(p) BY <1>3 DEF Directory!Write,
    Directory!LoadKeyPair, Directory!Idle, Busy, Directory!Opening
<1>4. CASE Directory!ReadToken(p) \/ Directory!Rotate(p) BY <1>4 DEF Directory!ReadToken,
    Directory!Rotate, Directory!Idle, Busy, Directory!Opening
<1>5. CASE Directory!OpenBackends(p) BY <1>5 DEF Directory!OpenBackends, Directory!Idle, Busy,
    Directory!Opening, Starts
<1>6. CASE Directory!Mint(p) \/ Directory!Exit(p)
  BY <1>6 DEF Directory!Mint, Directory!Exit, Directory!Idle, Directory!Serving, Busy,
    Directory!Opening
<1>7. CASE Directory!StepFails(p) \/ Directory!Die(p)
  BY <1>7 DEF Directory!StepFails, Directory!Die, Directory!EndsEarly, Directory!Idle, Busy,
    Directory!Opening
<1> QED BY <1>1, <1>2, <1>3, <1>4, <1>5, <1>6, <1>7

LEMMA StartsStep ==
  ASSUME DirectoryConstants, DirectoryInv, NEW p \in Process,
         Directory!Resolve(p) \/ Directory!SetConfig(p) \/ Directory!Stat(p)
           \/ Directory!Create(p) \/ Directory!Write(p) \/ Directory!LoadKeyPair(p)
           \/ Directory!ReadToken(p) \/ Directory!Rotate(p) \/ Directory!OpenBackends(p)
                \/ Directory!Mint(p) \/ Directory!Exit(p)
                \/ Directory!StepFails(p) \/ Directory!Die(p)
  PROVE  Starts' /\ TornIsWritten' /\ (~met => OneAtATime')
<1>1. Starts'
  BY OpeningMoves DEF DirectoryInv, Directory!TypeOK, Starts, Directory!Idle, Directory!Opening,
    Busy
<1>2. ASSUME ~met PROVE OneAtATime'
  BY <1>2, OpeningMoves DEF DirectoryInv, Directory!TypeOK, Harmless, OneAtATime, Directory!Idle,
    Busy, Directory!Opening
<1>3. TornIsWritten'
  <2> USE DEF DirectoryInv, Directory!TypeOK, TornIsWritten, Directory!Goes, Directory!dir
  <2>1. CASE Directory!Create(p) BY <2>1 DEF Directory!Create
  <2>2. CASE Directory!Write(p)
    <3>1. start[p] \in Directory!Run BY <2>2 DEF Directory!Write, Starts, Directory!Idle,
        Directory!Run
    <3>2. serverKey' # Directory!Torn BY <2>2, <3>1 DEF Directory!Write, Directory!Torn,
        Directory!Run, DirectoryConstants
    <3> QED BY <3>2
  <2>3. CASE Directory!StepFails(p) \/ Directory!Die(p)
    BY <2>3 DEF Directory!StepFails, Directory!Die, Directory!EndsEarly
  <2>4. CASE Directory!Resolve(p) \/ Directory!SetConfig(p) \/ Directory!Stat(p)
               \/ Directory!LoadKeyPair(p) \/ Directory!ReadToken(p) \/ Directory!Rotate(p)
               \/ Directory!OpenBackends(p) \/ Directory!Mint(p) \/ Directory!Exit(p)
    <3>1. serverKey' = serverKey /\ spoiled' = spoiled /\ starterAt[p] # "write"
      BY <2>4 DEF Directory!Resolve, Directory!SetConfig, Directory!Stat, Directory!LoadKeyPair,
         Directory!ReadToken, Directory!Rotate, Directory!OpenBackends, Directory!Mint,
         Directory!Exit, Directory!Serving
    <3>2. \A q \in Process \ {p} : starterAt'[q] = starterAt[q] BY OpeningMoves
    <3> QED BY <3>1, <3>2
  <2> QED BY <2>1, <2>2, <2>3, <2>4
<1> QED BY <1>1, <1>2, <1>3

LEMMA BeginOpeningKeeps ==
  ASSUME DirectoryConstants, DirectoryInv, NEW p \in Process, NEW v \in {"init", "revoke",
    "rotate"},
         NEW fs \in Directory!Flags, v # "init" => fs = Directory!Flagless,
         Directory!Begin(p, v, fs)
  PROVE  Starts' /\ TornIsWritten' /\ (~met' => Harmless')
<1> USE DEF DirectoryInv, Directory!TypeOK, Directory!Begin
<1>1. /\ starterAt'[p] = IF v = "rotate" THEN "rotate" ELSE "resolve"
      /\ starting'[p] = v /\ flags'[p] = fs /\ start'[p] = started + 1
      /\ \A q \in Process \ {p} :
           starterAt'[q] = starterAt[q] /\ uris'[q] = uris[q] /\ loaded'[q] = loaded[q]
             /\ starting'[q] = starting[q]
             /\ flags'[q] = flags[q] /\ start'[q] = start[q] /\ sound'[q] = sound[q]
      /\ saved' = saved /\ serverKey' = serverKey /\ token' = token /\ spoiled' = spoiled
      /\ refusals' = refusals /\ shown' = shown
  BY DEF Directory!dir, Directory!told
<1>2. Starts' BY <1>1 DEF Starts, Directory!Idle, Directory!Opening, DirectoryConstants
<1>3. ASSUME ~met' PROVE Harmless'
  <2>1. /\ ~met /\ \A q \in Process \ {p} : starterAt[q] \notin Busy
        /\ v = "init" => \A q \in Process \ {p} : Directory!Idle(q)
    BY <1>3 DEF Busy
  <2>2. OneAtATime' BY <1>1, <2>1 DEF Harmless, OneAtATime, Directory!Idle, Busy, Directory!Opening
  <2>3. SavedIsOurs' BY <1>1, <2>1 DEF Harmless, SavedIsOurs, Busy, Directory!Opening
  <2>4. KeyIsOurs' BY <1>1, <2>1 DEF Harmless, KeyIsOurs, Busy, Directory!Opening
  <2>5. TokenIsSet' BY <1>1, <2>1 DEF Harmless, TokenIsSet
  <2>6. Refused' BY <1>1, <2>1 DEF Harmless, Refused, Directory!Idle
  <2> QED BY <2>2, <2>3, <2>4, <2>5, <2>6 DEF Harmless
<1>4. TornIsWritten' BY <1>1 DEF TornIsWritten, Directory!Idle
<1> QED BY <1>2, <1>3, <1>4

(* Each step of an opening, of a request and of an end keeps the rest.     *)
LEMMA ResolveKeeps ==
  ASSUME DirectoryConstants, DirectoryInv, ~met, NEW p \in Process, Directory!Resolve(p)
  PROVE  SavedIsOurs' /\ KeyIsOurs' /\ TokenIsSet' /\ Refused'
<1> USE DEF DirectoryInv, Directory!TypeOK, Directory!Resolve, Directory!Goes, Directory!dir,
    Harmless
<1>1. starting[p] = "revoke" /\ saved # None => uris'[p] = saved
  <2> SUFFICES ASSUME starting[p] = "revoke", saved # None PROVE uris'[p] = saved OBVIOUS
  <2>1. flags[p] = Directory!Flagless /\ saved \in [Backend -> URI] BY DEF Starts, Directory!Places
  <2>2. Directory!Resolved(flags[p], saved) = [b \in Backend |-> saved[b]] BY <2>1
      DEF Directory!Resolved, Directory!Flagless
  <2> QED BY <2>1, <2>2
<1>2. starterAt[p] = "resolve" /\ starterAt' = [starterAt EXCEPT ![p] = "save"] OBVIOUS
<1>3. SavedIsOurs' BY <1>1, <1>2 DEF SavedIsOurs
<1>4. KeyIsOurs' BY DEF KeyIsOurs
<1>5. TokenIsSet' BY DEF TokenIsSet
<1>6. Refused' BY DEF Refused
<1> QED BY <1>3, <1>4, <1>5, <1>6

LEMMA SetConfigKeeps ==
  ASSUME DirectoryConstants, DirectoryInv, ~met, NEW p \in Process, Directory!SetConfig(p)
  PROVE  SavedIsOurs' /\ KeyIsOurs' /\ TokenIsSet' /\ Refused'
<1> USE DEF DirectoryInv, Directory!TypeOK, Directory!SetConfig, Directory!Goes, Harmless
<1>1. /\ starterAt[p] = "save" /\ starterAt' = [starterAt EXCEPT ![p] = "stat"]
           /\ saved' = uris[p] /\ uris' = uris
      /\ starting' = starting
  OBVIOUS
<1>2. \A q \in Process \ {p} : starterAt[q] \notin Busy BY <1>1 DEF OneAtATime, Busy,
    Directory!Opening
<1>3. \A q \in Process : starterAt[q] = "serving" => uris[q] = uris[p]
  <2> SUFFICES ASSUME NEW q \in Process, starterAt[q] = "serving" PROVE uris[q] = uris[p] OBVIOUS
  <2>1. p # q /\ ~Directory!Idle(q) BY <1>1 DEF Directory!Idle
  <2>2. starting[p] = "revoke" BY <1>1, <2>1 DEF OneAtATime, Directory!Opening, Starts
  <2>3. saved = uris[q] BY DEF SavedIsOurs
  <2>4. saved # None BY <2>3 DEF DirectoryConstants, Directory!Places
  <2> QED BY <1>1, <2>2, <2>3, <2>4 DEF SavedIsOurs
<1>4. SavedIsOurs' BY <1>1, <1>2, <1>3 DEF SavedIsOurs, Busy, Directory!Opening
<1>5. KeyIsOurs' BY DEF KeyIsOurs
<1>6. TokenIsSet' BY DEF TokenIsSet
<1>7. Refused' BY DEF Refused
<1> QED BY <1>4, <1>5, <1>6, <1>7

LEMMA StatCreateKeep ==
  ASSUME DirectoryConstants, DirectoryInv, ~met, NEW p \in Process, Directory!Stat(p)
    \/ Directory!Create(p)
  PROVE  SavedIsOurs' /\ KeyIsOurs' /\ TokenIsSet' /\ Refused'
<1> USE DEF DirectoryInv, Directory!TypeOK, Directory!Goes, Directory!dir, Harmless,
    Directory!NoFile, Directory!Torn, Directory!Run
<1>1. CASE Directory!Stat(p)
  <2> USE <1>1 DEF Directory!Stat
  <2>1. SavedIsOurs' BY DEF SavedIsOurs
  <2>2. KeyIsOurs' BY DEF KeyIsOurs
  <2>3. TokenIsSet' BY DEF TokenIsSet
  <2>4. Refused' BY DEF Refused
  <2> QED BY <2>1, <2>2, <2>3, <2>4
<1>2. CASE Directory!Create(p)
  <2> USE <1>2 DEF Directory!Create
  <2>1. SavedIsOurs' BY DEF SavedIsOurs
  <2>2. \A q \in Process \ {p} : starterAt[q] \notin Busy BY DEF OneAtATime, Busy,
      Directory!Opening
  <2>3. serverKey = Directory!NoFile /\ Directory!NoFile \notin Directory!Run BY DEF KeyIsOurs
  <2>4. KeyIsOurs' BY <2>2, <2>3 DEF KeyIsOurs, Busy, Directory!Opening
  <2>5. TokenIsSet' BY DEF TokenIsSet
  <2>6. Refused' BY DEF Refused
  <2> QED BY <2>1, <2>4, <2>5, <2>6
<1> QED BY <1>1, <1>2

LEMMA WriteLoadKeep ==
  ASSUME DirectoryConstants, DirectoryInv, ~met, NEW p \in Process, Directory!Write(p)
    \/ Directory!LoadKeyPair(p)
  PROVE  SavedIsOurs' /\ KeyIsOurs' /\ TokenIsSet' /\ Refused'
<1> USE DEF DirectoryInv, Directory!TypeOK, Directory!Goes, Directory!dir, Harmless,
    Directory!NoFile, Directory!Torn, Directory!Run
<1>1. CASE Directory!Write(p)
  <2> USE <1>1 DEF Directory!Write
  <2>1. SavedIsOurs' BY DEF SavedIsOurs
  <2>2. \A q \in Process \ {p} : starterAt[q] \notin Busy BY DEF OneAtATime, Busy,
      Directory!Opening
  <2>3. serverKey = Directory!Torn /\ Directory!Torn \notin Directory!Run BY DEF KeyIsOurs,
      DirectoryConstants
  <2>4. start[p] \in Directory!Run /\ loaded'[p] = start[p] /\ serverKey' = start[p] BY
      DEF Starts, Directory!Idle, DirectoryConstants
  <2>5. \A q \in Process \ {p} : starterAt'[q] = starterAt[q] /\ loaded'[q] = loaded[q] OBVIOUS
  <2>6. starterAt'[p] = "read" OBVIOUS
  <2>7. KeyIsOurs' BY <2>2, <2>3, <2>4, <2>5, <2>6 DEF KeyIsOurs, Busy, Directory!Opening
  <2>8. TokenIsSet' BY DEF TokenIsSet
  <2>9. Refused' BY <2>3, <2>4 DEF Refused
  <2> QED BY <2>1, <2>7, <2>8, <2>9
<1>2. CASE Directory!LoadKeyPair(p)
  <2> USE <1>2 DEF Directory!LoadKeyPair
  <2>1. SavedIsOurs' BY DEF SavedIsOurs
  <2>2. KeyIsOurs' BY DEF KeyIsOurs
  <2>3. TokenIsSet' BY DEF TokenIsSet
  <2>4. serverKey \notin Directory!Run => spoiled
    <3> SUFFICES ASSUME serverKey \notin Directory!Run PROVE spoiled OBVIOUS
    <3>1. starterAt[p] = "load" /\ serverKey = Directory!Torn BY DEF KeyIsOurs
    <3>2. \A q \in Process : starterAt[q] # "write" BY <3>1 DEF OneAtATime, Busy, Directory!Opening
    <3> QED BY <3>1, <3>2 DEF TornIsWritten
  <2>5. Refused' BY <2>4 DEF Refused
  <2> QED BY <2>1, <2>2, <2>3, <2>5
<1> QED BY <1>1, <1>2

LEMMA TokenStepsKeep ==
  ASSUME DirectoryConstants, DirectoryInv, ~met, NEW p \in Process, Directory!ReadToken(p)
    \/ Directory!Rotate(p)
  PROVE  SavedIsOurs' /\ KeyIsOurs' /\ TokenIsSet' /\ Refused'
<1> USE DEF DirectoryInv, Directory!TypeOK, Directory!Goes, Directory!dir, Harmless
<1>1. CASE Directory!ReadToken(p)
  <2> USE <1>1 DEF Directory!ReadToken
  <2>1. SavedIsOurs' BY DEF SavedIsOurs
  <2>2. KeyIsOurs' BY DEF KeyIsOurs
  <2>3. TokenIsSet' BY DEF TokenIsSet
  <2>4. Refused' BY DEF Refused
  <2> QED BY <2>1, <2>2, <2>3, <2>4
<1>2. CASE Directory!Rotate(p)
  <2> USE <1>2 DEF Directory!Rotate
  <2>1. SavedIsOurs' BY DEF SavedIsOurs
  <2>2. KeyIsOurs' BY DEF KeyIsOurs
  <2>3. \A q \in Process \ {p} : starterAt[q] \notin Busy BY DEF OneAtATime, Busy,
      Directory!Opening
  <2>4. start[p] # 0 BY DEF Starts, Directory!Idle
  <2>5. starterAt[p] = "generate" => token = 0 /\ shown' = 0 BY DEF TokenIsSet
  <2>6. starterAt[p] = "rotate" => shown' = start[p] OBVIOUS
  <2>7. \A q \in Process : starterAt'[q] # "generate" BY <2>3 DEF Busy, Directory!Opening
  <2>8. TokenIsSet' BY <2>4, <2>5, <2>6, <2>7 DEF TokenIsSet
  <2>9. Refused' BY DEF Refused
  <2> QED BY <2>1, <2>2, <2>8, <2>9
<1> QED BY <1>1, <1>2

LEMMA EndsKeep ==
  ASSUME DirectoryConstants, DirectoryInv, ~met, NEW p \in Process,
         Directory!OpenBackends(p) \/ Directory!Mint(p) \/ Directory!Exit(p)
           \/ Directory!StepFails(p) \/ Directory!Die(p)
  PROVE  SavedIsOurs' /\ KeyIsOurs' /\ TokenIsSet' /\ Refused'
<1> USE DEF DirectoryInv, Directory!TypeOK, Directory!Goes, Directory!dir, Directory!told, Harmless
<1>1. CASE Directory!OpenBackends(p)
  <2> USE <1>1 DEF Directory!OpenBackends
  <2>1. SavedIsOurs' BY DEF SavedIsOurs
  <2>2. KeyIsOurs' BY DEF KeyIsOurs
  <2>3. TokenIsSet' BY DEF TokenIsSet
  <2>4. Refused' BY DEF Refused
  <2> QED BY <2>1, <2>2, <2>3, <2>4
<1>2. CASE Directory!Mint(p)
  <2> USE <1>2 DEF Directory!Mint
  <2>1. SavedIsOurs' BY DEF SavedIsOurs
  <2>2. KeyIsOurs' BY DEF KeyIsOurs
  <2>3. ~\E q \in Process : Directory!Serving(q) /\ loaded[q] # loaded[p] BY DEF KeyIsOurs,
      Directory!Serving
  <2>4. refusals' = 0 BY <2>3 DEF TokenIsSet
  <2>5. TokenIsSet' BY <2>4 DEF TokenIsSet
  <2>6. Refused' BY DEF Refused
  <2> QED BY <2>1, <2>2, <2>5, <2>6
<1>3. CASE Directory!Exit(p)
  <2> USE <1>3 DEF Directory!Exit, Directory!Serving
  <2>1. SavedIsOurs' BY DEF SavedIsOurs
  <2>2. KeyIsOurs' BY DEF KeyIsOurs
  <2>3. TokenIsSet' BY DEF TokenIsSet
  <2>4. Refused' BY DEF Refused
  <2> QED BY <2>1, <2>2, <2>3, <2>4
<1>4. CASE Directory!StepFails(p) \/ Directory!Die(p)
  <2> USE <1>4 DEF Directory!StepFails, Directory!Die, Directory!EndsEarly
  <2>1. SavedIsOurs' BY DEF SavedIsOurs
  <2>2. KeyIsOurs'
    <3>1. CASE serverKey' = serverKey BY <3>1 DEF KeyIsOurs
    <3>2. CASE starterAt[p] = "write"
      <4>1. \A q \in Process \ {p} : starterAt[q] \notin Busy BY <3>2 DEF OneAtATime, Busy,
          Directory!Opening
      <4>2. serverKey = Directory!Torn /\ Directory!Torn \notin Directory!Run
        BY <3>2 DEF KeyIsOurs, DirectoryConstants, Directory!Torn, Directory!Run
      <4>3. \A q \in Process : starterAt[q] \notin {"mint", "serving"} BY <4>2 DEF KeyIsOurs
      <4>4. starterAt'[p] \in {"idle", "erred"}
              /\ \A q \in Process \ {p} : starterAt'[q] = starterAt[q] OBVIOUS
      <4> QED BY <4>1, <4>3, <4>4 DEF KeyIsOurs, Busy, Directory!Opening
    <3> QED BY <3>1, <3>2
  <2>3. TokenIsSet' BY DEF TokenIsSet
  <2>4. Refused' BY DEF Refused
  <2> QED BY <2>1, <2>2, <2>3, <2>4
<1> QED BY <1>1, <1>2, <1>3, <1>4

LEMMA DirectoryStepKeeps ==
  ASSUME DirectoryConstants, DirectoryInv, [Directory!Next]_(Directory!vars)
  PROVE  DirectoryInv'
<1>1. Directory!TypeOK' BY DirectoryTypes
<1>2. ASSUME NEW p \in Process, NEW v \in {"init", "revoke", "rotate"}, NEW fs \in Directory!Flags,
             v # "init" => fs = Directory!Flagless, Directory!Begin(p, v, fs)
      PROVE  Starts' /\ TornIsWritten' /\ (~met' => Harmless')
  BY <1>2, BeginOpeningKeeps
<1>3. ASSUME NEW p \in Process,
             Directory!Resolve(p) \/ Directory!SetConfig(p) \/ Directory!Stat(p)
               \/ Directory!Create(p) \/ Directory!Write(p) \/ Directory!LoadKeyPair(p)
               \/ Directory!ReadToken(p) \/ Directory!Rotate(p) \/ Directory!OpenBackends(p)
                    \/ Directory!Mint(p) \/ Directory!Exit(p)
                    \/ Directory!StepFails(p) \/ Directory!Die(p)
      PROVE  Starts' /\ TornIsWritten' /\ (~met' => Harmless')
  <2>1. met' = met BY <1>3, OpeningMoves
  <2>2. Starts' /\ TornIsWritten' /\ (~met => OneAtATime') BY <1>3, StartsStep
  <2>3. ASSUME ~met PROVE SavedIsOurs' /\ KeyIsOurs' /\ TokenIsSet' /\ Refused'
    BY <1>3, <2>3, ResolveKeeps, SetConfigKeeps, StatCreateKeep, WriteLoadKeep, TokenStepsKeep,
       EndsKeep
  <2> QED BY <2>1, <2>2, <2>3 DEF Harmless
<1>4. ASSUME UNCHANGED Directory!vars PROVE Starts' /\ TornIsWritten' /\ (~met' => Harmless')
  BY <1>4 DEF DirectoryInv, Starts, TornIsWritten, Harmless, OneAtATime, SavedIsOurs, KeyIsOurs, TokenIsSet,
    Refused, Directory!vars,
              Directory!dir, Directory!procs, Directory!told, Directory!Idle
<1>5. Directory!Flagless \in Directory!Flags BY DEF Directory!Flagless, Directory!Flags
<1>6. ASSUME Directory!Next PROVE Starts' /\ TornIsWritten' /\ (~met' => Harmless')
  BY <1>2, <1>3, <1>5, <1>6 DEF Directory!Next, Directory!RunServerInit,
    Directory!RunServerRevoke, Directory!RunRotateEnrollment
<1>7. Starts' /\ TornIsWritten' /\ (~met' => Harmless') BY <1>4, <1>6
<1> QED BY <1>1, <1>7 DEF DirectoryInv

(* cmd_server.go: no request, stream or tick works on a closed state,      *)
(* unless the server gave up on it.  server.go New, keypair.go: commands   *)
(* that open the data directory of a running server change neither its     *)
(* backends nor its key; only an operation that failed, or a kill, right   *)
(* after the creation of the key file leaves one no server starts on.      *)
THEOREM ServerIsTrue == Serving!Spec /\ Directory!Spec => []ServerBeginsAndEnds
<1>1. ProcessInv => Serving!TypeOK /\ Serving!NothingOnClosedState
  BY DEF ProcessInv, Stages, Serving!TypeOK, Serving!NothingOnClosedState
<1>2. DirectoryInv => /\ Directory!TypeOK /\ Directory!CommandsBesideAreHarmless
                      /\ Directory!StartsFailForAReason
  <2> SUFFICES ASSUME DirectoryInv
               PROVE  Directory!CommandsBesideAreHarmless /\ Directory!StartsFailForAReason
    BY DEF DirectoryInv
  <2>1. Directory!CommandsBesideAreHarmless
    BY DEF DirectoryInv, Harmless, SavedIsOurs, KeyIsOurs, TokenIsSet,
           Directory!CommandsBesideAreHarmless, Directory!Serving
  <2>2. Directory!StartsFailForAReason
    BY DEF DirectoryInv, Harmless, Refused, TornIsWritten, Directory!StartsFailForAReason
  <2> QED BY <2>1, <2>2
<1>3. Serving!Init => ProcessInv BY PartsAssumption, ProcessBegins
<1>4. ProcessInv /\ [Serving!Next]_(Serving!vars) => ProcessInv'
  BY PartsAssumption, ProcessStepKeeps
<1>5. Directory!Init => DirectoryInv BY PartsAssumption, DirectoryBegins
<1>6. DirectoryInv /\ [Directory!Next]_(Directory!vars) => DirectoryInv'
  BY PartsAssumption, DirectoryStepKeeps
<1>7. ProcessInv /\ DirectoryInv => ServerBeginsAndEnds BY <1>1, <1>2 DEF ServerBeginsAndEnds
<1> QED BY <1>3, <1>4, <1>5, <1>6, <1>7, PTL DEF Serving!Spec, Directory!Spec

-----------------------------------------------------------------------------
(* The order of versions.  Every version is read as an endless list of     *)
(* places, and the first place at which two differ decides: that this is a *)
(* strict order needs no induction over the identifiers.                   *)

(* A set of numbers has a least one. *)
LEMMA LeastNatural ==
  ASSUME NEW S \in SUBSET Nat, S # {}
  PROVE  \E n \in S : \A m \in S : n <= m
<1> DEFINE R == OpToRel(<, Nat)
<1>1. PICK n \in S : \A m \in S : ~ (<<m, n>> \in R) BY NatLessThanWellFounded, WFMin
<1>2. ASSUME NEW m \in S PROVE n <= m
  <2>1. <<m, n>> \in Nat \X Nat /\ <<m, n>>[1] = m /\ <<m, n>>[2] = n OBVIOUS
  <2>2. m < n => <<m, n>> \in R BY <2>1 DEF OpToRel
  <2>3. ~ (m < n) BY <1>1, <2>2
  <2>4. m \in Nat /\ n \in Nat OBVIOUS
  <2> HIDE DEF R
  <2> QED BY <2>3, <2>4
<1> QED BY <1>2

(* The least of some positive numbers. *)
LEMMA MinIs ==
  ASSUME NEW S \in SUBSET (Nat \ {0}), S # {}
  PROVE  LET m == Releases!Min(S) IN m \in S /\ \A k \in 1 .. m - 1 : k \notin S
<1>1. PICK n \in S : TRUE OBVIOUS
<1>2. PICK m \in S : \A k \in 0 .. m - 1 : k \notin S
  BY <1>1, LeastNatural
<1>3. \A k \in S : m <= k BY <1>2
<1>4. Releases!Min(S) \in S /\ \A k \in S : Releases!Min(S) <= k BY <1>2, <1>3 DEF Releases!Min
<1>5. \A k \in 1 .. Releases!Min(S) - 1 : k \notin S
  <2> DEFINE l == Releases!Min(S)
  <2>1. l \in Nat /\ \A k \in S : l <= k BY <1>4
  <2> HIDE DEF l
  <2>2. \A k \in 1 .. l - 1 : k \notin S BY <2>1
  <2> QED BY <2>2 DEF l
<1> QED BY <1>4, <1>5

(* A version, read as a list of places without an end: the three numbers,  *)
(* the identifiers, and what comes after them.  A place has a class and a  *)
(* number: after a pre-release's identifiers comes what is below any, and  *)
(* in the place of a pre-release what is above.                            *)
Class(v, i) ==
  IF i <= 3 THEN 0
  ELSE IF i - 3 <= Len(v.pre) THEN (IF v.pre[i - 3].number THEN 0 ELSE 1)
  ELSE IF v.pre = << >> THEN 2 ELSE -1

Value(v, i) ==
  IF i <= 3 THEN v.num[i] ELSE IF i - 3 <= Len(v.pre) THEN v.pre[i - 3].value ELSE 0

Same(a, b, i)  == Class(a, i) = Class(b, i) /\ Value(a, i) = Value(b, i)
Lower(a, b, i) == \/ Class(a, i) < Class(b, i)
                  \/ Class(a, i) = Class(b, i) /\ Value(a, i) < Value(b, i)

(* The first place at which they differ decides. *)
Decides(a, b, i) == i \in Nat \ {0} /\ (\A k \in 1 .. i - 1 : Same(a, b, k)) /\ Lower(a, b, i)

LEMMA PlacesAre ==
  ASSUME NEW v \in Releases!ParsedVersion, NEW i \in Nat \ {0}
  PROVE  Class(v, i) \in -1 .. 2 /\ Value(v, i) \in Nat
<1>1. Len(v.pre) \in Nat /\ v.num \in [1 .. 3 -> Nat] BY DEF Releases!ParsedVersion
<1>2. ASSUME i > 3, i - 3 <= Len(v.pre) PROVE v.pre[i - 3] \in Releases!Identifier
  <2>1. i - 3 \in 1 .. Len(v.pre) BY <1>1, <1>2
  <2> QED BY <2>1, ElementOfSeq DEF Releases!ParsedVersion
<1> QED BY <1>1, <1>2 DEF Class, Value, Releases!Identifier

(* No two places decide, nor one both ways. *)
LEMMA DecidesOnce ==
  ASSUME NEW a \in Releases!ParsedVersion, NEW b \in Releases!ParsedVersion,
         NEW i, NEW j, Decides(a, b, i), Decides(b, a, j)
  PROVE  FALSE
<1>1. i \in Nat \ {0} /\ j \in Nat \ {0} BY DEF Decides
<1>2. /\ Class(a, i) \in Int /\ Value(a, i) \in Int /\ Class(b, i) \in Int /\ Value(b, i) \in Int
      /\ Class(a, j) \in Int /\ Value(a, j) \in Int /\ Class(b, j) \in Int /\ Value(b, j) \in Int
  BY <1>1, PlacesAre
<1>3. i = j \/ i \in 1 .. j - 1 \/ j \in 1 .. i - 1 BY <1>1
<1> QED BY <1>1, <1>2, <1>3 DEF Decides, Same, Lower

LEMMA DecidesOn ==
  ASSUME NEW a \in Releases!ParsedVersion, NEW b \in Releases!ParsedVersion,
         NEW c \in Releases!ParsedVersion,
         NEW i, NEW j, Decides(a, b, i), Decides(b, c, j)
  PROVE  \E k \in {i, j} : Decides(a, c, k)
<1>1. i \in Nat \ {0} /\ j \in Nat \ {0} BY DEF Decides
<1>2. ASSUME NEW k \in Nat \ {0}
      PROVE  /\ Class(a, k) \in Int /\ Value(a, k) \in Int /\ Class(b, k) \in Int /\ Value(b, k) \in Int
             /\ Class(c, k) \in Int /\ Value(c, k) \in Int
  BY PlacesAre
<1>3. i = j \/ i \in 1 .. j - 1 \/ j \in 1 .. i - 1 BY <1>1
<1>4. CASE i = j
  <2>1. \A k \in 1 .. i - 1 : Same(a, c, k) BY <1>4 DEF Decides, Same
  <2>2. Lower(a, c, i) BY <1>1, <1>2, <1>4 DEF Decides, Lower
  <2> QED BY <1>1, <2>1, <2>2 DEF Decides
<1>5. CASE i \in 1 .. j - 1
  <2>1. \A k \in 1 .. i - 1 : k \in 1 .. j - 1 BY <1>1, <1>5
  <2>2. \A k \in 1 .. i - 1 : Same(a, c, k) BY <2>1 DEF Decides, Same
  <2>3. Lower(a, c, i) BY <1>5 DEF Decides, Lower, Same
  <2> QED BY <1>1, <2>2, <2>3 DEF Decides
<1>6. CASE j \in 1 .. i - 1
  <2>1. \A k \in 1 .. j - 1 : k \in 1 .. i - 1 BY <1>1, <1>6
  <2>2. \A k \in 1 .. j - 1 : Same(a, c, k) BY <2>1 DEF Decides, Same
  <2>3. Lower(a, c, j) BY <1>6 DEF Decides, Lower, Same
  <2> QED BY <1>1, <2>2, <2>3 DEF Decides
<1> QED BY <1>3, <1>4, <1>5, <1>6

(* Of two versions as they are written, Compare says what the first place  *)
(* says.                                                                   *)
LEMMA CompareDecides ==
  ASSUME NEW a \in Releases!ParsedVersion, NEW b \in Releases!ParsedVersion,
         Releases!Plain(a), Releases!Plain(b)
  PROVE  \/ a = b /\ Releases!Compare(a, b) = 0
         \/ Releases!Compare(a, b) = -1 /\ \E i \in Nat : Decides(a, b, i)
         \/ Releases!Compare(a, b) = 1 /\ \E i \in Nat : Decides(b, a, i)
<1> DEFINE numbers == {i \in 1 .. 3 : a.num[i] # b.num[i]}
           differ  == {i \in DOMAIN a.pre \cap DOMAIN b.pre : a.pre[i] # b.pre[i]}
<1>1. /\ a.num \in [1 .. 3 -> Nat] /\ b.num \in [1 .. 3 -> Nat]
      /\ a.pre \in Seq(Releases!Identifier) /\ b.pre \in Seq(Releases!Identifier)
      /\ Len(a.pre) \in Nat /\ Len(b.pre) \in Nat
      /\ DOMAIN a.pre = 1 .. Len(a.pre) /\ DOMAIN b.pre = 1 .. Len(b.pre)
  BY DEF Releases!ParsedVersion
<1>2. CASE numbers # {}
  <2> DEFINE i == Releases!Min(numbers)
  <2>1. i \in numbers /\ \A k \in 1 .. i - 1 : k \notin numbers BY <1>2, MinIs
  <2>2. Releases!Compare(a, b) = IF a.num[i] < b.num[i] THEN -1 ELSE 1
    BY <1>2 DEF Releases!Compare
  <2> HIDE DEF i
  <2>3. i \in 1 .. 3 /\ a.num[i] # b.num[i] /\ a.num[i] \in Nat /\ b.num[i] \in Nat BY <1>1, <2>1
  <2>4. \A k \in 1 .. i - 1 : Same(a, b, k) /\ Same(b, a, k)
    BY <2>1, <2>3 DEF Same, Class, Value
  <2>5. (a.num[i] < b.num[i] => Lower(a, b, i)) /\ (b.num[i] < a.num[i] => Lower(b, a, i))
    BY <2>3 DEF Lower, Class, Value
  <2>6. i \in Nat \ {0} BY <2>3
  <2> QED BY <2>2, <2>3, <2>4, <2>5, <2>6 DEF Decides
<1>3. CASE numbers = {}
  <2>1. a.num = b.num BY <1>1, <1>3
  <2>2. Releases!Compare(a, b) = Releases!ComparePrerelease(a.pre, b.pre)
    BY <1>3 DEF Releases!Compare
  <2>3. \A k \in 1 .. 3 : Same(a, b, k) /\ Same(b, a, k) BY <2>1 DEF Same, Class, Value
  <2>4. CASE a.pre = b.pre
    <3>1. a = b BY <2>1, <2>4 DEF Releases!ParsedVersion
    <3> QED BY <2>2, <2>4, <3>1 DEF Releases!ComparePrerelease
  <2>5. CASE a.pre = << >> /\ b.pre # << >>
    <3>1. Releases!Compare(a, b) = 1 BY <2>2, <2>5 DEF Releases!ComparePrerelease
    <3>2. Len(a.pre) = 0 /\ Len(b.pre) >= 1 BY <1>1, <2>5, EmptySeq
    <3>3. Lower(b, a, 4) BY <2>5, <3>2 DEF Lower, Class
    <3>4. Decides(b, a, 4) BY <2>3, <3>3 DEF Decides
    <3> QED BY <3>1, <3>4
  <2>6. CASE b.pre = << >> /\ a.pre # << >>
    <3>1. Releases!Compare(a, b) = -1 BY <2>2, <2>6 DEF Releases!ComparePrerelease
    <3>2. Len(b.pre) = 0 /\ Len(a.pre) >= 1 BY <1>1, <2>6, EmptySeq
    <3>3. Lower(a, b, 4) BY <2>6, <3>2 DEF Lower, Class
    <3>4. Decides(a, b, 4) BY <2>3, <3>3 DEF Decides
    <3> QED BY <3>1, <3>4
  <2>7. CASE a.pre # << >> /\ b.pre # << >> /\ a.pre # b.pre /\ differ # {}
    <3> DEFINE i == Releases!Min(differ)
    <3>1. i \in differ /\ \A k \in 1 .. i - 1 : k \notin differ
      <4>1. differ \in SUBSET (Nat \ {0}) BY <1>1
      <4> QED BY <2>7, <4>1, MinIs
    <3>2. Releases!Compare(a, b) = Releases!CompareIdentifiers(a.pre[i], b.pre[i])
      BY <2>2, <2>7 DEF Releases!ComparePrerelease
    <3> HIDE DEF i
    <3>3. i \in 1 .. Len(a.pre) /\ i \in 1 .. Len(b.pre) /\ a.pre[i] # b.pre[i] BY <1>1, <3>1
    <3>4. a.pre[i] \in Releases!Identifier /\ b.pre[i] \in Releases!Identifier
      BY <1>1, <3>3, ElementOfSeq
    <3>5. a.pre[i].zeros = 0 /\ b.pre[i].zeros = 0 BY <1>1, <3>3 DEF Releases!Plain
    <3>6. a.pre[i].number = b.pre[i].number => a.pre[i].value # b.pre[i].value
      BY <3>3, <3>4, <3>5 DEF Releases!Identifier
    <3>7. \A k \in 1 .. (i + 3) - 1 : Same(a, b, k) /\ Same(b, a, k)
      <4> SUFFICES ASSUME NEW k \in 1 .. (i + 3) - 1, k > 3 PROVE Same(a, b, k) /\ Same(b, a, k)
        BY <2>3, <3>3
      <4>1. k - 3 \in 1 .. i - 1 BY <3>3
      <4>2. k - 3 \in DOMAIN a.pre \cap DOMAIN b.pre BY <1>1, <3>3, <4>1
      <4>3. a.pre[k - 3] = b.pre[k - 3] BY <3>1, <4>1, <4>2
      <4>4. k - 3 <= Len(a.pre) /\ k - 3 <= Len(b.pre) BY <1>1, <4>2
      <4> QED BY <4>3, <4>4 DEF Same, Class, Value
    <3>8. i + 3 \in Nat \ {0} /\ ~ (i + 3 <= 3) /\ (i + 3) - 3 = i BY <3>3
    <3>9. /\ Class(a, i + 3) = (IF a.pre[i].number THEN 0 ELSE 1) /\ Value(a, i + 3) = a.pre[i].value
          /\ Class(b, i + 3) = (IF b.pre[i].number THEN 0 ELSE 1) /\ Value(b, i + 3) = b.pre[i].value
      BY <3>3, <3>8 DEF Class, Value
    <3>10. \/ Releases!CompareIdentifiers(a.pre[i], b.pre[i]) = -1 /\ Lower(a, b, i + 3)
           \/ Releases!CompareIdentifiers(a.pre[i], b.pre[i]) = 1 /\ Lower(b, a, i + 3)
      BY <3>4, <3>6, <3>9 DEF Releases!CompareIdentifiers, Lower, Releases!Identifier
    <3>11. Decides(a, b, i + 3) <=> Lower(a, b, i + 3) BY <3>7, <3>8 DEF Decides
    <3>12. Decides(b, a, i + 3) <=> Lower(b, a, i + 3) BY <3>7, <3>8 DEF Decides
    <3>13. i + 3 \in Nat BY <3>3
    <3> QED BY <3>2, <3>10, <3>11, <3>12, <3>13
  <2>8. CASE a.pre # << >> /\ b.pre # << >> /\ a.pre # b.pre /\ differ = {}
    <3>1. Releases!Compare(a, b) = IF Len(a.pre) < Len(b.pre) THEN -1 ELSE 1
      BY <2>2, <2>8 DEF Releases!ComparePrerelease
    <3>2. Len(a.pre) # Len(b.pre)
      <4> SUFFICES ASSUME Len(a.pre) = Len(b.pre) PROVE FALSE OBVIOUS
      <4>1. \A k \in 1 .. Len(a.pre) : a.pre[k] = b.pre[k] BY <1>1, <2>8
      <4>2. a.pre = b.pre BY <1>1, <4>1, SeqEqual
      <4> QED BY <2>8, <4>2
    <3>3. ASSUME NEW x \in {a, b}, NEW y \in {a, b}, Len(x.pre) < Len(y.pre)
          PROVE  \E i \in Nat : Decides(x, y, i)
      <4> DEFINE i == Len(x.pre) + 4
      <4>1. Len(x.pre) \in Nat /\ Len(y.pre) \in Nat /\ x.pre # << >> BY <1>1, <2>8
      <4>2. \A k \in 1 .. Len(x.pre) : x.pre[k] = y.pre[k]
        <5>1. (x = a /\ y = b) \/ (x = b /\ y = a) BY <3>3, <4>1
        <5>2. \A k \in DOMAIN a.pre \cap DOMAIN b.pre : a.pre[k] = b.pre[k] BY <2>8
        <5>3. \A k \in 1 .. Len(x.pre) : k \in 1 .. Len(y.pre) BY <3>3, <4>1
        <5> QED BY <1>1, <5>1, <5>2, <5>3
      <4>3. \A k \in 1 .. i - 1 : Same(x, y, k)
        <5> SUFFICES ASSUME NEW k \in 1 .. i - 1, k > 3 PROVE Same(x, y, k)
          BY <2>3, <4>1 DEF Same
        <5>1. k - 3 \in 1 .. Len(x.pre) /\ k - 3 <= Len(y.pre) BY <3>3, <4>1
        <5>2. x.pre[k - 3] = y.pre[k - 3] BY <4>2, <5>1
        <5> QED BY <4>1, <5>1, <5>2 DEF Same, Class, Value
      <4>4. Class(x, i) = -1 /\ Class(y, i) \in {0, 1} BY <3>3, <4>1 DEF Class
      <4>5. Lower(x, y, i) BY <4>4 DEF Lower
      <4> QED BY <4>1, <4>3, <4>5 DEF Decides
    <3> QED BY <1>1, <3>1, <3>2, <3>3
  <2> QED BY <2>4, <2>5, <2>6, <2>7, <2>8
<1> QED BY <1>2, <1>3

(* version.go: versions as they are written are ordered as semantic        *)
(* versioning says, without circles.                                       *)
THEOREM VersionsAreOrdered ==
  ASSUME NEW a \in Releases!ParsedVersion, NEW b \in Releases!ParsedVersion,
         NEW c \in Releases!ParsedVersion
  PROVE  Releases!OrdersVersions(a, b, c)
<1> SUFFICES ASSUME Releases!Plain(a), Releases!Plain(b), Releases!Plain(c)
             PROVE  Releases!OrdersVersions(a, b, c)
  BY DEF Releases!OrdersVersions
<1>1. ASSUME NEW x \in {a, b, c}, NEW y \in {a, b, c}
      PROVE  /\ Releases!Compare(x, y) \in {-1, 0, 1}
             /\ Releases!Compare(x, y) = 0 <=> x = y
             /\ Releases!Compare(x, y) = -1 <=> \E i \in Nat : Decides(x, y, i)
             /\ Releases!Compare(x, y) = 1 <=> \E i \in Nat : Decides(y, x, i)
  <2>1. x \in Releases!ParsedVersion /\ y \in Releases!ParsedVersion /\ Releases!Plain(x)
        /\ Releases!Plain(y)
    OBVIOUS
  <2>2. \A i, j \in Nat : ~ (Decides(x, y, i) /\ Decides(y, x, j)) BY <2>1, DecidesOnce
  <2>3. \A i \in Nat : ~ Decides(x, x, i) BY <2>1, DecidesOnce
  <2> QED BY <2>1, <2>2, <2>3, CompareDecides
<1>2. Releases!Compare(a, b) = - Releases!Compare(b, a) BY <1>1
<1>3. Releases!Compare(a, b) = 0 <=> a = b BY <1>1
<1>4. ASSUME Releases!Compare(a, b) = -1, Releases!Compare(b, c) = -1
      PROVE  Releases!Compare(a, c) = -1
  <2>1. PICK i \in Nat : Decides(a, b, i) BY <1>1, <1>4
  <2>2. PICK j \in Nat : Decides(b, c, j) BY <1>1, <1>4
  <2> QED BY <1>1, <2>1, <2>2, DecidesOn
<1>5. ASSUME NEW x \in {a, b}, NEW y \in {a, b}, x.num = y.num
      PROVE  Releases!Compare(x, y) = Releases!ComparePrerelease(x.pre, y.pre)
  BY <1>5 DEF Releases!Compare
<1>6. ASSUME a.num = b.num, a.pre # << >>, b.pre = << >>
      PROVE  Releases!Compare(a, b) = -1
  BY <1>5, <1>6 DEF Releases!ComparePrerelease
<1>7. ASSUME a.num = b.num, a.pre # << >>, Releases!IsStrictPrefix(a.pre, b.pre)
      PROVE  Releases!Compare(a, b) = -1
  <2>1. a.pre \in Seq(Releases!Identifier) /\ b.pre \in Seq(Releases!Identifier) /\ a.pre # b.pre
    BY <1>7 DEF Releases!ParsedVersion, Releases!IsStrictPrefix
  <2>2. Len(a.pre) \in Nat /\ Len(b.pre) \in Nat /\ Len(a.pre) <= Len(b.pre)
    BY <1>7, <2>1 DEF Releases!IsStrictPrefix, Releases!IsPrefix
  <2>3. \A k \in 1 .. Len(a.pre) : a.pre[k] = b.pre[k]
    <3>1. SubSeq(a.pre, 1, Len(a.pre)) = a.pre BY <2>1
    <3>2. a.pre = SubSeq(b.pre, 1, Len(a.pre))
      BY <1>7, <3>1 DEF Releases!IsStrictPrefix, Releases!IsPrefix
    <3>3. \A k \in 1 .. Len(a.pre) : SubSeq(b.pre, 1, Len(a.pre))[k] = b.pre[k]
      BY <2>1, <2>2, SubSeqProperties
    <3> QED BY <3>2, <3>3
  <2>4. {k \in DOMAIN a.pre \cap DOMAIN b.pre : a.pre[k] # b.pre[k]} = {} BY <2>1, <2>3
  <2>5. Len(a.pre) < Len(b.pre)
    <3> SUFFICES ASSUME Len(a.pre) = Len(b.pre) PROVE FALSE BY <2>2
    <3> QED BY <2>1, <2>3, SeqEqual
  <2>6. b.pre # << >> BY <2>1, <2>2, <2>5, EmptySeq
  <2>7. Releases!ComparePrerelease(a.pre, b.pre) = -1
    BY <1>7, <2>1, <2>4, <2>5, <2>6 DEF Releases!ComparePrerelease
  <2> QED BY <1>5, <1>7, <2>7
<1>8. ASSUME NEW x \in {a, b}, NEW y \in {a, b}, x.num = y.num, Len(x.pre) = 1, Len(y.pre) = 1,
             x.pre[1].number, ~ y.pre[1].number
      PROVE  Releases!Compare(x, y) = -1
  <2> DEFINE differ == {k \in DOMAIN x.pre \cap DOMAIN y.pre : x.pre[k] # y.pre[k]}
  <2>1. x.pre \in Seq(Releases!Identifier) /\ y.pre \in Seq(Releases!Identifier)
    BY DEF Releases!ParsedVersion
  <2>2. DOMAIN x.pre = {1} /\ DOMAIN y.pre = {1} /\ x.pre # << >> /\ y.pre # << >>
    BY <1>8, <2>1, EmptySeq
  <2>3. x.pre # y.pre /\ x.pre[1] # y.pre[1] BY <1>8
  <2>4. differ = {1} BY <2>2, <2>3
  <2>5. Releases!Min(differ) = 1 BY <2>4, MinIs
  <2>6. Releases!ComparePrerelease(x.pre, y.pre) = Releases!CompareIdentifiers(x.pre[1], y.pre[1])
    BY <2>2, <2>3, <2>4, <2>5 DEF Releases!ComparePrerelease
  <2> QED BY <1>5, <1>8, <2>6 DEF Releases!CompareIdentifiers
<1> QED BY <1>2, <1>3, <1>4, <1>6, <1>7, <1>8 DEF Releases!OrdersVersions

-----------------------------------------------------------------------------
(* What scopes cover. *)

(* A prefix of a prefix is one. *)
LEMMA PrefixIs ==
  ASSUME NEW Char, NEW s \in Seq(Char), NEW t \in Seq(Char)
  PROVE  Grants!IsPrefix(s, t) <=> Len(s) <= Len(t) /\ \A i \in 1 .. Len(s) : s[i] = t[i]
<1>1. SubSeq(s, 1, Len(s)) = s OBVIOUS
<1>2. ASSUME Len(s) <= Len(t)
      PROVE  SubSeq(s, 1, Len(s)) = SubSeq(t, 1, Len(s)) <=> \A i \in 1 .. Len(s) : s[i] = t[i]
  <2> DEFINE u == SubSeq(t, 1, Len(s))
  <2>1. u \in Seq(Char) /\ Len(u) = Len(s) /\ \A i \in 1 .. Len(s) : u[i] = t[i]
    BY <1>2, SubSeqProperties
  <2> HIDE DEF u
  <2>2. s = u <=> \A i \in 1 .. Len(s) : s[i] = u[i]
    BY <2>1, SeqEqual
  <2> QED BY <1>1, <2>1, <2>2 DEF u
<1> QED BY <1>2 DEF Grants!IsPrefix

LEMMA BaseIs ==
  ASSUME NEW Char, NEW s \in Seq(Char)
  PROVE  Grants!Base(s) \in Seq(Char)
<1>1. CASE Grants!Wild(s)
  <2>1. s # << >> /\ Len(s) - 1 \in 0 .. Len(s) BY <1>1, EmptySeq DEF Grants!Wild
  <2> QED BY <1>1, <2>1, SubSeqProperties DEF Grants!Base, Grants!Front
<1>2. CASE ~ Grants!Wild(s) BY <1>2 DEF Grants!Base
<1> QED BY <1>1, <1>2

(* What is covered covers no more. *)
LEMMA CoverIsWider ==
  ASSUME NEW h \in Grants!Scope, NEW w \in Grants!Scope, NEW p \in Seq(STRING),
         Grants!Cut(h), Grants!Cut(w), Grants!Wild(h.pattern),
         Grants!IsPrefix(Grants!Base(h.pattern), Grants!Base(w.pattern)),
         Grants!MatchesStoragePattern(w.pattern, p)
  PROVE  Grants!MatchesStoragePattern(h.pattern, p)
<1>1. h.pattern \in Seq(STRING) /\ w.pattern \in Seq(STRING)
  BY DEF Grants!Scope, Grants!Cut, Grants!IsStorage
<1>2. Grants!Base(h.pattern) \in Seq(STRING) /\ Grants!Base(w.pattern) \in Seq(STRING) BY <1>1, BaseIs
<1>3. CASE Grants!Wild(w.pattern)
  <2>1. Grants!IsPrefix(Grants!Base(w.pattern), p) BY <1>3 DEF Grants!MatchesStoragePattern
  <2>2. Grants!IsPrefix(Grants!Base(h.pattern), p)
    <3> DEFINE a == Grants!Base(h.pattern)
               b == Grants!Base(w.pattern)
    <3> HIDE DEF a, b
    <3> SUFFICES ASSUME a \in Seq(STRING), b \in Seq(STRING), Grants!IsPrefix(a, b), Grants!IsPrefix(b, p)
                 PROVE  Grants!IsPrefix(a, p)
      BY <1>2, <2>1 DEF a, b
    <3>1. Len(a) <= Len(b) /\ Len(b) <= Len(p) /\ Len(a) \in Nat /\ Len(b) \in Nat /\ Len(p) \in Nat
      BY PrefixIs, LenProperties
    <3>2. \A i \in 1 .. Len(a) : i \in 1 .. Len(b) BY <3>1
    <3>3. \A i \in 1 .. Len(a) : a[i] = p[i] BY <3>2, PrefixIs
    <3> QED BY <3>1, <3>3, PrefixIs
  <2> QED BY <2>2 DEF Grants!MatchesStoragePattern
<1>4. CASE ~ Grants!Wild(w.pattern) BY <1>4 DEF Grants!MatchesStoragePattern, Grants!Base
<1> QED BY <1>3, <1>4

(* delegate.go, auth.go: a child may do no more than its parent, and is    *)
(* never an admin; what its parent's patterns cover, it can have.          *)
THEOREM ScopesNarrow ==
  ASSUME NEW held \in SUBSET Grants!Scope, NEW want \in SUBSET Grants!Scope,
         NEW verbs, NEW paths \in SUBSET Seq(STRING)
  PROVE  Grants!Narrows(held, want, verbs, paths)
<1> DEFINE given == Grants!NarrowScopes(held, want)
<1> SUFFICES ASSUME given.ok
             PROVE  /\ Grants!Admin \notin given.scopes
                    /\ \A v \in verbs, p \in paths :
                         Grants!HasStorageScope(given.scopes, v, p) => Grants!HasStorageScope(held, v, p)
                    /\ \A v \in verbs, p \in paths :
                         p # << >> /\ ~ Grants!Wild(p) /\ Grants!Admin \notin held
                         /\ Grants!HasStorageScope(held, v, p)
                           => Grants!NarrowScopes(held, {[verb |-> v, pattern |-> p]}).ok
  BY DEF Grants!Narrows
<1>1. \/ want = {} /\ given.scopes = held \ {Grants!Admin}
      \/ /\ given.scopes = want /\ Grants!Admin \notin want
         /\ \A w \in want : Grants!ScopeCovered(held, w)
  BY DEF Grants!NarrowScopes, Grants!Given, Grants!Refused
<1>2. Grants!Admin \notin given.scopes BY <1>1
<1> HIDE DEF given
<1>3. ASSUME NEW v \in verbs, NEW p \in paths, Grants!HasStorageScope(given.scopes, v, p)
      PROVE  Grants!HasStorageScope(held, v, p)
  <2>1. PICK s \in given.scopes :
          Grants!IsStorage(s) /\ s.verb = v /\ Grants!MatchesStoragePattern(s.pattern, p)
    BY <1>2, <1>3 DEF Grants!HasStorageScope
  <2>2. CASE s \in held BY <2>1, <2>2 DEF Grants!HasStorageScope
  <2>3. CASE s \notin held
    <3>1. s \in want /\ Grants!ScopeCovered(held, s) BY <1>1, <2>1, <2>3
    <3>2. PICK h \in held :
            /\ Grants!Cut(h) /\ Grants!Cut(s) /\ h.verb = s.verb /\ Grants!Wild(h.pattern)
            /\ Grants!IsPrefix(Grants!Base(h.pattern), Grants!Base(s.pattern))
      BY <2>3, <3>1 DEF Grants!ScopeCovered
    <3>3. Grants!MatchesStoragePattern(h.pattern, p) BY <2>1, <3>1, <3>2, CoverIsWider
    <3> QED BY <2>1, <3>2, <3>3 DEF Grants!HasStorageScope, Grants!Cut
  <2> QED BY <2>2, <2>3
<1>4. ASSUME NEW v \in verbs, NEW p \in paths, p # << >>, ~ Grants!Wild(p),
             Grants!Admin \notin held, Grants!HasStorageScope(held, v, p)
      PROVE  Grants!NarrowScopes(held, {[verb |-> v, pattern |-> p]}).ok
  <2> DEFINE w == [verb |-> v, pattern |-> p]
  <2>1. Grants!IsStorage(w) /\ w.verb = v /\ w.pattern = p BY DEF Grants!IsStorage
  <2>2. w # Grants!Admin
    <3>1. ~ Grants!IsStorage(Grants!Admin) BY DEF Grants!IsStorage, Grants!Admin
    <3> QED BY <2>1, <3>1
  <2>3. PICK h \in held :
          Grants!IsStorage(h) /\ h.verb = v /\ Grants!MatchesStoragePattern(h.pattern, p)
    BY <1>4 DEF Grants!HasStorageScope
  <2>4. Grants!ScopeCovered(held, w)
    <3>1. CASE Grants!Wild(h.pattern)
      <4>1. Grants!IsPrefix(Grants!Base(h.pattern), p)
        BY <2>3, <3>1 DEF Grants!MatchesStoragePattern
      <4>2. Grants!Base(p) = p BY <1>4 DEF Grants!Base
      <4>3. Grants!Cut(h) /\ Grants!Cut(w)
        BY <1>4, <2>1, <2>3, <3>1 DEF Grants!Cut, Grants!Wild
      <4> QED BY <2>1, <2>3, <3>1, <4>1, <4>2, <4>3 DEF Grants!ScopeCovered
    <3>2. CASE ~ Grants!Wild(h.pattern)
      <4>1. h.pattern = p BY <2>3, <3>2 DEF Grants!MatchesStoragePattern
      <4>2. h \in [verb : STRING, pattern : Seq(STRING)] BY <2>3 DEF Grants!Scope, Grants!IsStorage
      <4>3. h = w BY <2>3, <4>1, <4>2
      <4> QED BY <4>3 DEF Grants!ScopeCovered
    <3> QED BY <3>1, <3>2
  <2> HIDE DEF w
  <2>5. {w} # {} /\ Grants!Admin \notin {w} /\ \A x \in {w} : Grants!ScopeCovered(held, x)
    BY <2>2, <2>4
  <2>6. Grants!NarrowScopes(held, {w}) = Grants!Given({w}) BY <2>5 DEF Grants!NarrowScopes
  <2> QED BY <2>6 DEF Grants!Given, w
<1> QED BY <1>2, <1>3, <1>4

-----------------------------------------------------------------------------
(* Of a behaviour that is of one of the parts, as the run has them, each   *)
(* of the parts behaves as its own specification says.                     *)
LEMMA RunsAreOfParts ==
  MCSpec => /\ Spec /\ Commands!Spec /\ Following!Spec /\ Updating!Spec
            /\ Removal!Spec /\ Serving!Spec /\ Directory!Spec
<1> DEFINE all == <<part, asked, vars, commandVars, followerVars, updateVars, removalVars,
                    processVars, directoryVars>>
<1>1. MCInit => /\ Init /\ Commands!Init /\ Following!Init /\ Updating!Init
                /\ Removal!Init /\ Serving!Init /\ Directory!Init
  BY DEF MCInit
<1>2. [MCNext]_all =>
        /\ [Next]_vars /\ [Commands!Next]_(Commands!vars) /\ [Following!Next]_(Following!vars)
        /\ [Updating!Next]_(Updating!vars) /\ [Removal!Next]_(Removal!vars)
        /\ [Serving!Next]_(Serving!vars) /\ [Directory!Next]_(Directory!vars)
  <2>1. UNCHANGED commandVars => UNCHANGED Commands!vars
    BY DEF commandVars, Commands!vars, Commands!files, Commands!plane, Commands!procs
  <2>2. UNCHANGED followerVars => UNCHANGED Following!vars
    BY DEF followerVars, Following!vars, Following!setup
  <2>3. UNCHANGED updateVars => UNCHANGED Updating!vars BY DEF updateVars, Updating!vars
  <2>4. UNCHANGED removalVars => UNCHANGED Removal!vars BY DEF removalVars, Removal!vars
  <2>5. UNCHANGED processVars => UNCHANGED Serving!vars BY DEF processVars, Serving!vars
  <2>6. UNCHANGED directoryVars => UNCHANGED Directory!vars
    BY DEF directoryVars, Directory!vars, Directory!dir, Directory!procs, Directory!told
  <2>7. UNCHANGED all => UNCHANGED <<vars, commandVars, followerVars, updateVars, removalVars,
                                     processVars, directoryVars>>
    OBVIOUS
  <2> QED
    BY <2>1, <2>2, <2>3, <2>4, <2>5, <2>6, <2>7
       DEF MCNext, AccessStep, CommandStep, FollowerStep, UpdateStep, RemovalStep, ProcessStep,
           DirectoryStep, OrderStep
<1>3. MCSpec => MCInit /\ [][MCNext]_all BY DEF MCSpec
<1> HIDE DEF all
<1> QED
  BY <1>1, <1>2, <1>3, PTL
     DEF Spec, Commands!Spec, Following!Spec, Updating!Spec, Removal!Spec, Serving!Spec,
         Directory!Spec

(* What is asked is a question, and the functions answer it as they should *)
(* whatever versions, scopes and paths there are.                          *)
THEOREM OrdersAreTrue == MCSpec => []OrdersHold
<1> DEFINE all == <<part, asked, vars, commandVars, followerVars, updateVars, removalVars,
                    processVars, directoryVars>>
           Asked == \/ asked = Unasked
                    \/ \E a, b, c \in Released : asked = [of |-> "versions", versions |-> <<a, b, c>>]
                    \/ \E a, b, c, d \in Granted :
                         asked = [of |-> "scopes", held |-> {a, b}, want |-> {c, d}]
<1>1. MCInit => Asked BY DEF MCInit
<1>2. Asked /\ [MCNext]_all => Asked'
  <2>1. CASE OrderStep BY <2>1 DEF OrderStep, AskVersions, AskScopes
  <2>2. CASE UNCHANGED asked BY <2>2
  <2>3. [MCNext]_all => OrderStep \/ UNCHANGED asked
    BY DEF MCNext, Of, AccessStep, CommandStep, FollowerStep, UpdateStep, RemovalStep,
           ProcessStep, DirectoryStep
  <2> QED BY <2>1, <2>2, <2>3
<1>3. Asked => OrdersHold
  <2>1. CASE asked = Unasked BY <2>1 DEF Unasked, OrdersHold
  <2>2. ASSUME NEW a \in Released, NEW b \in Released, NEW c \in Released,
               asked = [of |-> "versions", versions |-> <<a, b, c>>]
        PROVE  OrdersHold
    <3>1. Releases!OrdersVersions(a, b, c)
      BY PartsAssumption, VersionsAreOrdered DEF QuestionConstants
    <3> QED BY <2>2, <3>1 DEF OrdersHold
  <2>3. ASSUME NEW a \in Granted, NEW b \in Granted, NEW c \in Granted, NEW d \in Granted,
               asked = [of |-> "scopes", held |-> {a, b}, want |-> {c, d}]
        PROVE  OrdersHold
    <3>1. /\ {a, b} \in SUBSET Grants!Scope /\ {c, d} \in SUBSET Grants!Scope
          /\ ObjectPath \in SUBSET Seq(STRING)
      BY PartsAssumption DEF QuestionConstants
    <3>2. Grants!Narrows({a, b}, {c, d}, {"read", "write"}, ObjectPath) BY <3>1, ScopesNarrow
    <3> QED BY <2>3, <3>2 DEF OrdersHold
  <2> HIDE DEF Asked
  <2> QED BY <2>1, <2>2, <2>3 DEF Asked
<1>4. MCSpec => MCInit /\ [][MCNext]_all BY DEF MCSpec
<1> HIDE DEF all, Asked
<1> QED BY <1>1, <1>2, <1>3, <1>4, PTL

(* The run's specification keeps what the run checks, for every value of   *)
(* the constants.                                                          *)
THEOREM CommandsHold ==
  MCSpec => /\ [](DroppedForGood /\ ChildWithinParent)
            /\ [](CommandsKeep /\ FollowerEnds /\ SwapSound /\ ScopeIsGone /\ ServerBeginsAndEnds)
            /\ []OrdersHold
            /\ RefusedAfterTTL /\ NonceAcceptedOnce
<1>1. Spec => RefusedAfterTTL /\ NonceAcceptedOnce BY RefusedInTime, NoncesCountOnce
<1>2. Spec => [](DroppedForGood /\ ChildWithinParent)
  BY SettledAreRefused, ChildrenWithinParents, PTL
<1>3. /\ Commands!Spec => []CommandsKeep
      /\ Following!Spec => []FollowerEnds
      /\ Updating!Spec => []SwapSound
      /\ Removal!Spec => []ScopeIsGone
      /\ Serving!Spec /\ Directory!Spec => []ServerBeginsAndEnds
  BY CommandsAreTrue, FollowerIsTrue, UpdatesAreTrue, RemovalIsTrue, ServerIsTrue
<1> QED BY <1>1, <1>2, <1>3, OrdersAreTrue, RunsAreOfParts, PTL
=============================================================================
