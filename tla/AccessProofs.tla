---------------------------- MODULE AccessProofs ----------------------------
(***************************************************************************)
(* Properties of Access that hold for any number of workers, of requests   *)
(* that overlap, and of ticks.                                             *)
(*                                                                         *)
(* The heart of the invariant: wherever the answer "not revoked" is, in    *)
(* the cache or in a request about to put it there, it was asked for no    *)
(* later than the ID was revoked, and never for an ID that is settled.     *)
(***************************************************************************)
EXTENDS Access, FiniteSetTheorems, SequenceTheorems, TLAPS

(* What a request holds on to. *)
Sound(r) ==
  /\ r.at \in {"consult", "query", "put"} => r.checks # << >>
  /\ r.now <= clock
  /\ r.at = "put" /\ r.answer = FALSE =>
       /\ Head(r.checks) \notin settled
       /\ since[Head(r.checks)] = None \/ r.now <= since[Head(r.checks)]
  /\ r.at = "invalidate" => r.id \in revoked
  /\ r.op \in {"refresh", "delegate"} => r.id \in Id
  /\ r.op = "refresh" => r.id[2] = "self"
  /\ r.op = "delegate" => r.expiry <= expires[r.id]

(* What the cache holds on to. *)
EntrySound(id) ==
  entries[id] # None =>
    /\ entries[id].checkedAt <= clock
    /\ entries[id].revoked = FALSE =>
         /\ id \notin settled
         /\ since[id] = None \/ entries[id].checkedAt <= since[id]

LookupsSound ==
  /\ \A t \in Thread : Sound(req[t])
  /\ \A id \in Id : EntrySound(id)
  /\ \A id \in Id : id \notin revoked => since[id] = None

TokensSound ==
  \A w \in Worker : /\ expires[Self(w)] <= clock + TokenTTL
                    /\ expires[ChildOf(w)] <= expires[Self(w)]

(* A challenge that is pending is its worker's latest, and was not used. *)
ChallengesSound ==
  /\ IsFiniteSet(Held(pending))
  /\ \A w \in Anyone : pending[w] # None =>
       /\ pending[w].nonce \in DOMAIN issued
       /\ issued[pending[w].nonce] = w
       /\ verified[pending[w].nonce] = 0
       /\ \A m \in DOMAIN issued : issued[m] = w => m <= pending[w].nonce
  /\ \A n \in Nonce : n \notin DOMAIN issued => verified[n] = 0

IInv == TypeOK /\ LookupsSound /\ TokensSound /\ ChallengesSound

-----------------------------------------------------------------------------
(* IDs, requests and the steps of one thread.                              *)

LEMMA Ids ==
  /\ \A w \in Worker : Self(w) \in Id /\ ChildOf(w) \in Id /\ Self(w) # ChildOf(w)
  /\ \A w \in Worker : Self(w)[2] = "self" /\ ChildOf(w)[2] = "child" /\ ChildOf(w)[1] = w
  /\ \A id \in Id : id[1] \in Worker /\ id[2] \in {"self", "child"}
  /\ \A id \in Id : id[2] = "self" => id = Self(id[1])
  /\ \A id \in Id : id[2] = "child" => id = ChildOf(id[1])
  /\ \A id \in Id : Checks(id) \in Seq(Id) /\ Checks(id) # << >>
<1>1. \A id \in Id : id[1] \in Worker /\ id[2] \in {"self", "child"} /\ id = <<id[1], id[2]>>
  BY DEF Id
<1>2. \A w \in Worker : Self(w) \in Id /\ ChildOf(w) \in Id
  BY DEF Id, Self, ChildOf
<1>3. \A w \in Worker : Self(w)[2] = "self" /\ ChildOf(w)[2] = "child" /\ ChildOf(w)[1] = w
  BY DEF Self, ChildOf
<1>4. \A id \in Id : Checks(id) \in Seq(Id) /\ Checks(id) # << >>
  BY <1>1, <1>2 DEF Checks
<1>5. \A id \in Id : (id[2] = "self" => id = Self(id[1])) /\ (id[2] = "child" => id = ChildOf(id[1]))
  BY <1>1 DEF Self, ChildOf
<1>6. QED
  BY <1>1, <1>2, <1>3, <1>4, <1>5

LEMMA Numbers ==
  ASSUME TypeOK
  PROVE  /\ clock \in Nat
         /\ LastTick \in Nat /\ MaxNonces \in Nat
         /\ CacheTTL \in Nat /\ CacheTTL > 0 /\ TokenTTL \in Nat /\ ChildTTL \in Nat /\ ChallengeTTL \in Nat
         /\ \A i \in Tick : i \in Nat
         /\ \A i \in Nonce : i \in Nat
  BY TTLAssumption, BoundAssumption DEF TypeOK, Tick, Nonce

LEMMA IdleRequest ==
  /\ Idle \in Request
  /\ Idle.at = "idle" /\ Idle.op = "none" /\ Idle.now = 0
  BY BoundAssumption DEF Idle, Request, Tick

(* One thread's record is replaced. *)
LEMMA ThreadStep ==
  ASSUME TypeOK, NEW t \in Thread, NEW r \in Request, req' = [req EXCEPT ![t] = r]
  PROVE  /\ req' \in [Thread -> Request]
         /\ req'[t] = r
         /\ \A u \in Thread : u # t => req'[u] = req[u]
  BY DEF TypeOK

(* The record of a request that was told its ID is not revoked. *)
LEMMA Answered ==
  ASSUME TypeOK, NEW t \in Thread, req[t].checks # << >>, Answer(t, FALSE)
  PROVE  \E r \in Request :
           /\ req' = [req EXCEPT ![t] = r]
           /\ r.at \in {"consult", "serve"}
           /\ r.at = "consult" => r.checks # << >>
           /\ r.checks = Tail(req[t].checks)
           /\ r.now \in {0, clock}
           /\ r.op = req[t].op /\ r.id = req[t].id /\ r.expiry = req[t].expiry
<1> DEFINE left == Tail(req[t].checks)
           now  == IF left = << >> THEN 0 ELSE clock
           at   == IF left = << >> THEN "serve" ELSE "consult"
           r    == [req[t] EXCEPT !.checks = left, !.answer = FALSE, !.now = now, !.at = at]
<1>1. req[t] \in Request /\ clock \in Tick
  BY DEF TypeOK
<1>2. left \in Seq(Id)
  BY <1>1 DEF Request
<1>3. now \in Tick /\ now \in {0, clock}
  BY <1>1, BoundAssumption DEF Tick
<1>4. at \in {"serve", "consult"} /\ (at = "consult" => left # << >>)
  OBVIOUS
<1>5. req' = [req EXCEPT ![t].checks = left, ![t].answer = FALSE, ![t].now = now, ![t].at = at]
  BY DEF Answer
<1> HIDE DEF left, now, at
<1>6. r \in Request
  BY <1>1, <1>2, <1>3, <1>4 DEF Request
<1>7. req' = [req EXCEPT ![t] = r]
  BY <1>5 DEF TypeOK
<1>8. /\ r.at = at /\ r.checks = left /\ r.now = now
      /\ r.op = req[t].op /\ r.id = req[t].id /\ r.expiry = req[t].expiry
  BY <1>1 DEF Request
<1> HIDE DEF r
<1>9. left = Tail(req[t].checks)
  BY DEF left
<1>10. WITNESS r \in Request
<1>11. QED
  BY <1>3, <1>4, <1>7, <1>8, <1>9

-----------------------------------------------------------------------------
(* Steps of a request: the tables of revocations and the clock stay.       *)

(* A sound new record for t is all such a step owes to the other requests. *)
LEMMA OthersSound ==
  ASSUME IInv, NEW t \in Thread, NEW r \in Request, req' = [req EXCEPT ![t] = r],
         UNCHANGED <<clock, revoked, since, settled>>,
         expires' \in [Id -> Nat], \A i \in Id : expires[i] <= expires'[i],
         Sound(r)'
  PROVE  /\ req' \in [Thread -> Request]
         /\ \A u \in Thread : Sound(req[u])'
<1>1. /\ req' \in [Thread -> Request]
      /\ req'[t] = r
      /\ \A u \in Thread : u # t => req'[u] = req[u]
  BY ThreadStep DEF IInv
<1>2. ASSUME NEW u \in Thread, u # t PROVE Sound(req[u])'
  <2>1. Sound(req[u]) /\ req[u] \in Request
    BY DEF IInv, LookupsSound, TypeOK
  <2>2. req[u].op = "delegate" => req[u].expiry <= expires'[req[u].id]
    <3>1. SUFFICES ASSUME req[u].op = "delegate" PROVE req[u].expiry <= expires'[req[u].id]
      OBVIOUS
    <3>2. req[u].id \in Id /\ req[u].expiry <= expires[req[u].id] /\ req[u].expiry \in Nat
      BY <2>1, <3>1 DEF Sound, Request
    <3>3. expires[req[u].id] \in Nat /\ expires'[req[u].id] \in Nat
          /\ expires[req[u].id] <= expires'[req[u].id]
      BY <3>2 DEF IInv, TypeOK
    <3>4. QED
      BY <3>2, <3>3
  <2>3. QED
    BY <1>1, <1>2, <2>1, <2>2 DEF Sound
<1>3. QED
  BY <1>1, <1>2

(* A step of t that, but for its record, changes at most what it has       *)
(* minted, by no less than there was, and by no more than there may be.    *)
LEMMA RequestStep ==
  ASSUME IInv, NEW t \in Thread, NEW r \in Request, req' = [req EXCEPT ![t] = r],
         UNCHANGED <<clock, revoked, since, settled, entries, stops>>,
         served' \in 0 .. MaxRequests,
         expires' \in [Id -> Nat], \A i \in Id : expires[i] <= expires'[i],
         Sound(r)'
  PROVE  /\ LookupsSound'
         /\ clock' \in Tick /\ entries' \in [Id -> Entry \cup {None}] /\ revoked' \in SUBSET Id
         /\ req' \in [Thread -> Request] /\ stops' \in 0 .. MaxStops
         /\ since' \in [Id -> Tick \cup {None}] /\ settled' \in SUBSET revoked'
<1>1. req' \in [Thread -> Request] /\ \A u \in Thread : Sound(req[u])'
  BY OthersSound
<1>2. \A id \in Id : EntrySound(id)'
  BY DEF IInv, LookupsSound, EntrySound
<1>3. QED
  BY <1>1, <1>2 DEF IInv, TypeOK, LookupsSound

(* The same of a step that has nothing to do with challenges. *)
LEMMA RequestIInv ==
  ASSUME IInv, NEW t \in Thread, NEW r \in Request, req' = [req EXCEPT ![t] = r],
         UNCHANGED <<clock, revoked, since, settled, entries, stops>>,
         UNCHANGED <<pending, issued, verified>>,
         served' \in 0 .. MaxRequests,
         expires' \in [Id -> Nat], \A i \in Id : expires[i] <= expires'[i],
         TokensSound', Sound(r)'
  PROVE  IInv'
<1>1. /\ LookupsSound'
      /\ clock' \in Tick /\ entries' \in [Id -> Entry \cup {None}] /\ revoked' \in SUBSET Id
      /\ req' \in [Thread -> Request] /\ stops' \in 0 .. MaxStops
      /\ since' \in [Id -> Tick \cup {None}] /\ settled' \in SUBSET revoked'
  BY RequestStep
<1>2. TypeOK'
  BY <1>1 DEF IInv, TypeOK
<1>3. ChallengesSound'
  BY DEF IInv, ChallengesSound
<1>4. QED
  BY <1>1, <1>2, <1>3 DEF IInv

LEMMA ConsultIInv ==
  ASSUME IInv, NEW t \in Thread, Consult(t)
  PROVE  IInv'
<1> DEFINE entry == entries[Head(req[t].checks)]
<1>1. req[t] \in Request /\ Sound(req[t]) /\ TypeOK /\ req[t].at = "consult"
  BY DEF IInv, TypeOK, LookupsSound, Consult
<1>2. clock \in Nat /\ req[t].now \in Nat
  BY <1>1, Numbers DEF Request
<1>3. \E r \in Request : req' = [req EXCEPT ![t] = r] /\ Sound(r)'
  <2>1. CASE Fresh(entry, req[t].now) /\ entry.revoked = FALSE
    <3>1. Answer(t, FALSE)
      BY <2>1 DEF Consult
    <3>2. PICK r \in Request :
            /\ req' = [req EXCEPT ![t] = r]
            /\ r.at \in {"consult", "serve"}
            /\ r.at = "consult" => r.checks # << >>
            /\ r.now \in {0, clock}
            /\ r.op = req[t].op /\ r.id = req[t].id /\ r.expiry = req[t].expiry
      BY <1>1, <3>1, Answered DEF Sound
    <3>3. Sound(r)'
      BY <1>1, <1>2, <3>2 DEF Sound, Consult, ghosts
    <3>4. QED
      BY <3>2, <3>3
  <2>2. CASE Fresh(entry, req[t].now) /\ entry.revoked # FALSE
    <3>1. entry.revoked = TRUE
      <4>1. Head(req[t].checks) \in Id
        BY <1>1 DEF Sound, Request
      <4>2. entry \in Entry
        BY <2>2, <4>1 DEF IInv, TypeOK, Fresh
      <4>3. QED
        BY <2>2, <4>2 DEF Entry
    <3>2. req' = [req EXCEPT ![t] = Idle]
      BY <2>2, <3>1 DEF Consult, Answer, Return
    <3>3. Sound(Idle)'
      BY <1>2, IdleRequest DEF Sound, Consult, Idle
    <3>4. QED
      BY <3>2, <3>3, IdleRequest
  <2>3. CASE ~Fresh(entry, req[t].now)
    <3> DEFINE r == [req[t] EXCEPT !.at = "query"]
    <3>1. r \in Request /\ r.at = "query" /\ r.checks = req[t].checks /\ r.now = req[t].now
          /\ r.op = req[t].op /\ r.id = req[t].id /\ r.expiry = req[t].expiry
      BY <1>1 DEF Request
    <3>2. req' = [req EXCEPT ![t].at = "query"]
      BY <2>3 DEF Consult
    <3>3. req' = [req EXCEPT ![t] = r]
      BY <3>2 DEF IInv, TypeOK
    <3>4. PICK q \in Request : q = r
      BY <3>1
    <3> HIDE DEF r
    <3>5. Sound(q)'
      BY <1>1, <3>1, <3>4 DEF Sound, Consult, ghosts
    <3>6. QED
      BY <3>3, <3>4, <3>5
  <2>4. QED
    BY <2>1, <2>2, <2>3
<1>4. PICK r \in Request : req' = [req EXCEPT ![t] = r] /\ Sound(r)'
  BY <1>3
<1>5. /\ UNCHANGED <<clock, revoked, since, settled, entries, stops, served, expires>>
      /\ UNCHANGED <<pending, issued, verified>>
  BY DEF Consult, ghosts
<1>6. expires' \in [Id -> Nat] /\ (\A i \in Id : expires[i] <= expires'[i])
      /\ served' \in 0 .. MaxRequests /\ TokensSound'
  BY <1>5 DEF IInv, TypeOK, TokensSound
<1>7. QED
  BY <1>4, <1>5, <1>6, RequestIInv

LEMMA QueryIInv ==
  ASSUME IInv, NEW t \in Thread, Query(t)
  PROVE  IInv'
<1> DEFINE id == Head(req[t].checks)
<1>1. req[t] \in Request /\ Sound(req[t]) /\ req[t].at = "query"
  BY DEF IInv, TypeOK, LookupsSound, Query
<1>2. clock \in Nat /\ id \in Id
  BY <1>1, Numbers DEF IInv, Sound, Request
<1>3. /\ UNCHANGED <<clock, revoked, since, settled, entries, stops, served, expires>>
      /\ UNCHANGED <<pending, issued, verified>>
  BY DEF Query, ghosts
<1>4. \E r \in Request : req' = [req EXCEPT ![t] = r] /\ Sound(r)'
  <2>1. CASE req' = [req EXCEPT ![t] = Idle]
    <3>1. Sound(Idle)'
      BY <1>2, <1>3, IdleRequest DEF Sound, Idle
    <3>2. QED
      BY <2>1, <3>1, IdleRequest
  <2>2. CASE req' = [req EXCEPT ![t].at = "put", ![t].answer = id \in revoked]
    <3> DEFINE yes == id \in revoked
               r   == [req[t] EXCEPT !.at = "put", !.answer = yes]
    <3>1. yes \in BOOLEAN /\ (yes = FALSE => id \notin revoked)
      OBVIOUS
    <3>2. req' = [req EXCEPT ![t].at = "put", ![t].answer = yes]
      BY <2>2
    <3> HIDE DEF yes
    <3>3. r \in Request /\ r.at = "put" /\ r.checks = req[t].checks /\ r.now = req[t].now
          /\ r.answer = yes
          /\ r.op = req[t].op /\ r.id = req[t].id /\ r.expiry = req[t].expiry
      BY <1>1, <3>1 DEF Request
    <3>4. req' = [req EXCEPT ![t] = r]
      BY <3>2 DEF IInv, TypeOK
    <3>5. PICK q \in Request : q = r
      BY <3>3
    <3> HIDE DEF r
    <3>6. q.answer = FALSE => id \notin settled /\ since[id] = None
      BY <1>2, <3>1, <3>3, <3>5 DEF IInv, TypeOK, LookupsSound
    <3>7. Sound(q)'
      BY <1>1, <1>3, <3>3, <3>5, <3>6 DEF Sound
    <3>8. QED
      BY <3>4, <3>5, <3>7
  <2>3. QED
    BY <2>1, <2>2 DEF Query, Return
<1>5. PICK r \in Request : req' = [req EXCEPT ![t] = r] /\ Sound(r)'
  BY <1>4
<1>6. expires' \in [Id -> Nat] /\ (\A i \in Id : expires[i] <= expires'[i])
      /\ served' \in 0 .. MaxRequests /\ TokensSound'
  BY <1>3 DEF IInv, TypeOK, TokensSound
<1>7. QED
  BY <1>3, <1>5, <1>6, RequestIInv

LEMMA PutIInv ==
  ASSUME IInv, NEW t \in Thread, Put(t)
  PROVE  IInv'
<1>1. req[t] \in Request /\ Sound(req[t]) /\ req[t].at = "put" /\ TypeOK
  BY DEF IInv, TypeOK, LookupsSound, Put
<1>0. PICK id \in Id : id = Head(req[t].checks)
  BY <1>1 DEF Sound, Request
<1>2. clock \in Nat
  BY <1>1, Numbers
<1> DEFINE e == [revoked |-> req[t].answer, checkedAt |-> req[t].now]
<1>3. /\ UNCHANGED <<clock, revoked, since, settled, stops, served, expires>>
      /\ UNCHANGED <<pending, issued, verified>>
      /\ entries' = [entries EXCEPT ![id] = e]
  BY <1>0 DEF Put, ghosts
<1>4. e \in Entry /\ e.revoked = req[t].answer /\ e.checkedAt = req[t].now
  BY <1>1 DEF Request, Entry
<1>5. \E r \in Request : req' = [req EXCEPT ![t] = r] /\ Sound(r)'
  <2>1. CASE req[t].answer = FALSE
    <3>1. Answer(t, FALSE)
      BY <2>1 DEF Put
    <3>2. PICK r \in Request :
            /\ req' = [req EXCEPT ![t] = r]
            /\ r.at \in {"consult", "serve"}
            /\ r.at = "consult" => r.checks # << >>
            /\ r.now \in {0, clock}
            /\ r.op = req[t].op /\ r.id = req[t].id /\ r.expiry = req[t].expiry
      BY <1>1, <3>1, Answered DEF Sound
    <3>3. Sound(r)'
      BY <1>1, <1>2, <1>3, <3>2 DEF Sound
    <3>4. QED
      BY <3>2, <3>3
  <2>2. CASE req[t].answer = TRUE
    <3>1. req' = [req EXCEPT ![t] = Idle]
      BY <2>2 DEF Put, Answer, Return
    <3>2. Sound(Idle)'
      BY <1>2, <1>3, IdleRequest DEF Sound, Idle
    <3>3. QED
      BY <3>1, <3>2, IdleRequest
  <2>3. QED
    BY <1>1, <2>1, <2>2 DEF Request
<1>6. PICK r \in Request : req' = [req EXCEPT ![t] = r] /\ Sound(r)'
  BY <1>5
<1>7. expires' \in [Id -> Nat] /\ (\A i \in Id : expires[i] <= expires'[i])
      /\ TokensSound' /\ ChallengesSound'
  BY <1>3 DEF IInv, TypeOK, TokensSound, ChallengesSound
<1>8. req' \in [Thread -> Request] /\ \A u \in Thread : Sound(req[u])'
  BY <1>3, <1>6, <1>7, OthersSound
<1>9. entries' \in [Id -> Entry \cup {None}]
  BY <1>3, <1>4 DEF IInv, TypeOK
<1>10. \A i \in Id : EntrySound(i)'
  <2> HIDE DEF e
  <2>1. entries'[id] = e /\ \A i \in Id : i # id => entries'[i] = entries[i]
    BY <1>3 DEF IInv, TypeOK
  <2>2. EntrySound(id)'
    BY <1>0, <1>1, <1>3, <1>4, <2>1 DEF EntrySound, Sound
  <2>3. \A i \in Id : i # id => EntrySound(i)'
    BY <1>3, <2>1 DEF IInv, LookupsSound, EntrySound
  <2>4. QED
    BY <2>2, <2>3
<1>11. LookupsSound'
  BY <1>3, <1>8, <1>10 DEF IInv, LookupsSound
<1>12. TypeOK'
  BY <1>3, <1>8, <1>9 DEF IInv, TypeOK
<1>13. QED
  BY <1>7, <1>11, <1>12 DEF IInv

LEMMA ServeIInv ==
  ASSUME IInv, NEW t \in Thread, Serve(t)
  PROVE  IInv'
<1>1. req[t] \in Request /\ Sound(req[t]) /\ TypeOK
  BY DEF IInv, TypeOK, LookupsSound
<1>2. clock \in Nat /\ TokenTTL \in Nat /\ ChildTTL \in Nat /\ req[t].expiry \in Nat
  BY <1>1, Numbers DEF Request
<1>3. /\ UNCHANGED <<clock, revoked, since, settled, entries, stops, served>>
      /\ UNCHANGED <<pending, issued, verified>>
      /\ req' = [req EXCEPT ![t] = Idle]
  BY DEF Serve, Return, ghosts
<1>4. \A i \in Id : expires[i] \in Nat
  BY <1>1 DEF TypeOK
<1>5. expires' \in [Id -> Nat] /\ (\A i \in Id : expires[i] <= expires'[i]) /\ TokensSound'
  <2>1. CASE UNCHANGED expires
    BY <1>1, <1>3, <1>4, <2>1 DEF TypeOK, IInv, TokensSound
  <2>2. CASE req[t].op = "refresh" /\ expires' = [expires EXCEPT ![req[t].id] = clock + TokenTTL]
    <3>1. PICK w \in Worker : req[t].id = Self(w)
      BY <1>1, <2>2, Ids DEF Sound
    <3>2. expires[Self(w)] <= clock + TokenTTL
      BY DEF IInv, TokensSound
    <3>3. /\ expires'[Self(w)] = clock + TokenTTL
          /\ \A i \in Id : i # Self(w) => expires'[i] = expires[i]
      BY <1>1, <2>2, <3>1, Ids DEF TypeOK
    <3>4. clock + TokenTTL \in Nat
      BY <1>2
    <3>5. expires' \in [Id -> Nat] /\ \A i \in Id : expires[i] <= expires'[i]
      <4>1. expires' \in [Id -> Nat]
        BY <1>1, <2>2, <3>4 DEF TypeOK
      <4>2. ASSUME NEW i \in Id PROVE expires[i] <= expires'[i]
        <5>1. CASE i = Self(w)
          BY <3>2, <3>3, <5>1
        <5>2. CASE i # Self(w)
          BY <1>4, <3>3, <5>2
        <5>3. QED
          BY <5>1, <5>2
      <4>3. QED
        BY <4>1, <4>2
    <3>6. ASSUME NEW v \in Worker
          PROVE  expires'[Self(v)] <= clock + TokenTTL /\ expires'[ChildOf(v)] <= expires'[Self(v)]
      <4>1. ChildOf(v) # Self(w) /\ Self(v) \in Id /\ ChildOf(v) \in Id
        BY Ids
      <4>2. expires'[ChildOf(v)] = expires[ChildOf(v)]
        BY <3>3, <4>1
      <4>3. expires[Self(v)] <= clock + TokenTTL /\ expires[ChildOf(v)] <= expires[Self(v)]
        BY DEF IInv, TokensSound
      <4>4. expires[Self(v)] <= expires'[Self(v)]
        BY <3>5, <4>1
      <4>5. expires'[Self(v)] \in {expires[Self(v)], clock + TokenTTL}
        BY <3>3, <4>1
      <4>6. QED
        BY <1>2, <1>4, <3>4, <4>1, <4>2, <4>3, <4>4, <4>5
    <3>7. QED
      BY <1>3, <3>5, <3>6 DEF TokensSound
  <2>3. CASE /\ req[t].op = "delegate" /\ req[t].id[2] = "self"
             /\ expires' = [expires EXCEPT ![ChildOf(req[t].id[1])] = Later(@, ChildExpiry(req[t]))]
    <3>1. PICK w \in Worker : req[t].id = Self(w) /\ req[t].id[1] = w
      BY <1>1, <2>3, Ids DEF Sound
    <3>2. ChildExpiry(req[t]) \in Nat /\ ChildExpiry(req[t]) <= req[t].expiry
      BY <1>2 DEF ChildExpiry
    <3>3. req[t].expiry <= expires[Self(w)]
      BY <1>1, <2>3, <3>1 DEF Sound
    <3> DEFINE c == Later(expires[ChildOf(w)], ChildExpiry(req[t]))
    <3>4. expires' = [expires EXCEPT ![ChildOf(w)] = c]
      BY <2>3, <3>1
    <3>5. expires[ChildOf(w)] <= expires[Self(w)] /\ expires[ChildOf(w)] \in Nat
          /\ expires[Self(w)] \in Nat
      BY <1>4, Ids DEF IInv, TokensSound
    <3>6. c \in Nat /\ expires[ChildOf(w)] <= c /\ c <= expires[Self(w)]
      BY <1>2, <3>2, <3>3, <3>5 DEF Later
    <3> HIDE DEF c
    <3>7. /\ expires'[ChildOf(w)] = c
          /\ \A i \in Id : i # ChildOf(w) => expires'[i] = expires[i]
      BY <1>1, <3>4, Ids DEF TypeOK
    <3>8. expires' \in [Id -> Nat] /\ \A i \in Id : expires[i] <= expires'[i]
      <4>1. expires' \in [Id -> Nat]
        BY <1>1, <3>4, <3>6 DEF TypeOK
      <4>2. ASSUME NEW i \in Id PROVE expires[i] <= expires'[i]
        <5>1. CASE i = ChildOf(w)
          BY <3>6, <3>7, <5>1
        <5>2. CASE i # ChildOf(w)
          BY <1>4, <3>7, <5>2
        <5>3. QED
          BY <5>1, <5>2
      <4>3. QED
        BY <4>1, <4>2
    <3>9. ASSUME NEW v \in Worker
          PROVE  expires'[Self(v)] <= clock + TokenTTL /\ expires'[ChildOf(v)] <= expires'[Self(v)]
      <4>1. Self(v) # ChildOf(w) /\ Self(v) \in Id /\ ChildOf(v) \in Id
        BY Ids
      <4>2. expires'[Self(v)] = expires[Self(v)]
        BY <3>7, <4>1
      <4>3. expires[Self(v)] <= clock + TokenTTL /\ expires[ChildOf(v)] <= expires[Self(v)]
        BY DEF IInv, TokensSound
      <4>4. CASE ChildOf(v) = ChildOf(w)
        <5>1. v = w
          BY <4>4 DEF ChildOf
        <5>2. QED
          BY <3>6, <3>7, <4>2, <4>3, <5>1
      <4>5. CASE ChildOf(v) # ChildOf(w)
        BY <3>7, <4>1, <4>2, <4>3, <4>5
      <4>6. QED
        BY <4>4, <4>5
    <3>10. QED
      BY <1>3, <3>8, <3>9 DEF TokensSound
  <2>4. QED
    BY <2>1, <2>2, <2>3 DEF Serve
<1>6. Sound(Idle)'
  BY <1>2, <1>3, IdleRequest DEF Sound, Idle
<1>7. served' \in 0 .. MaxRequests
  BY <1>1, <1>3 DEF TypeOK
<1>8. QED
  BY <1>3, <1>5, <1>6, <1>7, IdleRequest, RequestIInv

(* A request that arrives: not more than may, and nobody else is disturbed. *)
LEMMA Arrival ==
  ASSUME TypeOK, NEW t \in Thread, NEW r, Begin(t, r)
  PROVE  served' \in 0 .. MaxRequests /\ req' = [req EXCEPT ![t] = r]
  BY BoundAssumption DEF Begin, TypeOK

LEMMA BeginWithTokenIInv ==
  ASSUME IInv, NEW t \in Thread, NEW op \in {"use", "delegate"}, NEW id \in Id,
         BeginWithToken(t, op, id)
  PROVE  IInv'
<1> DEFINE x == expires[id]
           c == Checks(id)
           now == clock
           r == [Idle EXCEPT !.at = "consult", !.op = op, !.id = id, !.expiry = x,
                             !.checks = c, !.now = now]
<1>1. TypeOK /\ clock \in Nat /\ now \in Tick /\ x \in Nat /\ c \in Seq(Id) /\ c # << >>
  BY Numbers, Ids DEF IInv, TypeOK
<1>2. Begin(t, r)
  BY DEF BeginWithToken
<1>3. /\ UNCHANGED <<clock, revoked, since, settled, entries, stops, expires>>
      /\ UNCHANGED <<pending, issued, verified>>
  BY DEF BeginWithToken, ghosts
<1> DEFINE unchanged == x = expires'[id] /\ now = clock'
<1>4. unchanged
  BY <1>3
<1> HIDE DEF x, c, now
<1>5. r \in Request /\ r.at = "consult" /\ r.op = op /\ r.id = id /\ r.expiry = x
      /\ r.checks = c /\ r.now = now
  BY <1>1, IdleRequest DEF Request
<1>6. PICK q \in Request : q = r
  BY <1>5
<1> HIDE DEF r
<1>7. expires' \in [Id -> Nat] /\ (\A i \in Id : expires[i] <= expires'[i]) /\ TokensSound'
  BY <1>1, <1>3 DEF IInv, TypeOK, TokensSound
<1>8. x \in Nat /\ clock' \in Nat
  BY <1>1, <1>3
<1>9. Sound(q)'
  BY <1>1, <1>4, <1>5, <1>6, <1>8 DEF Sound
<1>10. QED
  BY <1>1, <1>2, <1>3, <1>6, <1>7, <1>9, Arrival, RequestIInv

LEMMA BeginRefreshIInv ==
  ASSUME IInv, NEW t \in Thread, NEW w \in Anyone, NEW n \in Nonce, NEW signed \in BOOLEAN,
         BeginRefresh(t, w, n, signed)
  PROVE  IInv'
<1>1. TypeOK /\ clock \in Nat /\ clock \in Tick /\ pending \in [Anyone -> [nonce : Nonce, expiresAt : Nat] \cup {None}]
  BY Numbers DEF IInv, TypeOK
<1>2. UNCHANGED <<clock, revoked, since, settled, entries, stops, expires, issued>>
  BY DEF BeginRefresh
<1>3. /\ pending' = [pending EXCEPT ![w] = None]
      /\ pending'[w] = None /\ \A v \in Anyone : v # w => pending'[v] = pending[v]
  BY <1>1 DEF BeginRefresh, Consume
<1>4. /\ \E r \in Request : Begin(t, r) /\ Sound(r)'
      /\ \/ UNCHANGED verified
         \/ w \in Worker /\ Accepts(w, n) /\ verified' = [verified EXCEPT ![n] = @ + 1]
  <2>1. CASE w \in Worker /\ Accepts(w, n) /\ signed
    <3> DEFINE c == Checks(Self(w))
               i == Self(w)
               r == [Idle EXCEPT !.at = "consult", !.op = "refresh", !.id = i,
                                 !.checks = c, !.now = clock]
    <3>1. c \in Seq(Id) /\ c # << >> /\ i \in Id /\ i[2] = "self"
      BY <2>1, Ids
    <3>2. Begin(t, r) /\ verified' = [verified EXCEPT ![n] = @ + 1]
      BY <2>1 DEF BeginRefresh
    <3> HIDE DEF c, i
    <3>3. r \in Request /\ r.at = "consult" /\ r.op = "refresh" /\ r.id = i
          /\ r.checks = c /\ r.now = clock
      BY <1>1, <3>1, IdleRequest DEF Request
    <3>4. PICK q \in Request : q = r
      BY <3>3
    <3> HIDE DEF r
    <3>5. Sound(q)'
      BY <1>1, <1>2, <3>1, <3>3, <3>4 DEF Sound
    <3>6. QED
      BY <2>1, <3>2, <3>4, <3>5
  <2>2. CASE ~(w \in Worker /\ Accepts(w, n) /\ signed)
    <3>1. Begin(t, Idle) /\ UNCHANGED verified
      BY <2>2 DEF BeginRefresh
    <3>2. Sound(Idle)'
      BY <1>1, <1>2, IdleRequest DEF Sound, Idle
    <3>3. QED
      BY <3>1, <3>2, IdleRequest
  <2>3. QED
    BY <2>1, <2>2
<1>5. PICK r \in Request : Begin(t, r) /\ Sound(r)'
  BY <1>4
<1>6. served' \in 0 .. MaxRequests /\ req' = [req EXCEPT ![t] = r]
  BY <1>1, <1>5, Arrival
<1>7. expires' \in [Id -> Nat] /\ (\A i \in Id : expires[i] <= expires'[i]) /\ TokensSound'
  BY <1>1, <1>2 DEF IInv, TypeOK, TokensSound
<1>8. /\ LookupsSound'
      /\ clock' \in Tick /\ entries' \in [Id -> Entry \cup {None}] /\ revoked' \in SUBSET Id
      /\ req' \in [Thread -> Request] /\ stops' \in 0 .. MaxStops
      /\ since' \in [Id -> Tick \cup {None}] /\ settled' \in SUBSET revoked'
  BY <1>2, <1>5, <1>6, <1>7, RequestStep
<1>9. /\ pending' \in [Anyone -> [nonce : Nonce, expiresAt : Nat] \cup {None}]
      /\ IsFiniteSet(Held(pending'))
      /\ Cardinality(Held(pending')) <= MaxPending
  <2>1. pending' \in [Anyone -> [nonce : Nonce, expiresAt : Nat] \cup {None}]
    BY <1>1, <1>3
  <2>2. Held(pending') \subseteq Held(pending)
    BY <1>3 DEF Held
  <2>3. IsFiniteSet(Held(pending)) /\ Cardinality(Held(pending)) <= MaxPending /\ MaxPending \in Nat
    BY TTLAssumption DEF IInv, TypeOK, ChallengesSound
  <2>4. /\ IsFiniteSet(Held(pending'))
        /\ Cardinality(Held(pending')) <= Cardinality(Held(pending))
    BY <2>2, <2>3, FS_Subset
  <2>5. Cardinality(Held(pending')) \in Nat /\ Cardinality(Held(pending)) \in Nat
    BY <2>3, <2>4, FS_CardinalityType
  <2>6. QED
    BY <2>1, <2>3, <2>4, <2>5
<1>10. verified' \in [Nonce -> Nat]
  BY <1>1, <1>4 DEF TypeOK
<1>11. TypeOK'
  BY <1>1, <1>2, <1>6, <1>7, <1>8, <1>9, <1>10 DEF TypeOK
<1>12. ChallengesSound'
  <2>1. ASSUME NEW v \in Anyone, pending'[v] # None
        PROVE  /\ pending'[v].nonce \in DOMAIN issued'
               /\ issued'[pending'[v].nonce] = v
               /\ verified'[pending'[v].nonce] = 0
               /\ \A m \in DOMAIN issued' : issued'[m] = v => m <= pending'[v].nonce
    <3>1. v # w /\ pending'[v] = pending[v] /\ pending[v] # None
      BY <1>3, <2>1
    <3>2. /\ pending[v].nonce \in DOMAIN issued
          /\ issued[pending[v].nonce] = v
          /\ verified[pending[v].nonce] = 0
          /\ \A m \in DOMAIN issued : issued[m] = v => m <= pending[v].nonce
      BY <3>1 DEF IInv, ChallengesSound
    <3>3. pending[v].nonce \in Nonce
      BY <1>1, <3>1
    <3>4. verified'[pending[v].nonce] = 0
      <4>1. CASE UNCHANGED verified
        BY <3>2, <4>1
      <4>2. CASE w \in Worker /\ Accepts(w, n) /\ verified' = [verified EXCEPT ![n] = @ + 1]
        <5>1. issued[n] = w
          BY <4>2 DEF Accepts, IInv, ChallengesSound
        <5>2. pending[v].nonce # n
          BY <3>1, <3>2, <5>1
        <5>3. QED
          BY <1>1, <3>2, <3>3, <4>2, <5>2 DEF TypeOK
      <4>3. QED
        BY <1>4, <4>1, <4>2
    <3>5. QED
      BY <1>2, <3>1, <3>2, <3>4
  <2>2. ASSUME NEW k \in Nonce, k \notin DOMAIN issued' PROVE verified'[k] = 0
    <3>1. k # n /\ verified[k] = 0
      BY <1>2, <2>2 DEF BeginRefresh, IInv, ChallengesSound
    <3>2. QED
      BY <1>1, <1>4, <3>1 DEF TypeOK
  <2>3. QED
    BY <1>9, <2>1, <2>2 DEF ChallengesSound
<1>13. QED
  BY <1>7, <1>8, <1>11, <1>12 DEF IInv

LEMMA BeginRevokeIInv ==
  ASSUME IInv, NEW t \in Thread, NEW id \in Id, BeginRevoke(t, id)
  PROVE  IInv'
<1> DEFINE r == [Idle EXCEPT !.at = "invalidate", !.op = "revoke", !.id = id]
<1>1. TypeOK /\ clock \in Nat /\ clock \in Tick
  BY Numbers DEF IInv, TypeOK
<1>2. /\ UNCHANGED <<clock, entries, stops, expires, settled>>
      /\ UNCHANGED <<pending, issued, verified>>
      /\ revoked' = revoked \cup {id}
      /\ since' = [since EXCEPT ![id] = IF @ = None THEN clock ELSE @]
      /\ Begin(t, r)
  BY DEF BeginRevoke
<1>3. r \in Request /\ r.at = "invalidate" /\ r.op = "revoke" /\ r.id = id /\ r.now = 0
  BY IdleRequest DEF Request
<1>4. PICK q \in Request : q = r
  BY <1>3
<1> HIDE DEF r
<1>5. /\ served' \in 0 .. MaxRequests
      /\ req' \in [Thread -> Request] /\ req'[t] = q
      /\ \A u \in Thread : u # t => req'[u] = req[u]
  BY <1>1, <1>2, <1>4, Arrival, ThreadStep
<1>6. /\ since' \in [Id -> Tick \cup {None}]
      /\ since'[id] = (IF since[id] = None THEN clock ELSE since[id])
      /\ \A i \in Id : i # id => since'[i] = since[i]
  BY <1>1, <1>2 DEF TypeOK
<1>7. TypeOK'
  BY <1>1, <1>2, <1>5, <1>6 DEF TypeOK
<1>8. ASSUME NEW u \in Thread PROVE Sound(req[u])'
  <2>1. CASE u = t
    BY <1>1, <1>2, <1>3, <1>4, <1>5, <2>1 DEF Sound
  <2>2. CASE u # t
    <3>1. Sound(req[u]) /\ req[u] \in Request /\ req'[u] = req[u]
      BY <1>1, <1>5, <2>2 DEF IInv, LookupsSound, TypeOK
    <3>2. ASSUME req[u].at = "put", req[u].answer = FALSE
          PROVE  since'[Head(req[u].checks)] = None \/ req[u].now <= since'[Head(req[u].checks)]
      <4>1. Head(req[u].checks) \in Id
        BY <3>1, <3>2 DEF Sound, Request
      <4>2. since[Head(req[u].checks)] = None \/ req[u].now <= since[Head(req[u].checks)]
        BY <3>1, <3>2 DEF Sound
      <4>3. req[u].now <= clock
        BY <3>1 DEF Sound
      <4>4. QED
        BY <1>6, <4>1, <4>2, <4>3
    <3>3. QED
      BY <1>2, <3>1, <3>2 DEF Sound
  <2>3. QED
    BY <2>1, <2>2
<1>9. ASSUME NEW i \in Id PROVE EntrySound(i)'
  BY <1>2, <1>6 DEF IInv, LookupsSound, EntrySound
<1>10. LookupsSound'
  BY <1>2, <1>6, <1>8, <1>9 DEF IInv, LookupsSound
<1>11. TokensSound' /\ ChallengesSound'
  BY <1>2 DEF IInv, TokensSound, ChallengesSound
<1>12. QED
  BY <1>7, <1>10, <1>11 DEF IInv

LEMMA InvalidateIInv ==
  ASSUME IInv, NEW t \in Thread, Invalidate(t)
  PROVE  IInv'
<1>1. TypeOK /\ req[t].at = "invalidate" /\ Sound(req[t])
  BY DEF IInv, LookupsSound, Invalidate
<1>2. PICK id \in revoked : id = req[t].id
  BY <1>1 DEF Sound
<1>3. /\ UNCHANGED <<clock, revoked, stops, served, expires, since>>
      /\ UNCHANGED <<pending, issued, verified>>
      /\ entries' = [entries EXCEPT ![id] = None]
      /\ settled' = IF LookupUnderWay(id) THEN settled ELSE settled \cup {id}
      /\ req' = [req EXCEPT ![t] = Idle]
  BY <1>2 DEF Invalidate, DropEntry, Return
<1>4. id \in Id
  BY <1>1 DEF TypeOK
<1>5. /\ req' \in [Thread -> Request] /\ req'[t] = Idle
      /\ \A u \in Thread : u # t => req'[u] = req[u]
  BY <1>1, <1>3, IdleRequest, ThreadStep
<1>6. entries' \in [Id -> Entry \cup {None}] /\ entries'[id] = None
      /\ \A i \in Id : i # id => entries'[i] = entries[i]
  BY <1>1, <1>3, <1>4 DEF TypeOK
<1>7. TypeOK'
  BY <1>1, <1>3, <1>5, <1>6 DEF TypeOK
<1>8. ASSUME NEW u \in Thread PROVE Sound(req[u])'
  <2>1. CASE u = t
    <3>1. clock \in Nat
      BY <1>1, Numbers
    <3>2. QED
      BY <1>3, <1>5, <2>1, <3>1, IdleRequest DEF Sound
  <2>2. CASE u # t
    <3>1. Sound(req[u]) /\ req[u] \in Request /\ req'[u] = req[u]
      BY <1>1, <1>5, <2>2 DEF IInv, LookupsSound, TypeOK
    <3>2. req[u].at = "put" /\ req[u].answer = FALSE => Head(req[u].checks) \notin settled'
      BY <1>3, <3>1 DEF Sound, LookupUnderWay
    <3>3. QED
      BY <1>3, <3>1, <3>2 DEF Sound
  <2>3. QED
    BY <2>1, <2>2
<1>9. ASSUME NEW i \in Id PROVE EntrySound(i)'
  BY <1>3, <1>6 DEF IInv, LookupsSound, EntrySound
<1>10. LookupsSound'
  BY <1>3, <1>8, <1>9 DEF IInv, LookupsSound
<1>11. TokensSound' /\ ChallengesSound'
  BY <1>3 DEF IInv, TokensSound, ChallengesSound
<1>12. QED
  BY <1>7, <1>10, <1>11 DEF IInv

LEMMA PassIInv ==
  ASSUME IInv, Pass
  PROVE  IInv'
<1>1. TypeOK /\ clock \in Nat /\ LastTick \in Nat /\ TokenTTL \in Nat
  BY Numbers DEF IInv
<1>2. /\ clock' = clock + 1 /\ clock' \in Tick
      /\ UNCHANGED <<pending, entries, revoked, expires, req, served, stops>>
      /\ UNCHANGED <<issued, verified, since, settled>>
  BY <1>1 DEF Pass, ghosts, Tick
<1>3. TypeOK'
  BY <1>1, <1>2 DEF TypeOK
<1>4. ASSUME NEW u \in Thread PROVE Sound(req[u])'
  <2>1. Sound(req[u]) /\ req[u].now \in Nat
    BY <1>1, Numbers DEF IInv, LookupsSound, TypeOK, Request
  <2>2. req[u].now <= clock + 1
    BY <1>1, <2>1 DEF Sound
  <2>3. QED
    BY <1>2, <2>1, <2>2 DEF Sound
<1>5. ASSUME NEW i \in Id PROVE EntrySound(i)'
  <2>1. EntrySound(i) /\ (entries[i] # None => entries[i].checkedAt \in Nat)
    BY <1>1, Numbers DEF IInv, LookupsSound, TypeOK, Entry
  <2>2. entries[i] # None => entries[i].checkedAt <= clock + 1
    BY <1>1, <2>1 DEF EntrySound
  <2>3. QED
    BY <1>2, <2>1, <2>2 DEF EntrySound
<1>6. LookupsSound'
  BY <1>2, <1>4, <1>5 DEF IInv, LookupsSound
<1>7. TokensSound'
  <2>1. ASSUME NEW w \in Worker PROVE expires[Self(w)] <= clock + 1 + TokenTTL
    <3>1. expires[Self(w)] \in Nat
      BY <1>1, Ids DEF TypeOK
    <3>2. expires[Self(w)] <= clock + TokenTTL
      BY DEF IInv, TokensSound
    <3>3. QED
      BY <1>1, <3>1, <3>2
  <2>2. QED
    BY <1>2, <2>1 DEF IInv, TokensSound
<1>8. ChallengesSound'
  BY <1>2 DEF IInv, ChallengesSound
<1>9. QED
  BY <1>3, <1>6, <1>7, <1>8 DEF IInv

LEMMA RestartIInv ==
  ASSUME IInv, Restart
  PROVE  IInv'
<1>1. TypeOK /\ clock \in Nat
  BY Numbers DEF IInv
<1>2. /\ UNCHANGED <<clock, revoked, expires, served, issued, verified, since, settled>>
      /\ pending' = [w \in Anyone |-> None]
      /\ entries' = [i \in Id |-> None]
      /\ req' = [u \in Thread |-> Idle]
  BY DEF Restart, ghosts
<1>3. stops' \in 0 .. MaxStops
  BY <1>1, BoundAssumption DEF Restart, TypeOK
<1>4. Held(pending') = {}
  BY <1>2 DEF Held
<1>5. IsFiniteSet(Held(pending')) /\ Cardinality(Held(pending')) = 0
  BY <1>4, FS_EmptySet
<1>6. Cardinality(Held(pending')) <= MaxPending
  BY <1>5, TTLAssumption
<1>7. TypeOK'
  BY <1>1, <1>2, <1>3, <1>6, IdleRequest DEF TypeOK
<1>8. Sound(Idle)'
  BY <1>1, <1>2, IdleRequest DEF Sound
<1>9. LookupsSound'
  <2>1. \A u \in Thread : Sound(req[u])'
    <3>1. \A u \in Thread : req'[u] = Idle
      BY <1>2
    <3>2. QED
      BY <1>8, <3>1 DEF Sound
  <2>2. \A i \in Id : EntrySound(i)'
    BY <1>2 DEF EntrySound
  <2>3. QED
    BY <1>2, <2>1, <2>2 DEF IInv, LookupsSound
<1>10. TokensSound' /\ ChallengesSound'
  BY <1>2, <1>5 DEF IInv, TokensSound, ChallengesSound
<1>11. QED
  BY <1>7, <1>9, <1>10 DEF IInv

-----------------------------------------------------------------------------
(* Challenges that are issued.                                             *)

Challenge == [nonce : Nonce, expiresAt : Nat]

(* Sweeping and evicting take challenges away and change none, and leave   *)
(* no more than there may be.                                              *)
LEMMA EvictedKeeps ==
  ASSUME NEW p \in [Anyone -> Challenge \cup {None}], IsFiniteSet(Held(p)), NEW q \in Evicted(p)
  PROVE  /\ q \in [Anyone -> Challenge \cup {None}]
         /\ \A v \in Anyone : q[v] \in {p[v], None}
         /\ IsFiniteSet(Held(q)) /\ Cardinality(Held(q)) <= MaxPending
<1>1. MaxPending \in Nat
  BY TTLAssumption
<1>2. CASE Cardinality(Held(p)) <= MaxPending
  BY <1>2 DEF Evicted
<1>3. CASE ~(Cardinality(Held(p)) <= MaxPending)
  <2>1. PICK K \in SUBSET Held(p) :
          /\ Cardinality(K) = MaxPending
          /\ q = [v \in Anyone |-> IF v \in K THEN p[v] ELSE None]
    BY <1>3 DEF Evicted
  <2>2. Held(q) = K
    BY <2>1 DEF Held
  <2>3. IsFiniteSet(K)
    BY FS_Subset
  <2>4. q \in [Anyone -> Challenge \cup {None}] /\ \A v \in Anyone : q[v] \in {p[v], None}
    BY <2>1
  <2>5. QED
    BY <1>1, <2>1, <2>2, <2>3, <2>4
<1>4. QED
  BY <1>2, <1>3

LEMMA IssueIInv ==
  ASSUME IInv, NEW w \in Anyone, IssueChallenge(w)
  PROVE  IInv'
<1> DEFINE n    == Len(issued) + 1
           made == [nonce |-> n, expiresAt |-> clock + ChallengeTTL]
           p    == [pending EXCEPT ![w] = made]
           q    == Swept(p)
<1>1. /\ TypeOK /\ clock \in Nat /\ ChallengeTTL \in Nat /\ MaxNonces \in Nat
      /\ issued \in Seq(Anyone) /\ Len(issued) \in Nat /\ Len(issued) <= MaxNonces
      /\ DOMAIN issued = 1 .. Len(issued)
      /\ pending \in [Anyone -> Challenge \cup {None}]
  <2>1. TypeOK /\ clock \in Nat /\ ChallengeTTL \in Nat /\ MaxNonces \in Nat
    BY Numbers DEF IInv
  <2>2. issued \in Seq(Anyone) /\ Len(issued) <= MaxNonces
    BY <2>1 DEF TypeOK
  <2>3. Len(issued) \in Nat /\ DOMAIN issued = 1 .. Len(issued)
    BY <2>2
  <2>4. pending \in [Anyone -> Challenge \cup {None}]
    BY <2>1 DEF TypeOK, Challenge
  <2>5. QED
    BY <2>1, <2>2, <2>3, <2>4
<1>2. /\ n <= MaxNonces /\ pending' \in Evicted(q) /\ issued' = Append(issued, w)
      /\ UNCHANGED <<clock, entries, revoked, expires, req, served, stops, verified, since, settled>>
  BY DEF IssueChallenge
<1>3. n \in Nonce /\ n \notin DOMAIN issued
  BY <1>1, <1>2 DEF Nonce
<1>4. made \in Challenge /\ made.nonce = n
  <2>1. clock + ChallengeTTL \in Nat
    BY <1>1
  <2>2. QED
    BY <1>3, <2>1 DEF Challenge
<1>5. p \in [Anyone -> Challenge \cup {None}] /\ p[w] = made
      /\ \A v \in Anyone : v # w => p[v] = pending[v]
  BY <1>1, <1>4
<1> HIDE DEF made, p
<1>6. q \in [Anyone -> Challenge \cup {None}] /\ \A v \in Anyone : q[v] \in {p[v], None}
  BY <1>5 DEF Swept
<1>7. IsFiniteSet(Held(q))
  <2>1. Held(q) \subseteq Held(pending) \cup {w}
    BY <1>5, <1>6 DEF Held
  <2>2. IsFiniteSet(Held(pending) \cup {w})
    BY FS_AddElement DEF IInv, ChallengesSound
  <2>3. QED
    BY <2>1, <2>2, FS_Subset
<1> HIDE DEF q
<1>8. /\ pending' \in [Anyone -> Challenge \cup {None}]
      /\ \A v \in Anyone : pending'[v] \in {q[v], None}
      /\ IsFiniteSet(Held(pending')) /\ Cardinality(Held(pending')) <= MaxPending
  BY <1>2, <1>6, <1>7, EvictedKeeps
<1>9. /\ issued' \in Seq(Anyone) /\ Len(issued') = n /\ DOMAIN issued' = 1 .. n /\ issued'[n] = w
      /\ \A m \in DOMAIN issued : m \in DOMAIN issued' /\ issued'[m] = issued[m]
      /\ \A m \in DOMAIN issued' : m \in DOMAIN issued \/ m = n
  BY <1>1, <1>2
<1>10. TypeOK'
  BY <1>1, <1>2, <1>8, <1>9 DEF TypeOK, Challenge
<1>11. ChallengesSound'
  <2>1. ASSUME NEW v \in Anyone, pending'[v] # None
        PROVE  /\ pending'[v].nonce \in DOMAIN issued'
               /\ issued'[pending'[v].nonce] = v
               /\ verified'[pending'[v].nonce] = 0
               /\ \A m \in DOMAIN issued' : issued'[m] = v => m <= pending'[v].nonce
    <3>1. pending'[v] = p[v]
      BY <1>6, <1>8, <2>1
    <3>2. CASE v = w
      <4>1. pending'[v].nonce = n
        BY <1>4, <1>5, <3>1, <3>2
      <4>2. n \in DOMAIN issued' /\ issued'[n] = v /\ \A m \in DOMAIN issued' : m <= n
        BY <1>1, <1>9, <3>2
      <4>3. verified'[n] = 0
        BY <1>2, <1>3 DEF IInv, ChallengesSound
      <4> HIDE DEF n
      <4>4. QED
        BY <4>1, <4>2, <4>3
    <3>3. CASE v # w
      <4>1. pending'[v] = pending[v] /\ pending[v] # None
        BY <1>5, <2>1, <3>1, <3>3
      <4>2. /\ pending[v].nonce \in DOMAIN issued
            /\ issued[pending[v].nonce] = v
            /\ verified[pending[v].nonce] = 0
            /\ \A m \in DOMAIN issued : issued[m] = v => m <= pending[v].nonce
        BY <4>1 DEF IInv, ChallengesSound
      <4>3. \A m \in DOMAIN issued' : issued'[m] = v => m \in DOMAIN issued /\ issued[m] = v
        BY <1>9, <3>3
      <4>4. QED
        BY <1>2, <1>9, <4>1, <4>2, <4>3
    <3>4. QED
      BY <3>2, <3>3
  <2>2. ASSUME NEW k \in Nonce, k \notin DOMAIN issued' PROVE verified'[k] = 0
    BY <1>2, <1>9, <2>2 DEF IInv, ChallengesSound
  <2>3. QED
    BY <1>8, <2>1, <2>2 DEF ChallengesSound
<1>12. LookupsSound' /\ TokensSound'
  BY <1>2 DEF IInv, LookupsSound, Sound, EntrySound, TokensSound
<1>13. QED
  BY <1>10, <1>11, <1>12 DEF IInv

-----------------------------------------------------------------------------
(* The invariant.                                                          *)

LEMMA IInvInit == Init => IInv
<1> SUFFICES ASSUME Init PROVE IInv
  OBVIOUS
<1>1. 0 \in Tick /\ TokenTTL \in Nat /\ TokenTTL > 0 /\ MaxPending \in Nat /\ MaxNonces \in Nat
  BY BoundAssumption, TTLAssumption DEF Tick
<1>2. Held(pending) = {}
  BY DEF Init, Held
<1>3. IsFiniteSet(Held(pending)) /\ Cardinality(Held(pending)) <= MaxPending
  BY <1>1, <1>2, FS_EmptySet
<1>4. issued = << >> /\ issued \in Seq(Anyone) /\ Len(issued) = 0 /\ DOMAIN issued = {}
  BY DEF Init
<1>5. expires \in [Id -> Nat]
  BY <1>1 DEF Init
<1>6. TypeOK
  BY <1>1, <1>3, <1>4, <1>5, IdleRequest, BoundAssumption DEF Init, TypeOK
<1>7. LookupsSound
  BY <1>1, IdleRequest DEF Init, LookupsSound, Sound, EntrySound, Tick
<1>8. TokensSound
  <2>1. ASSUME NEW w \in Worker PROVE expires[Self(w)] = TokenTTL /\ expires[ChildOf(w)] = 0
    <3>1. /\ Self(w) \in Id /\ ChildOf(w) \in Id
          /\ Self(w)[2] = "self" /\ ChildOf(w)[2] # "self"
      BY Ids
    <3>2. QED
      BY <3>1 DEF Init
  <2>2. QED
    BY <1>1, <2>1 DEF Init, TokensSound
<1>9. ChallengesSound
  BY <1>3 DEF Init, ChallengesSound
<1>10. QED
  BY <1>6, <1>7, <1>8, <1>9 DEF IInv

LEMMA IInvStep == IInv /\ [Next]_vars => IInv'
<1> SUFFICES ASSUME IInv, [Next]_vars PROVE IInv'
  OBVIOUS
<1>1. ASSUME NEW w \in Anyone, IssueChallenge(w) PROVE IInv'
  BY <1>1, IssueIInv
<1>2. ASSUME NEW t \in Thread, Arrive(t) PROVE IInv'
  BY <1>2, BeginRefreshIInv, BeginWithTokenIInv, BeginRevokeIInv DEF Arrive
<1>3. ASSUME NEW t \in Thread, Handle(t) PROVE IInv'
  BY <1>3, ConsultIInv, QueryIInv, PutIInv, ServeIInv, InvalidateIInv DEF Handle
<1>4. CASE Pass
  BY <1>4, PassIInv
<1>5. CASE Restart
  BY <1>5, RestartIInv
<1>6. CASE UNCHANGED vars
  <2>1. /\ UNCHANGED <<clock, pending, entries, revoked, expires, req, served, stops>>
        /\ UNCHANGED <<issued, verified, since, settled>>
    BY <1>6 DEF vars, ghosts
  <2>2. TypeOK' /\ LookupsSound'
    BY <2>1 DEF IInv, TypeOK, LookupsSound, Sound, EntrySound
  <2>3. TokensSound' /\ ChallengesSound'
    BY <2>1 DEF IInv, TokensSound, ChallengesSound
  <2>4. QED
    BY <2>2, <2>3 DEF IInv
<1>7. QED
  BY <1>1, <1>2, <1>3, <1>4, <1>5, <1>6 DEF Next

LEMMA IInvHolds == Spec => []IInv
<1>1. QED
  BY IInvInit, IInvStep, PTL DEF Spec

-----------------------------------------------------------------------------
(* What follows.                                                           *)

(* Every variable stays in its type, and the challenges pending, one for   *)
(* each ID that asked, registered or not, stay within maxPendingChallenges *)
(* (auth.go:44-79).                                                        *)
THEOREM AccessTypes == Spec => []TypeOK
<1>1. IInv => TypeOK
  BY DEF IInv
<1>2. QED
  BY <1>1, IInvHolds, PTL

(* auth.go:180-184, workers.go:199-203: once the entry of a revoked ID was *)
(* dropped with no older lookup in the middle, no lookup puts "not         *)
(* revoked" back.                                                          *)
THEOREM SettledAreRefused == Spec => []DroppedForGood
<1>1. IInv => DroppedForGood
  <2> SUFFICES ASSUME IInv, NEW id \in settled, entries[id] # None PROVE entries[id].revoked
    BY DEF DroppedForGood
  <2>1. TypeOK /\ LookupsSound
    BY DEF IInv
  <2>2. id \in Id
    BY <2>1 DEF TypeOK
  <2>3. entries[id].revoked \in BOOLEAN
    BY <2>1, <2>2 DEF TypeOK, Entry
  <2>4. entries[id].revoked # FALSE
    BY <2>1, <2>2 DEF LookupsSound, EntrySound
  <2>5. QED
    BY <2>3, <2>4
<1>2. QED
  BY <1>1, IInvHolds, PTL

(* delegate.go:51-95: whatever a worker refreshes and delegates, and in    *)
(* whatever order, no token of its child outlasts its own.                 *)
THEOREM ChildrenWithinParents == Spec => []ChildWithinParent
<1>1. IInv => ChildWithinParent
  BY DEF IInv, TokensSound, ChildWithinParent
<1>2. QED
  BY <1>1, IInvHolds, PTL

(* A step that does not touch the request of t leaves it no fewer IDs.     *)
LEMMA TailDiffers ==
  ASSUME NEW s \in Seq(Id), s # << >>
  PROVE  Tail(s) # s
<1>1. Len(s) \in Nat
  BY LenProperties
<1>2. Len(Tail(s)) = Len(s) - 1
  BY HeadTailProperties
<1>3. Len(s) # Len(s) - 1
  BY <1>1
<1>4. QED
  BY <1>2, <1>3, Zenon

(* Only two steps tell a request that an ID is not revoked.                *)
LEMMA OnlyAnswersPass ==
  ASSUME IInv, [Next]_vars, NEW t \in Thread, NEW id \in Id, Passes(t, id)
  PROVE  Consult(t) \/ Put(t)
<1>1. TypeOK /\ Sound(req[t])
  BY DEF IInv, LookupsSound
<1>2. req \in [Thread -> Request] /\ req[t].checks \in Seq(Id) /\ req[t].at \in {"consult", "put"}
  BY <1>1 DEF TypeOK, Request, Passes
<1>3. req[t].checks # << >>
  BY <1>1, <1>2 DEF Sound
<1>4. req'[t] # req[t]
  BY <1>2, <1>3, TailDiffers DEF Passes
<1>5. req'[t].at \in {"consult", "serve"}
  BY DEF Passes
<1>6. ASSUME NEW u \in Thread, Arrive(u) PROVE FALSE
  <2>1. \A r : Begin(u, r) => u # t /\ req'[t] = req[t]
    BY <1>2 DEF Begin
  <2>2. QED
    BY <1>4, <1>6, <2>1 DEF Arrive, BeginRefresh, BeginWithToken, BeginRevoke
<1>7. ASSUME NEW u \in Thread, Handle(u), u # t PROVE FALSE
  <2>1. req'[t] = req[t]
    BY <1>2, <1>7 DEF Handle, Consult, Query, Put, Serve, Invalidate, Answer, Return
  <2>2. QED
    BY <1>4, <2>1
<1>8. ASSUME Query(t) PROVE FALSE
  <2>1. req'[t].at \in {"put", "idle"}
    BY <1>2, <1>8 DEF Query, Return, Idle, Request
  <2>2. QED
    BY <1>5, <2>1
<1>9. ~Serve(t) /\ ~Invalidate(t)
  BY <1>2 DEF Serve, Invalidate
<1>10. CASE Restart
  BY <1>5, <1>10 DEF Restart, Idle
<1>11. CASE Pass \/ (\E w \in Anyone : IssueChallenge(w)) \/ UNCHANGED vars
  BY <1>4, <1>11 DEF Pass, IssueChallenge, vars
<1>12. QED
  BY <1>6, <1>7, <1>8, <1>9, <1>10, <1>11 DEF Next, Handle

(* auth.go:158-178: however many requests look an ID up at once, and       *)
(* however their reads of the cache and of the table and their writes to   *)
(* the cache are ordered with the revocation, a lookup that begins         *)
(* CacheTTL after it or later refuses the ID.                              *)
THEOREM RefusedInTime == Spec => RefusedAfterTTL
<1> DEFINE InTime == \A t \in Thread, id \in Id :
                       Passes(t, id) => since[id] = None \/ req[t].now < since[id] + CacheTTL
<1>1. IInv /\ [Next]_vars => InTime
  <2> SUFFICES ASSUME IInv, [Next]_vars, NEW t \in Thread, NEW id \in Id, Passes(t, id),
                      since[id] # None
               PROVE  req[t].now < since[id] + CacheTTL
    OBVIOUS
  <2>1. /\ TypeOK /\ Sound(req[t]) /\ EntrySound(id)
        /\ req[t] \in Request /\ req[t].at \in {"consult", "put"} /\ Head(req[t].checks) = id
        /\ req'[t].at \in {"consult", "serve"}
    BY DEF IInv, LookupsSound, TypeOK, Passes
  <2>2. CacheTTL \in Nat /\ CacheTTL > 0 /\ \A i \in Tick : i \in Nat
    BY <2>1, Numbers
  <2>3. req[t].now \in Nat /\ req[t].answer \in BOOLEAN
    BY <2>1, <2>2 DEF Request
  <2>4. since[id] \in Nat
    BY <2>1, <2>2 DEF TypeOK
  <2>5. Return(t) => req'[t].at = "idle"
    BY <2>1 DEF Return, TypeOK, Idle
  <2>6. CASE Consult(t)
    <3>1. Fresh(entries[id], req[t].now)
      <4>1. req' = [req EXCEPT ![t].at = "query"] => req'[t].at = "query"
        BY <2>1 DEF TypeOK, Request
      <4>2. QED
        BY <2>1, <2>6, <4>1 DEF Consult
    <3>2. Answer(t, entries[id].revoked)
      BY <2>1, <2>6, <3>1 DEF Consult
    <3>3. entries[id].revoked # TRUE
      BY <2>1, <2>5, <3>2 DEF Answer
    <3>4. entries[id] # None /\ req[t].now < entries[id].checkedAt + CacheTTL
      BY <3>1 DEF Fresh
    <3>5. entries[id].revoked \in BOOLEAN /\ entries[id].checkedAt \in Nat
      BY <2>1, <2>2, <3>4 DEF TypeOK, Entry
    <3>6. entries[id].checkedAt <= since[id]
      BY <2>1, <3>3, <3>4, <3>5 DEF EntrySound
    <3>7. QED
      BY <2>2, <2>3, <2>4, <3>4, <3>5, <3>6
  <2>7. CASE Put(t)
    <3>1. req[t].at = "put" /\ Answer(t, req[t].answer)
      BY <2>7 DEF Put
    <3>2. req[t].answer # TRUE
      BY <2>1, <2>5, <3>1 DEF Answer
    <3>3. req[t].now <= since[id]
      BY <2>1, <2>3, <3>1, <3>2 DEF Sound
    <3>4. QED
      BY <2>2, <2>3, <2>4, <3>3
  <2>8. QED
    BY <2>6, <2>7, OnlyAnswersPass
<1>2. RefusedAfterTTL <=> [][InTime]_vars
  BY DEF RefusedAfterTTL
<1> HIDE DEF InTime
<1>3. QED
  BY <1>1, <1>2, IInvHolds, PTL DEF Spec

(* auth.go:81-135: a nonce is accepted once at most, whatever is asked for *)
(* again, replayed, evicted, or lost in a restart, and only while it is    *)
(* its worker's latest.                                                    *)
THEOREM NoncesCountOnce == Spec => NonceAcceptedOnce
<1> DEFINE Once == \A n \in Nonce : verified'[n] # verified[n] =>
                     /\ verified[n] = 0
                     /\ \A m \in DOMAIN issued : issued[m] = issued[n] => m <= n
<1>1. IInv /\ [Next]_vars => Once
  <2> SUFFICES ASSUME IInv, [Next]_vars, NEW n \in Nonce, verified'[n] # verified[n]
               PROVE  /\ verified[n] = 0
                      /\ \A m \in DOMAIN issued : issued[m] = issued[n] => m <= n
    OBVIOUS
  <2>1. TypeOK /\ ChallengesSound
    BY DEF IInv
  <2>2. \E t \in Thread, w \in Anyone, k \in Nonce, signed \in BOOLEAN :
           BeginRefresh(t, w, k, signed) /\ verified' # verified
    BY DEF Next, vars, ghosts, Arrive, Handle, IssueChallenge, BeginWithToken, BeginRevoke,
           Consult, Query, Put, Serve, Invalidate, Pass, Restart
  <2>3. PICK t \in Thread, w \in Anyone, k \in Nonce, signed \in BOOLEAN :
           BeginRefresh(t, w, k, signed) /\ verified' # verified
    BY <2>2
  <2>4. Accepts(w, k) /\ verified' = [verified EXCEPT ![k] = @ + 1]
    BY <2>3 DEF BeginRefresh
  <2>5. k = n
    BY <2>1, <2>4 DEF TypeOK
  <2>6. pending[w] # None /\ pending[w].nonce = n
    BY <2>4, <2>5 DEF Accepts
  <2>7. QED
    BY <2>1, <2>6 DEF ChallengesSound
<1>2. NonceAcceptedOnce <=> [][Once]_vars
  BY DEF NonceAcceptedOnce
<1> HIDE DEF Once
<1>3. QED
  BY <1>1, <1>2, IInvHolds, PTL DEF Spec
=============================================================================
