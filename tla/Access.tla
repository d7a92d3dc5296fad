------------------------------- MODULE Access -------------------------------
(***************************************************************************)
(* Who is let in: the challenges, the tokens and the revocation cache of   *)
(* internal/server/api/auth.go, with the revocations table behind it.      *)
(*                                                                         *)
(* A token is signed and never looked up, so what ends it early is the     *)
(* revocation check of every request.  That check goes through a cache:    *)
(* read the entry; if there is none, or it is too old, read the table; put *)
(* the answer in the cache, dated from before the read.  The cache's mutex *)
(* covers each access and not the three together.  A revocation writes the *)
(* table and then drops the cache's entry.                                 *)
(*                                                                         *)
(* Time is a count of ticks.  Of the tokens of one identity only the one   *)
(* that lasts longest is kept: it does whatever the others do.             *)
(***************************************************************************)
EXTENDS Naturals, FiniteSets, Sequences

CONSTANTS Worker,        \* registered worker IDs
          Stranger,      \* other IDs somebody asks a challenge for
          Thread,        \* requests the server runs at the same time
          None,          \* no challenge, no cache entry
          CacheTTL,      \* revocationCacheTTL
          ChallengeTTL,  \* challengeTTL
          MaxPending,    \* maxPendingChallenges
          TokenTTL,      \* Config.TokenTTL
          ChildTTL,      \* Config.DelegatedTokenTTL
          LastTick,      \* bound: the clock stops here
          MaxNonces,     \* bound: challenges issued
          MaxRequests,   \* bound: requests in a behaviour
          MaxStops       \* bound: times the process stops

ASSUME StrangerAssumption == Stranger \cap Worker = {}
ASSUME TTLAssumption == {CacheTTL, ChallengeTTL, MaxPending, TokenTTL, ChildTTL} \subseteq Nat \ {0}
ASSUME BoundAssumption == {LastTick, MaxNonces, MaxRequests, MaxStops} \subseteq Nat

Tick  == 0 .. LastTick
Nonce == 1 .. MaxNonces

Anyone == Worker \cup Stranger

(* The IDs tokens are minted for: a worker's own, and that of the child it *)
(* delegates to, <parent>~<child>.                                         *)
Id == Worker \X {"self", "child"}

Self(w)    == <<w, "self">>
ChildOf(w) == <<w, "child">>

(* The IDs whose revocation refuses a token of this one. *)
Checks(id) == IF id[2] = "child" THEN <<id, Self(id[1])>> ELSE <<id>>

Entry == [revoked : BOOLEAN, checkedAt : Tick]

VARIABLES clock,    \* the server's clock
          pending,  \* challengeStore.pending
          entries,  \* revocationCache.entries
          revoked,  \* table revocations
          expires,  \* when the last token minted for an ID expires
          req,      \* the request each thread is serving
          served,   \* requests begun
          stops,    \* times the process has stopped
          issued,   \* ghost: for each nonce, whom it was issued to
          verified, \* ghost: how often each nonce has been accepted
          since,    \* ghost: the tick at which an ID was first revoked
          settled   \* ghost: IDs whose entry was dropped with no older lookup under way

challenges == <<pending, issued, verified>>
ghosts     == <<issued, verified, since, settled>>
vars       == <<clock, pending, entries, revoked, expires, req, served, stops, ghosts>>

Request ==
  [at     : {"idle", "consult", "query", "put", "serve", "invalidate"},
   op     : {"none", "use", "delegate", "refresh", "revoke"},
   id     : Id \cup {None},        \* the token's ID, or the one to revoke
   expiry : Nat,                   \* when the token expires
   checks : Seq(Id),               \* IDs still to be looked up
   now    : Tick,                  \* the clock, read at the start of the lookup
   answer : BOOLEAN]               \* what the table said

Idle == [at |-> "idle", op |-> "none", id |-> None, expiry |-> 0, checks |-> << >>, now |-> 0,
         answer |-> FALSE]

(* The IDs with a challenge. *)
Held(p) == {w \in Anyone : p[w] # None}

TypeOK ==
  /\ clock \in Tick
  /\ pending \in [Anyone -> [nonce : Nonce, expiresAt : Nat] \cup {None}]
  /\ Cardinality(Held(pending)) <= MaxPending
  /\ entries \in [Id -> Entry \cup {None}]
  /\ revoked \in SUBSET Id
  /\ expires \in [Id -> Nat]
  /\ req \in [Thread -> Request]
  /\ served \in 0 .. MaxRequests
  /\ stops \in 0 .. MaxStops
  /\ issued \in Seq(Anyone) /\ Len(issued) <= MaxNonces
  /\ verified \in [Nonce -> Nat]
  /\ since \in [Id -> Tick \cup {None}]
  /\ settled \in SUBSET revoked

(* Every worker has just connected. *)
Init ==
  /\ clock = 0
  /\ pending = [w \in Anyone |-> None]
  /\ entries = [i \in Id |-> None]
  /\ revoked = {}
  /\ expires = [i \in Id |-> IF i[2] = "self" THEN TokenTTL ELSE 0]
  /\ req = [t \in Thread |-> Idle]
  /\ served = 0
  /\ stops = 0
  /\ issued = << >>
  /\ verified = [n \in Nonce |-> 0]
  /\ since = [i \in Id |-> None]
  /\ settled = {}

Return(t) == req' = [req EXCEPT ![t] = Idle]

Begin(t, r) ==
  /\ req[t].at = "idle"
  /\ served < MaxRequests
  /\ served' = served + 1
  /\ req' = [req EXCEPT ![t] = r]

-----------------------------------------------------------------------------
(* Challenges.                                                             *)

(* What is left of p when the expired challenges are swept. *)
Swept(p) == [w \in Anyone |-> IF p[w] # None /\ clock > p[w].expiresAt THEN None ELSE p[w]]

(* What may be left of p when those nearest their expiry are evicted until *)
(* there is room.                                                          *)
Evicted(p) ==
  IF Cardinality(Held(p)) <= MaxPending THEN {p}
  ELSE {[w \in Anyone |-> IF w \in kept THEN p[w] ELSE None] :
          kept \in {K \in SUBSET Held(p) :
                      /\ Cardinality(K) = MaxPending
                      /\ \A v \in K, w \in Held(p) \ K : p[w].expiresAt <= p[v].expiresAt}}

(* POST /api/challenge: a nonce for w, registered or not, in place of the  *)
(* one it had.                                                             *)
IssueChallenge(w) ==
  LET n == Len(issued) + 1
  IN  /\ n <= MaxNonces
      /\ pending' \in Evicted(Swept([pending EXCEPT
                        ![w] = [nonce |-> n, expiresAt |-> clock + ChallengeTTL]]))
      /\ issued' = Append(issued, w)
      /\ UNCHANGED <<clock, entries, revoked, expires, req, served, stops, verified, since, settled>>

Accepts(w, n) ==
  /\ pending[w] # None
  /\ pending[w].nonce = n
  /\ clock <= pending[w].expiresAt

(* Mutant of Consume: a challenge stays until it expires or is replaced. *)
KeepChallenge(w) == pending' = pending

(* The challenge is gone whatever the answer is worth. *)
Consume(w) == pending' = [pending EXCEPT ![w] = None]

(* POST /api/token: the nonce sent back, with a signature that verifies or *)
(* does not.  A stranger has no key to verify one with.                    *)
BeginRefresh(t, w, n, signed) ==
  /\ n \in DOMAIN issued
  /\ Consume(w)
  /\ IF w \in Worker /\ Accepts(w, n) /\ signed
       THEN /\ Begin(t, [Idle EXCEPT !.at = "consult", !.op = "refresh", !.id = Self(w),
                                     !.checks = Checks(Self(w)), !.now = clock])
            /\ verified' = [verified EXCEPT ![n] = @ + 1]
       ELSE Begin(t, Idle) /\ UNCHANGED verified
  /\ UNCHANGED <<clock, entries, revoked, expires, stops, issued, since, settled>>

-----------------------------------------------------------------------------
(* Tokens, and the revocation check.                                       *)

(* A request with a bearer token that has not expired. *)
BeginWithToken(t, op, id) ==
  /\ clock < expires[id]
  /\ Begin(t, [Idle EXCEPT !.at = "consult", !.op = op, !.id = id, !.expiry = expires[id],
                           !.checks = Checks(id), !.now = clock])
  /\ UNCHANGED <<clock, pending, entries, revoked, expires, stops, ghosts>>

(* isRevoked has its answer for the ID at hand: refuse, or go on. *)
Answer(t, yes) ==
  LET left == Tail(req[t].checks)
  IN  IF yes THEN Return(t)
      ELSE req' = [req EXCEPT ![t].checks = left, ![t].answer = FALSE,
                              ![t].now = IF left = << >> THEN 0 ELSE clock,
                              ![t].at = IF left = << >> THEN "serve" ELSE "consult"]

Fresh(entry, now) == entry # None /\ now < entry.checkedAt + CacheTTL

Consult(t) ==
  LET entry == entries[Head(req[t].checks)]
  IN  /\ req[t].at = "consult"
      /\ IF Fresh(entry, req[t].now) THEN Answer(t, entry.revoked)
                                     ELSE req' = [req EXCEPT ![t].at = "query"]
      /\ UNCHANGED <<clock, pending, entries, revoked, expires, served, stops, ghosts>>

(* The table is read, or cannot be. *)
Query(t) ==
  /\ req[t].at = "query"
  /\ \/ req' = [req EXCEPT ![t].at = "put", ![t].answer = Head(req[t].checks) \in revoked]
     \/ Return(t)
  /\ UNCHANGED <<clock, pending, entries, revoked, expires, served, stops, ghosts>>

(* Mutant of Put: the entry is dated from when it is written. *)
PutDatedNow(t) ==
  /\ req[t].at = "put"
  /\ entries' = [entries EXCEPT ![Head(req[t].checks)] =
                   [revoked |-> req[t].answer, checkedAt |-> clock]]
  /\ Answer(t, req[t].answer)
  /\ UNCHANGED <<clock, pending, revoked, expires, served, stops, ghosts>>

(* The answer goes into the cache, dated from before the read. *)
Put(t) ==
  /\ req[t].at = "put"
  /\ entries' = [entries EXCEPT ![Head(req[t].checks)] =
                   [revoked |-> req[t].answer, checkedAt |-> req[t].now]]
  /\ Answer(t, req[t].answer)
  /\ UNCHANGED <<clock, pending, revoked, expires, served, stops, ghosts>>

(* Mutant of ChildExpiry: the parent's token does not limit the child's. *)
OwnExpiry(r) == clock + ChildTTL

(* MintDelegatedToken: for so long, and not past the caller's own token. *)
ChildExpiry(r) == IF r.expiry < clock + ChildTTL THEN r.expiry ELSE clock + ChildTTL

Later(a, b) == IF a < b THEN b ELSE a

(* The request has passed: mint a token, or do what it came for.  A child  *)
(* may not delegate, nor a parent whose token has expired by now.          *)
Serve(t) ==
  LET r == req[t]
  IN  /\ r.at = "serve"
      /\ CASE r.op = "refresh" -> expires' = [expires EXCEPT ![r.id] = clock + TokenTTL]
           [] r.op = "delegate" /\ r.id[2] = "self" /\ clock < r.expiry ->
                expires' = [expires EXCEPT ![ChildOf(r.id[1])] = Later(@, ChildExpiry(r))]
           [] OTHER -> UNCHANGED expires
      /\ Return(t)
      /\ UNCHANGED <<clock, pending, entries, revoked, served, stops, ghosts>>

-----------------------------------------------------------------------------
(* Revoking: POST /api/workers/{id}/revoke, and the last steps of a delete. *)

BeginRevoke(t, id) ==
  /\ Begin(t, [Idle EXCEPT !.at = "invalidate", !.op = "revoke", !.id = id])
  /\ revoked' = revoked \cup {id}
  /\ since' = [since EXCEPT ![id] = IF @ = None THEN clock ELSE @]
  /\ UNCHANGED <<clock, pending, entries, expires, stops, issued, verified, settled>>

(* A lookup of id has read the table and not yet written the cache. *)
LookupUnderWay(id) == \E u \in Thread : req[u].at = "put" /\ Head(req[u].checks) = id /\ ~req[u].answer

(* Mutant of DropEntry: the cache is not told. *)
KeepEntry(id) == entries' = entries

DropEntry(id) == entries' = [entries EXCEPT ![id] = None]

Invalidate(t) ==
  /\ req[t].at = "invalidate"
  /\ DropEntry(req[t].id)
  /\ settled' = IF LookupUnderWay(req[t].id) THEN settled ELSE settled \cup {req[t].id}
  /\ Return(t)
  /\ UNCHANGED <<clock, pending, revoked, expires, served, stops, issued, verified, since>>

-----------------------------------------------------------------------------
Pass ==
  /\ clock < LastTick
  /\ clock' = clock + 1
  /\ UNCHANGED <<pending, entries, revoked, expires, req, served, stops, ghosts>>

(* The process stops and starts again: challenges and cache are memory. *)
Restart ==
  /\ stops < MaxStops
  /\ stops' = stops + 1
  /\ pending' = [w \in Anyone |-> None]
  /\ entries' = [i \in Id |-> None]
  /\ req' = [t \in Thread |-> Idle]
  /\ UNCHANGED <<clock, revoked, expires, served, ghosts>>

Arrive(t) ==
  \/ \E w \in Anyone, n \in Nonce, signed \in BOOLEAN : BeginRefresh(t, w, n, signed)
  \/ \E op \in {"use", "delegate"}, id \in Id : BeginWithToken(t, op, id)
  \/ \E id \in Id : BeginRevoke(t, id)

Handle(t) == Consult(t) \/ Query(t) \/ Put(t) \/ Serve(t) \/ Invalidate(t)

Next ==
  \/ \E w \in Anyone : IssueChallenge(w)
  \/ \E t \in Thread : Arrive(t) \/ Handle(t)
  \/ Pass
  \/ Restart

Spec == Init /\ [][Next]_vars

-----------------------------------------------------------------------------

(* Request t is told that id is not revoked. *)
Passes(t, id) ==
  /\ req[t].at \in {"consult", "put"}
  /\ Head(req[t].checks) = id
  /\ req'[t].checks = Tail(req[t].checks)
  /\ req'[t].at \in {"consult", "serve"}

(* auth.go:158-178, docs/security-model.md: however lookups overlap with   *)
(* the revocation and with each other, an ID passes no lookup that begins  *)
(* CacheTTL or more after it was revoked.                                  *)
RefusedAfterTTL ==
  [][\A t \in Thread, id \in Id :
       Passes(t, id) => since[id] = None \/ req[t].now < since[id] + CacheTTL]_vars

(* auth.go:180-184, workers.go:199-203: the window of RefusedAfterTTL is   *)
(* there only for a lookup that was under way.  When the entry is dropped  *)
(* with none in the middle, the cache never says "not revoked" again.      *)
DroppedForGood == \A id \in settled : entries[id] # None => entries[id].revoked

(* auth.go:81-135, docs/design-notes/control-plane.md:60: a nonce is       *)
(* accepted once at most, and only while its worker has been issued no     *)
(* other.                                                                  *)
NonceAcceptedOnce ==
  [][\A n \in Nonce : verified'[n] # verified[n] =>
       /\ verified[n] = 0
       /\ \A m \in DOMAIN issued : issued[m] = issued[n] => m <= n]_vars

(* delegate.go:51-95: no child's token outlasts those of its parent.      *)
ChildWithinParent == \A w \in Worker : expires[ChildOf(w)] <= expires[Self(w)]
=============================================================================
