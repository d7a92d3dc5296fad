------------------------------- MODULE Scopes -------------------------------
(***************************************************************************)
(* The scopes of a token: what they let it do with stored objects          *)
(* (internal/server/api/auth.go) and which of them a worker hands on to a  *)
(* child (internal/server/delegate.go).                                    *)
(*                                                                         *)
(* A scope for objects is [verb, pattern], any other a record of another   *)
(* kind, [other], or Admin.  Patterns and paths are sequences of           *)
(* characters, Star among them: only a pattern's last star is special.     *)
(***************************************************************************)
EXTENDS Naturals, Sequences, FiniteSets, SequencesExt

Scope == [verb : STRING, pattern : Seq(STRING)] \cup [other : STRING]

Admin == [other |-> "admin"]
Star  == "*"

IsStorage(s) == "verb" \in DOMAIN s

(* strings.CutSuffix(pattern, "*") *)
Wild(pattern) == pattern # << >> /\ Last(pattern) = Star
Base(pattern) == IF Wild(pattern) THEN Front(pattern) ELSE pattern

-----------------------------------------------------------------------------
(* auth.go *)

MatchesStoragePattern(pattern, path) ==
  IF Wild(pattern) THEN IsPrefix(Base(pattern), path) ELSE pattern = path

HasStorageScope(held, verb, path) ==
  \/ Admin \in held
  \/ \E s \in held : /\ IsStorage(s) /\ s.verb = verb
                     /\ MatchesStoragePattern(s.pattern, path)

-----------------------------------------------------------------------------
(* delegate.go *)

(* cutStorageScope takes only what has a pattern. *)
Cut(s) == IsStorage(s) /\ s.pattern # << >>

(* Mutant of ScopeCovered: every scope is taken to cover what it begins. *)
ScopeCoveredByPrefix(held, want) ==
  \E h \in held :
    \/ h = want
    \/ /\ Cut(h) /\ Cut(want) /\ h.verb = want.verb
       /\ IsPrefix(Base(h.pattern), Base(want.pattern))

ScopeCovered(held, want) ==
  \E h \in held :
    \/ h = want
    \/ /\ Cut(h) /\ Cut(want) /\ h.verb = want.verb
       /\ Wild(h.pattern)
       /\ IsPrefix(Base(h.pattern), Base(want.pattern))

Refused   == [ok |-> FALSE, scopes |-> {}]
Given(ss) == [ok |-> TRUE, scopes |-> ss]

(* What a child is given: everything but admin when nothing is asked for,  *)
(* and what is asked for when each of it is covered.                       *)
NarrowScopes(held, want) ==
  IF want = {} THEN Given(held \ {Admin})
  ELSE IF Admin \notin want /\ \A w \in want : ScopeCovered(held, w) THEN Given(want)
  ELSE Refused

-----------------------------------------------------------------------------
(* A child may do no more than its parent, for whatever verb and path, and *)
(* is never an admin, however it asks; and what its parent's patterns      *)
(* cover it can have: a path that matches a wildcard is a scope that may   *)
(* be asked for.                                                           *)
Narrows(held, want, verbs, paths) ==
  LET given == NarrowScopes(held, want)
  IN given.ok =>
       /\ Admin \notin given.scopes
       /\ \A v \in verbs, p \in paths : HasStorageScope(given.scopes, v, p) => HasStorageScope(held, v, p)
       /\ \A v \in verbs, p \in paths :
            p # << >> /\ ~Wild(p) /\ Admin \notin held /\ HasStorageScope(held, v, p)
              => NarrowScopes(held, {[verb |-> v, pattern |-> p]}).ok
=============================================================================
