---------------------------- MODULE ReportLibrary ----------------------------
(***************************************************************************)
(* The library of report definitions: how the files of a directory become  *)
(* the set the server serves (pkg/reporting/load.go and registry.go), what *)
(* a definition is checked for (definition.go), and what is checked of an  *)
(* instance against its definition (instance.go).                          *)
(*                                                                         *)
(* A definition is [name, extends] and, by section, what it declares:      *)
(* LeftOut for a section that is not there (isZero), or a record: of data, *)
(* the names a reference may be to; of a facet, the references it makes    *)
(* to them.  core says whether all that validateCore asks of single words  *)
(* (vocabularies, policies, duplicates) is as it should be; what it asks   *)
(* across sections is modelled.                                            *)
(***************************************************************************)
EXTENDS Naturals, Sequences, FiniteSets, SequencesExt

LeftOut == [none |-> TRUE]

NoName == ""

Facets   == {"summary", "timeline", "detail", "plan", "pulse"}
Sections == {"stances", "scope", "data"} \cup Facets

Has(d, s) == d[s] # LeftOut

IsLibrary(files) ==
  /\ files \in Seq({files[i] : i \in DOMAIN files})
  /\ \A i \in DOMAIN files :
       files[i] = [f \in {"name", "extends", "core"} \cup Sections |-> files[i][f]]

-----------------------------------------------------------------------------
(* definition.go *)

(* The scope's policy for items needs a plan in the same file. *)
CoreIsValid(d) == d.core /\ (Has(d, "scope") => (d.scope.items => Has(d, "plan")))

Names(d) == IF Has(d, "data") THEN d.data.names ELSE {}

(* Of the scope, the names it has policies for; of a facet, those it       *)
(* shows.  A panel may show items, of a plan, and spans, of the timeline.  *)
RefsAreValid(d) ==
  /\ \A s \in {"scope"} \cup Facets : Has(d, s) => d[s].refs \subseteq Names(d)
  /\ Has(d, "detail") =>
       /\ d.detail.items => Has(d, "plan")
       /\ d.detail.spans \subseteq IF Has(d, "timeline") THEN d.timeline.spans ELSE {}

-----------------------------------------------------------------------------
(* load.go.  files is the sequence of definitions, in the order of their   *)
(* file names; one that cannot be read or parsed is not in it and is a     *)
(* problem of its own, as is one that is not valid, which stays in it.     *)

(* The file a name belongs to: the first that declares it, or 0. *)
FileOf(files, name) ==
  LET with == {i \in DOMAIN files : files[i].name = name}
  IN IF name = NoName \/ with = {} THEN 0 ELSE Min(with)

(* Mutant of MergeExtends: a parent's section wins. *)
MergeIntoParent(parent, child) ==
  [child EXCEPT !["data"] = IF Has(parent, "data") THEN parent.data ELSE child.data]

(* Section by section, the child's where it has one. *)
MergeExtends(parent, child) ==
  [f \in DOMAIN child |-> IF f \in Sections /\ ~Has(child, f) THEN parent[f] ELSE child[f]]

(* resolve calls itself for the definition that one extends, until one     *)
(* extends nothing; then every call merges what the next has returned.     *)
(* calls is what it is in the middle of, the innermost last.  It fails for *)
(* what it is resolving already, and for what extends itself or nothing    *)
(* that is there.                                                          *)
Fails(files, calls) ==
  LET d == files[Last(calls)]
  IN \/ \E k \in 1 .. Len(calls) - 1 : files[calls[k]].name = d.name
     \/ d.extends # NoName /\ (d.extends = d.name \/ FileOf(files, d.extends) = 0)

NextCall(files, calls) ==
  LET d == files[Last(calls)]
  IN IF Fails(files, calls) \/ d.extends = NoName THEN calls
     ELSE Append(calls, FileOf(files, d.extends))

(* No more calls than there are files, and the one that fails. *)
Calls(files, i) ==
  LET After[n \in 0 .. Len(files)] == IF n = 0 THEN <<i>> ELSE NextCall(files, After[n - 1])
  IN After[Len(files)]

Returned(files, calls) ==
  LET After[n \in 0 .. Len(calls) - 1] ==
        IF n = 0 THEN files[Last(calls)]
        ELSE MergeExtends(After[n - 1], files[calls[Len(calls) - n]])
  IN After[Len(calls) - 1]

(* What it gives is LeftOut where it fails. *)
Resolve(files, i) ==
  LET calls == Calls(files, i)
  IN IF Fails(files, calls) THEN LeftOut ELSE Returned(files, calls)

(* The files whose definitions are served: nameless ones and those whose   *)
(* name is taken are left out.                                             *)
Served(files) == {i \in DOMAIN files : FileOf(files, files[i].name) = i}

(* A problem is the file it is in and what it is. *)
Problems(files) ==
  {<<i, "core">>      : i \in {i \in DOMAIN files : ~CoreIsValid(files[i]) \/ files[i].name = NoName}}
  \cup {<<i, "duplicate">> : i \in {i \in DOMAIN files : files[i].name # NoName /\ i \notin Served(files)}}
  \cup {<<i, "extends">>   : i \in {i \in Served(files) : Resolve(files, i) = LeftOut}}
  \cup {<<i, "refs">>      : i \in {i \in Served(files) :
                                      LET d == Resolve(files, i)
                                      IN d # LeftOut /\ ~RefsAreValid(d)}}
  \cup {<<i, "drilldown">> : i \in {i \in Served(files) :
                                      LET d == Resolve(files, i)
                                      IN d # LeftOut /\ Has(d, "detail")
                                           /\ \E n \in d.detail.drilldown : FileOf(files, n) = 0}}

(* NewRegistry of what LoadLibraryDir returns: all of it or nothing.  Get  *)
(* and List are by name.                                                   *)
Registry(files) ==
  IF Problems(files) # {} THEN {} ELSE {Resolve(files, i) : i \in Served(files)}

-----------------------------------------------------------------------------
(* instance.go: an instance is [definition, names, items, ...], names being*)
(* the KPIs, targets, series, tables and events it carries.  Items need a  *)
(* plan; what is asked of them is in PlanBoard.                            *)
InstanceIsValid(d, in) ==
  /\ in.definition = d.name
  /\ in.names \subseteq Names(d)
  /\ in.items => Has(d, "plan")

-----------------------------------------------------------------------------
(* The chains of files, each extending the next, to one that extends none. *)
Chains(files) ==
  {c \in UNION {[1 .. n -> DOMAIN files] : n \in 1 .. Len(files)} :
     /\ \A k, l \in DOMAIN c : c[k] = c[l] => k = l
     /\ \A k \in 1 .. Len(c) - 1 :
          files[c[k]].extends # NoName /\ FileOf(files, files[c[k]].extends) = c[k + 1]
     /\ files[Last(c)].extends = NoName}

(* The extends of a set of files are refused exactly when some chain does  *)
(* not end: it names what is not there, itself or something already on it. *)
(* However a chain enters a cycle, every definition on it or leading to it *)
(* is reported.                                                            *)
CyclesAreRefused(files) ==
  \A i \in Served(files) :
    <<i, "extends">> \in Problems(files) <=> \A c \in Chains(files) : c[1] # i

(* What v is of a section along a chain: what the nearest declares. *)
IsNearest(files, c, s, v) ==
  \/ v = LeftOut /\ \A k \in DOMAIN c : ~Has(files[c[k]], s)
  \/ \E k \in DOMAIN c : /\ Has(files[c[k]], s) /\ v = files[c[k]][s]
                         /\ \A l \in 1 .. k - 1 : ~Has(files[c[l]], s)

(* What is served of a definition is, section by section, what the nearest *)
(* declares of itself and the definitions it extends, whichever way round  *)
(* the files come; and it is as valid as they are, across sections too:    *)
(* nothing needs a plan that the chain has not.                            *)
NearestWins(files) ==
  \A i \in Served(files), c \in Chains(files) :
    LET d == Resolve(files, i)
    IN c[1] = i =>
         /\ \A s \in Sections : IsNearest(files, c, s, d[s])
         /\ d.name = files[i].name
         /\ (\A k \in DOMAIN c : CoreIsValid(files[c[k]])) => CoreIsValid(d)

(* What could be posted of a definition as its file has it can be posted   *)
(* of what is served, and, where a file declares no data, what could be    *)
(* posted of the one it extends.                                           *)
InstancesStay(files) ==
  \A d \in Registry(files), items \in BOOLEAN,
     names \in SUBSET UNION {Names(files[i]) : i \in DOMAIN files} :
    LET i == FileOf(files, d.name)
        Instance(name) == [definition |-> name, names |-> names, items |-> items]
        parent == Resolve(files, FileOf(files, d.extends))
    IN /\ InstanceIsValid(files[i], Instance(d.name)) => InstanceIsValid(d, Instance(d.name))
       /\ d.extends # NoName /\ ~Has(files[i], "data") /\ InstanceIsValid(parent, Instance(d.extends))
            => InstanceIsValid(d, Instance(d.name))

(* The library is served whole or not at all, one definition for a name,   *)
(* and then every reference and drilldown in it leads somewhere.           *)
ServedWhole(files) ==
  LET defs == Registry(files)
  IN /\ defs = {} \/ {d.name : d \in defs} = {files[i].name : i \in DOMAIN files}
     /\ \A c, d \in defs : c.name = d.name => c = d
     /\ \A d \in defs :
          /\ CoreIsValid(d) /\ RefsAreValid(d)
          /\ Has(d, "detail") => d.detail.drilldown \subseteq {c.name : c \in defs}
=============================================================================
