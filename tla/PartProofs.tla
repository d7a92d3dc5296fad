------------------------------ MODULE PartProofs ------------------------------
(***************************************************************************)
(* What the parts that keep rows, files and mailboxes keep, for any number *)
(* of things and any bounds: the schedules, the Temporal mailbox, the two  *)
(* object stores, the update records, the polls of the event hub and the   *)
(* stored reports, in this order.  Each has its inductive invariant; what  *)
(* they need of the constants is MCParts' PartsAssumption.  Then the       *)
(* functions: where messages go, and the library of report definitions;    *)
(* the chart has its proofs in GraphApiProofs.                             *)
(***************************************************************************)
EXTENDS MCParts, GraphApiProofs, FiniteSetTheorems, SequenceTheorems,
        WellFoundedInduction, NaturalsInduction, TLAPS

-----------------------------------------------------------------------------
(* What several of the proofs need of numbers and sequences.               *)
(* Of finitely many rows, where before[x] is the rows that come before x,  *)
(* those with fewer than n before them are enough: what has n rows before  *)
(* it has n of those before it.                                            *)
LEMMA FirstOnesStay ==
  ASSUME NEW S, IsFiniteSet(S), NEW a, NEW before \in [S \cup {a} -> SUBSET S], NEW n \in Nat,
         \A x \in S, y \in S : \A z \in S \cup {a} :
           x \in before[y] /\ y \in before[z] => x \in before[z],
         \A x \in S : x \notin before[x],
         NEW First, First = {x \in S : Cardinality(before[x]) < n},
         Cardinality(before[a]) >= n
  PROVE  Cardinality(First \cap before[a]) >= n
<1> DEFINE Later == before[a] \ First
<1>1. \A x \in S \cup {a} :
        IsFiniteSet(before[x]) /\ Cardinality(before[x]) \in Nat /\ before[x] \subseteq S
  <2> TAKE x \in S \cup {a}
  <2>1. before[x] \subseteq S OBVIOUS
  <2> QED BY <2>1, FS_Subset, FS_CardinalityType
<1>2. CASE Later = {}
  <2>1. First \cap before[a] = before[a] BY <1>2
  <2> QED BY <2>1
<1>3. CASE Later # {}
  <2> DEFINE Ranks == {Cardinality(before[x]) : x \in Later}
  <2>0. Later \subseteq S BY <1>1
  <2>1. Ranks # {} /\ Ranks \in SUBSET Nat
    <3> HIDE DEF Later
    <3> QED BY <1>1, <1>3, <2>0
  <2>2. PICK m \in Later : \A x \in Later : Cardinality(before[m]) <= Cardinality(before[x])
    <3>1. PICK r \in Ranks : \A q \in Ranks : r <= q
      <4> HIDE DEF Ranks
      <4> QED BY <2>1, LeastNatural
    <3> HIDE DEF Later
    <3> QED BY <3>1
  <2>3. m \in S /\ m \notin First /\ m \in before[a] BY <2>0
  <2>4. ASSUME NEW b \in before[m]
        PROVE  b \in First /\ b \in before[a]
    <3>1. b \in S BY <1>1, <2>3
    <3>2. b \in before[a] BY <2>3, <3>1
    <3>3. before[b] \subseteq before[m]
      <4>1. \A x \in before[b] : x \in S BY <1>1, <3>1
      <4> QED BY <2>3, <3>1, <4>1
    <3>4. b \in before[m] /\ b \notin before[b] BY <3>1
    <3>5. Cardinality(before[b]) < Cardinality(before[m])
      <4>1. before[b] # before[m] BY <3>4
      <4>2. IsFiniteSet(before[m]) BY <1>1, <2>3
      <4>3. Cardinality(before[b]) <= Cardinality(before[m]) BY <3>3, <4>2, FS_Subset
      <4>4. Cardinality(before[b]) = Cardinality(before[m]) => before[b] = before[m]
        BY <3>3, <4>2, FS_Subset
      <4> QED BY <1>1, <2>3, <3>1, <4>1, <4>3, <4>4
    <3>6. b \notin Later
      <4>1. Cardinality(before[b]) \in Nat /\ Cardinality(before[m]) \in Nat BY <1>1, <2>3, <3>1
      <4> HIDE DEF Later
      <4> QED BY <2>2, <3>5, <4>1
    <3> QED BY <3>2, <3>6
  <2>5. Cardinality(before[m]) >= n BY <1>1, <2>3
  <2>6. before[m] \subseteq First \cap before[a] BY <2>4
  <2>7. IsFiniteSet(First \cap before[a]) /\ Cardinality(First \cap before[a]) \in Nat
    <3>1. First \cap before[a] \subseteq S OBVIOUS
    <3> QED BY <3>1, FS_Subset, FS_CardinalityType
  <2>8. Cardinality(before[m]) <= Cardinality(First \cap before[a]) BY <2>6, <2>7, FS_Subset
  <2> QED BY <1>1, <2>3, <2>5, <2>7, <2>8
<1> QED BY <1>2, <1>3

(* And when the order is total, one of them is before all others.          *)
LEMMA OneIsFirst ==
  ASSUME NEW S, IsFiniteSet(S), S # {}, NEW before \in [S -> SUBSET S],
         \A x, y, z \in S : x \in before[y] /\ y \in before[z] => x \in before[z],
         \A x \in S : x \notin before[x],
         \A x, y \in S : x = y \/ x \in before[y] \/ y \in before[x]
  PROVE  \E m \in S : \A x \in S \ {m} : m \in before[x]
<1> DEFINE Ranks == {Cardinality(before[x]) : x \in S}
<1>1. \A x \in S : IsFiniteSet(before[x]) /\ Cardinality(before[x]) \in Nat
        /\ before[x] \subseteq S
  <2> TAKE x \in S
  <2>1. before[x] \subseteq S OBVIOUS
  <2> QED BY <2>1, FS_Subset, FS_CardinalityType
<1>2. Ranks # {} /\ Ranks \in SUBSET Nat BY <1>1
<1>3. PICK m \in S : \A x \in S : Cardinality(before[m]) <= Cardinality(before[x])
  <2>1. PICK r \in Ranks : \A q \in Ranks : r <= q
    <3> HIDE DEF Ranks
    <3> QED BY <1>2, LeastNatural
  <2> QED BY <2>1
<1>4. ASSUME NEW x \in S \ {m}, x \in before[m] PROVE FALSE
  <2>1. before[x] \subseteq before[m]
    <3>1. \A y \in before[x] : y \in S BY <1>1
    <3> QED BY <1>4, <3>1
  <2>2. before[x] # before[m] BY <1>4
  <2>3. IsFiniteSet(before[m]) BY <1>1
  <2>4. Cardinality(before[x]) <= Cardinality(before[m]) BY <2>1, <2>3, FS_Subset
  <2>5. Cardinality(before[x]) = Cardinality(before[m]) => before[x] = before[m]
    BY <2>1, <2>3, FS_Subset
  <2>6. Cardinality(before[x]) \in Nat /\ Cardinality(before[m]) \in Nat BY <1>1
  <2> QED BY <1>3, <2>2, <2>4, <2>5, <2>6
<1> QED BY <1>4

(* The last n of a longer sequence are n, and end as it does. *)
LEMMA LastOnes ==
  ASSUME NEW S, NEW s \in Seq(S), NEW n \in Nat \ {0}, Len(s) > n
  PROVE  LET t == SubSeq(s, Len(s) + 1 - n, Len(s))
         IN  /\ t \in Seq(S) /\ Len(t) = n /\ t[Len(t)] = s[Len(s)]
             /\ \A i \in DOMAIN t : \E j \in DOMAIN s : t[i] = s[j]
<1>1. Len(s) + 1 - n \in 1 .. Len(s) + 1 /\ Len(s) \in Nat OBVIOUS
<1>2. SubSeq(s, Len(s) + 1 - n, Len(s)) \in Seq(S)
  BY <1>1, SubSeqProperties
<1>3. Len(SubSeq(s, Len(s) + 1 - n, Len(s))) = n
  BY <1>1, SubSeqProperties
<1>4. SubSeq(s, Len(s) + 1 - n, Len(s))[n] = s[Len(s)]
  BY <1>1, SubSeqProperties
<1>5. ASSUME NEW i \in 1 .. n
      PROVE  SubSeq(s, Len(s) + 1 - n, Len(s))[i] = s[Len(s) + 1 - n + i - 1]
  BY <1>1, SubSeqProperties
<1>6. \A i \in 1 .. n : Len(s) + 1 - n + i - 1 \in DOMAIN s
  BY <1>1
<1> QED BY <1>2, <1>3, <1>4, <1>5, <1>6

-----------------------------------------------------------------------------
(* The schedules.  What is in hand of the scheduler is what the table has, *)
(* and what was sent or missed of a row is before its next_at, except      *)
(* between the write that fires it and the one that advances it.           *)

(* What is in hand of the scheduler is what the table has, was due when it *)
(* was read, and nobody else is at work.                                   *)
TickerReads ==
  /\ ~up => ticker = Schedules!Starting
  /\ ticker.at \in {"skip", "fire", "mark"} =>
       /\ ticker.now \in Schedules!Minute /\ ticker.now <= clock
       /\ \A d \in ticker.due : /\ table[d.id] = d.row /\ d.row.enabled
                                /\ d.row.nextAt <= ticker.now /\ d.row.lastAt <= ticker.now
  /\ ticker.at = "mark" => ticker.cur \in ticker.due
  /\ ticker.at # "idle" => \A t \in Thread : api[t].at = "idle"

(* An occurrence that was sent, or that fell due while the server was down *)
Gone(i, m) == (m \in Schedules!Minute /\ sent[i][m] > 0) \/ <<i, m>> \in missed

(* is past, and the row is due later, but for the row that the scheduler   *)
(* has still to advance.                                                   *)
StillToAdvance(i) ==
  \/ ticker.at = "mark" /\ ticker.cur.id = i
  \/ ticker.at = "starting" /\ table[i].enabled
  \/ ticker.at = "skip" /\ \E d \in ticker.due : d.id = i

GoneIsPast ==
  \A i \in Id, m \in Nat :
    Gone(i, m) => /\ m <= clock
                  /\ i \in Schedules!Rows => \/ m < table[i].nextAt
                                             \/ m = table[i].nextAt /\ StillToAdvance(i)

(* A request that writes a row writes one that is due later than what is   *)
(* gone; the others hold the row of the table.                             *)
RequestsRead ==
  /\ \A t, u \in Thread : api[t].at # "idle" /\ api[u].at # "idle" => t = u
  /\ \A t \in Thread :
       /\ api[t].at = "write" =>
            /\ api[t].id \in Id /\ api[t].row \in Schedules!Row /\ api[t].row.lastAt = 0
            /\ \E m \in Schedules!Minute : Upcoming[api[t].row.cron][m] = api[t].row.nextAt
            /\ \A m \in Nat : Gone(api[t].id, m) => m < api[t].row.nextAt
       /\ api[t].at \in {"delete", "fire", "mark"} =>
            api[t].id \in Schedules!Rows /\ table[api[t].id] = api[t].row
       /\ api[t].at = "mark" => api[t].row.lastAt <= api[t].now /\ api[t].now <= clock

LastIsPast == \A i \in Schedules!Rows : table[i].lastAt <= clock

ScheduleInv ==
  /\ Schedules!TypeOK /\ TickerReads /\ GoneIsPast /\ RequestsRead /\ LastIsPast
  /\ Schedules!OncePerOccurrence /\ Schedules!NextAtOnCadence

-----------------------------------------------------------------------------
(* A row that is there is typed field by field. *)
LEMMA RowsAre ==
  ASSUME ScheduleConstants, Schedules!TypeOK, NEW i \in Schedules!Rows
  PROVE  /\ i \in Id /\ table[i] \in Schedules!Row /\ table[i].cron \in Cron
              /\ table[i].enabled \in BOOLEAN
         /\ table[i].nextAt \in Nat /\ table[i].lastAt \in Nat
BY DEF Schedules!Rows, Schedules!TypeOK, Schedules!Row

(* With no failures to inject, no statement fails. *)
LEMMA NoFailure ==
  ASSUME ScheduleConstants, Schedules!TypeOK, NEW handled
  PROVE  ~ Schedules!Fail(handled)
BY DEF Schedules!Fail, Schedules!TypeOK

(* The statement that advances a row changes two fields of that row. *)
LEMMA MarkFiredIs ==
  ASSUME ScheduleConstants, Schedules!TypeOK, NEW i \in Schedules!Rows, NEW l \in Nat,
         NEW n \in Nat, Schedules!MarkFired(i, l, n)
  PROVE  /\ table' \in [Id -> Schedules!Row \cup {None}] /\ Schedules!Rows' = Schedules!Rows
         /\ \A j \in Id : j # i => table'[j] = table[j]
         /\ table'[i].cron = table[i].cron /\ table'[i].enabled = table[i].enabled
         /\ table'[i].nextAt = n /\ table'[i].lastAt = l
<1> DEFINE new == [table[i] EXCEPT !.lastAt = l, !.nextAt = n]
<1>1. i \in Id /\ table[i] \in Schedules!Row BY RowsAre
<1>2. /\ new \in Schedules!Row /\ new.cron = table[i].cron /\ new.enabled = table[i].enabled
      /\ new.nextAt = n /\ new.lastAt = l
  BY <1>1 DEF Schedules!Row
<1>3. table' = [table EXCEPT ![i] = new] BY <1>1 DEF Schedules!MarkFired, Schedules!TypeOK
<1> HIDE DEF new
<1>4. /\ table' \in [Id -> Schedules!Row \cup {None}] /\ table'[i] = new
      /\ \A j \in Id : j # i => table'[j] = table[j]
  BY <1>1, <1>2, <1>3 DEF Schedules!TypeOK
<1>5. Schedules!Rows' = Schedules!Rows BY <1>1, <1>2, <1>4 DEF Schedules!Rows, ScheduleConstants
<1> QED BY <1>2, <1>4, <1>5

(* After a row the scheduler has another in hand, or waits. *)
LEMMA PastIs ==
  ASSUME Schedules!TypeOK, NEW d \in ticker.due, NEW to \in {"skip", "fire"},
         ticker' = Schedules!Past(d, to)
  PROVE  /\ ticker' \in Schedules!Ticker
         /\ \/ ticker'.at = "idle" /\ ticker.due = {d}
            \/ /\ ticker'.at = to /\ ticker'.due = ticker.due \ {d} /\ ticker'.now = ticker.now
<1>1. ticker \in Schedules!Ticker BY DEF Schedules!TypeOK
<1>2. CASE ticker.due \ {d} = {}
  <2>1. ticker' = Schedules!Waiting BY <1>2 DEF Schedules!Past
  <2>2. Schedules!Waiting \in Schedules!Ticker /\ Schedules!Waiting.at = "idle"
      BY DEF Schedules!Waiting, Schedules!Starting, Schedules!Ticker
  <2> QED BY <1>2, <2>1, <2>2
<1>3. CASE ticker.due \ {d} # {}
  <2>1. ticker' = [ticker EXCEPT !.at = to, !.due = ticker.due \ {d}, !.cur = None, !.ok = FALSE]
    BY <1>3 DEF Schedules!Past
  <2>2. ticker.due \ {d} \in SUBSET [id : Id, row : Schedules!Row] BY <1>1 DEF Schedules!Ticker
  <2> QED BY <1>1, <2>1, <2>2 DEF Schedules!Ticker
<1> QED BY <1>2, <1>3

(* The rows in hand are rows of the table, each once. *)
LEMMA InHandAre ==
  ASSUME ScheduleConstants, ScheduleInv, ticker.at \in {"skip", "fire", "mark"},
         NEW d \in ticker.due
  PROVE  /\ d.id \in Schedules!Rows /\ d.id \in Id /\ table[d.id] = d.row /\ d.row.enabled
         /\ d.row.nextAt <= ticker.now /\ d.row.lastAt <= ticker.now
         /\ d.row.nextAt \in Schedules!Minute /\ d.row.lastAt \in Nat
         /\ ticker.now \in Schedules!Minute /\ ticker.now <= clock
         /\ Upcoming[d.row.cron][ticker.now] \in Nat
              /\ Upcoming[d.row.cron][ticker.now] > ticker.now
         /\ \A e \in ticker.due : e.id = d.id => e = d
         /\ d.row.cron \in Cron
<1> USE DEF ScheduleInv
<1>1. d \in [id : Id, row : Schedules!Row]
        /\ \A e \in ticker.due : e \in [id : Id, row : Schedules!Row]
  BY DEF Schedules!TypeOK, Schedules!Ticker
<1>2. /\ table[d.id] = d.row /\ d.row.enabled /\ d.row.nextAt <= ticker.now
      /\ d.row.lastAt <= ticker.now /\ ticker.now \in Schedules!Minute /\ ticker.now <= clock
      /\ \A e \in ticker.due : table[e.id] = e.row
  BY DEF TickerReads
<1>3. d.id \in Id /\ d.row \in Schedules!Row BY <1>1
<1>4. d.id \in Schedules!Rows BY <1>2, <1>3 DEF Schedules!Rows, ScheduleConstants
<1>5. \A e \in ticker.due : e.id = d.id => e = d BY <1>1, <1>2
<1>6. d.row.cron \in Cron /\ d.row.nextAt \in Nat /\ d.row.lastAt \in Nat BY <1>3 DEF Schedules!Row
<1>7. d.row.nextAt \in Schedules!Minute
  <2>1. PICK m \in Schedules!Minute : Upcoming[d.row.cron][m] = d.row.nextAt
    BY <1>2, <1>4 DEF Schedules!NextAtOnCadence
  <2>2. d.row.nextAt > m BY <1>6, <2>1 DEF ScheduleConstants, Schedules!Minute
  <2> QED BY <1>2, <1>6, <2>2 DEF Schedules!Minute, ScheduleConstants
<1>8. Upcoming[d.row.cron][ticker.now] \in Nat /\ Upcoming[d.row.cron][ticker.now] > ticker.now
  BY <1>2, <1>6 DEF ScheduleConstants, Schedules!Minute
<1> QED BY <1>2, <1>3, <1>4, <1>5, <1>6, <1>7, <1>8

-----------------------------------------------------------------------------
(* Every step keeps the invariant.  The scheduler lists what is due:       *)
LEMMA ReadStep ==
  ASSUME ScheduleConstants, ScheduleInv,
         NEW from, NEW to, <<from, to>> \in {<<"starting", "skip">>, <<"idle", "fire">>},
         Schedules!Read(from, to)
  PROVE  ScheduleInv'
<1> USE DEF ScheduleInv
<1>0. /\ up /\ ticker.at = from /\ \A t \in Thread : api[t].at = "idle"
      /\ ticker' = IF Schedules!ListDue = {} THEN Schedules!Waiting
                   ELSE [ticker EXCEPT !.at = to, !.due = Schedules!ListDue, !.now = clock]
      /\ UNCHANGED <<clock, up, table, api, Schedules!bounds, Schedules!ghosts>>
  BY NoFailure DEF Schedules!Read, Schedules!NobodyElse
<1>1. (from = "starting" /\ to = "skip") \/ (from = "idle" /\ to = "fire") OBVIOUS
<1>2. /\ \A i \in Schedules!Rows : Schedules!IsDue(table[i])
           => [id |-> i, row |-> table[i]] \in Schedules!ListDue
      /\ \A d \in Schedules!ListDue : /\ d.id \in Schedules!Rows /\ table[d.id] = d.row
           /\ d.row.enabled
                                      /\ d.row.nextAt <= clock
      /\ Schedules!ListDue \in SUBSET [id : Id, row : Schedules!Row]
  BY RowsAre DEF Schedules!ListDue, Schedules!IsDue
<1>3. clock \in Schedules!Minute BY DEF Schedules!TypeOK
<1>4. /\ ticker' \in Schedules!Ticker
      /\ \/ ticker' = Schedules!Waiting /\ ticker'.at = "idle" /\ Schedules!ListDue = {}
         \/ ticker'.at = to /\ ticker'.due = Schedules!ListDue /\ ticker'.now = clock
  <2>1. Schedules!Waiting \in Schedules!Ticker /\ Schedules!Waiting.at = "idle"
      BY DEF Schedules!Waiting, Schedules!Starting, Schedules!Ticker
  <2>2. CASE Schedules!ListDue = {} BY <1>0, <2>1, <2>2
  <2>3. CASE Schedules!ListDue # {}
    <3>1. ticker \in Schedules!Ticker BY DEF Schedules!TypeOK
    <3> QED BY <1>0, <1>1, <1>2, <1>3, <2>3, <3>1 DEF Schedules!Ticker
  <2> QED BY <2>2, <2>3
<1>5. Schedules!TypeOK' BY <1>0, <1>4 DEF Schedules!TypeOK, Schedules!bounds, Schedules!ghosts
<1>6. TickerReads'
  <2>1. \A d \in Schedules!ListDue : d.row.lastAt <= clock BY <1>2 DEF LastIsPast
  <2>2. clock <= clock BY <1>3 DEF Schedules!Minute, ScheduleConstants
  <2>3. ticker'.at \in {"idle", "skip", "fire"} BY <1>1, <1>4
  <2> QED BY <1>0, <1>2, <1>3, <1>4, <2>1, <2>2, <2>3 DEF TickerReads
<1>7. GoneIsPast'
  <2>1. \A i \in Id, m \in Nat : Gone(i, m)' <=> Gone(i, m) BY <1>0 DEF Gone, Schedules!ghosts
  <2>2. ASSUME NEW i \in Id, NEW m \in Nat, Gone(i, m), i \in Schedules!Rows, ~ m < table[i].nextAt
        PROVE  m = table[i].nextAt /\ StillToAdvance(i)'
    <3>1. m = table[i].nextAt /\ StillToAdvance(i) /\ m <= clock BY <2>2 DEF GoneIsPast
    <3>2. from = "starting" /\ to = "skip" /\ table[i].enabled
      BY <1>0, <1>1, <3>1 DEF StillToAdvance
    <3>3. [id |-> i, row |-> table[i]] \in Schedules!ListDue BY <1>2, <2>2, <3>1, <3>2
        DEF Schedules!IsDue
    <3>4. ticker'.at = "skip" /\ ticker'.due = Schedules!ListDue BY <1>4, <3>2, <3>3
    <3>5. [id |-> i, row |-> table[i]].id = i OBVIOUS
    <3> QED BY <3>1, <3>3, <3>4, <3>5 DEF StillToAdvance
  <2>3. Schedules!Rows' = Schedules!Rows BY <1>0 DEF Schedules!Rows
  <2>4. \A i \in Id, m \in Nat : Gone(i, m) => m <= clock BY DEF GoneIsPast
  <2> QED BY <1>0, <2>1, <2>2, <2>3, <2>4 DEF GoneIsPast
<1>8. RequestsRead' BY <1>0 DEF RequestsRead
<1>9. LastIsPast' /\ Schedules!OncePerOccurrence' /\ Schedules!NextAtOnCadence'
  BY <1>0 DEF LastIsPast, Schedules!OncePerOccurrence, Schedules!NextAtOnCadence, Schedules!Rows,
    Schedules!ghosts
<1> QED BY <1>5, <1>6, <1>7, <1>8, <1>9

(* A row in hand is advanced, past the minute it was listed. *)
LEMMA AdvanceStep ==
  ASSUME ScheduleConstants, ScheduleInv, Schedules!SkipMissed \/ Schedules!Advance
  PROVE  /\ ScheduleInv'
         /\ sent' = sent /\ api' = api
         /\ \A i \in Schedules!Rows : table'[i] # None => table'[i].lastAt >= table[i].lastAt
<1> USE DEF ScheduleInv
<1>0. PICK d \in ticker.due, to \in {"skip", "fire"} :
        /\ \E l \in {d.row.lastAt, ticker.now} :
             Schedules!MarkFired(d.id, l, Upcoming[d.row.cron][ticker.now])
        /\ ticker' = Schedules!Past(d, to)
        /\ (ticker.at = "skip" /\ to = "skip")
             \/ (ticker.at = "mark" /\ to = "fire" /\ ticker.cur = d)
        /\ UNCHANGED <<clock, up, api, Schedules!bounds, Schedules!ghosts>> /\ up
  <2>1. CASE Schedules!SkipMissed BY <2>1, NoFailure DEF Schedules!SkipMissed, Schedules!Earliest
  <2>2. CASE Schedules!Advance
    <3>1. ticker.at = "mark" /\ ticker.cur \in ticker.due BY <2>2 DEF Schedules!Advance,
        TickerReads
    <3> QED BY <2>2, <3>1, NoFailure DEF Schedules!Advance
  <2> QED BY <2>1, <2>2
<1>1. PICK l \in {d.row.lastAt, ticker.now} :
        /\ Schedules!MarkFired(d.id, l, Upcoming[d.row.cron][ticker.now])
        /\ ticker' = Schedules!Past(d, to)
        /\ (ticker.at = "skip" /\ to = "skip")
             \/ (ticker.at = "mark" /\ to = "fire" /\ ticker.cur = d)
        /\ UNCHANGED <<clock, up, api, Schedules!bounds, Schedules!ghosts>> /\ up
  BY <1>0
<1> DEFINE n == Upcoming[d.row.cron][ticker.now]
<1>2. ticker.at \in {"skip", "mark"} BY <1>1
<1>3. /\ d.id \in Schedules!Rows /\ d.id \in Id /\ table[d.id] = d.row /\ d.row.enabled
      /\ d.row.nextAt <= ticker.now /\ d.row.lastAt <= ticker.now
      /\ d.row.nextAt \in Schedules!Minute /\ d.row.lastAt \in Nat
      /\ ticker.now \in Schedules!Minute /\ ticker.now <= clock /\ n \in Nat /\ n > ticker.now
      /\ \A e \in ticker.due : e.id = d.id => e = d
  BY <1>2, InHandAre
<1>4. \A t \in Thread : api[t].at = "idle" BY <1>2 DEF TickerReads
<1>5. l \in Nat /\ d.row.lastAt <= l /\ l <= ticker.now /\ clock \in Nat /\ ticker.now \in Nat
      /\ d.row.nextAt \in Nat
  BY <1>3 DEF Schedules!TypeOK, Schedules!Minute, ScheduleConstants
<1>6. /\ table' \in [Id -> Schedules!Row \cup {None}] /\ Schedules!Rows' = Schedules!Rows
      /\ \A j \in Id : j # d.id => table'[j] = table[j]
      /\ table'[d.id].cron = d.row.cron /\ table'[d.id].enabled = d.row.enabled
      /\ table'[d.id].nextAt = n /\ table'[d.id].lastAt = l
  <2> HIDE DEF n
  <2>1. Schedules!MarkFired(d.id, l, n) BY <1>1 DEF n
  <2>2. \A i \in Schedules!Rows : Schedules!MarkFired(i, l, n) =>
          /\ table' \in [Id -> Schedules!Row \cup {None}] /\ Schedules!Rows' = Schedules!Rows
          /\ \A j \in Id : j # i => table'[j] = table[j]
          /\ table'[i].cron = table[i].cron /\ table'[i].enabled = table[i].enabled
          /\ table'[i].nextAt = n /\ table'[i].lastAt = l
    BY <1>3, <1>5, MarkFiredIs
  <2>3. d.id \in Schedules!Rows /\ table[d.id] = d.row BY <1>3
  <2> DEFINE i == d.id
  <2>4. i \in Schedules!Rows /\ Schedules!MarkFired(i, l, n) BY <2>1, <2>3
  <2> HIDE DEF i
  <2>5. /\ table' \in [Id -> Schedules!Row \cup {None}] /\ Schedules!Rows' = Schedules!Rows
        /\ \A j \in Id : j # i => table'[j] = table[j]
        /\ table'[i].cron = table[i].cron /\ table'[i].enabled = table[i].enabled
        /\ table'[i].nextAt = n /\ table'[i].lastAt = l
    BY <2>2, <2>4
  <2> QED BY <2>3, <2>5 DEF i
<1>7. /\ ticker' \in Schedules!Ticker
      /\ \/ ticker'.at = "idle" /\ ticker.due = {d}
         \/ ticker'.at = to /\ ticker'.due = ticker.due \ {d} /\ ticker'.now = ticker.now
  BY <1>1, PastIs
<1> HIDE DEF n
<1>8. Schedules!TypeOK' BY <1>1, <1>6, <1>7 DEF Schedules!TypeOK, Schedules!bounds,
    Schedules!ghosts
<1>9. TickerReads'
  <2>1. ASSUME NEW e \in ticker.due \ {d}
        PROVE  /\ table'[e.id] = e.row /\ e.row.enabled
               /\ e.row.nextAt <= ticker.now /\ e.row.lastAt <= ticker.now
    <3>1. e.id # d.id BY <1>3
    <3>2. e.id \in Id /\ table[e.id] = e.row /\ e.row.enabled
          /\ e.row.nextAt <= ticker.now /\ e.row.lastAt <= ticker.now
      BY <1>2, InHandAre
    <3> QED BY <1>6, <3>1, <3>2
  <2>2. ticker'.at # "mark" BY <1>7
  <2> QED BY <1>1, <1>3, <1>4, <1>7, <2>1, <2>2 DEF TickerReads
<1>10. GoneIsPast'
  <2>1. \A i \in Id, m \in Nat : Gone(i, m)' <=> Gone(i, m) BY <1>1 DEF Gone, Schedules!ghosts
  <2>2. ASSUME NEW i \in Id, NEW m \in Nat, Gone(i, m), i \in Schedules!Rows,
               ~ m < table'[i].nextAt
        PROVE  m = table'[i].nextAt /\ StillToAdvance(i)'
    <3>1. i # d.id
      <4>1. ASSUME i = d.id PROVE m < n
        <5>1. m <= table[i].nextAt BY <2>2, RowsAre DEF GoneIsPast
        <5> QED BY <1>3, <1>5, <4>1, <5>1
      <4> QED BY <1>6, <2>2, <4>1
    <3>2. table'[i] = table[i] BY <1>6, <3>1
    <3>3. m = table[i].nextAt /\ StillToAdvance(i) BY <2>2, <3>2 DEF GoneIsPast
    <3>4. ticker.at = "skip" /\ \E e \in ticker.due : e.id = i
      BY <1>1, <1>2, <3>1, <3>3 DEF StillToAdvance
    <3>5. PICK e \in ticker.due : e.id = i BY <3>4
    <3>6. e \in ticker.due \ {d} BY <3>1, <3>5
    <3>7. ticker'.at = "skip" /\ ticker'.due = ticker.due \ {d} BY <1>1, <1>7, <3>4, <3>6
    <3> QED BY <3>2, <3>3, <3>5, <3>6, <3>7 DEF StillToAdvance
  <2>3. \A i \in Id, m \in Nat : Gone(i, m) => m <= clock BY DEF GoneIsPast
  <2> QED BY <1>1, <1>6, <2>1, <2>2, <2>3 DEF GoneIsPast
<1>11. RequestsRead' BY <1>1, <1>4 DEF RequestsRead
<1>12. LastIsPast'
  <2>1. l <= clock BY <1>3, <1>5
  <2>2. \A i \in Schedules!Rows : i \in Id BY DEF Schedules!Rows
  <2> QED BY <1>1, <1>6, <2>1, <2>2 DEF LastIsPast
<1>13. Schedules!NextAtOnCadence'
  <2>1. \A i \in Schedules!Rows : i \in Id BY DEF Schedules!Rows
  <2>2. ASSUME NEW i \in Schedules!Rows
        PROVE  \E m \in Schedules!Minute : Upcoming[table'[i].cron][m] = table'[i].nextAt
    <3>1. CASE i = d.id BY <1>3, <1>6, <3>1 DEF n
    <3>2. CASE i # d.id
      <4>1. table'[i] = table[i] BY <1>6, <2>1, <3>2
      <4> QED BY <4>1 DEF Schedules!NextAtOnCadence
    <3> QED BY <3>1, <3>2
  <2> QED BY <1>6, <2>2 DEF Schedules!NextAtOnCadence
<1>14. Schedules!OncePerOccurrence' /\ sent' = sent /\ api' = api BY <1>1
    DEF Schedules!OncePerOccurrence, Schedules!ghosts
<1>15. ASSUME NEW i \in Schedules!Rows PROVE table'[i].lastAt >= table[i].lastAt
  <2>1. CASE i = d.id BY <1>3, <1>5, <1>6, <2>1
  <2>2. CASE i # d.id
    <3>1. table'[i] = table[i] /\ table[i].lastAt \in Nat BY <1>6, <2>2, RowsAre
    <3> QED BY <3>1
  <2> QED BY <2>1, <2>2
<1> QED BY <1>8, <1>9, <1>10, <1>11, <1>12, <1>13, <1>14, <1>15

(* A message goes out for a row in hand: none has for that occurrence. *)
LEMMA FireStep ==
  ASSUME ScheduleConstants, ScheduleInv, Schedules!Fire
  PROVE  /\ ScheduleInv' /\ table' = table /\ api' = api
         /\ \A i \in Id, m \in Schedules!Minute : <<i, m>> \in missed => sent'[i][m] = sent[i][m]
         /\ \A i \in Id : sent'[i] # sent[i] => i \in Schedules!Rows /\ table[i].enabled
<1> USE DEF ScheduleInv
<1>1. PICK d \in ticker.due, ok \in BOOLEAN :
        /\ ticker.at = "fire" /\ up
        /\ ticker' = [ticker EXCEPT !.at = "mark", !.cur = d, !.ok = ok]
        /\ sent' = IF ok THEN [sent EXCEPT ![d.id][d.row.nextAt] = @ + 1] ELSE sent
        /\ UNCHANGED <<clock, up, table, api, Schedules!bounds, missed>>
  BY DEF Schedules!Fire, Schedules!Earliest
<1> DEFINE minute == d.row.nextAt
<1>2. /\ d.id \in Schedules!Rows /\ d.id \in Id /\ table[d.id] = d.row /\ d.row.enabled
      /\ minute \in Schedules!Minute /\ minute <= ticker.now /\ ticker.now <= clock
           /\ ticker.now \in Schedules!Minute
  BY <1>1, InHandAre
<1>3. ~ Gone(d.id, minute) /\ sent[d.id][minute] = 0
  <2>1. ~ StillToAdvance(d.id) BY <1>1 DEF StillToAdvance
  <2>2. minute \in Nat BY <1>2 DEF Schedules!Minute
  <2>3. ~ Gone(d.id, minute) BY <1>2, <2>1, <2>2 DEF GoneIsPast
  <2>4. sent[d.id][minute] \in Nat BY <1>2 DEF Schedules!TypeOK
  <2> HIDE DEF minute
  <2> QED BY <1>2, <2>3, <2>4 DEF Gone
<1>4. /\ \A i \in Id, m \in Schedules!Minute : sent'[i][m] = IF ok /\ i = d.id /\ m = minute
           THEN 1 ELSE sent[i][m]
      /\ \A i \in Id : i # d.id => sent'[i] = sent[i]
      /\ sent' \in [Id -> [Schedules!Minute -> Nat]]
  <2>1. sent \in [Id -> [Schedules!Minute -> Nat]] BY DEF Schedules!TypeOK
  <2>2. CASE ~ ok BY <1>1, <2>1, <2>2
  <2>3. CASE ok
    <3>1. sent' = [sent EXCEPT ![d.id] = [sent[d.id] EXCEPT ![minute] = 1]] BY <1>1, <1>3, <2>3
    <3>2. [sent[d.id] EXCEPT ![minute] = 1] \in [Schedules!Minute -> Nat] BY <1>2, <2>1
    <3> HIDE DEF minute
    <3> QED BY <1>2, <2>1, <2>3, <3>1, <3>2
  <2> QED BY <2>2, <2>3
<1> HIDE DEF minute
<1>5. /\ ticker' \in Schedules!Ticker /\ ticker'.at = "mark" /\ ticker'.cur = d
      /\ ticker'.due = ticker.due /\ ticker'.now = ticker.now
  <2>1. ticker \in Schedules!Ticker BY DEF Schedules!TypeOK
  <2>2. d \in [id : Id, row : Schedules!Row] BY <2>1 DEF Schedules!Ticker
  <2> QED BY <1>1, <2>1, <2>2 DEF Schedules!Ticker
<1>6. Schedules!TypeOK' BY <1>1, <1>4, <1>5 DEF Schedules!TypeOK, Schedules!bounds
<1>7. TickerReads' BY <1>1, <1>5 DEF TickerReads
<1>8. GoneIsPast'
  <2>1. ASSUME NEW i \in Id, NEW m \in Nat, Gone(i, m)'
        PROVE  Gone(i, m) \/ (i = d.id /\ m = minute)
    BY <1>1, <1>4, <2>1 DEF Gone
  <2>2. \A i \in Id : ~ StillToAdvance(i) BY <1>1 DEF StillToAdvance
  <2>3. minute <= clock /\ minute = table[d.id].nextAt
    BY <1>2 DEF Schedules!TypeOK, Schedules!Minute, ScheduleConstants, minute
  <2>4. StillToAdvance(d.id)' BY <1>5 DEF StillToAdvance
  <2>5. Schedules!Rows' = Schedules!Rows BY <1>1 DEF Schedules!Rows
  <2> QED BY <1>1, <2>1, <2>2, <2>3, <2>4, <2>5 DEF GoneIsPast
<1>9. RequestsRead'
  <2>1. \A t \in Thread : api[t].at = "idle" BY <1>1 DEF TickerReads
  <2> QED BY <1>1, <2>1 DEF RequestsRead
<1>10. Schedules!OncePerOccurrence' BY <1>4 DEF Schedules!OncePerOccurrence
<1>11. LastIsPast' /\ Schedules!NextAtOnCadence'
  BY <1>1 DEF LastIsPast, Schedules!NextAtOnCadence, Schedules!Rows
<1>12. \A i \in Id, m \in Schedules!Minute : <<i, m>> \in missed => sent'[i][m] = sent[i][m]
  <2>1. <<d.id, minute>> \notin missed BY <1>3 DEF Gone
  <2> QED BY <1>4, <2>1
<1>13. \A i \in Id : sent'[i] # sent[i] => i \in Schedules!Rows /\ table[i].enabled BY <1>2, <1>4
<1> QED BY <1>1, <1>6, <1>7, <1>8, <1>9, <1>10, <1>11, <1>12, <1>13

-----------------------------------------------------------------------------
(* A request begins when nothing else is at work. *)
LEMMA BeginStep ==
  ASSUME ScheduleConstants, ScheduleInv, NEW t \in Thread, NEW r, Schedules!Begin(t, r),
         r \in Schedules!Request,
         \/ /\ r.at = "write" /\ r.id \in Id /\ r.row \in Schedules!Row /\ r.row.lastAt = 0
            /\ r.row.nextAt > clock
            /\ \E m \in Schedules!Minute : Upcoming[r.row.cron][m] = r.row.nextAt
         \/ r.at \in {"delete", "fire"} /\ r.id \in Schedules!Rows /\ table[r.id] = r.row
  PROVE  ScheduleInv'
<1> USE DEF ScheduleInv
<1>0. /\ up /\ ticker.at = "idle" /\ \A u \in Thread : api[u].at = "idle"
      /\ api' = [api EXCEPT ![t] = r] /\ served < MaxRequests /\ served' = served + 1
      /\ UNCHANGED <<clock, up, table, ticker, fails, stops, Schedules!ghosts>>
  BY DEF Schedules!Begin
<1>1. /\ api' \in [Thread -> Schedules!Request] /\ api'[t] = r
      /\ \A u \in Thread : u # t => api'[u].at = "idle"
  BY <1>0 DEF Schedules!TypeOK
<1>2. Schedules!TypeOK'
  <2>1. served' \in 0 .. MaxRequests BY <1>0 DEF Schedules!TypeOK, ScheduleConstants
  <2> QED BY <1>0, <1>1, <2>1 DEF Schedules!TypeOK, Schedules!ghosts
<1>3. /\ \A i \in Id, m \in Nat : Gone(i, m)' <=> Gone(i, m)
      /\ \A i \in Id : StillToAdvance(i)' <=> StillToAdvance(i)
      /\ Schedules!Rows' = Schedules!Rows
  BY <1>0 DEF Gone, Schedules!ghosts, StillToAdvance, Schedules!Rows
<1>4. GoneIsPast' BY <1>0, <1>3 DEF GoneIsPast
<1>5. TickerReads' BY <1>0 DEF TickerReads
<1>6. RequestsRead'
  <2>1. \A u, v \in Thread : api'[u].at # "idle" /\ api'[v].at # "idle" => u = v BY <1>1
  <2>2. r.at = "write" => \A m \in Nat : Gone(r.id, m) => m < r.row.nextAt
    <3> SUFFICES ASSUME r.at = "write", NEW m \in Nat, Gone(r.id, m) PROVE m < r.row.nextAt
      OBVIOUS
    <3>1. m <= clock /\ r.row.nextAt > clock /\ r.row \in Schedules!Row BY DEF GoneIsPast
    <3>2. r.row.nextAt \in Nat /\ clock \in Nat BY <3>1 DEF Schedules!Row, Schedules!TypeOK,
        Schedules!Minute
    <3> QED BY <3>1, <3>2
  <2>3. r.at = "write" => \A m \in Nat : Gone(r.id, m)' => m < r.row.nextAt
    BY <1>3, <2>2
  <2>4. r.at # "mark" OBVIOUS
  <2>5. /\ r.at = "write" =>
             /\ r.id \in Id /\ r.row \in Schedules!Row /\ r.row.lastAt = 0
             /\ \E m \in Schedules!Minute : Upcoming[r.row.cron][m] = r.row.nextAt
        /\ r.at \in {"delete", "fire", "mark"} => r.id \in Schedules!Rows' /\ table'[r.id] = r.row
    BY <1>0, <1>3
  <2>6. ASSUME NEW u \in Thread
        PROVE  /\ api'[u].at = "write" =>
                    /\ api'[u].id \in Id /\ api'[u].row \in Schedules!Row /\ api'[u].row.lastAt = 0
                    /\ \E m \in Schedules!Minute :
                         Upcoming[api'[u].row.cron][m] = api'[u].row.nextAt
                    /\ \A m \in Nat : Gone(api[u].id, m)' => m < api'[u].row.nextAt
               /\ api'[u].at \in {"delete", "fire", "mark"} =>
                    api'[u].id \in Schedules!Rows' /\ table'[api'[u].id] = api'[u].row
               /\ api'[u].at = "mark" => api'[u].row.lastAt <= api'[u].now /\ api'[u].now <= clock'
    <3>1. CASE u = t
      <4>1. api'[u] = r BY <1>1, <3>1
      <4>2. \A m \in Nat : Gone(api[u].id, m)' <=> Gone(r.id, m)' BY <4>1 DEF Gone
      <4> QED BY <2>3, <2>4, <2>5, <4>1, <4>2
    <3>2. CASE u # t BY <1>1, <3>2
    <3> QED BY <3>1, <3>2
  <2> QED BY <2>1, <2>6 DEF RequestsRead
<1>7. LastIsPast' /\ Schedules!OncePerOccurrence' /\ Schedules!NextAtOnCadence'
  BY <1>0 DEF LastIsPast, Schedules!OncePerOccurrence, Schedules!NextAtOnCadence, Schedules!Rows,
    Schedules!ghosts
<1> QED BY <1>2, <1>4, <1>5, <1>6, <1>7

(* A request that begins, or is turned away, leaves the table and the sendings. *)
LEMMA ArriveStep ==
  ASSUME ScheduleConstants, ScheduleInv, NEW t \in Thread, Schedules!Arrive(t)
  PROVE  ScheduleInv' /\ table' = table /\ sent' = sent /\ api[t].at = "idle"
                      /\ \A u \in Thread : u # t => api'[u] = api[u]
<1> USE DEF ScheduleInv
<1>0. clock \in Schedules!Minute /\ clock \in Nat BY DEF Schedules!TypeOK, Schedules!Minute
<1>1. ASSUME NEW r, Schedules!Begin(t, r)
      PROVE  table' = table /\ sent' = sent /\ api[t].at = "idle"
             /\ \A u \in Thread : u # t => api'[u] = api[u]
  BY <1>1 DEF Schedules!Begin, Schedules!ghosts, Schedules!TypeOK
<1>2. ASSUME NEW i \in Id, NEW c \in Cron, NEW enabled \in BOOLEAN,
             Schedules!BeginPut(t, i, c, enabled)
      PROVE  ScheduleInv' /\ \E r : Schedules!Begin(t, r)
  <2> DEFINE row == [cron |-> c, enabled |-> enabled, nextAt |-> Upcoming[c][clock], lastAt |-> 0]
             r   == [at |-> "write", id |-> i, now |-> clock, row |-> row]
  <2>1. Schedules!Begin(t, r) BY <1>2 DEF Schedules!BeginPut
  <2>2. Upcoming[c][clock] \in Nat /\ Upcoming[c][clock] > clock
    BY <1>0 DEF ScheduleConstants, Schedules!Minute
  <2>3. /\ row \in Schedules!Row /\ row.lastAt = 0 /\ row.nextAt > clock
        /\ row.nextAt = Upcoming[row.cron][clock]
    BY <2>2 DEF Schedules!Row
  <2> HIDE DEF row
  <2>4. r \in Schedules!Request /\ r.at = "write" /\ r.id \in Id /\ r.row = row BY <1>0, <2>3
      DEF Schedules!Request
  <2> HIDE DEF r
  <2>5. \E m \in Schedules!Minute : Upcoming[r.row.cron][m] = r.row.nextAt BY <1>0, <2>3, <2>4
  <2> QED BY <2>1, <2>3, <2>4, <2>5, BeginStep
<1>3. ASSUME NEW i \in Id, NEW place \in {"delete", "fire"}, i \in Schedules!Rows,
             Schedules!Begin(t, [at |-> place, id |-> i, row |-> table[i], now |-> 0])
      PROVE  ScheduleInv' /\ \E r : Schedules!Begin(t, r)
  <2> DEFINE r == [at |-> place, id |-> i, row |-> table[i], now |-> 0]
  <2>1. table[i] \in Schedules!Row BY <1>3, RowsAre
  <2>2. r \in Schedules!Request /\ r.at \in {"delete", "fire"} /\ r.id = i /\ r.row = table[i]
    BY <2>1 DEF Schedules!Request
  <2>3. Schedules!Begin(t, r) BY <1>3
  <2> HIDE DEF r
  <2> QED BY <1>3, <2>2, <2>3, BeginStep
<1>4. PICK i \in Id : \/ \E c \in Cron, enabled \in BOOLEAN : Schedules!BeginPut(t, i, c, enabled)
                      \/ Schedules!BeginDelete(t, i) \/ Schedules!BeginFire(t, i)
  BY DEF Schedules!Arrive
<1>5. CASE Schedules!BeginDelete(t, i)
  <2>1. ScheduleInv' /\ \E r : Schedules!Begin(t, r) BY <1>3, <1>5 DEF Schedules!BeginDelete
  <2> QED BY <1>1, <2>1
<1>6. CASE Schedules!BeginFire(t, i)
  <2>1. ScheduleInv' /\ \E r : Schedules!Begin(t, r) BY <1>3, <1>6 DEF Schedules!BeginFire
  <2> QED BY <1>1, <2>1
<1>7. CASE \E c \in Cron, enabled \in BOOLEAN : Schedules!BeginPut(t, i, c, enabled)
  <2>1. ScheduleInv' /\ \E r : Schedules!Begin(t, r) BY <1>2, <1>7
  <2> QED BY <1>1, <2>1
<1> QED BY <1>4, <1>5, <1>6, <1>7

(* While a request is at work it is alone. *)
LEMMA BusyIsAlone ==
  ASSUME ScheduleInv, NEW t \in Thread, api[t].at # "idle"
  PROVE  ticker.at = "idle" /\ up /\ \A u \in Thread : u # t => api[u].at = "idle"
<1>1. ticker.at = "idle" /\ \A u \in Thread : u # t => api[u].at = "idle"
  BY DEF ScheduleInv, TickerReads, RequestsRead
<1>2. up
  <2>1. ~ up => ticker = Schedules!Starting BY DEF ScheduleInv, TickerReads
  <2>2. Schedules!Starting.at # "idle" BY DEF Schedules!Starting
  <2>3. up \in BOOLEAN BY DEF ScheduleInv, Schedules!TypeOK
  <2> QED BY <1>1, <2>1, <2>2, <2>3
<1> QED BY <1>1, <1>2

(* A request ends by writing a row that keeps what the table says of the   *)
(* past, or by taking it away.                                             *)
Writes(t, i) ==
  /\ api[t].at # "idle" /\ api' = [api EXCEPT ![t] = Schedules!Idle]
  /\ UNCHANGED <<clock, up, ticker, Schedules!bounds, Schedules!ghosts>>
  /\ table' \in [Id -> Schedules!Row \cup {None}]
  /\ \A j \in Id : j # i => table'[j] = table[j]
  /\ table'[i] # None =>
       /\ \A m \in Nat : Gone(i, m) => m < table'[i].nextAt
       /\ \E m \in Schedules!Minute : Upcoming[table'[i].cron][m] = table'[i].nextAt
       /\ table'[i].lastAt <= clock
       /\ i \in Schedules!Rows => table'[i].lastAt >= table[i].lastAt

(* A request's statement that writes one row keeps the invariant. *)
LEMMA WrittenKeeps ==
  ASSUME ScheduleConstants, ScheduleInv, NEW t \in Thread, NEW i \in Id, Writes(t, i)
  PROVE  ScheduleInv' /\ sent' = sent /\ (\A u \in Thread : u # t => api'[u] = api[u])
         /\ \A j \in Schedules!Rows : table'[j] # None => table'[j].lastAt >= table[j].lastAt
<1> USE DEF Writes
<1> USE DEF ScheduleInv
<1>1. ticker.at = "idle" /\ up /\ \A u \in Thread : u # t => api[u].at = "idle" BY BusyIsAlone
<1>2. /\ api' \in [Thread -> Schedules!Request] /\ \A u \in Thread : api'[u].at = "idle"
      /\ \A u \in Thread : u # t => api'[u] = api[u]
  <2>1. Schedules!Idle \in Schedules!Request /\ Schedules!Idle.at = "idle" BY DEF Schedules!Idle,
      Schedules!Request
  <2> QED BY <1>1, <2>1 DEF Schedules!TypeOK
<1>3. Schedules!TypeOK' BY <1>2 DEF Schedules!TypeOK, Schedules!bounds, Schedules!ghosts
<1>4. TickerReads' BY <1>1, <1>2 DEF TickerReads
<1>5. RequestsRead' BY <1>2 DEF RequestsRead
<1>6. /\ \A j \in Schedules!Rows' : j \in Id /\ table'[j] # None
           /\ (j # i => j \in Schedules!Rows /\ table'[j] = table[j])
      /\ \A j \in Schedules!Rows : j \in Id
  BY DEF Schedules!Rows
<1>7. GoneIsPast'
  <2>1. \A j \in Id, m \in Nat : Gone(j, m)' <=> Gone(j, m) BY DEF Gone, Schedules!ghosts
  <2>2. \A j \in Id : ~ StillToAdvance(j) BY <1>1 DEF StillToAdvance
  <2> QED BY <1>6, <2>1, <2>2 DEF GoneIsPast
<1>8. LastIsPast' BY <1>6 DEF LastIsPast
<1>9. Schedules!NextAtOnCadence' BY <1>6 DEF Schedules!NextAtOnCadence
<1>10. Schedules!OncePerOccurrence' /\ sent' = sent BY DEF Schedules!OncePerOccurrence,
    Schedules!ghosts
<1>11. ASSUME NEW j \in Schedules!Rows, table'[j] # None PROVE table'[j].lastAt >= table[j].lastAt
  <2>1. CASE j = i BY <1>11, <2>1
  <2>2. CASE j # i
    <3>1. table'[j] = table[j] /\ table[j].lastAt \in Nat BY <1>6, <2>2, RowsAre
    <3> QED BY <3>1
  <2> QED BY <2>1, <2>2
<1> QED BY <1>2, <1>3, <1>4, <1>5, <1>7, <1>8, <1>9, <1>10, <1>11

(* Each later step of a request keeps the invariant and takes no firing back. *)
LEMMA HandleStep ==
  ASSUME ScheduleConstants, ScheduleInv, NEW t \in Thread, Schedules!Handle(t)
  PROVE  /\ ScheduleInv' /\ sent' = sent /\ \A u \in Thread : u # t => api'[u] = api[u]
         /\ \A i \in Schedules!Rows : table'[i] # None => table'[i].lastAt >= table[i].lastAt
         /\ api[t].at = "mark" /\ api[t].id \in Schedules!Rows =>
              table'[api[t].id].nextAt = table[api[t].id].nextAt
<1> USE DEF ScheduleInv
<1> DEFINE r == api[t]
<1>0. r \in Schedules!Request /\ clock \in Nat /\ api \in [Thread -> Schedules!Request]
    BY DEF Schedules!TypeOK, Schedules!Minute
<1>1. CASE Schedules!Write(t)
  <2>1. /\ r.at = "write" /\ Schedules!Return(t)
             /\ UNCHANGED <<clock, up, ticker, Schedules!bounds, Schedules!ghosts>>
        /\ table' = [table EXCEPT ![r.id] =
                       IF r.id \in Schedules!Rows
                         THEN [r.row EXCEPT !.lastAt = table[r.id].lastAt] ELSE r.row]
    BY <1>1, NoFailure DEF Schedules!Write
  <2>2. /\ r.id \in Id /\ r.row \in Schedules!Row /\ r.row.lastAt = 0
        /\ \E m \in Schedules!Minute : Upcoming[r.row.cron][m] = r.row.nextAt
        /\ \A m \in Nat : Gone(r.id, m) => m < r.row.nextAt
    BY <2>1 DEF RequestsRead
  <2> DEFINE new == IF r.id \in Schedules!Rows THEN [r.row EXCEPT !.lastAt = table[r.id].lastAt]
               ELSE r.row
  <2>3. /\ new \in Schedules!Row /\ new.cron = r.row.cron /\ new.nextAt = r.row.nextAt
        /\ new.lastAt <= clock
        /\ r.id \in Schedules!Rows => new.lastAt = table[r.id].lastAt
    <3>1. CASE r.id \in Schedules!Rows
      <4>1. table[r.id].lastAt \in Nat /\ table[r.id].lastAt <= clock BY <3>1, RowsAre
          DEF LastIsPast
      <4>2. new = [r.row EXCEPT !.lastAt = table[r.id].lastAt] BY <3>1
      <4> HIDE DEF r, new
      <4> QED BY <2>2, <4>1, <4>2 DEF Schedules!Row
    <3>2. CASE r.id \notin Schedules!Rows
      <4>1. new = r.row BY <3>2
      <4> HIDE DEF r, new
      <4> QED BY <1>0, <2>2, <3>2, <4>1 DEF Schedules!Row
    <3> QED BY <3>1, <3>2
  <2>4. /\ table' \in [Id -> Schedules!Row \cup {None}] /\ table'[r.id] = new
        /\ \A j \in Id : j # r.id => table'[j] = table[j]
    <3>1. table' = [table EXCEPT ![r.id] = new] BY <2>1
    <3> HIDE DEF new, r
    <3> QED BY <2>2, <2>3, <3>1 DEF Schedules!TypeOK
  <2>5. api' = [api EXCEPT ![t] = Schedules!Idle] BY <2>1 DEF Schedules!Return
  <2>6. r.id \in Schedules!Rows => table'[r.id].lastAt >= table[r.id].lastAt
    <3> HAVE r.id \in Schedules!Rows
    <3>1. table[r.id].lastAt \in Nat BY RowsAre
    <3>2. table'[r.id].lastAt = table[r.id].lastAt
      <4> HIDE DEF new, r
      <4> QED BY <2>3, <2>4
    <3> QED BY <3>1, <3>2
  <2>7. /\ \A m \in Nat : Gone(r.id, m) => m < table'[r.id].nextAt
        /\ \E m \in Schedules!Minute : Upcoming[table'[r.id].cron][m] = table'[r.id].nextAt
        /\ table'[r.id].lastAt <= clock
    <3> HIDE DEF new, r
    <3> QED BY <2>2, <2>3, <2>4
  <2>8. r.at # "idle" /\ r.at # "mark" BY <2>1
  <2>9. ScheduleInv' /\ sent' = sent /\ (\A u \in Thread : u # t => api'[u] = api[u])
        /\ \A j \in Schedules!Rows : table'[j] # None => table'[j].lastAt >= table[j].lastAt
    <3> DEFINE i == r.id
    <3>1. i \in Id BY <2>2
    <3>2. \A j \in Id : j # i => table'[j] = table[j] BY <2>4
    <3>3. /\ \A m \in Nat : Gone(i, m) => m < table'[i].nextAt
          /\ \E m \in Schedules!Minute : Upcoming[table'[i].cron][m] = table'[i].nextAt
          /\ table'[i].lastAt <= clock
          /\ i \in Schedules!Rows => table'[i].lastAt >= table[i].lastAt
      BY <2>6, <2>7
    <3> HIDE DEF i, new
    <3>4. Writes(t, i) BY <2>1, <2>4, <2>5, <2>8, <3>2, <3>3 DEF Writes
    <3> QED BY <3>1, <3>4, WrittenKeeps
  <2> QED BY <2>8, <2>9
<1>2. CASE Schedules!Delete(t)
  <2>1. /\ r.at = "delete" /\ Schedules!Return(t)
             /\ UNCHANGED <<clock, up, ticker, Schedules!bounds, Schedules!ghosts>>
        /\ table' = [table EXCEPT ![r.id] = None]
    BY <1>2, NoFailure DEF Schedules!Delete
  <2>2. r.id \in Id BY <2>1 DEF RequestsRead, Schedules!Rows
  <2>3. /\ table' \in [Id -> Schedules!Row \cup {None}] /\ table'[r.id] = None
        /\ \A j \in Id : j # r.id => table'[j] = table[j]
    BY <2>1, <2>2 DEF Schedules!TypeOK
  <2>4. api' = [api EXCEPT ![t] = Schedules!Idle] BY <2>1 DEF Schedules!Return
  <2>5. ScheduleInv' /\ sent' = sent /\ (\A u \in Thread : u # t => api'[u] = api[u])
        /\ \A j \in Schedules!Rows : table'[j] # None => table'[j].lastAt >= table[j].lastAt
    <3> DEFINE i == r.id
    <3>1. i \in Id /\ table'[i] = None /\ \A j \in Id : j # i => table'[j] = table[j] BY <2>2, <2>3
    <3>2. api[t].at # "idle" BY <2>1
    <3> HIDE DEF i
    <3>3. Writes(t, i) BY <2>1, <2>3, <2>4, <3>1, <3>2 DEF Writes
    <3> QED BY <3>1, <3>3, WrittenKeeps
  <2> QED BY <2>1, <2>5
<1>3. CASE Schedules!FireNow(t)
  <2>0. r.at = "fire" /\ UNCHANGED <<clock, up, table, ticker, Schedules!bounds,
      Schedules!ghosts>> BY <1>3 DEF Schedules!FireNow
  <2>1. ticker.at = "idle" /\ up /\ \A u \in Thread : u # t => api[u].at = "idle"
    BY <2>0, BusyIsAlone
  <2>2. r.id \in Schedules!Rows /\ table[r.id] = r.row /\ r.id \in Id BY <2>0 DEF RequestsRead,
      Schedules!Rows
  <2>3. \/ api' = [api EXCEPT ![t] = [r EXCEPT !.at = "mark", !.now = clock]]
        \/ api' = [api EXCEPT ![t] = Schedules!Idle]
    BY <1>0, <1>3 DEF Schedules!FireNow, Schedules!Return
  <2>4. /\ api' \in [Thread -> Schedules!Request] /\ \A u \in Thread : u # t => api'[u] = api[u]
        /\ \/ api'[t].at = "idle"
           \/ api'[t].at = "mark" /\ api'[t].now = clock /\ api'[t].id = r.id
                /\ api'[t].row = r.row
    <3>1. Schedules!Idle \in Schedules!Request /\ Schedules!Idle.at = "idle"
        BY DEF Schedules!Idle, Schedules!Request
    <3>2. CASE api' = [api EXCEPT ![t] = Schedules!Idle] BY <1>0, <3>1, <3>2
    <3>3. CASE api' = [api EXCEPT ![t] = [r EXCEPT !.at = "mark", !.now = clock]]
      <4> DEFINE new == [r EXCEPT !.at = "mark", !.now = clock]
      <4>1. new \in Schedules!Request /\ new.at = "mark" /\ new.now = clock /\ new.id = r.id
              /\ new.row = r.row
        BY <1>0 DEF Schedules!Request, Schedules!TypeOK
      <4> HIDE DEF new
      <4> QED BY <1>0, <3>3, <4>1 DEF new
    <3> QED BY <2>3, <3>2, <3>3
  <2>5. Schedules!TypeOK' BY <2>0, <2>4 DEF Schedules!TypeOK, Schedules!bounds, Schedules!ghosts
  <2>6. /\ \A i \in Id, m \in Nat : Gone(i, m)' <=> Gone(i, m)
        /\ \A i \in Id : StillToAdvance(i)' <=> StillToAdvance(i)
        /\ Schedules!Rows' = Schedules!Rows
    BY <2>0 DEF Gone, Schedules!ghosts, StillToAdvance, Schedules!Rows
  <2>7. GoneIsPast' BY <2>0, <2>6 DEF GoneIsPast
  <2>8. TickerReads' BY <2>0, <2>1 DEF TickerReads
  <2>9. r.row.lastAt \in Nat /\ r.row.lastAt <= clock BY <2>2, RowsAre DEF LastIsPast
  <2>10. RequestsRead'
    <3>1. \A u \in Thread : u # t => api'[u].at = "idle" BY <2>1, <2>4
    <3>2. \/ api'[t].at = "idle"
          \/ /\ api'[t].at = "mark" /\ api'[t].id \in Schedules!Rows'
                  /\ table'[api'[t].id] = api'[t].row
             /\ api'[t].row.lastAt <= api'[t].now /\ api'[t].now <= clock'
      BY <1>0, <2>0, <2>2, <2>4, <2>6, <2>9
    <3> QED BY <3>1, <3>2 DEF RequestsRead
  <2>11. LastIsPast' /\ Schedules!OncePerOccurrence' /\ Schedules!NextAtOnCadence' /\ sent' = sent
           /\ table' = table
    BY <2>0 DEF LastIsPast, Schedules!OncePerOccurrence, Schedules!NextAtOnCadence,
      Schedules!Rows, Schedules!ghosts
  <2>12. \A j \in Schedules!Rows : table'[j].lastAt >= table[j].lastAt
    <3>1. \A j \in Schedules!Rows : table[j].lastAt \in Nat BY RowsAre
    <3> QED BY <2>11, <3>1
  <2> QED BY <2>0, <2>4, <2>5, <2>7, <2>8, <2>10, <2>11, <2>12
<1>4. CASE Schedules!Record(t)
  <2>1. /\ r.at = "mark" /\ Schedules!Return(t)
             /\ UNCHANGED <<clock, up, ticker, Schedules!bounds, Schedules!ghosts>>
        /\ Schedules!MarkFired(r.id, r.now, r.row.nextAt)
    BY <1>4, NoFailure DEF Schedules!Record
  <2>2. /\ r.id \in Schedules!Rows /\ r.id \in Id /\ table[r.id] = r.row
        /\ r.row.lastAt <= r.now /\ r.now <= clock
    BY <2>1 DEF RequestsRead, Schedules!Rows
  <2>3. r.row \in Schedules!Row /\ r.row.nextAt \in Nat /\ r.row.lastAt \in Nat /\ r.now \in Nat
    <3>1. r.row \in Schedules!Row BY <2>2, RowsAre
    <3>2. r.now \in Nat BY <1>0 DEF Schedules!Request, Schedules!Minute
    <3> HIDE DEF r
    <3> QED BY <3>1, <3>2 DEF Schedules!Row
  <2> DEFINE i == r.id
             minute == r.now
             next == r.row.nextAt
  <2>4. i \in Schedules!Rows /\ minute \in Nat /\ next \in Nat /\ Schedules!MarkFired(i, minute,
      next) BY <2>1, <2>2, <2>3
  <2>5. i \in Id /\ table[i].nextAt = next /\ table[i].lastAt <= minute /\ minute <= clock
        /\ table[i].lastAt \in Nat
    BY <2>2, <2>3
  <2>6. api[t].at # "idle" /\ api' = [api EXCEPT ![t] = Schedules!Idle] BY <2>1
      DEF Schedules!Return
  <2> HIDE DEF i, minute, next
  <2>7. /\ table' \in [Id -> Schedules!Row \cup {None}] /\ Schedules!Rows' = Schedules!Rows
        /\ \A j \in Id : j # i => table'[j] = table[j]
        /\ table'[i].cron = table[i].cron /\ table'[i].nextAt = next /\ table'[i].lastAt = minute
    BY <2>4, MarkFiredIs
  <2>8. \A m \in Nat : Gone(i, m) => m < table'[i].nextAt
    <3>1. ticker.at = "idle" BY <2>6, BusyIsAlone
    <3>2. ~ StillToAdvance(i) BY <3>1 DEF StillToAdvance
    <3> QED BY <2>4, <2>5, <2>7, <3>2 DEF GoneIsPast
  <2>9. \E m \in Schedules!Minute : Upcoming[table'[i].cron][m] = table'[i].nextAt
    BY <2>4, <2>5, <2>7 DEF Schedules!NextAtOnCadence
  <2>10. table'[i].lastAt <= clock /\ table'[i].lastAt >= table[i].lastAt BY <2>4, <2>5, <2>7
  <2>11. ScheduleInv' /\ sent' = sent /\ (\A u \in Thread : u # t => api'[u] = api[u])
         /\ \A j \in Schedules!Rows : table'[j] # None => table'[j].lastAt >= table[j].lastAt
    <3>1. Writes(t, i) BY <2>1, <2>6, <2>7, <2>8, <2>9, <2>10 DEF Writes
    <3> QED BY <2>5, <3>1, WrittenKeeps
  <2>12. table'[i].nextAt = table[i].nextAt BY <2>5, <2>7
  <2> QED BY <2>11, <2>12 DEF i
<1> QED BY <1>1, <1>2, <1>3, <1>4 DEF Schedules!Handle

-----------------------------------------------------------------------------
(* Time, and the process. *)
LEMMA PassStep ==
  ASSUME ScheduleConstants, ScheduleInv, Schedules!Pass
  PROVE  ScheduleInv' /\ table' = table /\ sent' = sent /\ api' = api
<1> USE DEF ScheduleInv
<1>0. clock < LastMinute /\ clock' = clock + 1
        /\ UNCHANGED <<up, table, ticker, api, Schedules!bounds, Schedules!ghosts>>
  BY DEF Schedules!Pass
<1>1. clock \in Nat /\ clock' \in Schedules!Minute /\ clock <= clock'
  BY <1>0 DEF Schedules!TypeOK, Schedules!Minute, ScheduleConstants
<1>2. Schedules!TypeOK' BY <1>0, <1>1 DEF Schedules!TypeOK, Schedules!bounds, Schedules!ghosts
<1>3. /\ \A i \in Id, m \in Nat : Gone(i, m)' <=> Gone(i, m)
      /\ \A i \in Id : StillToAdvance(i)' <=> StillToAdvance(i)
      /\ Schedules!Rows' = Schedules!Rows
  BY <1>0 DEF Gone, Schedules!ghosts, StillToAdvance, Schedules!Rows
<1>4. GoneIsPast'
  <2>1. \A m \in Nat : m <= clock => m <= clock' BY <1>0, <1>1
  <2> QED BY <1>0, <1>3, <2>1 DEF GoneIsPast
<1>5. TickerReads'
  <2>1. ticker.now \in Schedules!Minute /\ ticker.now <= clock => ticker.now <= clock'
    BY <1>0, <1>1 DEF Schedules!Minute
  <2> QED BY <1>0, <2>1 DEF TickerReads
<1>6. RequestsRead'
  <2>1. \A t \in Thread : api[t].now \in Nat
    BY DEF Schedules!TypeOK, Schedules!Request, Schedules!Minute
  <2>2. \A t \in Thread : api[t].now <= clock => api[t].now <= clock' BY <1>0, <1>1, <2>1
  <2>3. \A t \in Thread : api[t].at = "write" => api[t].id \in Id BY DEF RequestsRead
  <2>4. \A t \in Thread, m \in Nat : api[t].at = "write" =>
          (Gone(api[t].id, m)' <=> Gone(api[t].id, m))
    BY <1>0 DEF Gone, Schedules!ghosts
  <2> QED BY <1>0, <1>3, <2>2, <2>4 DEF RequestsRead
<1>7. LastIsPast'
  <2>1. \A i \in Schedules!Rows : table[i].lastAt \in Nat BY RowsAre
  <2> QED BY <1>0, <1>1, <1>3, <2>1 DEF LastIsPast
<1>8. Schedules!OncePerOccurrence' /\ Schedules!NextAtOnCadence' /\ sent' = sent
  BY <1>0 DEF Schedules!OncePerOccurrence, Schedules!NextAtOnCadence, Schedules!Rows,
    Schedules!ghosts
<1> QED BY <1>0, <1>2, <1>4, <1>5, <1>6, <1>7, <1>8

(* A stop ends the ticker and the requests and leaves what is stored. *)
LEMMA StopStep ==
  ASSUME ScheduleConstants, ScheduleInv, Schedules!Stop
  PROVE  ScheduleInv' /\ table' = table /\ sent' = sent /\ ~ up'
<1> USE DEF ScheduleInv
<1>0. /\ up /\ stops < MaxStops /\ stops' = stops + 1 /\ up' = FALSE
           /\ ticker' = Schedules!Starting
      /\ api' = [t \in Thread |-> Schedules!Idle]
           /\ UNCHANGED <<clock, table, served, fails, Schedules!ghosts>>
  BY DEF Schedules!Stop
<1>1. /\ Schedules!Starting \in Schedules!Ticker /\ Schedules!Starting.at = "starting"
           /\ Schedules!Idle \in Schedules!Request /\ Schedules!Idle.at = "idle"
  BY DEF Schedules!Starting, Schedules!Ticker, Schedules!Idle, Schedules!Request
<1>2. Schedules!TypeOK'
  <2>1. stops' \in 0 .. MaxStops BY <1>0 DEF Schedules!TypeOK, ScheduleConstants
  <2> QED BY <1>0, <1>1, <2>1 DEF Schedules!TypeOK, Schedules!ghosts
<1>3. GoneIsPast'
  <2>1. \A i \in Id, m \in Nat : Gone(i, m)' <=> Gone(i, m) BY <1>0 DEF Gone, Schedules!ghosts
  <2>2. ASSUME NEW i \in Id, StillToAdvance(i) PROVE StillToAdvance(i)'
    <3>1. table[i].enabled
      <4>1. CASE ticker.at = "starting" BY <2>2, <4>1 DEF StillToAdvance
      <4>2. CASE ticker.at \in {"skip", "mark"}
        <5>1. PICK d \in ticker.due : d.id = i BY <2>2, <4>2 DEF StillToAdvance, TickerReads
        <5>2. table[d.id] = d.row /\ d.row.enabled BY <4>2, <5>1 DEF TickerReads
        <5> QED BY <5>1, <5>2
      <4> QED BY <2>2, <4>1, <4>2 DEF StillToAdvance
    <3> QED BY <1>0, <1>1, <3>1 DEF StillToAdvance
  <2>3. Schedules!Rows' = Schedules!Rows BY <1>0 DEF Schedules!Rows
  <2> QED BY <1>0, <2>1, <2>2, <2>3 DEF GoneIsPast
<1>4. TickerReads' BY <1>0, <1>1 DEF TickerReads
<1>5. RequestsRead' BY <1>0, <1>1 DEF RequestsRead
<1>6. LastIsPast' /\ Schedules!OncePerOccurrence' /\ Schedules!NextAtOnCadence' /\ sent' = sent
  BY <1>0 DEF LastIsPast, Schedules!OncePerOccurrence, Schedules!NextAtOnCadence, Schedules!Rows,
    Schedules!ghosts
<1> QED BY <1>0, <1>2, <1>3, <1>4, <1>5, <1>6

(* A restart remembers what fell due meanwhile; none of it is to be fired. *)
LEMMA RestartStep ==
  ASSUME ScheduleConstants, ScheduleInv, Schedules!Restart
  PROVE  ScheduleInv' /\ table' = table /\ sent' = sent /\ api' = api
<1> USE DEF ScheduleInv
<1>0. /\ ~up /\ up' = TRUE
      /\ missed' = missed \cup {<<d.id, d.row.nextAt>> : d \in Schedules!ListDue}
      /\ UNCHANGED <<clock, table, ticker, api, Schedules!bounds, sent>>
  BY DEF Schedules!Restart
<1>1. ticker = Schedules!Starting /\ ticker.at = "starting" BY <1>0 DEF TickerReads,
    Schedules!Starting
<1>2. \A d \in Schedules!ListDue : /\ d.id \in Schedules!Rows /\ d.id \in Id
        /\ table[d.id] = d.row /\ d.row.enabled
                                   /\ d.row.nextAt <= clock /\ d.row.nextAt \in Nat
  BY RowsAre DEF Schedules!ListDue, Schedules!IsDue
<1>3. Schedules!TypeOK' BY <1>0, <1>2 DEF Schedules!TypeOK, Schedules!bounds
<1>4. GoneIsPast'
  <2>1. ASSUME NEW i \in Id, NEW m \in Nat, Gone(i, m)', ~ Gone(i, m)
        PROVE  m <= clock /\ i \in Schedules!Rows /\ m = table[i].nextAt /\ StillToAdvance(i)
    <3>1. <<i, m>> \in {<<d.id, d.row.nextAt>> : d \in Schedules!ListDue} BY <1>0, <2>1 DEF Gone
    <3>2. PICK d \in Schedules!ListDue : i = d.id /\ m = d.row.nextAt BY <3>1
    <3> QED BY <1>1, <1>2, <3>2 DEF StillToAdvance
  <2>2. Schedules!Rows' = Schedules!Rows /\ \A i \in Id : StillToAdvance(i)' <=> StillToAdvance(i)
    BY <1>0 DEF Schedules!Rows, StillToAdvance
  <2> QED BY <1>0, <2>1, <2>2 DEF GoneIsPast
<1>5. \A t \in Thread : api[t].at = "idle" BY <1>1 DEF TickerReads
<1>6. TickerReads' BY <1>0, <1>1, <1>5 DEF TickerReads
<1>7. RequestsRead' BY <1>0, <1>5 DEF RequestsRead
<1>8. LastIsPast' /\ Schedules!OncePerOccurrence' /\ Schedules!NextAtOnCadence'
  BY <1>0 DEF LastIsPast, Schedules!OncePerOccurrence, Schedules!NextAtOnCadence, Schedules!Rows
<1> QED BY <1>0, <1>3, <1>4, <1>6, <1>7, <1>8

-----------------------------------------------------------------------------
(* What a step may never do. *)
StepIsFair ==
  /\ \A i \in Id, m \in Schedules!Minute : <<i, m>> \in missed => sent'[i][m] = sent[i][m]
  /\ \A i \in Id : Schedules!SentFor(i) => i \in Schedules!Rows /\ table[i].enabled
  /\ \A t \in Thread : api[t].at = "mark" /\ api'[t].at = "idle" /\ up'
       /\ api[t].id \in Schedules!Rows
       => table'[api[t].id].nextAt = table[api[t].id].nextAt
  /\ \A i \in Schedules!Rows : table'[i] # None => table'[i].lastAt >= table[i].lastAt

(* A step that leaves the table takes no firing back. *)
LEMMA SameTable == ASSUME ScheduleConstants, ScheduleInv, table' = table
                   PROVE  \A i \in Schedules!Rows : table'[i].lastAt >= table[i].lastAt
<1>1. \A i \in Schedules!Rows : table[i].lastAt \in Nat BY RowsAre DEF ScheduleInv
<1> QED BY <1>1

(* Every step keeps the schedules' invariant and does nothing it may not. *)
LEMMA ScheduleStepKeeps ==
  ASSUME ScheduleConstants, ScheduleInv, [Schedules!NextStep]_(Schedules!vars)
  PROVE  ScheduleInv' /\ StepIsFair
<1>1. CASE Schedules!SkipMissed \/ Schedules!Advance
  <2>1. \A t \in Thread : api'[t] = api[t] BY <1>1, AdvanceStep
  <2>2. \A t \in Thread : ~ (api[t].at = "mark" /\ api'[t].at = "idle") BY <2>1
  <2> QED BY <1>1, <2>2, AdvanceStep DEF StepIsFair, Schedules!SentFor
<1>2. CASE Schedules!Fire
  <2>1. ScheduleInv' /\ table' = table BY <1>2, FireStep
  <2> QED BY <1>2, <2>1, FireStep, SameTable DEF StepIsFair, Schedules!SentFor
<1>3. CASE Schedules!Read("starting", "skip") \/ Schedules!Read("idle", "fire")
  <2>1. ScheduleInv' BY <1>3, ReadStep
  <2>2. table' = table /\ sent' = sent BY <1>3, NoFailure DEF Schedules!Read, Schedules!ghosts,
      ScheduleInv
  <2> QED BY <2>1, <2>2, SameTable DEF StepIsFair, Schedules!SentFor
<1>4. ASSUME NEW t \in Thread, Schedules!Arrive(t) PROVE ScheduleInv' /\ StepIsFair
  <2>1. ScheduleInv' /\ table' = table /\ sent' = sent BY <1>4, ArriveStep
  <2> QED BY <2>1, SameTable DEF StepIsFair, Schedules!SentFor
<1>5. ASSUME NEW t \in Thread, Schedules!Handle(t) PROVE ScheduleInv' /\ StepIsFair
  <2>1. ScheduleInv' /\ sent' = sent /\ (\A u \in Thread : u # t => api'[u] = api[u])
        /\ \A i \in Schedules!Rows : table'[i] # None => table'[i].lastAt >= table[i].lastAt
    BY <1>5, HandleStep
  <2>2. api[t].at = "mark" /\ api[t].id \in Schedules!Rows =>
          table'[api[t].id].nextAt = table[api[t].id].nextAt
    BY <1>5, HandleStep
  <2>3. \A u \in Thread : api[u].at = "mark" /\ api'[u].at = "idle" => u = t BY <2>1
  <2> QED BY <2>1, <2>2, <2>3 DEF StepIsFair, Schedules!SentFor
<1>6. CASE Schedules!Pass \/ Schedules!Restart
  <2>1. ScheduleInv' /\ table' = table /\ sent' = sent BY <1>6, PassStep, RestartStep
  <2> QED BY <2>1, SameTable DEF StepIsFair, Schedules!SentFor
<1>7. CASE Schedules!Stop
  <2>1. ScheduleInv' /\ table' = table /\ sent' = sent BY <1>7, StopStep
  <2> QED BY <2>1, SameTable DEF StepIsFair, Schedules!SentFor
<1>8. CASE UNCHANGED Schedules!vars
  <2>0. UNCHANGED <<clock, up, table, ticker, api, served, fails, stops, sent, missed>>
    BY <1>8 DEF Schedules!vars, Schedules!bounds, Schedules!ghosts
  <2>1. /\ Schedules!TypeOK' /\ Schedules!OncePerOccurrence' /\ Schedules!NextAtOnCadence'
             /\ LastIsPast' /\ TickerReads'
    BY <2>0 DEF ScheduleInv, Schedules!TypeOK, Schedules!OncePerOccurrence,
      Schedules!NextAtOnCadence, LastIsPast, TickerReads, Schedules!Rows
  <2>2. /\ \A i, m : Gone(i, m)' <=> Gone(i, m)
        /\ \A i : StillToAdvance(i)' <=> StillToAdvance(i)
        /\ Schedules!Rows' = Schedules!Rows
    BY <2>0 DEF Gone, StillToAdvance, Schedules!Rows
  <2>3. GoneIsPast' BY <2>0, <2>2 DEF ScheduleInv, GoneIsPast
  <2>4. \A t \in Thread, m \in Nat : Gone(api[t].id, m)' <=> Gone(api[t].id, m)
    BY <2>0 DEF Gone
  <2>5. RequestsRead' BY <2>0, <2>2, <2>4 DEF ScheduleInv, RequestsRead
  <2> QED BY <2>0, <2>1, <2>3, <2>5, SameTable DEF ScheduleInv, StepIsFair, Schedules!SentFor
<1> QED BY <1>1, <1>2, <1>3, <1>4, <1>5, <1>6, <1>7, <1>8 DEF Schedules!NextStep,
    Schedules!Scheduling

(* The schedules' invariant holds at first. *)
LEMMA SchedulesBegin == ASSUME ScheduleConstants, Schedules!Init PROVE ScheduleInv
<1>1. 1 \in Schedules!Minute BY DEF Schedules!Minute, ScheduleConstants
<1>2. \A i \in Id : \E c \in Cron :
        table[i] = [cron |-> c, enabled |-> TRUE, nextAt |-> Upcoming[c][1], lastAt |-> 0]
  BY DEF Schedules!Init
<1>3. \A c \in Cron : Upcoming[c][1] \in Nat BY <1>1 DEF ScheduleConstants
<1>4. \A i \in Id : /\ table[i] \in Schedules!Row /\ table[i].lastAt = 0
                    /\ Upcoming[table[i].cron][1] = table[i].nextAt
  <2> TAKE i \in Id
  <2>1. PICK c \in Cron :
               table[i] = [cron |-> c, enabled |-> TRUE, nextAt |-> Upcoming[c][1], lastAt |-> 0]
    BY <1>2
  <2> QED BY <1>3, <2>1 DEF Schedules!Row
<1>5. /\ Schedules!Starting \in Schedules!Ticker /\ Schedules!Starting.at = "starting"
           /\ Schedules!Idle \in Schedules!Request /\ Schedules!Idle.at = "idle"
  BY DEF Schedules!Starting, Schedules!Ticker, Schedules!Idle, Schedules!Request
<1>6. table \in [Id -> Schedules!Row \cup {None}]
  <2>1. table \in [Id -> {[cron |-> c, enabled |-> TRUE, nextAt |-> Upcoming[c][1],
                lastAt |-> 0] : c \in Cron}]
    BY DEF Schedules!Init
  <2> QED BY <1>4, <2>1
<1>7. Schedules!TypeOK BY <1>1, <1>5, <1>6 DEF Schedules!Init, Schedules!TypeOK, ScheduleConstants
<1>8. TickerReads BY <1>5 DEF Schedules!Init, TickerReads
<1>9. GoneIsPast BY DEF Schedules!Init, GoneIsPast, Gone
<1>10. RequestsRead BY <1>5 DEF Schedules!Init, RequestsRead
<1>11. LastIsPast BY <1>4 DEF Schedules!Init, LastIsPast, Schedules!Rows
<1>12. Schedules!OncePerOccurrence BY DEF Schedules!Init, Schedules!OncePerOccurrence
<1>13. Schedules!NextAtOnCadence BY <1>1, <1>4 DEF Schedules!NextAtOnCadence, Schedules!Rows
<1> QED BY <1>7, <1>8, <1>9, <1>10, <1>11, <1>12, <1>13 DEF ScheduleInv

(* scheduler.go, store/schedules.go: when requests and ticks come one at a *)
(* time and no statement fails, no occurrence is sent twice, none that was *)
(* due while the server was down is sent late, only what is enabled is     *)
(* fired, and what is due next stays an occurrence of the cron, whatever   *)
(* is created, edited, fired by hand or stopped in between.                *)
THEOREM SchedulesAreTrue == Schedules!Spec => FiredInTurn
<1>1. ScheduleInv => OncePerOccurrence /\ NextAtOnCadence
  BY DEF ScheduleInv, OncePerOccurrence, NextAtOnCadence
<1>2. ScheduleInv /\ [Schedules!NextStep]_(Schedules!vars) =>
        /\ \A i \in Id, m \in Schedules!Minute : <<i, m>> \in missed => sent'[i][m] = sent[i][m]
        /\ \A i \in Id : Schedules!SentFor(i) => i \in Schedules!Rows /\ table[i].enabled
        /\ \A t \in Thread : api[t].at = "mark" /\ api'[t].at = "idle" /\ up'
             /\ api[t].id \in Schedules!Rows
             => table'[api[t].id].nextAt = table[api[t].id].nextAt
        /\ \A i \in Schedules!Rows : table'[i] # None => table'[i].lastAt >= table[i].lastAt
  BY PartsAssumption, ScheduleStepKeeps DEF StepIsFair
<1> QED
  BY <1>1, <1>2, PartsAssumption, SchedulesBegin, ScheduleStepKeeps, PTL
     DEF FiredInTurn, Schedules!Spec, Schedules!NoCatchUp, Schedules!OnlyEnabledFire,
             Schedules!FireKeepsNextAt, Schedules!LastFireKept

-----------------------------------------------------------------------------
(* The Temporal mailbox.  What is queued are the last messages emitted; the *)
(* buffer holds older ones in order, and whoever is not in it was          *)
(* acknowledged or has a full buffer of newer ones ahead.                  *)

(* An increasing sequence of messages.                                     *)
Increasing(s) == \A i, j \in 1 .. Len(s) : i < j => s[i] < s[j]

(* What a buffer holds are the elements of a sequence.                     *)
LEMMA ElementsOf ==
  ASSUME NEW S, NEW s \in Seq(S)
  PROVE  /\ Len(s) \in Nat
         /\ \A x : x \in Mailboxes!Elements(s) <=> \E i \in 1 .. Len(s) : s[i] = x
         /\ Mailboxes!Elements(s) \subseteq S
         /\ \A i \in 1 .. Len(s) : s[i] \in S
<1>1. Len(s) \in Nat /\ DOMAIN s = 1 .. Len(s) BY LenProperties
<1>2. \A i \in 1 .. Len(s) : s[i] \in S BY ElementOfSeq
<1> QED BY <1>1, <1>2 DEF Mailboxes!Elements

(* A sequence with one element more, element by element. *)
LEMMA ElementsAppended ==
  ASSUME NEW S, NEW s \in Seq(S), NEW x \in S
  PROVE  /\ Append(s, x) \in Seq(S)
         /\ Len(Append(s, x)) = Len(s) + 1
         /\ \A i \in 1 .. Len(s) : Append(s, x)[i] = s[i]
         /\ Append(s, x)[Len(s) + 1] = x
         /\ Mailboxes!Elements(Append(s, x)) = Mailboxes!Elements(s) \cup {x}
<1>1. /\ Append(s, x) \in Seq(S)
      /\ Len(Append(s, x)) = Len(s) + 1
      /\ \A i \in 1 .. Len(s) : Append(s, x)[i] = s[i]
      /\ Append(s, x)[Len(s) + 1] = x
      /\ Len(s) \in Nat
  BY AppendProperties, LenProperties
<1> DEFINE t == Append(s, x)
<1>2. \A y : y \in Mailboxes!Elements(t) <=> \E i \in 1 .. Len(t) : t[i] = y
  <2>1. t \in Seq(S) BY <1>1
  <2> HIDE DEF t
  <2> QED BY <2>1, ElementsOf
<1>3. ASSUME NEW y PROVE y \in Mailboxes!Elements(t) <=> y \in Mailboxes!Elements(s) \/ y = x
  <2>1. y \in Mailboxes!Elements(s) <=> \E i \in 1 .. Len(s) : s[i] = y BY ElementsOf
  <2>2. ASSUME NEW i \in 1 .. Len(t), t[i] = y PROVE y \in Mailboxes!Elements(s) \/ y = x
    <3>1. i = Len(s) + 1 \/ i \in 1 .. Len(s) BY <1>1
    <3> QED BY <1>1, <2>1, <2>2, <3>1
  <2>3. ASSUME NEW i \in 1 .. Len(s), s[i] = y PROVE i \in 1 .. Len(t) /\ t[i] = y
    BY <1>1, <2>3
  <2>4. Len(s) + 1 \in 1 .. Len(t) /\ t[Len(s) + 1] = x BY <1>1
  <2> HIDE DEF t
  <2> QED BY <1>2, <2>1, <2>2, <2>3, <2>4
<1> QED BY <1>1, <1>3

(* A sequence without its first element, element by element. *)
LEMMA ElementsOfTail ==
  ASSUME NEW S, NEW s \in Seq(S), s # << >>
  PROVE  /\ Tail(s) \in Seq(S) /\ Head(s) = s[1] /\ s[1] \in S
         /\ Len(s) \in Nat \ {0} /\ Len(Tail(s)) = Len(s) - 1
         /\ \A i \in 1 .. Len(s) - 1 : Tail(s)[i] = s[i + 1]
         /\ Mailboxes!Elements(s) = Mailboxes!Elements(Tail(s)) \cup {s[1]}
<1>1. /\ Tail(s) \in Seq(S) /\ Head(s) = s[1] /\ s[1] \in S
      /\ Len(s) \in Nat \ {0} /\ Len(Tail(s)) = Len(s) - 1
      /\ \A i \in 1 .. Len(s) - 1 : Tail(s)[i] = s[i + 1]
  BY HeadTailProperties, EmptySeq, LenProperties, ElementOfSeq
<1> DEFINE t == Tail(s)
<1>2. \A y : y \in Mailboxes!Elements(t) <=> \E i \in 1 .. Len(t) : t[i] = y
  <2>1. t \in Seq(S) BY <1>1
  <2> HIDE DEF t
  <2> QED BY <2>1, ElementsOf
<1>3. ASSUME NEW y PROVE y \in Mailboxes!Elements(s) <=> y \in Mailboxes!Elements(t) \/ y = s[1]
  <2>1. y \in Mailboxes!Elements(s) <=> \E i \in 1 .. Len(s) : s[i] = y BY ElementsOf
  <2>2. ASSUME NEW i \in 1 .. Len(s), s[i] = y PROVE y \in Mailboxes!Elements(t) \/ y = s[1]
    <3>1. i = 1 \/ (i - 1 \in 1 .. Len(s) - 1 /\ t[i - 1] = s[i])
      <4>1. i - 1 \in 1 .. Len(s) - 1 => t[i - 1] = s[(i - 1) + 1] BY <1>1
      <4> QED BY <1>1, <4>1
    <3> QED BY <1>1, <1>2, <2>2, <3>1
  <2>3. ASSUME NEW i \in 1 .. Len(t), t[i] = y PROVE i + 1 \in 1 .. Len(s) /\ s[i + 1] = y
    BY <1>1, <2>3
  <2>4. 1 \in 1 .. Len(s) BY <1>1
  <2> HIDE DEF t
  <2> QED BY <1>2, <2>1, <2>2, <2>3, <2>4
<1> QED BY <1>1, <1>3

(* g is what is left of each beginning of s.                               *)
Filters(g, S, s, gone) ==
  /\ g \in [0 .. Len(s) -> Seq(S)]
  /\ g[0] = << >>
  /\ \A n \in 1 .. Len(s) :
       g[n] = IF s[n] \in gone THEN g[n - 1] ELSE Append(g[n - 1], s[n])
  /\ Mailboxes!Without(s, gone) = g[Len(s)]

(* The Without of the model is what its definition says, and so it leaves  *)
(* the others, in the order they were in.                                  *)
LEMMA WithoutIs ==
  ASSUME NEW S, NEW s \in Seq(S), NEW gone
  PROVE  \E g : Filters(g, S, s, gone)
<1> DEFINE N == Len(s)
           T == Seq(S)
           F == [i \in 1 .. N |-> [t \in T |-> IF s[i] \in gone THEN t ELSE Append(t, s[i])]]
           Step(g) == [n \in 0 .. N |->
                         IF n = 0 THEN << >>
                         ELSE IF s[n] \in gone THEN g[n - 1] ELSE Append(g[n - 1], s[n])]
           K == CHOOSE g : g = Step(g)
<1>1. N \in Nat /\ (\A i \in 1 .. N : s[i] \in S) BY ElementsOf
<1>2. << >> \in T OBVIOUS
<1>3. F \in [1 .. N -> [T -> T]]
  <2> SUFFICES ASSUME NEW i \in 1 .. N, NEW t \in T
               PROVE (IF s[i] \in gone THEN t ELSE Append(t, s[i])) \in T
    OBVIOUS
  <2> QED BY <1>1, AppendProperties
<1>4. PICK g : GoesOn(g, N, T, << >>, F)
  <2> HIDE DEF T, F, N
  <2> QED BY <1>1, <1>2, <1>3, RecursionIs
<1>5. g \in [0 .. N -> T] /\ g[0] = << >> BY <1>4 DEF GoesOn
<1>6. ASSUME NEW n \in 1 .. N
      PROVE  g[n] = IF s[n] \in gone THEN g[n - 1] ELSE Append(g[n - 1], s[n])
  <2>1. g[n] = F[n][g[n - 1]] BY <1>4 DEF GoesOn
  <2>2. g[n - 1] \in T BY <1>1, <1>5
  <2> QED BY <2>1, <2>2
<1>7. g = Step(g)
  <2>1. ASSUME NEW n \in 0 .. N PROVE g[n] = Step(g)[n]
    <3>1. CASE n = 0 BY <3>1, <1>5
    <3>2. CASE n # 0
      <4>1. n \in 1 .. N BY <3>2, <1>1
      <4> QED BY <3>2, <4>1, <1>6
    <3> QED BY <3>1, <3>2
  <2> HIDE DEF T, N
  <2> QED BY <1>5, <2>1
<1>8. K = Step(K)
  <2>1. \E f : f = Step(f) BY <1>7
  <2> HIDE DEF Step
  <2> QED BY <2>1
<1>9. K[0] = << >>
  <2>1. Step(K)[0] = << >> BY <1>1
  <2> HIDE DEF K, Step
  <2> QED BY <2>1, <1>8
<1>10. ASSUME NEW n \in 1 .. N
       PROVE  K[n] = IF s[n] \in gone THEN K[n - 1] ELSE Append(K[n - 1], s[n])
  <2>1. n \in 0 .. N /\ n # 0 BY <1>1
  <2>2. Step(K)[n] = IF s[n] \in gone THEN K[n - 1] ELSE Append(K[n - 1], s[n])
    <3> HIDE DEF K
    <3> QED BY <2>1
  <2> HIDE DEF K, Step
  <2> QED BY <2>2, <1>8
<1>11. K[N] = g[N]
  <2> DEFINE Bad == {n \in 0 .. N : K[n] # g[n]}
  <2>1. Bad = {}
    <3> SUFFICES ASSUME Bad # {} PROVE FALSE OBVIOUS
    <3>1. Bad \in SUBSET Nat BY <1>1
    <3>2. PICK n \in Bad : \A m \in Bad : n <= m
      <4> HIDE DEF Bad
      <4> QED BY <3>1, LeastNatural
    <3>3. n \in 0 .. N /\ K[n] # g[n] BY <3>2
    <3>4. n \in 1 .. N
      <4>1. n # 0 BY <3>3, <1>5, <1>9
      <4> QED BY <4>1, <3>3, <1>1
    <3>5. K[n - 1] = g[n - 1]
      <4>1. n - 1 \in 0 .. N /\ ~ n <= n - 1 BY <1>1, <3>4
      <4>2. n - 1 \notin Bad
        <5> HIDE DEF Bad
        <5> QED BY <3>2, <4>1
      <4> QED BY <4>1, <4>2
    <3> HIDE DEF K, Bad
    <3> QED BY <1>6, <1>10, <3>3, <3>4, <3>5
  <2> QED BY <1>1, <2>1
<1>12. Mailboxes!Without(s, gone) = K[N] BY DEF Mailboxes!Without
<1>13. Filters(g, S, s, gone)
  <2> HIDE DEF K
  <2> QED BY <1>5, <1>6, <1>11, <1>12 DEF Filters
<1> QED BY <1>13

(* A greater element at the end leaves a sequence increasing. *)
LEMMA AppendIncreasing ==
  ASSUME NEW s \in Seq(Nat), NEW x \in Nat, Increasing(s), \A y \in Mailboxes!Elements(s) : y < x
  PROVE  Increasing(Append(s, x))
<1> DEFINE t == Append(s, x)
<1>1. /\ Len(t) = Len(s) + 1 /\ t[Len(s) + 1] = x
      /\ \A i \in 1 .. Len(s) : t[i] = s[i]
  BY ElementsAppended
<1>2. Len(s) \in Nat /\ \A i \in 1 .. Len(s) : s[i] \in Nat /\ s[i] < x BY ElementsOf
<1>3. ASSUME NEW i \in 1 .. Len(t), NEW j \in 1 .. Len(t), i < j PROVE t[i] < t[j]
  <2>1. i \in 1 .. Len(s) BY <1>1, <1>2, <1>3
  <2>2. CASE j = Len(s) + 1 BY <1>1, <1>2, <2>1, <2>2
  <2>3. CASE j # Len(s) + 1
    <3>1. j \in 1 .. Len(s) BY <1>1, <1>2, <2>3
    <3> QED BY <1>1, <1>3, <2>1, <3>1 DEF Increasing
  <2> QED BY <2>2, <2>3
<1>4. Increasing(t)
  <2> HIDE DEF t
  <2> QED BY <1>3 DEF Increasing
<1> QED BY <1>4

(* Numbers that increase spread: so what a full buffer drops is old.       *)
LEMMA Spread ==
  ASSUME NEW s \in Seq(Nat), Increasing(s), s # << >>, NEW x \in Nat,
         \A y \in Mailboxes!Elements(s) : y < x
  PROVE  s[1] + Len(s) <= x
<1> DEFINE Bad == {i \in 1 .. Len(s) : ~ (s[1] + i <= s[i] + 1)}
<1>1. Len(s) \in Nat \ {0} /\ \A i \in 1 .. Len(s) : s[i] \in Nat /\ s[i] < x
  BY ElementsOf, ElementsOfTail
<1>2. Bad = {}
  <2> SUFFICES ASSUME Bad # {} PROVE FALSE OBVIOUS
  <2>1. Bad \in SUBSET Nat BY <1>1
  <2>2. PICK i \in Bad : \A j \in Bad : i <= j
    <3> HIDE DEF Bad
    <3> QED BY <2>1, LeastNatural
  <2>3. i \in 1 .. Len(s) /\ ~ (s[1] + i <= s[i] + 1) BY <2>2
  <2>4. i - 1 \in 1 .. Len(s)
    <3>1. 1 \in 1 .. Len(s) BY <1>1
    <3>2. s[1] \in Nat BY <1>1, <3>1
    <3>3. i # 1 BY <2>3, <3>2
    <3> QED BY <1>1, <2>3, <3>3
  <2>5. s[1] + (i - 1) <= s[i - 1] + 1
    <3>1. i - 1 \notin Bad
      <4>1. ~ i <= i - 1 BY <2>3
      <4> HIDE DEF Bad
      <4> QED BY <2>2, <4>1
    <3> QED BY <2>4, <3>1
  <2>6. s[i - 1] < s[i]
    <3>1. i - 1 < i BY <2>3
    <3> QED BY <2>3, <2>4, <3>1 DEF Increasing
  <2>7. s[1] \in Nat /\ s[i - 1] \in Nat /\ s[i] \in Nat
    <3>1. 1 \in 1 .. Len(s) BY <1>1
    <3> QED BY <1>1, <2>3, <2>4, <3>1
  <2>8. i \in Nat BY <1>1, <2>3
  <2> DEFINE p == s[1]
             q == s[i - 1]
             r == s[i]
  <2>9. /\ ~ (p + i <= r + 1) /\ p + (i - 1) <= q + 1 /\ q < r
        /\ p \in Nat /\ q \in Nat /\ r \in Nat
    BY <2>3, <2>5, <2>6, <2>7
  <2> HIDE DEF p, q, r
  <2> QED BY <2>8, <2>9
<1>3. Len(s) \in 1 .. Len(s) /\ 1 \in 1 .. Len(s) BY <1>1
<1>4. s[1] + Len(s) <= s[Len(s)] + 1 BY <1>2, <1>3
<1>5. s[Len(s)] \in Nat /\ s[1] \in Nat /\ s[Len(s)] < x BY <1>1, <1>3
<1> QED BY <1>1, <1>4, <1>5

(* What acknowledgements leave of a buffer is a shorter buffer in the same order. *)
LEMMA WithoutKeeps ==
  ASSUME NEW S \in SUBSET Nat, NEW s \in Seq(S), NEW gone
  PROVE  /\ Mailboxes!Without(s, gone) \in Seq(S)
         /\ Mailboxes!Elements(Mailboxes!Without(s, gone)) = Mailboxes!Elements(s) \ gone
         /\ Len(Mailboxes!Without(s, gone)) <= Len(s)
         /\ Increasing(s) => Increasing(Mailboxes!Without(s, gone))
<1>0. PICK g : Filters(g, S, s, gone) BY WithoutIs
<1>1. /\ g \in [0 .. Len(s) -> Seq(S)]
      /\ g[0] = << >>
      /\ \A n \in 1 .. Len(s) :
           g[n] = IF s[n] \in gone THEN g[n - 1] ELSE Append(g[n - 1], s[n])
      /\ Mailboxes!Without(s, gone) = g[Len(s)]
  BY <1>0 DEF Filters
<1> DEFINE Among(k) == {s[i] : i \in 1 .. k}
           Good(k) == /\ Mailboxes!Elements(g[k]) = Among(k) \ gone
                      /\ Len(g[k]) <= k
                      /\ Increasing(s) => Increasing(g[k])
           Bad == {k \in 0 .. Len(s) : ~ Good(k)}
<1>2. Len(s) \in Nat /\ (\A i \in 1 .. Len(s) : s[i] \in S)
        /\ Mailboxes!Elements(s) = Among(Len(s))
  <2>1. \A x : x \in Mailboxes!Elements(s) <=> \E i \in 1 .. Len(s) : s[i] = x BY ElementsOf
  <2> QED BY <2>1, ElementsOf
<1>3. Bad = {}
  <2> SUFFICES ASSUME Bad # {} PROVE FALSE OBVIOUS
  <2>1. Bad \in SUBSET Nat BY <1>2
  <2>2. PICK n \in Bad : \A m \in Bad : n <= m
    <3> HIDE DEF Bad
    <3> QED BY <2>1, LeastNatural
  <2>3. n \in 0 .. Len(s) /\ ~ Good(n) BY <2>2
  <2>4. n \in 1 .. Len(s)
    <3>1. Mailboxes!Elements(<< >>) = {} /\ Len(<< >>) = 0 BY DEF Mailboxes!Elements
    <3>2. Increasing(<< >>) BY <3>1 DEF Increasing
    <3>3. Among(0) = {} OBVIOUS
    <3>4. Good(0) BY <1>1, <3>1, <3>2, <3>3
    <3>5. n # 0
      <4> HIDE DEF Good
      <4> QED BY <2>3, <3>4
    <3> QED BY <2>3, <3>5, <1>2
  <2>5. n - 1 \in 0 .. Len(s) /\ Good(n - 1)
    <3>1. n - 1 \in 0 .. Len(s) /\ ~ n <= n - 1 BY <1>2, <2>4
    <3>2. n - 1 \notin Bad
      <4> HIDE DEF Bad
      <4> QED BY <2>2, <3>1
    <3> HIDE DEF Good
    <3> QED BY <3>1, <3>2
  <2> DEFINE t == g[n - 1]
             x == s[n]
  <2>6. t \in Seq(S) /\ x \in S /\ n \in Nat BY <1>1, <1>2, <2>4, <2>5
  <2>7. g[n] = IF x \in gone THEN t ELSE Append(t, x) BY <1>1, <2>4
  <2>8. Among(n) = Among(n - 1) \cup {x}
    <3>1. 1 .. n = (1 .. n - 1) \cup {n} BY <2>4
    <3> QED BY <3>1
  <2>9. Len(t) \in Nat BY <2>6, ElementsOf
  <2>10. Mailboxes!Elements(t) = Among(n - 1) \ gone /\ Len(t) <= n - 1
         /\ (Increasing(s) => Increasing(t))
    BY <2>5
  <2>11. CASE x \in gone
    <3> HIDE DEF x, t, Among
    <3>1. Mailboxes!Elements(g[n]) = Among(n) \ gone BY <2>7, <2>8, <2>10, <2>11
    <3>2. Len(g[n]) <= n BY <2>6, <2>7, <2>9, <2>10, <2>11
    <3>3. Increasing(s) => Increasing(g[n]) BY <2>7, <2>10, <2>11
    <3> QED BY <2>3, <3>1, <3>2, <3>3
  <2>12. CASE x \notin gone
    <3>1. Mailboxes!Elements(Append(t, x)) = Mailboxes!Elements(t) \cup {x}
            /\ Len(Append(t, x)) = Len(t) + 1
      <4> HIDE DEF x, t
      <4> QED BY <2>6, ElementsAppended
    <3>2. ASSUME Increasing(s) PROVE Increasing(Append(t, x))
      <4>1. \A y \in Mailboxes!Elements(t) : y < x
        <5> TAKE y \in Mailboxes!Elements(t)
        <5>1. PICK i \in 1 .. n - 1 : y = s[i] BY <2>10
        <5>2. i \in 1 .. Len(s) /\ i < n BY <1>2, <2>4
        <5> QED BY <3>2, <2>4, <5>1, <5>2 DEF Increasing
      <4>2. t \in Seq(Nat) /\ x \in Nat
        <5> HIDE DEF t, x
        <5>1. t \in [1 .. Len(t) -> S] BY <2>6, LenProperties
        <5>2. t \in [1 .. Len(t) -> Nat] BY <5>1
        <5>3. t \in Seq(Nat) BY <2>9, <5>2, SeqDef
        <5> QED BY <2>6, <5>3
      <4> HIDE DEF x, t
      <4> QED BY <3>2, <2>10, <4>1, <4>2, AppendIncreasing
    <3> HIDE DEF x, t, Among
    <3>3. Mailboxes!Elements(g[n]) = Among(n) \ gone BY <2>7, <2>8, <2>10, <2>12, <3>1
    <3>4. Len(g[n]) <= n BY <2>6, <2>7, <2>9, <2>10, <2>12, <3>1
    <3>5. Increasing(s) => Increasing(g[n]) BY <2>7, <2>12, <3>2
    <3> QED BY <2>3, <3>3, <3>4, <3>5
  <2> QED BY <2>11, <2>12
<1>4. Good(Len(s))
  <2>1. Len(s) \in 0 .. Len(s) BY <1>2
  <2> HIDE DEF Good
  <2> QED BY <1>3, <2>1
<1> QED BY <1>1, <1>2, <1>4

(* A buffer of messages that are r at most. *)
Buffer(s, r) == s \in Seq(1 .. r) /\ Len(s) <= MaxPending /\ Increasing(s)

(* A buffer of what was received by now is one of what is received a message later. *)
LEMMA LongerBuffer ==
  ASSUME NEW r \in Nat, NEW s, Buffer(s, r)
  PROVE  s \in Seq(1 .. r + 1) /\ s \in Seq(Nat) /\ \A y \in Mailboxes!Elements(s) : y \in 1 .. r
<1>1. s \in Seq(1 .. r) BY DEF Buffer
<1>2. 1 .. r \subseteq 1 .. r + 1 /\ 1 .. r \subseteq Nat OBVIOUS
<1>3. Len(s) \in Nat /\ DOMAIN s = 1 .. Len(s) /\ s \in [1 .. Len(s) -> 1 .. r]
  BY <1>1, LenProperties
<1>4. s \in [1 .. Len(s) -> 1 .. r + 1] /\ s \in [1 .. Len(s) -> Nat]
  BY <1>2, <1>3
<1>5. s \in Seq(1 .. r + 1) /\ s \in Seq(Nat) BY <1>3, <1>4, SeqDef
<1> QED BY <1>1, <1>5, ElementsOf

(* The bounded append keeps a buffer, and drops only what is a buffer's length older. *)
LEMMA AppendBoundedKeeps ==
  ASSUME MailboxConstants, NEW r \in Nat, NEW s, Buffer(s, r), NEW t,
         t = Mailboxes!AppendBounded(s, r + 1)
  PROVE  /\ Buffer(t, r + 1)
         /\ Mailboxes!Elements(t) \subseteq Mailboxes!Elements(s) \cup {r + 1}
         /\ r + 1 \in Mailboxes!Elements(t)
         /\ \A m \in Mailboxes!Elements(s) : m \in Mailboxes!Elements(t)
              \/ (r + 1) - m >= MaxPending
<1>1. s \in Seq(1 .. r + 1) /\ s \in Seq(Nat) /\ r + 1 \in 1 .. r + 1 /\ r + 1 \in Nat
  BY LongerBuffer
<1>2. \A y \in Mailboxes!Elements(s) : y < r + 1 BY LongerBuffer
<1>3. MaxPending \in Nat \ {0} BY DEF MailboxConstants
<1>4. CASE Len(s) < MaxPending
  <2>1. t = Append(s, r + 1) BY <1>4 DEF Mailboxes!AppendBounded
  <2>2. t \in Seq(1 .. r + 1) /\ Len(t) = Len(s) + 1
          /\ Mailboxes!Elements(t) = Mailboxes!Elements(s) \cup {r + 1}
    <3> DEFINE S == 1 .. r + 1
               x == r + 1
    <3>1. s \in Seq(S) /\ x \in S /\ t = Append(s, x) BY <2>1, <1>1
    <3> HIDE DEF S, x
    <3>2. /\ Append(s, x) \in Seq(S) /\ Len(Append(s, x)) = Len(s) + 1
          /\ Mailboxes!Elements(Append(s, x)) = Mailboxes!Elements(s) \cup {x}
      BY <3>1, ElementsAppended
    <3> QED BY <3>1, <3>2 DEF S, x
  <2>3. Increasing(t) BY <2>1, <1>1, <1>2, AppendIncreasing DEF Buffer
  <2>4. Len(s) \in Nat BY <1>1, ElementsOf
  <2> QED BY <1>3, <1>4, <2>2, <2>3, <2>4 DEF Buffer
<1>5. CASE ~ (Len(s) < MaxPending)
  <2> DEFINE u == Tail(s)
  <2>1. t = Append(u, r + 1) BY <1>5 DEF Mailboxes!AppendBounded
  <2>2. Len(s) = MaxPending /\ s # << >>
    <3>1. Len(s) \in Nat BY <1>1, ElementsOf
    <3>2. Len(s) = MaxPending BY <1>3, <1>5, <3>1 DEF Buffer
    <3> QED BY <1>3, <3>2
  <2>3. /\ u \in Seq(1 .. r + 1) /\ Len(s) \in Nat \ {0} /\ Len(u) = Len(s) - 1
        /\ \A i \in 1 .. Len(s) - 1 : u[i] = s[i + 1]
        /\ Mailboxes!Elements(s) = Mailboxes!Elements(u) \cup {s[1]}
    BY <1>1, <2>2, ElementsOfTail
  <2>4. u \in Seq(Nat) BY <1>1, <2>2, ElementsOfTail
  <2>5. Increasing(u)
    <3>1. ASSUME NEW i \in 1 .. Len(u), NEW j \in 1 .. Len(u), i < j PROVE u[i] < u[j]
      <4>1. i + 1 \in 1 .. Len(s) /\ j + 1 \in 1 .. Len(s) /\ i + 1 < j + 1 BY <2>3, <3>1
      <4>2. s[i + 1] < s[j + 1] BY <4>1 DEF Buffer, Increasing
      <4>3. u[i] = s[i + 1] /\ u[j] = s[j + 1] BY <2>3
      <4> HIDE DEF u
      <4> QED BY <4>2, <4>3
    <3> HIDE DEF u
    <3> QED BY <3>1 DEF Increasing
  <2>6. s[1] + MaxPending <= r + 1 BY <1>1, <1>2, <2>2, Spread DEF Buffer
  <2>7. s[1] \in Nat
    <3>1. 1 \in 1 .. Len(s) BY <2>3
    <3> QED BY <1>1, <3>1, ElementsOf
  <2> HIDE DEF u
  <2>8. t \in Seq(1 .. r + 1) /\ Len(t) = Len(u) + 1
          /\ Mailboxes!Elements(t) = Mailboxes!Elements(u) \cup {r + 1}
    <3> DEFINE S == 1 .. r + 1
               x == r + 1
    <3>1. u \in Seq(S) /\ x \in S /\ t = Append(u, x) BY <2>1, <2>3, <1>1
    <3> HIDE DEF S, x
    <3>2. /\ Append(u, x) \in Seq(S) /\ Len(Append(u, x)) = Len(u) + 1
          /\ Mailboxes!Elements(Append(u, x)) = Mailboxes!Elements(u) \cup {x}
      BY <3>1, ElementsAppended
    <3> QED BY <3>1, <3>2 DEF S, x
  <2>9. Increasing(t) BY <2>1, <2>3, <2>4, <2>5, <1>1, <1>2, AppendIncreasing
  <2>10. Len(t) <= MaxPending BY <1>3, <2>2, <2>3, <2>8
  <2>11. \A m \in Mailboxes!Elements(s) : m \in Mailboxes!Elements(t) \/ (r + 1) - m >= MaxPending
    <3> TAKE m \in Mailboxes!Elements(s)
    <3>1. m \in Mailboxes!Elements(u) \/ m = s[1] BY <2>3
    <3>2. m = s[1] => (r + 1) - m >= MaxPending BY <1>3, <2>6, <2>7
    <3> QED BY <2>8, <3>1, <3>2
  <2> QED BY <2>3, <2>8, <2>9, <2>10, <2>11 DEF Buffer
<1> QED BY <1>4, <1>5

-----------------------------------------------------------------------------
(* What was received is what was emitted and is not queued.                *)
Received == emitted - Len(deliverCh)

(* The deliveries queued are the last that were emitted; the buffer has    *)
(* older ones, in order.                                                   *)
InOrder ==
  /\ emitted \in 0 .. MaxMessages
  /\ deliverCh \in Seq(1 .. emitted)
  /\ Len(deliverCh) <= emitted
  /\ \A i \in 1 .. Len(deliverCh) : deliverCh[i] = Received + i
  /\ Buffer(pending, Received)

(* Nothing is lost, and what is acknowledged was received and, while it is *)
(* buffered, is to be removed.                                             *)
Accounted ==
  \A m \in 1 .. emitted :
    \/ m \in Mailboxes!Elements(deliverCh) \cup Mailboxes!Elements(pending) \cup acked
    \/ m \in dropped /\ emitted - m >= MaxPending
Acknowledged ==
  /\ ackCh \in Seq(1 .. emitted)
  /\ Mailboxes!Elements(ackCh) \subseteq acked
  /\ acked \subseteq 1 .. Received
  /\ \A m \in acked : m \in Mailboxes!Elements(pending) => m \in Mailboxes!Elements(ackCh)
  /\ acking \in [Acker -> Mailboxes!Message \cup {Mailboxes!NoMessage}]
  /\ \A a \in Acker : acking[a] \in 0 .. Received

(* What a subscription sent and has still to send are in order, and what   *)
(* it has not seen is newer.                                               *)
Sending ==
  /\ got \in [Subscriber -> Seq(Mailboxes!Message)]
       /\ batch \in [Subscriber -> Seq(Mailboxes!Message)]
  /\ \A s \in Subscriber :
       /\ Increasing(got[s]) /\ Increasing(batch[s])
       /\ \A x \in Mailboxes!Elements(got[s]), y \in Mailboxes!Elements(batch[s]) : x < y
       /\ \A x \in Mailboxes!Elements(got[s]) \cup Mailboxes!Elements(batch[s]) :
            /\ x <= Received
            /\ \A y \in Mailboxes!Elements(pending) \ seen[s] : x < y

Others ==
  /\ signals \in 0 .. SignalsPerRun
  /\ hosted \in BOOLEAN
  /\ polling \subseteq Subscriber
  /\ seen \in [Subscriber -> SUBSET Mailboxes!Message]
  /\ dropped \subseteq 1 .. emitted

MailboxInv == InOrder /\ Accounted /\ Acknowledged /\ Sending /\ Others

-----------------------------------------------------------------------------
(* What Absorb does, one delivery after the other.                         *)
Absorbs(g, s) ==
  /\ g \in [0 .. Len(deliverCh) -> Seq(Nat)]
  /\ g[0] = s
  /\ \A n \in 1 .. Len(deliverCh) : g[n] = Mailboxes!AppendBounded(g[n - 1], deliverCh[n])
  /\ Mailboxes!Absorb(s) = Mailboxes!Without(g[Len(deliverCh)], Mailboxes!Elements(ackCh))

(* The delivery channel is absorbed by a function of how much of it is read. *)
LEMMA AbsorbIs ==
  ASSUME MailboxConstants, deliverCh \in Seq(Nat), NEW s \in Seq(Nat)
  PROVE  \E g : Absorbs(g, s)
<1> DEFINE N == Len(deliverCh)
           T == Seq(Nat)
           F == [i \in 1 .. N |-> [t \in T |-> Mailboxes!AppendBounded(t, deliverCh[i])]]
           Step(g) == [n \in 0 .. N |->
                         IF n = 0 THEN s ELSE Mailboxes!AppendBounded(g[n - 1], deliverCh[n])]
           K == CHOOSE g : g = Step(g)
<1>1. N \in Nat /\ (\A i \in 1 .. N : deliverCh[i] \in Nat) BY ElementsOf
<1>2. MaxPending \in Nat \ {0} BY DEF MailboxConstants
<1>3. F \in [1 .. N -> [T -> T]]
  <2> SUFFICES ASSUME NEW i \in 1 .. N, NEW t \in T
               PROVE Mailboxes!AppendBounded(t, deliverCh[i]) \in T
    OBVIOUS
  <2> DEFINE x == deliverCh[i]
  <2>1. x \in Nat /\ Len(t) \in Nat BY <1>1, LenProperties
  <2> HIDE DEF x
  <2>2. Append(t, x) \in T BY <2>1, AppendProperties
  <2>3. ASSUME ~ (Len(t) < MaxPending) PROVE Append(Tail(t), x) \in T
    <3>1. t # << >> BY <1>2, <2>1, <2>3
    <3>2. Tail(t) \in T BY <3>1, HeadTailProperties
    <3> QED BY <2>1, <3>2, AppendProperties
  <2>4. Mailboxes!AppendBounded(t, x) \in T BY <2>2, <2>3 DEF Mailboxes!AppendBounded
  <2> QED BY <2>4 DEF x
<1>4. PICK g : GoesOn(g, N, T, s, F)
  <2> HIDE DEF T, F, N
  <2>1. s \in T BY DEF T
  <2> QED BY <1>1, <1>3, <2>1, RecursionIs
<1>5. g \in [0 .. N -> T] /\ g[0] = s BY <1>4 DEF GoesOn
<1>6. ASSUME NEW n \in 1 .. N
      PROVE  g[n] = Mailboxes!AppendBounded(g[n - 1], deliverCh[n])
  <2>1. g[n] = F[n][g[n - 1]] BY <1>4 DEF GoesOn
  <2>2. g[n - 1] \in T
    <3>1. n - 1 \in 0 .. N BY <1>1
    <3> HIDE DEF T, N
    <3> QED BY <3>1, <1>5
  <2> QED BY <2>1, <2>2
<1>7. g = Step(g)
  <2>1. ASSUME NEW n \in 0 .. N PROVE g[n] = Step(g)[n]
    <3>1. CASE n = 0 BY <3>1, <1>5
    <3>2. CASE n # 0
      <4>1. n \in 1 .. N BY <3>2, <1>1
      <4> QED BY <3>2, <4>1, <1>6
    <3> QED BY <3>1, <3>2
  <2> HIDE DEF T, N
  <2> QED BY <1>5, <2>1
<1>8. K = Step(K)
  <2>1. \E f : f = Step(f) BY <1>7
  <2> HIDE DEF Step
  <2> QED BY <2>1
<1>9. K[0] = s
  <2>1. Step(K)[0] = s BY <1>1
  <2> HIDE DEF K, Step
  <2> QED BY <2>1, <1>8
<1>10. ASSUME NEW n \in 1 .. N
       PROVE  K[n] = Mailboxes!AppendBounded(K[n - 1], deliverCh[n])
  <2>1. n \in 0 .. N /\ n # 0 BY <1>1
  <2>2. Step(K)[n] = Mailboxes!AppendBounded(K[n - 1], deliverCh[n])
    <3> HIDE DEF K
    <3> QED BY <2>1
  <2> HIDE DEF K, Step
  <2> QED BY <2>2, <1>8
<1>11. K[N] = g[N]
  <2> DEFINE Bad == {n \in 0 .. N : K[n] # g[n]}
  <2>1. Bad = {}
    <3> SUFFICES ASSUME Bad # {} PROVE FALSE OBVIOUS
    <3>1. Bad \in SUBSET Nat BY <1>1
    <3>2. PICK n \in Bad : \A m \in Bad : n <= m
      <4> HIDE DEF Bad
      <4> QED BY <3>1, LeastNatural
    <3>3. n \in 0 .. N /\ K[n] # g[n] BY <3>2
    <3>4. n \in 1 .. N
      <4>1. n # 0 BY <3>3, <1>5, <1>9
      <4> QED BY <4>1, <3>3, <1>1
    <3>5. K[n - 1] = g[n - 1]
      <4>1. n - 1 \in 0 .. N /\ ~ n <= n - 1 BY <1>1, <3>4
      <4>2. n - 1 \notin Bad
        <5> HIDE DEF Bad
        <5> QED BY <3>2, <4>1
      <4> QED BY <4>1, <4>2
    <3> HIDE DEF K, Bad
    <3> QED BY <1>6, <1>10, <3>3, <3>4, <3>5
  <2> QED BY <1>1, <2>1
<1>12. Mailboxes!Absorb(s) = Mailboxes!Without(K[N], Mailboxes!Elements(ackCh))
    BY DEF Mailboxes!Absorb
<1>13. Absorbs(g, s)
  <2> HIDE DEF K
  <2> QED BY <1>5, <1>6, <1>11, <1>12 DEF Absorbs
<1> QED BY <1>13

(* s is the buffer when the messages up to c are received, r of them       *)
(* before.                                                                 *)
Holds(s, r, c) ==
  /\ Buffer(s, c)
  /\ \A m \in Mailboxes!Elements(s) : m \in Mailboxes!Elements(pending) \/ m > r
  /\ \A m \in Mailboxes!Elements(pending) \cup (r + 1) .. c : m \in Mailboxes!Elements(s)
       \/ c - m >= MaxPending

(* All that was queued is received, but for what a full buffer drops, and  *)
(* what is acknowledged is gone.                                           *)
LEMMA AbsorbKeeps ==
  ASSUME MailboxConstants, InOrder, NEW t, t = Mailboxes!Absorb(pending)
  PROVE  /\ Buffer(t, emitted)
         /\ \A m \in Mailboxes!Elements(t) : m \notin Mailboxes!Elements(ackCh)
         /\ \A m \in Mailboxes!Elements(t) : m \in Mailboxes!Elements(pending) \/ m > Received
         /\ \A m \in Mailboxes!Elements(pending) \cup Mailboxes!Elements(deliverCh) :
              m \in Mailboxes!Elements(t) \cup Mailboxes!Elements(ackCh)
                \/ emitted - m >= MaxPending
<1> DEFINE r == Received
           N == Len(deliverCh)
           D == Mailboxes!Elements(deliverCh)
<1>1. /\ emitted \in Nat /\ N \in Nat /\ r \in Nat /\ r + N = emitted
      /\ Buffer(pending, r)
      /\ \A i \in 1 .. N : deliverCh[i] = r + i
      /\ MaxPending \in Nat \ {0}
  <2>1. emitted \in Nat /\ N \in Nat /\ N <= emitted BY ElementsOf DEF InOrder, MailboxConstants
  <2> QED BY <2>1 DEF InOrder, Received, MailboxConstants
<1>2. deliverCh \in Seq(Nat) /\ pending \in Seq(Nat)
  <2>1. deliverCh \in Seq(1 .. emitted) /\ 1 .. emitted \subseteq Nat BY DEF InOrder
  <2>2. deliverCh \in Seq(Nat) BY <2>1, SeqMonotonic
  <2> QED BY <1>1, <2>2, LongerBuffer
<1>3. PICK g : Absorbs(g, pending) BY <1>2, AbsorbIs
<1>4. D = (r + 1) .. emitted
  <2>1. \A x : x \in D <=> \E i \in 1 .. N : deliverCh[i] = x BY <1>2, ElementsOf
  <2>2. ASSUME NEW x \in (r + 1) .. emitted PROVE x \in D
    <3>1. x - r \in 1 .. N /\ r + (x - r) = x BY <1>1
    <3> QED BY <1>1, <2>1, <3>1
  <2>3. ASSUME NEW x \in D PROVE x \in (r + 1) .. emitted
    <3>1. PICK i \in 1 .. N : deliverCh[i] = x BY <2>1
    <3>2. x = r + i BY <1>1, <3>1
    <3> HIDE DEF D, r, N
    <3> QED BY <1>1, <3>2
  <2> HIDE DEF D, r, N
  <2> QED BY <2>2, <2>3
<1> HIDE DEF D, r, N
<1> DEFINE Good(n) == Holds(g[n], r, r + n)
           Bad == {n \in 0 .. N : ~ Good(n)}
<1>5. Bad = {}
  <2> SUFFICES ASSUME Bad # {} PROVE FALSE OBVIOUS
  <2>1. Bad \in SUBSET Nat BY <1>1
  <2>2. PICK n \in Bad : \A m \in Bad : n <= m
    <3> HIDE DEF Bad
    <3> QED BY <2>1, LeastNatural
  <2>3. n \in 0 .. N /\ ~ Good(n) BY <2>2
  <2>4. n # 0
    <3>1. g[0] = pending /\ r + 0 = r /\ (r + 1) .. r = {} BY <1>1, <1>3 DEF Absorbs
    <3>2. Good(0)
      <4>1. Holds(pending, r, r) BY <1>1, <3>1 DEF Holds
      <4> QED BY <3>1, <4>1
    <3> HIDE DEF Good
    <3> QED BY <2>3, <3>2
  <2> DEFINE k == n - 1
             s == g[k]
  <2>5. k \in 0 .. N /\ k \in Nat /\ n = k + 1 /\ ~ n <= k /\ n \in 1 .. N BY <1>1, <2>3, <2>4
  <2>6. Good(k)
    <3>1. k \notin Bad
      <4> HIDE DEF Bad, k
      <4> QED BY <2>2, <2>5
    <3> HIDE DEF Good, k
    <3> QED BY <2>5, <3>1
  <2> DEFINE q == r + k
             u == g[n]
  <2>7. q \in Nat /\ r + n = q + 1 BY <1>1, <2>5
  <2>8. u = Mailboxes!AppendBounded(s, q + 1)
    <3>1. u = Mailboxes!AppendBounded(s, deliverCh[n]) BY <1>3, <2>5 DEF Absorbs, N
    <3>2. deliverCh[n] = q + 1 BY <1>1, <2>5, <2>7
    <3> HIDE DEF u, s, q
    <3> QED BY <3>1, <3>2
  <2>9. Holds(s, r, q) BY <2>6
  <2>20. \A m \in Mailboxes!Elements(pending) : m \in Nat BY <1>1, LongerBuffer
  <2>21. q + 1 > r /\ (r + 1) .. (q + 1) = (r + 1) .. q \cup {q + 1}
    <3>1. q >= r BY <1>1, <2>5
    <3> HIDE DEF q
    <3> QED BY <3>1, <2>7, <1>1
  <2>10. Holds(u, r, q + 1)
    <3> HIDE DEF s, q, u, k
    <3>1. /\ Buffer(u, q + 1)
          /\ Mailboxes!Elements(u) \subseteq Mailboxes!Elements(s) \cup {q + 1}
          /\ q + 1 \in Mailboxes!Elements(u)
          /\ \A m \in Mailboxes!Elements(s) : m \in Mailboxes!Elements(u)
               \/ (q + 1) - m >= MaxPending
      BY <2>7, <2>8, <2>9, AppendBoundedKeeps DEF Holds
    <3>2. \A m \in Mailboxes!Elements(pending) \cup (r + 1) .. (q + 1) :
            m \in Mailboxes!Elements(u) \/ (q + 1) - m >= MaxPending
      <4> TAKE m \in Mailboxes!Elements(pending) \cup (r + 1) .. (q + 1)
      <4>1. CASE m = q + 1 BY <3>1, <4>1
      <4>2. CASE m # q + 1
        <5>1. m \in Mailboxes!Elements(pending) \cup (r + 1) .. q BY <2>21, <4>2
        <5>2. m \in Nat BY <1>1, <2>20, <5>1
        <5>3. CASE m \in Mailboxes!Elements(s) BY <3>1, <5>3
        <5>4. CASE q - m >= MaxPending BY <1>1, <2>7, <5>2, <5>4
        <5> QED BY <2>9, <5>1, <5>3, <5>4 DEF Holds
      <4> QED BY <4>1, <4>2
    <3>3. \A m \in Mailboxes!Elements(u) : m \in Mailboxes!Elements(pending) \/ m > r
      BY <2>9, <2>21, <3>1 DEF Holds
    <3>4. Buffer(u, q + 1) BY <3>1
    <3> QED BY <3>2, <3>3, <3>4, Zenon DEF Holds
  <2>11. Good(n)
    <3>1. r + n = q + 1 BY <2>7
    <3>2. Holds(u, r, r + n)
      <4> HIDE DEF q, u
      <4> QED BY <2>10, <3>1
    <3> QED BY <3>2
  <2> HIDE DEF Good
  <2> QED BY <2>3, <2>11
<1> DEFINE u == g[N]
<1>6. /\ Buffer(u, emitted)
      /\ \A m \in Mailboxes!Elements(u) : m \in Mailboxes!Elements(pending) \/ m > r
      /\ \A m \in Mailboxes!Elements(pending) \cup (r + 1) .. emitted :
           m \in Mailboxes!Elements(u) \/ emitted - m >= MaxPending
  <2>1. N \in 0 .. N BY <1>1
  <2>2. Good(N)
    <3> HIDE DEF Good
    <3> QED BY <1>5, <2>1
  <2>3. Holds(u, r, r + N) BY <2>2
  <2>4. Holds(u, r, emitted)
    <3> HIDE DEF u, Good, Bad
    <3> QED BY <1>1, <2>3
  <2> QED BY <2>4 DEF Holds
<1>7. t = Mailboxes!Without(u, Mailboxes!Elements(ackCh)) BY <1>3 DEF Absorbs, N
<1> HIDE DEF u
<1>8. /\ t \in Seq(1 .. emitted)
           /\ Mailboxes!Elements(t) = Mailboxes!Elements(u) \ Mailboxes!Elements(ackCh)
      /\ Len(t) <= Len(u) /\ Increasing(t)
  <2> DEFINE S == 1 .. emitted
  <2>1. S \in SUBSET Nat OBVIOUS
  <2>2. u \in Seq(S) /\ Increasing(u) BY <1>6 DEF Buffer
  <2>3. t \in Seq(S) /\ Mailboxes!Elements(t) = Mailboxes!Elements(u) \ Mailboxes!Elements(ackCh)
        /\ Len(t) <= Len(u) /\ Increasing(t)
    <3> HIDE DEF S
    <3> QED BY <1>7, <2>1, <2>2, WithoutKeeps
  <2> QED BY <2>3
<1>9. Buffer(t, emitted)
  <2>1. Len(t) \in Nat /\ Len(u) \in Nat /\ Len(u) <= MaxPending
    BY <1>6, <1>8, LenProperties DEF Buffer
  <2> QED BY <1>1, <1>8, <2>1 DEF Buffer
<1> QED BY <1>4, <1>6, <1>8, <1>9 DEF r, D

-----------------------------------------------------------------------------
(* The steps.                                                              *)
LEMMA Numbers ==
  ASSUME MailboxConstants, InOrder
  PROVE  /\ emitted \in Nat /\ Len(deliverCh) \in Nat /\ Received \in Nat
         /\ Received + Len(deliverCh) = emitted
         /\ MaxPending \in Nat \ {0} /\ MaxMessages \in Nat /\ emitted <= MaxMessages
         /\ \A m : m \in Mailboxes!Elements(deliverCh) <=> m \in (Received + 1) .. emitted
         /\ \A m \in Mailboxes!Elements(pending) : m \in 1 .. Received
<1>1. /\ emitted \in Nat /\ Len(deliverCh) \in Nat /\ Received \in Nat
      /\ Received + Len(deliverCh) = emitted
      /\ MaxPending \in Nat \ {0} /\ MaxMessages \in Nat /\ emitted <= MaxMessages
  <2>1. emitted \in Nat /\ Len(deliverCh) \in Nat /\ Len(deliverCh) <= emitted
    BY ElementsOf DEF InOrder, MailboxConstants
  <2> QED BY <2>1 DEF InOrder, Received, MailboxConstants
<1> DEFINE N == Len(deliverCh)
           r == Received
<1>2. \A x : x \in Mailboxes!Elements(deliverCh) <=> \E i \in 1 .. N : deliverCh[i] = x
  BY ElementsOf DEF InOrder
<1>3. \A i \in 1 .. N : deliverCh[i] = r + i BY DEF InOrder
<1> HIDE DEF N, r
<1>4. ASSUME NEW m \in (r + 1) .. emitted PROVE m \in Mailboxes!Elements(deliverCh)
  <2>1. m - r \in 1 .. N /\ r + (m - r) = m BY <1>1 DEF r, N
  <2> QED BY <1>2, <1>3, <2>1
<1>5. ASSUME NEW m \in Mailboxes!Elements(deliverCh) PROVE m \in (r + 1) .. emitted
  <2>1. PICK i \in 1 .. N : deliverCh[i] = m BY <1>2
  <2>2. m = r + i BY <1>3, <2>1
  <2> QED BY <1>1, <2>2 DEF r, N
<1>6. \A m \in Mailboxes!Elements(pending) : m \in 1 .. r
  BY <1>1, LongerBuffer DEF InOrder, r
<1> QED BY <1>1, <1>4, <1>5, <1>6 DEF r

(* Whatever is done to the buffer, subscriptions stay as they were: what   *)
(* is new there is newer than all they have seen.                          *)
LEMMA SendingStays ==
  ASSUME MailboxConstants, InOrder, Sending, UNCHANGED <<got, batch, seen>>,
         Received' \in Nat, Received <= Received',
         \A y \in Mailboxes!Elements(pending') : y \in Mailboxes!Elements(pending)
           \/ (y \in Nat /\ y > Received)
  PROVE  Sending'
<1>1. Received \in Nat BY Numbers
<1> SUFFICES ASSUME NEW s \in Subscriber,
                    NEW x \in Mailboxes!Elements(got[s]) \cup Mailboxes!Elements(batch[s])
             PROVE  /\ x <= Received'
                    /\ \A y \in Mailboxes!Elements(pending') \ seen[s] : x < y
  BY DEF Sending
<1>2. x \in Nat /\ x <= Received /\ \A y \in Mailboxes!Elements(pending) \ seen[s] : x < y
  <2>1. got[s] \in Seq(Mailboxes!Message) /\ batch[s] \in Seq(Mailboxes!Message) BY DEF Sending
  <2>2. Mailboxes!Elements(got[s]) \subseteq Mailboxes!Message
          /\ Mailboxes!Elements(batch[s]) \subseteq Mailboxes!Message
    BY <2>1, ElementsOf
  <2>3. Mailboxes!Message \subseteq Nat BY DEF Mailboxes!Message
  <2> QED BY <2>2, <2>3 DEF Sending
<1>3. x <= Received' BY <1>1, <1>2
<1>4. ASSUME NEW y \in Mailboxes!Elements(pending') \ seen[s] PROVE x < y
  <2>1. CASE y \in Mailboxes!Elements(pending) BY <1>2, <1>4, <2>1
  <2>2. CASE y \in Nat /\ y > Received BY <1>1, <1>2, <2>2
  <2> QED BY <1>4, <2>1, <2>2
<1> QED BY <1>3, <1>4

(* Continue-as-new, which first drains both channels, keeps the invariant. *)
LEMMA ContinueKeeps ==
  ASSUME MailboxConstants, MailboxInv, Mailboxes!ContinueAsNew
  PROVE  MailboxInv'
<1> USE DEF MailboxInv
<1>1. /\ pending' = Mailboxes!Absorb(pending) /\ deliverCh' = << >> /\ ackCh' = << >>
           /\ signals' = 0
      /\ dropped' = dropped \cup ((Mailboxes!Elements(pending) \cup Mailboxes!Elements(deliverCh))
                                    \ (Mailboxes!Elements(pending')
                                        \cup Mailboxes!Elements(ackCh)))
      /\ UNCHANGED <<emitted, hosted, polling, seen, batch, acking, got, acked>>
  BY DEF Mailboxes!ContinueAsNew, Mailboxes!calls
<1>2. /\ emitted \in Nat /\ Len(deliverCh) \in Nat /\ Received \in Nat
      /\ Received + Len(deliverCh) = emitted
      /\ MaxPending \in Nat \ {0}
      /\ \A m : m \in Mailboxes!Elements(deliverCh) <=> m \in (Received + 1) .. emitted
      /\ \A m \in Mailboxes!Elements(pending) : m \in 1 .. Received
  BY Numbers
<1>3. /\ Buffer(pending', emitted)
      /\ \A m \in Mailboxes!Elements(pending') : m \notin Mailboxes!Elements(ackCh)
      /\ \A m \in Mailboxes!Elements(pending') : m \in Mailboxes!Elements(pending) \/ m > Received
      /\ \A m \in Mailboxes!Elements(pending) \cup Mailboxes!Elements(deliverCh) :
           m \in Mailboxes!Elements(pending') \cup Mailboxes!Elements(ackCh)
             \/ emitted - m >= MaxPending
  BY <1>1, AbsorbKeeps
<1>4. Received' = emitted /\ Len(deliverCh') = 0 /\ Mailboxes!Elements(deliverCh') = {}
  BY <1>1, <1>2 DEF Received, Mailboxes!Elements
<1>5. \A m \in Mailboxes!Elements(pending') : m \in 1 .. emitted BY <1>2, <1>3, LongerBuffer
<1>6. InOrder'
  <2>1. deliverCh' \in Seq(1 .. emitted) BY <1>1
  <2> QED BY <1>1, <1>2, <1>3, <1>4, <2>1 DEF InOrder
<1>7. Accounted'
  <2> SUFFICES ASSUME NEW m \in 1 .. emitted
               PROVE  \/ m \in Mailboxes!Elements(pending') \cup acked
                      \/ m \in dropped' /\ emitted - m >= MaxPending
    BY <1>1, <1>4 DEF Accounted
  <2>1. CASE m \in Mailboxes!Elements(pending) \cup Mailboxes!Elements(deliverCh)
    BY <1>1, <1>3, <2>1 DEF Acknowledged
  <2>2. CASE m \notin Mailboxes!Elements(pending) \cup Mailboxes!Elements(deliverCh)
    BY <1>1, <2>2 DEF Accounted
  <2> QED BY <2>1, <2>2
<1>8. Acknowledged'
  <2>1. acked \subseteq 1 .. emitted BY <1>2 DEF Acknowledged
  <2>2. \A m \in acked : m \notin Mailboxes!Elements(pending')
    <3> TAKE m \in acked
    <3>1. m \in 1 .. Received BY DEF Acknowledged
    <3>2. ~ (m > Received) BY <1>2, <3>1
    <3> QED BY <1>3, <3>2 DEF Acknowledged
  <2>3. ackCh' \in Seq(1 .. emitted) /\ Mailboxes!Elements(ackCh') = {} BY <1>1
      DEF Mailboxes!Elements
  <2>4. \A a \in Acker : acking[a] \in 0 .. emitted BY <1>2 DEF Acknowledged
  <2>5. acking \in [Acker -> Mailboxes!Message \cup {Mailboxes!NoMessage}] BY DEF Acknowledged
  <2> QED BY <1>1, <1>4, <2>1, <2>2, <2>3, <2>4, <2>5 DEF Acknowledged, Mailboxes!Message
<1>9. Sending'
  <2>1. \A y \in Mailboxes!Elements(pending') : y \in Mailboxes!Elements(pending)
          \/ (y \in Nat /\ y > Received)
    BY <1>3, <1>5
  <2>2. Received' \in Nat /\ Received <= Received' BY <1>2, <1>4
  <2> QED BY <1>1, <2>1, <2>2, SendingStays
<1>10. Others'
  <2>1. Mailboxes!Elements(pending) \cup Mailboxes!Elements(deliverCh) \subseteq 1 .. emitted
      BY <1>2
  <2>2. 0 \in 0 .. SignalsPerRun BY DEF MailboxConstants
  <2> QED BY <1>1, <2>1, <2>2 DEF Others, Mailboxes!Message
<1> QED BY <1>6, <1>7, <1>8, <1>9, <1>10

(* A delivery the workflow receives keeps the invariant. *)
LEMMA ReceiveDeliverKeeps ==
  ASSUME MailboxConstants, MailboxInv, Mailboxes!ReceiveDeliver
  PROVE  MailboxInv'
<1> USE DEF MailboxInv
<1> DEFINE r == Received
<1>1. /\ signals < SignalsPerRun /\ deliverCh # << >>
      /\ pending' = Mailboxes!AppendBounded(pending, Head(deliverCh))
      /\ dropped' = dropped \cup (Mailboxes!Elements(pending) \ Mailboxes!Elements(pending'))
      /\ deliverCh' = Tail(deliverCh)
      /\ signals' = signals + 1
      /\ UNCHANGED <<emitted, ackCh, hosted, polling, seen, batch, acking, got, acked>>
  BY DEF Mailboxes!ReceiveDeliver, Mailboxes!calls
<1>2. /\ emitted \in Nat /\ Len(deliverCh) \in Nat /\ r \in Nat
      /\ r + Len(deliverCh) = emitted
      /\ MaxPending \in Nat \ {0}
      /\ \A m : m \in Mailboxes!Elements(deliverCh) <=> m \in (r + 1) .. emitted
      /\ \A m \in Mailboxes!Elements(pending) : m \in 1 .. r
  BY Numbers
<1>3. /\ Tail(deliverCh) \in Seq(1 .. emitted) /\ Head(deliverCh) = deliverCh[1]
      /\ Len(deliverCh) \in Nat \ {0} /\ Len(Tail(deliverCh)) = Len(deliverCh) - 1
      /\ \A i \in 1 .. Len(deliverCh) - 1 : Tail(deliverCh)[i] = deliverCh[i + 1]
      /\ Mailboxes!Elements(deliverCh) = Mailboxes!Elements(Tail(deliverCh)) \cup {deliverCh[1]}
  BY <1>1, ElementsOfTail DEF InOrder
<1>4. Head(deliverCh) = r + 1
  <2>1. 1 \in 1 .. Len(deliverCh) BY <1>3
  <2> QED BY <1>3, <2>1 DEF InOrder
<1>5. Received' = r + 1 /\ Received' \in Nat /\ Received' <= emitted
  BY <1>1, <1>2, <1>3 DEF Received
<1> HIDE DEF r
<1>6. /\ Buffer(pending', r + 1)
      /\ Mailboxes!Elements(pending') \subseteq Mailboxes!Elements(pending) \cup {r + 1}
      /\ r + 1 \in Mailboxes!Elements(pending')
      /\ \A m \in Mailboxes!Elements(pending) : m \in Mailboxes!Elements(pending')
           \/ (r + 1) - m >= MaxPending
  <2>1. Buffer(pending, r) BY DEF InOrder, r
  <2>2. pending' = Mailboxes!AppendBounded(pending, r + 1) BY <1>1, <1>4
  <2> QED BY <1>2, <2>1, <2>2, AppendBoundedKeeps
<1>7. InOrder'
  <2>1. ASSUME NEW i \in 1 .. Len(Tail(deliverCh)) PROVE Tail(deliverCh)[i] = (r + 1) + i
    <3>1. i + 1 \in 1 .. Len(deliverCh) /\ i \in 1 .. Len(deliverCh) - 1 BY <1>3
    <3>2. deliverCh[i + 1] = r + (i + 1) BY <3>1 DEF InOrder, r
    <3>3. Tail(deliverCh)[i] = r + (i + 1) BY <1>3, <3>1, <3>2
    <3>4. i \in Nat BY <1>3
    <3> QED BY <1>2, <3>3, <3>4
  <2>2. Len(Tail(deliverCh)) <= emitted BY <1>2, <1>3
  <2>3. Buffer(pending, Received)' BY <1>5, <1>6 DEF Buffer
  <2> QED BY <1>1, <1>3, <1>5, <2>1, <2>2, <2>3 DEF InOrder
<1>8. Accounted'
  <2> SUFFICES ASSUME NEW m \in 1 .. emitted
               PROVE  \/ m \in Mailboxes!Elements(deliverCh') \cup Mailboxes!Elements(pending')
                           \cup acked
                      \/ m \in dropped' /\ emitted - m >= MaxPending
    BY <1>1 DEF Accounted
  <2>1. CASE m \in Mailboxes!Elements(deliverCh) BY <1>1, <1>3, <1>4, <1>6, <2>1
  <2>2. CASE m \in Mailboxes!Elements(pending)
    <3>1. CASE m \in Mailboxes!Elements(pending') BY <3>1
    <3>2. CASE m \notin Mailboxes!Elements(pending')
      <4>1. (r + 1) - m >= MaxPending BY <1>6, <2>2, <3>2
      <4>2. r + 1 <= emitted BY <1>5
      <4>3. emitted - m >= MaxPending BY <1>2, <4>1, <4>2
      <4> QED BY <1>1, <2>2, <3>2, <4>3
    <3> QED BY <3>1, <3>2
  <2>3. CASE m \notin Mailboxes!Elements(pending) \cup Mailboxes!Elements(deliverCh)
    BY <1>1, <2>3 DEF Accounted
  <2> QED BY <2>1, <2>2, <2>3
<1>9. Acknowledged'
  <2>1. acked \subseteq 1 .. (r + 1) BY <1>2 DEF Acknowledged, r
  <2>2. ASSUME NEW m \in acked, m \in Mailboxes!Elements(pending')
        PROVE  m \in Mailboxes!Elements(ackCh)
    <3>1. m \in 1 .. r BY DEF Acknowledged, r
    <3>2. m # r + 1 BY <1>2, <3>1
    <3> QED BY <1>6, <2>2, <3>2 DEF Acknowledged
  <2>3. \A a \in Acker : acking[a] \in 0 .. (r + 1) BY <1>2 DEF Acknowledged, r
  <2> QED BY <1>1, <1>5, <2>1, <2>2, <2>3 DEF Acknowledged, Mailboxes!Message
<1>10. Sending'
  <2>1. \A y \in Mailboxes!Elements(pending') : y \in Mailboxes!Elements(pending)
          \/ (y \in Nat /\ y > r)
    BY <1>2, <1>6
  <2> QED BY <1>1, <1>2, <1>5, <2>1, SendingStays DEF r
<1>11. Others'
  <2>1. Mailboxes!Elements(pending) \subseteq 1 .. emitted BY <1>2
  <2>2. signals + 1 \in 0 .. SignalsPerRun BY <1>1 DEF MailboxConstants, Others
  <2> QED BY <1>1, <2>1, <2>2 DEF Others, Mailboxes!Message
<1> QED BY <1>7, <1>8, <1>9, <1>10, <1>11

(* An acknowledgement the workflow receives keeps the invariant. *)
LEMMA ReceiveAckKeeps ==
  ASSUME MailboxConstants, MailboxInv, Mailboxes!ReceiveAck
  PROVE  MailboxInv'
<1> USE DEF MailboxInv
<1> DEFINE h == Head(ackCh)
<1>1. /\ signals < SignalsPerRun /\ ackCh # << >>
      /\ pending' = Mailboxes!Without(pending, {h})
      /\ ackCh' = Tail(ackCh)
      /\ signals' = signals + 1
      /\ UNCHANGED <<emitted, deliverCh, hosted, polling, seen, batch, acking, got, acked,
             dropped>>
  BY DEF Mailboxes!ReceiveAck, Mailboxes!RemoveEnvelope, Mailboxes!calls
<1>2. /\ emitted \in Nat /\ Len(deliverCh) \in Nat /\ Received \in Nat
      /\ \A m \in Mailboxes!Elements(pending) : m \in 1 .. Received
  BY Numbers
<1>3. /\ Tail(ackCh) \in Seq(1 .. emitted)
      /\ Mailboxes!Elements(ackCh) = Mailboxes!Elements(Tail(ackCh)) \cup {h}
  BY <1>1, ElementsOfTail DEF Acknowledged
<1> HIDE DEF h
<1>4. Received' = Received BY <1>1 DEF Received
<1>5. Buffer(pending', Received)
        /\ Mailboxes!Elements(pending') = Mailboxes!Elements(pending) \ {h}
  <2> DEFINE S == 1 .. Received
  <2>1. S \in SUBSET Nat /\ pending \in Seq(S) /\ Increasing(pending) /\ Len(pending) <= MaxPending
    BY DEF InOrder, Buffer
  <2>2. /\ Mailboxes!Without(pending, {h}) \in Seq(S)
        /\ Mailboxes!Elements(Mailboxes!Without(pending, {h})) = Mailboxes!Elements(pending) \ {h}
        /\ Len(Mailboxes!Without(pending, {h})) <= Len(pending)
        /\ Increasing(Mailboxes!Without(pending, {h}))
    <3> HIDE DEF S
    <3> QED BY <2>1, WithoutKeeps
  <2>3. Len(pending) \in Nat /\ Len(Mailboxes!Without(pending, {h})) \in Nat BY <2>1, <2>2,
      LenProperties
  <2>4. Len(Mailboxes!Without(pending, {h})) <= MaxPending BY <2>1, <2>2, <2>3 DEF MailboxConstants
  <2> QED BY <1>1, <2>2, <2>4 DEF Buffer
<1>6. InOrder' BY <1>1, <1>4, <1>5 DEF InOrder, Buffer
<1>7. h \in acked BY <1>3 DEF Acknowledged
<1>8. Accounted' BY <1>1, <1>5, <1>7 DEF Accounted
<1>9. Acknowledged' BY <1>1, <1>3, <1>4, <1>5 DEF Acknowledged, Mailboxes!Message
<1>10. Sending'
  <2>1. \A y \in Mailboxes!Elements(pending') : y \in Mailboxes!Elements(pending) BY <1>5
  <2>2. Received' \in Nat /\ Received <= Received' BY <1>2, <1>4
  <2> QED BY <1>1, <2>1, <2>2, SendingStays
<1>11. Others'
  <2>2. signals + 1 \in 0 .. SignalsPerRun BY <1>1 DEF MailboxConstants, Others
  <2> QED BY <1>1, <2>2 DEF Others, Mailboxes!Message
<1> QED BY <1>6, <1>8, <1>9, <1>10, <1>11

(* A message signalled to the workflow is the last one of the channel. *)
LEMMA EmitKeeps ==
  ASSUME MailboxConstants, MailboxInv, Mailboxes!Emit
  PROVE  MailboxInv'
<1> USE DEF MailboxInv
<1> DEFINE n == emitted + 1
<1>1. /\ emitted < MaxMessages /\ emitted' = n
      /\ deliverCh' = Append(deliverCh, n)
      /\ UNCHANGED <<ackCh, pending, signals, hosted, polling, seen, batch, acking, got, acked,
             dropped>>
  BY DEF Mailboxes!Emit, Mailboxes!calls
<1>2. /\ emitted \in Nat /\ Len(deliverCh) \in Nat /\ Received \in Nat
      /\ Received + Len(deliverCh) = emitted
      /\ MaxPending \in Nat \ {0} /\ MaxMessages \in Nat
  BY Numbers
<1>3. 1 .. emitted \subseteq 1 .. n /\ n \in 1 .. n /\ n \in Nat BY <1>2
<1>4. deliverCh \in Seq(1 .. n) /\ ackCh \in Seq(1 .. n)
  <2>1. deliverCh \in Seq(1 .. emitted) /\ ackCh \in Seq(1 .. emitted)
    BY DEF InOrder, Acknowledged
  <2> HIDE DEF n
  <2> QED BY <1>3, <2>1, SeqMonotonic
<1> HIDE DEF n
<1>5. /\ Append(deliverCh, n) \in Seq(1 .. n)
      /\ Len(Append(deliverCh, n)) = Len(deliverCh) + 1
      /\ \A i \in 1 .. Len(deliverCh) : Append(deliverCh, n)[i] = deliverCh[i]
      /\ Append(deliverCh, n)[Len(deliverCh) + 1] = n
      /\ Mailboxes!Elements(Append(deliverCh, n)) = Mailboxes!Elements(deliverCh) \cup {n}
  BY <1>3, <1>4, ElementsAppended
<1>6. Received' = Received BY <1>1, <1>2, <1>5 DEF Received, n
<1>7. InOrder'
  <2>1. ASSUME NEW i \in 1 .. Len(deliverCh) + 1
        PROVE  Append(deliverCh, n)[i] = Received + i
    <3>1. CASE i = Len(deliverCh) + 1 BY <1>2, <1>5, <3>1 DEF n
    <3>2. CASE i # Len(deliverCh) + 1
      <4>1. i \in 1 .. Len(deliverCh) BY <1>2, <3>2
      <4> QED BY <1>5, <4>1 DEF InOrder
    <3> QED BY <3>1, <3>2
  <2>2. n \in 0 .. MaxMessages BY <1>1, <1>2 DEF n
  <2>3. Len(deliverCh) + 1 <= n BY <1>2 DEF n
  <2>4. Buffer(pending, Received)' BY <1>1, <1>6 DEF InOrder, Buffer
  <2> QED BY <1>1, <1>5, <1>6, <2>1, <2>2, <2>3, <2>4 DEF InOrder
<1>8. Accounted'
  <2> SUFFICES ASSUME NEW m \in 1 .. n
               PROVE  \/ m \in Mailboxes!Elements(deliverCh') \cup Mailboxes!Elements(pending)
                           \cup acked
                      \/ m \in dropped /\ n - m >= MaxPending
    BY <1>1 DEF Accounted
  <2>1. CASE m = n BY <1>1, <1>5, <2>1
  <2>2. CASE m # n
    <3>1. m \in 1 .. emitted BY <1>2, <2>2 DEF n
    <3>2. emitted - m >= MaxPending => n - m >= MaxPending BY <1>2, <3>1 DEF n
    <3> QED BY <1>1, <1>5, <3>1, <3>2 DEF Accounted
  <2> QED BY <2>1, <2>2
<1>9. Acknowledged' BY <1>1, <1>4, <1>6 DEF Acknowledged, Mailboxes!Message
<1>10. Sending' BY <1>1, <1>2, <1>6, SendingStays
<1>11. Others' BY <1>1, <1>3 DEF Others, Mailboxes!Message
<1> QED BY <1>7, <1>8, <1>9, <1>10, <1>11

(* What is neither queued nor buffered nor received otherwise leaves the   *)
(* mailbox as it is.                                                       *)
LEMMA MailboxSame ==
  ASSUME MailboxConstants, MailboxInv, UNCHANGED <<emitted, deliverCh, pending, dropped>>
  PROVE  InOrder' /\ (acked \subseteq acked' => Accounted') /\ Received' = Received
<1>1. Received' = Received BY DEF Received
<1>2. InOrder' BY <1>1 DEF MailboxInv, InOrder, Buffer
<1> QED BY <1>1, <1>2 DEF MailboxInv, Accounted

(* A subscriber acknowledges what it was handed, which was received. *)
LEMMA AckKeeps ==
  ASSUME MailboxConstants, MailboxInv, NEW a \in Acker,
         Mailboxes!SignalAck(a) \/ \E m \in Mailboxes!Message : Mailboxes!FindHeld(a, m)
  PROVE  MailboxInv'
<1> USE DEF MailboxInv
<1>2. /\ emitted \in Nat /\ Received \in Nat /\ Received <= emitted
      /\ \A m \in Mailboxes!Elements(pending) : m \in 1 .. Received
  <2>1. Received + Len(deliverCh) = emitted /\ Len(deliverCh) \in Nat BY Numbers
  <2>2. emitted \in Nat /\ Received \in Nat
          /\ \A m \in Mailboxes!Elements(pending) : m \in 1 .. Received
    BY Numbers
  <2> QED BY <2>1, <2>2
<1>3. ASSUME NEW m \in Mailboxes!Message, Mailboxes!FindHeld(a, m) PROVE MailboxInv'
  <2>1. /\ m \in Mailboxes!Elements(pending) /\ acking' = [acking EXCEPT ![a] = m]
        /\ UNCHANGED <<emitted, deliverCh, ackCh, pending, signals, hosted, polling, seen, batch,
               got,
                       acked, dropped>>
    BY <1>3 DEF Mailboxes!FindHeld, Mailboxes!mailbox
  <2>2. InOrder' /\ Accounted' /\ Received' = Received BY <2>1, MailboxSame
  <2>3. Acknowledged' BY <1>2, <2>1, <2>2 DEF Acknowledged, Mailboxes!Message
  <2>4. Sending' BY <1>2, <2>1, <2>2, SendingStays
  <2> QED BY <2>1, <2>2, <2>3, <2>4 DEF Others, Mailboxes!Message
<1>4. CASE Mailboxes!SignalAck(a)
  <2> DEFINE m == acking[a]
  <2>1. /\ m # Mailboxes!NoMessage /\ ackCh' = Append(ackCh, m)
        /\ acked' = acked \cup {m}
        /\ acking' = [acking EXCEPT ![a] = Mailboxes!NoMessage]
        /\ UNCHANGED <<emitted, deliverCh, pending, signals, hosted, polling, seen, batch, got,
               dropped>>
    BY <1>4 DEF Mailboxes!SignalAck
  <2>2. InOrder' /\ Accounted' /\ Received' = Received BY <2>1, MailboxSame
  <2>3. m \in 1 .. Received /\ m \in 1 .. emitted
    <3>1. m \in 0 .. Received BY DEF Acknowledged
    <3> HIDE DEF m
    <3> QED BY <1>2, <2>1, <3>1 DEF Mailboxes!NoMessage
  <2>4. acking' \in [Acker -> Mailboxes!Message \cup {Mailboxes!NoMessage}]
          /\ \A b \in Acker : acking'[b] \in 0 .. Received
    BY <1>2, <2>1 DEF Acknowledged, Mailboxes!NoMessage
  <2> HIDE DEF m
  <2>5. Append(ackCh, m) \in Seq(1 .. emitted)
          /\ Mailboxes!Elements(Append(ackCh, m)) = Mailboxes!Elements(ackCh) \cup {m}
    <3> DEFINE S == 1 .. emitted
    <3>1. ackCh \in Seq(S) /\ m \in S BY <2>3 DEF Acknowledged
    <3> HIDE DEF S
    <3>2. Append(ackCh, m) \in Seq(S)
            /\ Mailboxes!Elements(Append(ackCh, m)) = Mailboxes!Elements(ackCh) \cup {m}
      BY <3>1, ElementsAppended
    <3> QED BY <3>2 DEF S
  <2>6. Acknowledged'
    BY <2>1, <2>2, <2>3, <2>4, <2>5 DEF Acknowledged, Mailboxes!Message
  <2>7. Sending' BY <1>2, <2>1, <2>2, SendingStays
  <2> QED BY <2>1, <2>2, <2>6, <2>7 DEF Others, Mailboxes!Message
<1> QED BY <1>3, <1>4

(* A poll takes into its batch only what this subscription has not seen. *)
LEMMA PollKeeps ==
  ASSUME MailboxConstants, MailboxInv, NEW s \in Subscriber, Mailboxes!Poll(s)
  PROVE  MailboxInv'
<1> USE DEF MailboxInv
<1> DEFINE new == Mailboxes!Without(pending, Mailboxes!Remembered(s))
<1>1. /\ batch[s] = << >> /\ batch' = [batch EXCEPT ![s] = new]
      /\ seen' = [seen EXCEPT ![s] = Mailboxes!Remembered(s) \cup Mailboxes!Elements(pending)]
      /\ UNCHANGED <<emitted, deliverCh, ackCh, pending, signals, hosted, polling, acking, got,
             acked,
                     dropped>>
  BY DEF Mailboxes!Poll, Mailboxes!mailbox
<1>2. /\ emitted \in Nat /\ Received \in Nat /\ Received <= emitted /\ emitted <= MaxMessages
      /\ MaxMessages \in Nat
      /\ \A m \in Mailboxes!Elements(pending) : m \in 1 .. Received
  <2>1. Received + Len(deliverCh) = emitted /\ Len(deliverCh) \in Nat BY Numbers
  <2>2. /\ emitted \in Nat /\ Received \in Nat /\ emitted <= MaxMessages /\ MaxMessages \in Nat
        /\ \A m \in Mailboxes!Elements(pending) : m \in 1 .. Received
    BY Numbers
  <2> QED BY <2>1, <2>2
<1>3. InOrder' /\ Accounted' /\ Received' = Received BY <1>1, MailboxSame
<1>4. Acknowledged' BY <1>1, <1>3 DEF Acknowledged, Mailboxes!Message
<1>5. seen' = [seen EXCEPT ![s] = Mailboxes!Elements(pending)]
  <2>1. Mailboxes!Remembered(s) \cup Mailboxes!Elements(pending) = Mailboxes!Elements(pending)
      BY DEF Mailboxes!Remembered
  <2> QED BY <1>1, <2>1
<1>6. Mailboxes!Elements(pending) \subseteq Mailboxes!Message BY <1>2 DEF Mailboxes!Message
<1>7. Others' BY <1>1, <1>5, <1>6 DEF Others, Mailboxes!Message
<1>8. new \in Seq(Mailboxes!Message)
        /\ Mailboxes!Elements(new) = Mailboxes!Elements(pending) \ seen[s] /\ Increasing(new)
  <2> DEFINE S == 1 .. Received
  <2>1. S \in SUBSET Nat /\ pending \in Seq(S) /\ Increasing(pending)
    BY DEF InOrder, Buffer
  <2>2. /\ new \in Seq(S)
        /\ Mailboxes!Elements(new) = Mailboxes!Elements(pending) \ Mailboxes!Remembered(s)
        /\ Increasing(new)
    <3> HIDE DEF S
    <3> QED BY <2>1, WithoutKeeps
  <2>3. S \subseteq Mailboxes!Message BY <1>2 DEF Mailboxes!Message
  <2> HIDE DEF S, new
  <2>4. new \in Seq(Mailboxes!Message) BY <2>2, <2>3, SeqMonotonic
  <2> QED BY <2>2, <2>4 DEF Mailboxes!Remembered
<1> HIDE DEF new
<1>9. Sending'
  <2>1. got' \in [Subscriber -> Seq(Mailboxes!Message)]
          /\ batch' \in [Subscriber -> Seq(Mailboxes!Message)]
    BY <1>1, <1>8 DEF Sending
  <2>2. ASSUME NEW q \in Subscriber
        PROVE  /\ Increasing(got[q]) /\ Increasing(batch'[q])
               /\ \A x \in Mailboxes!Elements(got[q]), y \in Mailboxes!Elements(batch'[q]) : x < y
               /\ \A x \in Mailboxes!Elements(got[q]) \cup Mailboxes!Elements(batch'[q]) :
                    /\ x <= Received
                    /\ \A y \in Mailboxes!Elements(pending) \ seen'[q] : x < y
    <3>1. CASE q = s
      <4>1. batch'[q] = new /\ seen'[q] = Mailboxes!Elements(pending)
        BY <1>1, <1>5, <3>1 DEF Sending, Others
      <4>2. \A y \in Mailboxes!Elements(new) : y <= Received BY <1>2, <1>8
      <4> QED BY <1>8, <3>1, <4>1, <4>2 DEF Sending
    <3>2. CASE q # s
      <4>1. batch'[q] = batch[q] /\ seen'[q] = seen[q]
        BY <1>1, <1>5, <3>2 DEF Sending, Others
      <4> QED BY <4>1 DEF Sending
    <3> QED BY <3>1, <3>2
  <2> QED BY <1>1, <1>3, <2>1, <2>2 DEF Sending, Mailboxes!Message
<1> QED BY <1>3, <1>4, <1>7, <1>9

(* A message handed to the subscriber is one the workflow received. *)
LEMMA SendKeeps ==
  ASSUME MailboxConstants, MailboxInv, NEW s \in Subscriber, Mailboxes!Send(s)
  PROVE  MailboxInv'
<1> USE DEF MailboxInv
<1> DEFINE g == got[s]
           b == batch[s]
           h == b[1]
<1>1. /\ b # << >> /\ got' = [got EXCEPT ![s] = Append(g, Head(b))]
      /\ batch' = [batch EXCEPT ![s] = Tail(b)]
      /\ UNCHANGED <<emitted, deliverCh, ackCh, pending, signals, hosted, polling, seen, acking,
             acked,
                     dropped>>
  BY DEF Mailboxes!Send, Mailboxes!mailbox, Sending
<1>3. InOrder' /\ Accounted' /\ Received' = Received BY <1>1, MailboxSame
<1>4. Acknowledged' BY <1>1, <1>3 DEF Acknowledged, Mailboxes!Message
<1>5. Others' BY <1>1 DEF Others, Mailboxes!Message
<1>6. /\ g \in Seq(Mailboxes!Message) /\ b \in Seq(Mailboxes!Message) /\ Increasing(g)
           /\ Increasing(b)
      /\ \A x \in Mailboxes!Elements(g), y \in Mailboxes!Elements(b) : x < y
  BY DEF Sending
<1>7. Mailboxes!Message \subseteq Nat BY DEF Mailboxes!Message
<1> HIDE DEF g, b
<1>8. /\ Tail(b) \in Seq(Mailboxes!Message) /\ Head(b) = h /\ h \in Mailboxes!Message
      /\ Len(b) \in Nat \ {0} /\ Len(Tail(b)) = Len(b) - 1
      /\ \A i \in 1 .. Len(b) - 1 : Tail(b)[i] = b[i + 1]
      /\ Mailboxes!Elements(b) = Mailboxes!Elements(Tail(b)) \cup {h}
  BY <1>1, <1>6, ElementsOfTail
<1> HIDE DEF h
<1>9. Append(g, h) \in Seq(Mailboxes!Message)
        /\ Mailboxes!Elements(Append(g, h)) = Mailboxes!Elements(g) \cup {h}
  BY <1>6, <1>8, ElementsAppended
<1>10. Increasing(Append(g, h))
  <2>1. g \in Seq(Nat) /\ h \in Nat BY <1>6, <1>7, <1>8, SeqMonotonic
  <2> QED BY <1>6, <1>8, <2>1, AppendIncreasing
<1>11. Increasing(Tail(b)) /\ \A y \in Mailboxes!Elements(Tail(b)) : h < y
  <2>1. ASSUME NEW i \in 1 .. Len(Tail(b)), NEW j \in 1 .. Len(Tail(b)), i < j
        PROVE  Tail(b)[i] < Tail(b)[j]
    <3>1. i + 1 \in 1 .. Len(b) /\ j + 1 \in 1 .. Len(b) /\ i + 1 < j + 1 BY <1>8, <2>1
    <3>2. b[i + 1] < b[j + 1] BY <1>6, <3>1 DEF Increasing
    <3> QED BY <1>8, <3>2
  <2>2. ASSUME NEW y \in Mailboxes!Elements(Tail(b)) PROVE h < y
    <3>1. PICK i \in 1 .. Len(Tail(b)) : Tail(b)[i] = y BY <1>8, ElementsOf
    <3>2. 1 \in 1 .. Len(b) /\ i + 1 \in 1 .. Len(b) /\ 1 < i + 1 /\ y = b[i + 1] BY <1>8, <3>1
    <3>3. b[1] < b[i + 1] BY <1>6, <3>2 DEF Increasing
    <3> QED BY <3>2, <3>3 DEF h
  <2> QED BY <2>1, <2>2 DEF Increasing
<1>12. Sending'
  <2>1. got' \in [Subscriber -> Seq(Mailboxes!Message)]
          /\ batch' \in [Subscriber -> Seq(Mailboxes!Message)]
    BY <1>1, <1>8, <1>9 DEF Sending
  <2>2. ASSUME NEW q \in Subscriber
        PROVE  /\ Increasing(got'[q]) /\ Increasing(batch'[q])
               /\ \A x \in Mailboxes!Elements(got'[q]), y \in Mailboxes!Elements(batch'[q]) : x < y
               /\ \A x \in Mailboxes!Elements(got'[q]) \cup Mailboxes!Elements(batch'[q]) :
                    /\ x <= Received
                    /\ \A y \in Mailboxes!Elements(pending) \ seen[q] : x < y
    <3>1. CASE q = s
      <4>1. got'[q] = Append(g, h) /\ batch'[q] = Tail(b) BY <1>1, <1>8, <3>1 DEF Sending
      <4>2. \A x \in Mailboxes!Elements(g) \cup {h}, y \in Mailboxes!Elements(Tail(b)) : x < y
        BY <1>6, <1>8, <1>11
      <4>3. \A x \in Mailboxes!Elements(g) \cup Mailboxes!Elements(b) :
              x <= Received /\ \A y \in Mailboxes!Elements(pending) \ seen[q] : x < y
        BY <3>1 DEF Sending, g, b
      <4>4. Mailboxes!Elements(Append(g, h)) \cup Mailboxes!Elements(Tail(b))
              = Mailboxes!Elements(g) \cup Mailboxes!Elements(b)
        BY <1>8, <1>9
      <4> QED BY <1>9, <1>10, <1>11, <4>1, <4>2, <4>3, <4>4
    <3>2. CASE q # s
      <4>1. got'[q] = got[q] /\ batch'[q] = batch[q] BY <1>1, <3>2 DEF Sending
      <4> QED BY <4>1 DEF Sending
    <3> QED BY <3>1, <3>2
  <2> QED BY <1>1, <1>3, <2>1, <2>2 DEF Sending, Mailboxes!Message
<1> QED BY <1>3, <1>4, <1>5, <1>12

(* A subscription that ends, alone or with the server, forgets all.        *)
LEMMA EndKeeps ==
  ASSUME MailboxConstants, MailboxInv,
         (\E s \in Subscriber : Mailboxes!PollerReturns(s)) \/ Mailboxes!Stop
  PROVE  MailboxInv'
<1> USE DEF MailboxInv
<1>0. << >> \in Seq(Mailboxes!Message) /\ Mailboxes!Elements(<< >>) = {} /\ Increasing(<< >>)
  BY DEF Mailboxes!Elements, Increasing
<1>1. ASSUME NEW s \in Subscriber, Mailboxes!PollerReturns(s) PROVE MailboxInv'
  <2>1. /\ polling' = polling \ {s}
        /\ seen' = [seen EXCEPT ![s] = {}]
        /\ batch' = [batch EXCEPT ![s] = << >>]
        /\ got' = [got EXCEPT ![s] = << >>]
        /\ UNCHANGED <<emitted, deliverCh, ackCh, pending, signals, hosted, acking, acked,
               dropped>>
    BY <1>1 DEF Mailboxes!PollerReturns, Mailboxes!mailbox
  <2>2. InOrder' /\ Accounted' /\ Received' = Received BY <2>1, MailboxSame
  <2>3. Acknowledged' BY <2>1, <2>2 DEF Acknowledged, Mailboxes!Message
  <2>4. Others' BY <2>1 DEF Others, Mailboxes!Message
  <2>5. got' \in [Subscriber -> Seq(Mailboxes!Message)]
          /\ batch' \in [Subscriber -> Seq(Mailboxes!Message)]
    BY <1>0, <2>1 DEF Sending
  <2>6. ASSUME NEW q \in Subscriber
        PROVE  /\ Increasing(got'[q]) /\ Increasing(batch'[q])
               /\ \A x \in Mailboxes!Elements(got'[q]), y \in Mailboxes!Elements(batch'[q]) : x < y
               /\ \A x \in Mailboxes!Elements(got'[q]) \cup Mailboxes!Elements(batch'[q]) :
                    /\ x <= Received
                    /\ \A y \in Mailboxes!Elements(pending) \ seen'[q] : x < y
    <3>1. CASE q = s
      <4>1. got'[q] = << >> /\ batch'[q] = << >> BY <2>1, <3>1 DEF Sending
      <4> QED BY <1>0, <4>1
    <3>2. CASE q # s
      <4>1. got'[q] = got[q] /\ batch'[q] = batch[q] /\ seen'[q] = seen[q]
        BY <2>1, <3>2 DEF Sending, Others
      <4> QED BY <4>1 DEF Sending
    <3> QED BY <3>1, <3>2
  <2>7. Sending' BY <2>1, <2>2, <2>5, <2>6 DEF Sending, Mailboxes!Message
  <2> QED BY <2>2, <2>3, <2>4, <2>7
<1>2. CASE Mailboxes!Stop
  <2>1. /\ hosted' = FALSE /\ polling' = {}
        /\ seen' = [s \in Subscriber |-> {}]
        /\ batch' = [s \in Subscriber |-> << >>]
        /\ got' = [s \in Subscriber |-> << >>]
        /\ acking' = [a \in Acker |-> Mailboxes!NoMessage]
        /\ UNCHANGED <<emitted, deliverCh, ackCh, pending, signals, acked, dropped>>
    BY <1>2 DEF Mailboxes!Stop, Mailboxes!mailbox
  <2>2. InOrder' /\ Accounted' /\ Received' = Received BY <2>1, MailboxSame
  <2>3. Acknowledged'
    <3>1. Received \in Nat BY Numbers
    <3> QED BY <2>1, <2>2, <3>1 DEF Acknowledged, Mailboxes!Message, Mailboxes!NoMessage
  <2>4. Others' BY <2>1 DEF Others, Mailboxes!Message
  <2>5. Sending' BY <1>0, <2>1 DEF Sending, Mailboxes!Message
  <2> QED BY <2>2, <2>3, <2>4, <2>5
<1> QED BY <1>1, <1>2

(* A new subscription, a restart and a stutter leave what the invariant speaks of. *)
LEMMA SameKeeps ==
  ASSUME MailboxConstants, MailboxInv,
         (\E s \in Subscriber : Mailboxes!Subscribe(s)) \/ Mailboxes!Restart
           \/ UNCHANGED Mailboxes!vars
  PROVE  MailboxInv'
<1> USE DEF MailboxInv
<1>1. /\ UNCHANGED <<emitted, deliverCh, ackCh, pending, signals, seen, batch, acking, got, acked,
                     dropped>>
      /\ polling' \subseteq Subscriber /\ hosted' \in BOOLEAN
  BY DEF Mailboxes!Subscribe, Mailboxes!Restart, Mailboxes!vars, Mailboxes!mailbox,
    Mailboxes!calls, Others
<1>2. InOrder' /\ Accounted' /\ Received' = Received BY <1>1, MailboxSame
<1>3. Acknowledged' BY <1>1, <1>2 DEF Acknowledged, Mailboxes!Message
<1>4. Others' BY <1>1 DEF Others, Mailboxes!Message
<1>5. Sending' BY <1>1, <1>2 DEF Sending, Mailboxes!Message
<1> QED BY <1>2, <1>3, <1>4, <1>5

(* Every step keeps the mailbox's invariant. *)
LEMMA MailboxStepKeeps ==
  ASSUME MailboxConstants, MailboxInv, [Mailboxes!Next]_(Mailboxes!vars)
  PROVE  MailboxInv'
<1>1. CASE Mailboxes!Workflow
  BY <1>1, ContinueKeeps, ReceiveDeliverKeeps, ReceiveAckKeeps DEF Mailboxes!Workflow
<1>2. CASE Mailboxes!Emit BY <1>2, EmitKeeps
<1>3. ASSUME NEW a \in Acker,
             Mailboxes!SignalAck(a) \/ \E m \in Mailboxes!Message : Mailboxes!FindHeld(a, m)
      PROVE  MailboxInv'
  BY <1>3, AckKeeps
<1>4. ASSUME NEW s \in Subscriber,
             Mailboxes!Subscribe(s) \/ Mailboxes!Poll(s) \/ Mailboxes!Send(s)
               \/ Mailboxes!PollerReturns(s)
      PROVE  MailboxInv'
  BY <1>4, SameKeeps, PollKeeps, SendKeeps, EndKeeps
<1>5. CASE Mailboxes!Stop BY <1>5, EndKeeps
<1>6. CASE Mailboxes!Restart \/ UNCHANGED Mailboxes!vars BY <1>6, SameKeeps
<1> QED BY <1>1, <1>2, <1>3, <1>4, <1>5, <1>6 DEF Mailboxes!Next

(* The mailbox's invariant holds at first. *)
LEMMA MailboxBegins ==
  ASSUME MailboxConstants, Mailboxes!Init
  PROVE  MailboxInv
<1> USE DEF Mailboxes!Init, MailboxConstants
<1>1. Mailboxes!Elements(<< >>) = {} /\ Increasing(<< >>) /\ Len(<< >>) = 0
    BY DEF Mailboxes!Elements, Increasing
<1>2. Received = 0
  <2>1. emitted = 0 /\ deliverCh = << >> OBVIOUS
  <2>2. Received = emitted - Len(deliverCh) BY DEF Received
  <2> DEFINE n == Len(deliverCh)
  <2>3. n = 0 BY <1>1, <2>1
  <2> HIDE DEF Mailboxes!Init, n
  <2>4. 0 - n = 0 BY <2>3
  <2>5. Received = emitted - n BY <2>2 DEF n
  <2> QED BY <2>1, <2>4, <2>5
<1>3. InOrder
  <2>1. Buffer(pending, Received) BY <1>1, <1>2 DEF Buffer
  <2> QED BY <1>1, <1>2, <2>1 DEF InOrder
<1>4. Accounted BY DEF Accounted
<1>5. Acknowledged BY <1>1, <1>2 DEF Acknowledged, Mailboxes!NoMessage
<1>6. Sending BY <1>1, <1>2 DEF Sending
<1>7. Others BY DEF Others
<1> QED BY <1>3, <1>4, <1>5, <1>6, <1>7 DEF MailboxInv

(* workflow.go, temporal.go: whatever the order in which signals arrive,   *)
(* the workflow continues as new and subscriptions come, poll and leave, a *)
(* message is in a channel or in the buffer until it is acknowledged or    *)
(* pushed out, and a subscription sends in the order the mailbox has.      *)
THEOREM MailboxIsTrue == Mailboxes!Spec => []MailboxKeeps
<1>1. ASSUME MailboxInv PROVE Mailboxes!TypeOK /\ Mailboxes!MailboxKeeps /\ Mailboxes!SentInOrder
  <2> USE PartsAssumption DEF MailboxInv
  <2>1. /\ emitted \in Nat /\ Received \in Nat /\ Received + Len(deliverCh) = emitted
        /\ \A m : m \in Mailboxes!Elements(deliverCh) <=> m \in (Received + 1) .. emitted
        /\ Len(deliverCh) \in Nat
    BY <1>1, Numbers
  <2>2. Mailboxes!TypeOK
    <3>1. 1 .. Received \subseteq 1 .. emitted BY <2>1
    <3>2. pending \in Seq(1 .. emitted) /\ Len(pending) <= MaxPending
      <4>1. pending \in Seq(1 .. Received) /\ Len(pending) <= MaxPending
        BY <1>1 DEF InOrder, Buffer
      <4> QED BY <3>1, <4>1, SeqMonotonic
    <3>3. deliverCh \in Seq(1 .. emitted) /\ ackCh \in Seq(1 .. emitted)
      BY <1>1 DEF InOrder, Acknowledged
    <3>4. {deliverCh, ackCh, pending} \subseteq Seq(1 .. emitted) BY <3>2, <3>3
    <3>5. acked \subseteq 1 .. emitted /\ dropped \subseteq 1 .. emitted
      BY <1>1, <3>1 DEF Acknowledged, Others
    <3>6. {acked, dropped} \subseteq SUBSET (1 .. emitted) BY <3>5
    <3>7. emitted \in 0 .. MaxMessages BY <1>1 DEF InOrder
    <3>8. acking \in [Acker -> Mailboxes!Message \cup {Mailboxes!NoMessage}] BY <1>1
        DEF Acknowledged
    <3>9. got \in [Subscriber -> Seq(Mailboxes!Message)]
            /\ batch \in [Subscriber -> Seq(Mailboxes!Message)]
      BY <1>1 DEF Sending
    <3> QED BY <1>1, <3>2, <3>4, <3>6, <3>7, <3>8, <3>9 DEF Mailboxes!TypeOK, Others
  <2>3. Mailboxes!MailboxKeeps
    <3>1. \A m \in acked : m \notin Mailboxes!Elements(deliverCh)
      <4> TAKE m \in acked
      <4>1. m \in 1 .. Received BY <1>1 DEF Acknowledged
      <4> QED BY <2>1, <4>1
    <3> QED BY <1>1, <3>1 DEF Mailboxes!MailboxKeeps, Accounted, Acknowledged
  <2>4. Mailboxes!SentInOrder
    <3> SUFFICES ASSUME NEW s \in Subscriber, NEW i \in DOMAIN got[s], NEW j \in DOMAIN got[s],
                        i < j
                 PROVE  got[s][i] < got[s][j]
      BY DEF Mailboxes!SentInOrder
    <3>1. got[s] \in Seq(Mailboxes!Message) /\ Increasing(got[s]) BY <1>1 DEF Sending
    <3>2. i \in 1 .. Len(got[s]) /\ j \in 1 .. Len(got[s]) BY <3>1, LenProperties
    <3> QED BY <3>1, <3>2 DEF Increasing
  <2> QED BY <2>2, <2>3, <2>4
<1>2. Mailboxes!Init => MailboxInv BY PartsAssumption, MailboxBegins
<1>3. MailboxInv /\ [Mailboxes!Next]_(Mailboxes!vars) => MailboxInv'
  BY PartsAssumption, MailboxStepKeeps
<1> QED BY <1>1, <1>2, <1>3, PTL DEF MailboxKeeps, Mailboxes!Spec

-----------------------------------------------------------------------------
(* The directory: an operation holds the mutex, and is cut short anywhere. *)

(* Whether the operation that holds the mutex has come to one of these     *)
(* places, for the object o.                                               *)
Busy(o, places) == op.at \in places /\ op.object = o

(* An operation has an object, and a Put a content; a temporary file is    *)
(* left by a cut.                                                          *)
OpNames ==
  /\ op.at # "idle" => op.object \in Object
  /\ op.at \in {"write", "record", "prune"} => op.content \in Content
  /\ litter <= cuts

(* Between the two writes of a Put and the two removals of a Delete the    *)
(* first is done,                                                          *)
Halfway ==
  /\ op.at = "record" => file[op.object] = op.content
  /\ op.at = "forget" => file[op.object] = None

(* and the revision of any other object that is not torn is that of its    *)
(* content.                                                                *)
Mended ==
  \A o \in Object \ torn : ~Busy(o, {"record", "forget"}) => Directory!Revision(o) = file[o]

(* A history is one record too long only until it is pruned. *)
Bounded ==
  cuts = 0 =>
    \A o \in Object : \/ Len(records[o]) <= MaxHistory
                      \/ Busy(o, {"prune"}) /\ Len(records[o]) = MaxHistory + 1

DirectoryInv == Directory!TypeOK /\ OpNames /\ Halfway /\ Mended /\ Bounded
  /\ Directory!ReplacesWhatItNames

-----------------------------------------------------------------------------
(* Every step keeps the types. *)
LEMMA DirectoryTypes ==
  ASSUME StorageConstants, Directory!TypeOK, OpNames, [Directory!Next]_(Directory!vars)
  PROVE  Directory!TypeOK' /\ OpNames'
<1> USE DEF Directory!TypeOK, OpNames, StorageConstants, Directory!Idle
<1>1. ASSUME NEW o \in Object, NEW c \in Content, NEW expected \in Content \cup {None},
             Directory!BeginPut(o, c, expected)
      PROVE  Directory!TypeOK' /\ OpNames'
  BY <1>1 DEF Directory!BeginPut
<1>2. CASE Directory!WriteFile BY <1>2 DEF Directory!WriteFile
<1>3. CASE Directory!Record
  <2>1. /\ op.object \in Object /\ op.content \in Content
        /\ records' = [records EXCEPT ![op.object] = Append(@, op.content)]
        /\ op' = [op EXCEPT !.at = "prune"] /\ torn' \subseteq torn
        /\ UNCHANGED <<file, litter, listed, cuts>>
    BY <1>3 DEF Directory!Record
  <2>2. Append(records[op.object], op.content) \in Seq(Content) BY <2>1
  <2>3. records' \in [Object -> Seq(Content)] BY <2>1, <2>2
  <2>4. op' \in [at : {"idle", "write", "record", "prune", "remove", "forget"},
                object : Object \cup {None}, content : Content \cup {None},
                named : Content \cup {None}]
    BY <2>1
  <2> QED BY <2>1, <2>3, <2>4
<1>4. CASE Directory!Prune
  <2>1. PICK o \in Object : op.object = o BY <1>4 DEF Directory!Prune
  <2>2. records[o] \in Seq(Content) OBVIOUS
  <2>3. records'[o] \in Seq(Content)
    BY <1>4, <2>1, <2>2, LastOnes DEF Directory!Prune
  <2> QED BY <1>4, <2>1, <2>3 DEF Directory!Prune
<1>5. ASSUME NEW o \in Object, Directory!BeginDelete(o) PROVE Directory!TypeOK' /\ OpNames'
  BY <1>5 DEF Directory!BeginDelete
<1>6. ASSUME NEW o \in Object, Directory!DeleteNext(o) PROVE Directory!TypeOK' /\ OpNames'
  BY <1>6 DEF Directory!DeleteNext
<1>7. CASE Directory!RemoveFile
  <2>1. /\ op.object \in Object
        /\ file' = [file EXCEPT ![op.object] = None]
        /\ op' = [op EXCEPT !.at = "forget"]
        /\ UNCHANGED <<records, litter, listed, cuts, torn>>
    BY <1>7 DEF Directory!RemoveFile
  <2> QED BY <2>1
<1>8. CASE Directory!Forget BY <1>8 DEF Directory!Forget
<1>9. ASSUME NEW crash \in BOOLEAN, Directory!CutShort(crash) PROVE Directory!TypeOK' /\ OpNames'
  <2>1. op.at \in {"record", "forget"} => op.object \in Object OBVIOUS
  <2>2. torn' \subseteq Object BY <1>9, <2>1 DEF Directory!CutShort
  <2>3. cuts' \in 0 .. MaxCuts /\ litter' \in 0 .. MaxCuts /\ litter' <= cuts'
    BY <1>9 DEF Directory!CutShort
  <2>4. op' = Directory!Idle /\ listed' \in {None} \cup SUBSET Object
          /\ UNCHANGED <<file, records>>
    BY <1>9 DEF Directory!CutShort
  <2> QED BY <2>2, <2>3, <2>4
<1>10. CASE Directory!ListForDelete BY <1>10 DEF Directory!ListForDelete, Directory!Listed
<1>11. CASE Directory!DeletedAll BY <1>11 DEF Directory!DeletedAll
<1>12. CASE UNCHANGED Directory!vars BY <1>12 DEF Directory!vars
<1> QED BY <1>1, <1>2, <1>3, <1>4, <1>5, <1>6, <1>7, <1>8, <1>9, <1>10, <1>11, <1>12
    DEF Directory!Next

(* The revision depends on the object's file and records alone. *)
LEMMA SameRevision ==
  ASSUME NEW o \in Object, file'[o] = file[o], records'[o] = records[o]
  PROVE  Directory!Revision(o)' = Directory!Revision(o)
BY DEF Directory!Revision, Directory!Latest

(* Every step keeps what a Put or Delete that is halfway has done. *)
LEMMA HalfwayKeeps ==
  ASSUME StorageConstants, Directory!TypeOK, OpNames, Halfway, [Directory!Next]_(Directory!vars)
  PROVE  Halfway'
<1> USE DEF Halfway, Directory!TypeOK, OpNames
<1>1. ASSUME NEW o \in Object, NEW c \in Content, NEW expected \in Content \cup {None},
             Directory!BeginPut(o, c, expected)
      PROVE  Halfway'
  BY <1>1 DEF Directory!BeginPut
<1>2. CASE Directory!WriteFile BY <1>2 DEF Directory!WriteFile
<1>3. CASE Directory!Record BY <1>3 DEF Directory!Record
<1>4. CASE Directory!Prune BY <1>4 DEF Directory!Prune, Directory!Idle
<1>5. ASSUME NEW o \in Object, Directory!BeginDelete(o) PROVE Halfway' BY <1>5
    DEF Directory!BeginDelete, Directory!Idle
<1>6. ASSUME NEW o \in Object, Directory!DeleteNext(o) PROVE Halfway' BY <1>6
    DEF Directory!DeleteNext, Directory!Idle
<1>7. CASE Directory!RemoveFile BY <1>7 DEF Directory!RemoveFile
<1>8. CASE Directory!Forget BY <1>8 DEF Directory!Forget, Directory!Idle
<1>9. ASSUME NEW crash \in BOOLEAN, Directory!CutShort(crash) PROVE Halfway' BY <1>9
    DEF Directory!CutShort, Directory!Idle
<1>10. CASE Directory!ListForDelete BY <1>10 DEF Directory!ListForDelete
<1>11. CASE Directory!DeletedAll BY <1>11 DEF Directory!DeletedAll
<1>12. CASE UNCHANGED Directory!vars BY <1>12 DEF Directory!vars
<1> QED BY <1>1, <1>2, <1>3, <1>4, <1>5, <1>6, <1>7, <1>8, <1>9, <1>10, <1>11, <1>12
    DEF Directory!Next

(* Every step keeps the revisions right. *)
LEMMA MendedKeeps ==
  ASSUME StorageConstants, Directory!TypeOK, OpNames, Halfway, Mended,
         [Directory!Next]_(Directory!vars)
  PROVE  Mended'
<1> SUFFICES ASSUME NEW o \in Object, o \notin torn', ~Busy(o, {"record", "forget"})'
             PROVE  Directory!Revision(o)' = file'[o]
  BY DEF Mended
<1>a. ASSUME file'[o] = file[o], records'[o] = records[o], o \notin torn,
             ~Busy(o, {"record", "forget"})
      PROVE  Directory!Revision(o)' = file'[o]
  BY <1>a, SameRevision DEF Mended
<1> USE DEF StorageConstants
<1>1. ASSUME NEW x \in Object, NEW c \in Content, NEW expected \in Content \cup {None},
             Directory!BeginPut(x, c, expected)
      PROVE  Directory!Revision(o)' = file'[o]
  BY <1>1, <1>a DEF Directory!BeginPut, Busy, Directory!Idle
<1>2. CASE Directory!WriteFile
  <2>1. o # op.object BY <1>2 DEF Directory!WriteFile, Busy, Directory!TypeOK
  <2>2. file'[o] = file[o] BY <1>2, <2>1 DEF Directory!WriteFile, Directory!TypeOK
  <2> QED BY <1>2, <2>1, <2>2, <1>a DEF Directory!WriteFile, Busy
<1>3. CASE Directory!Record
  <2>1. CASE o = op.object
    <3> DEFINE c == op.content
    <3>1. records[o] \in Seq(Content) /\ c \in Content
      BY <1>3 DEF Directory!Record, Directory!TypeOK, OpNames
    <3>2. records'[o] = Append(records[o], c) BY <1>3, <2>1 DEF Directory!Record, Directory!TypeOK
    <3>3. records'[o] # << >> /\ records'[o][Len(records'[o])] = c
      BY <3>1, <3>2
    <3>4. file'[o] = c BY <1>3, <2>1 DEF Directory!Record, Halfway
    <3> QED BY <3>1, <3>3, <3>4 DEF Directory!Revision, Directory!Latest
  <2>2. CASE o # op.object
    <3>1. records'[o] = records[o] /\ o \notin torn /\ file'[o] = file[o]
      BY <1>3, <2>2 DEF Directory!Record, Directory!TypeOK
    <3> QED BY <2>2, <3>1, <1>a DEF Busy
  <2> QED BY <2>1, <2>2
<1>4. CASE Directory!Prune
  <2>1. o \notin torn /\ ~Busy(o, {"record", "forget"}) /\ file'[o] = file[o]
    BY <1>4 DEF Directory!Prune, Busy
  <2>2. CASE o = op.object /\ Len(records[o]) > MaxHistory
    <3> DEFINE all == records[o]
    <3>1. all \in Seq(Content) BY DEF Directory!TypeOK
    <3>2. records'[o] = SubSeq(all, Len(all) + 1 - MaxHistory, Len(all))
      BY <1>4, <2>2 DEF Directory!Prune, Directory!TypeOK
    <3>3. records'[o] # << >> /\ records'[o][Len(records'[o])] = all[Len(all)] /\ all # << >>
      BY <2>2, <3>1, <3>2, LastOnes
    <3>4. Directory!Revision(o) = file[o] BY <2>1 DEF Mended
    <3> QED BY <2>1, <3>3, <3>4 DEF Directory!Revision, Directory!Latest
  <2>3. CASE ~(o = op.object /\ Len(records[o]) > MaxHistory)
    <3>1. records'[o] = records[o] BY <1>4, <2>3 DEF Directory!Prune, Directory!TypeOK
    <3> QED BY <2>1, <3>1, <1>a
  <2> QED BY <2>2, <2>3
<1>5. ASSUME NEW x \in Object, Directory!BeginDelete(x) PROVE Directory!Revision(o)' = file'[o]
  BY <1>5, <1>a DEF Directory!BeginDelete, Busy, Directory!Idle
<1>6. ASSUME NEW x \in Object, Directory!DeleteNext(x) PROVE Directory!Revision(o)' = file'[o]
  BY <1>6, <1>a DEF Directory!DeleteNext, Busy, Directory!Idle
<1>7. CASE Directory!RemoveFile
  <2>1. o # op.object BY <1>7 DEF Directory!RemoveFile, Busy, Directory!TypeOK
  <2>2. file'[o] = file[o] BY <1>7, <2>1 DEF Directory!RemoveFile, Directory!TypeOK
  <2> QED BY <1>7, <2>1, <2>2, <1>a DEF Directory!RemoveFile, Busy
<1>8. CASE Directory!Forget
  <2>1. CASE o = op.object
    BY <1>8, <2>1 DEF Directory!Forget, Halfway, Directory!Revision, Directory!Latest,
      Directory!TypeOK
  <2>2. CASE o # op.object
    <3>1. records'[o] = records[o] /\ o \notin torn /\ file'[o] = file[o]
      BY <1>8, <2>2 DEF Directory!Forget, Directory!TypeOK
    <3> QED BY <2>2, <3>1, <1>a DEF Busy
  <2> QED BY <2>1, <2>2
<1>9. ASSUME NEW crash \in BOOLEAN, Directory!CutShort(crash)
      PROVE  Directory!Revision(o)' = file'[o]
  BY <1>9, <1>a DEF Directory!CutShort, Busy
<1>10. CASE Directory!ListForDelete BY <1>10, <1>a DEF Directory!ListForDelete, Busy
<1>11. CASE Directory!DeletedAll BY <1>11, <1>a DEF Directory!DeletedAll, Busy
<1>12. CASE UNCHANGED Directory!vars BY <1>12, <1>a DEF Directory!vars, Busy
<1> QED BY <1>1, <1>2, <1>3, <1>4, <1>5, <1>6, <1>7, <1>8, <1>9, <1>10, <1>11, <1>12
    DEF Directory!Next

(* Every step keeps the histories short, while nothing was cut. *)
LEMMA BoundedKeeps ==
  ASSUME StorageConstants, Directory!TypeOK, OpNames, Bounded, [Directory!Next]_(Directory!vars)
  PROVE  Bounded'
<1> SUFFICES ASSUME NEW o \in Object, cuts' = 0
             PROVE  \/ Len(records'[o]) <= MaxHistory
                    \/ Busy(o, {"prune"})' /\ Len(records'[o]) = MaxHistory + 1
  BY DEF Bounded
<1> DEFINE Goal == \/ Len(records'[o]) <= MaxHistory
                   \/ Busy(o, {"prune"})' /\ Len(records'[o]) = MaxHistory + 1
<1> USE DEF StorageConstants
<1>a. ASSUME records'[o] = records[o], cuts = 0, ~Busy(o, {"prune"}) PROVE Goal
  BY <1>a DEF Bounded
<1>1. ASSUME NEW x \in Object, NEW c \in Content, NEW expected \in Content \cup {None},
             Directory!BeginPut(x, c, expected)
      PROVE  Goal
  BY <1>1, <1>a DEF Directory!BeginPut, Busy, Directory!Idle
<1>2. CASE Directory!WriteFile BY <1>2, <1>a DEF Directory!WriteFile, Busy
<1>3. CASE Directory!Record
  <2>1. ~Busy(o, {"prune"}) /\ cuts = 0 BY <1>3 DEF Directory!Record, Busy
  <2>2. records[o] \in Seq(Content) /\ Len(records[o]) <= MaxHistory
    BY <2>1 DEF Bounded, Directory!TypeOK
  <2>3. CASE o = op.object
    <3>1. records'[o] = Append(records[o], op.content) /\ Busy(o, {"prune"})'
      BY <1>3, <2>3 DEF Directory!Record, Directory!TypeOK, Busy
    <3>2. op.content \in Content BY <1>3 DEF Directory!Record, OpNames
    <3> QED BY <2>2, <3>1, <3>2
  <2>4. CASE o # op.object
    BY <1>3, <2>1, <2>4, <1>a DEF Directory!Record, Directory!TypeOK
  <2> QED BY <2>3, <2>4
<1>4. CASE Directory!Prune
  <2>1. records[o] \in Seq(Content) BY DEF Directory!TypeOK
  <2>2. CASE o = op.object /\ Len(records[o]) > MaxHistory
    <3>1. records'[o] = SubSeq(records[o], Len(records[o]) + 1 - MaxHistory, Len(records[o]))
      BY <1>4, <2>2 DEF Directory!Prune, Directory!TypeOK
    <3> QED BY <2>1, <2>2, <3>1, LastOnes
  <2>3. CASE o = op.object /\ ~(Len(records[o]) > MaxHistory)
    <3>1. records'[o] = records[o] BY <1>4, <2>3 DEF Directory!Prune, Directory!TypeOK
    <3> QED BY <2>1, <2>3, <3>1
  <2>4. CASE o # op.object
    <3>1. records'[o] = records[o] /\ cuts = 0 BY <1>4, <2>4 DEF Directory!Prune, Directory!TypeOK
    <3> QED BY <2>4, <3>1, <1>a DEF Busy
  <2> QED BY <2>2, <2>3, <2>4
<1>5. ASSUME NEW x \in Object, Directory!BeginDelete(x) PROVE Goal
  BY <1>5, <1>a DEF Directory!BeginDelete, Busy, Directory!Idle
<1>6. ASSUME NEW x \in Object, Directory!DeleteNext(x) PROVE Goal
  BY <1>6, <1>a DEF Directory!DeleteNext, Busy, Directory!Idle
<1>7. CASE Directory!RemoveFile BY <1>7, <1>a DEF Directory!RemoveFile, Busy
<1>8. CASE Directory!Forget
  <2>1. CASE o = op.object
    <3>1. records'[o] = << >> BY <1>8, <2>1 DEF Directory!Forget, Directory!TypeOK
    <3> QED BY <3>1
  <2>2. CASE o # op.object
    BY <1>8, <2>2, <1>a DEF Directory!Forget, Directory!TypeOK, Busy
  <2> QED BY <2>1, <2>2
<1>9. ASSUME NEW crash \in BOOLEAN, Directory!CutShort(crash) PROVE Goal
  BY <1>9 DEF Directory!CutShort, Directory!TypeOK
<1>10. CASE Directory!ListForDelete BY <1>10, <1>a DEF Directory!ListForDelete, Busy,
    Directory!Idle
<1>11. CASE Directory!DeletedAll BY <1>11, <1>a DEF Directory!DeletedAll, Busy, Directory!Idle
<1>12. CASE UNCHANGED Directory!vars BY <1>12 DEF Directory!vars, Busy, Bounded
<1> QED BY <1>1, <1>2, <1>3, <1>4, <1>5, <1>6, <1>7, <1>8, <1>9, <1>10, <1>11, <1>12
    DEF Directory!Next

(* Every step keeps that a Put names what it replaces: it was compared     *)
(* with the revision, which was that of the content.                       *)
LEMMA NamesKeep ==
  ASSUME StorageConstants, Directory!TypeOK, Mended, Directory!ReplacesWhatItNames,
         [Directory!Next]_(Directory!vars)
  PROVE  Directory!ReplacesWhatItNames'
<1> USE DEF Directory!ReplacesWhatItNames, Directory!TypeOK
<1>1. ASSUME NEW o \in Object, NEW c \in Content, NEW expected \in Content \cup {None},
             Directory!BeginPut(o, c, expected)
      PROVE  Directory!ReplacesWhatItNames'
  <2>1. ~Busy(o, {"record", "forget"}) BY <1>1 DEF Directory!BeginPut, Busy, Directory!Idle
  <2>2. o \notin torn => Directory!Revision(o) = file[o] BY <2>1 DEF Mended
  <2> QED BY <1>1, <2>2 DEF Directory!BeginPut
<1>2. CASE Directory!WriteFile BY <1>2 DEF Directory!WriteFile
<1>3. CASE Directory!Record BY <1>3 DEF Directory!Record
<1>4. CASE Directory!Prune BY <1>4 DEF Directory!Prune, Directory!Idle
<1>5. ASSUME NEW o \in Object, Directory!BeginDelete(o) PROVE Directory!ReplacesWhatItNames'
  BY <1>5 DEF Directory!BeginDelete, Directory!Idle
<1>6. ASSUME NEW o \in Object, Directory!DeleteNext(o) PROVE Directory!ReplacesWhatItNames'
  BY <1>6 DEF Directory!DeleteNext, Directory!Idle
<1>7. CASE Directory!RemoveFile BY <1>7 DEF Directory!RemoveFile
<1>8. CASE Directory!Forget BY <1>8 DEF Directory!Forget, Directory!Idle
<1>9. ASSUME NEW crash \in BOOLEAN, Directory!CutShort(crash) PROVE Directory!ReplacesWhatItNames'
  BY <1>9 DEF Directory!CutShort, Directory!Idle
<1>10. CASE Directory!ListForDelete BY <1>10 DEF Directory!ListForDelete, Directory!Idle
<1>11. CASE Directory!DeletedAll BY <1>11 DEF Directory!DeletedAll, Directory!Idle
<1>12. CASE UNCHANGED Directory!vars BY <1>12 DEF Directory!vars
<1> QED BY <1>1, <1>2, <1>3, <1>4, <1>5, <1>6, <1>7, <1>8, <1>9, <1>10, <1>11, <1>12
    DEF Directory!Next

-----------------------------------------------------------------------------
(* The three facts about the invariant. *)
LEMMA DirectoryBegins ==
  ASSUME StorageConstants
  PROVE  Directory!Init => DirectoryInv
<1> SUFFICES ASSUME Directory!Init PROVE DirectoryInv OBVIOUS
<1> USE DEF Directory!Init, StorageConstants, Directory!Idle
<1>1. Directory!TypeOK BY DEF Directory!TypeOK
<1>2. OpNames /\ Halfway /\ Bounded /\ Directory!ReplacesWhatItNames
  BY DEF OpNames, Halfway, Bounded, Directory!ReplacesWhatItNames
<1>3. Mended BY DEF Mended, Directory!Revision, Directory!Latest
<1> QED BY <1>1, <1>2, <1>3 DEF DirectoryInv

(* It holds of every behaviour. *)
LEMMA DirectoryInvHolds ==
  ASSUME StorageConstants
  PROVE  Directory!Spec => []DirectoryInv
<1>1. Directory!Init => DirectoryInv BY DirectoryBegins
<1>2. ASSUME DirectoryInv, [Directory!Next]_(Directory!vars) PROVE DirectoryInv'
  <2> USE <1>2 DEF DirectoryInv
  <2>1. Directory!TypeOK' /\ OpNames' BY DirectoryTypes
  <2>2. Halfway' /\ Mended' BY HalfwayKeeps, MendedKeeps
  <2>3. Bounded' /\ Directory!ReplacesWhatItNames' BY BoundedKeeps, NamesKeep
  <2> QED BY <2>1, <2>2, <2>3
<1> QED BY <1>1, <1>2, PTL DEF Directory!Spec

(* localfs.go, Put, Delete and statLocked: whatever was put and deleted,   *)
(* and wherever it was cut short, the revision told of an object is that   *)
(* of its content, and its history ends with it, unless the last operation *)
(* on that very object was cut short; and a Put or Delete that names a     *)
(* revision replaces the very content it names, so nothing is lost to it.  *)
THEOREM DirectoryIsTrue == Directory!Spec => []DirectoryKeeps
<1>1. ASSUME DirectoryInv PROVE Directory!RevisionIsOfContent
  <2> SUFFICES ASSUME op = Directory!Idle, NEW o \in Object \ torn
               PROVE  /\ Directory!Get(o).revision = Directory!Get(o).content
                      /\ Directory!Revisions(o) # << >> =>
                           Directory!Revisions(o)[Len(Directory!Revisions(o))]
                             = Directory!Get(o).content
                      /\ cuts = 0 => Len(Directory!Revisions(o)) <= MaxHistory
    BY DEF Directory!RevisionIsOfContent
  <2>1. ~Busy(o, {"record", "forget"}) /\ ~Busy(o, {"prune"}) BY DEF Busy, Directory!Idle
  <2>2. Directory!Revision(o) = file[o] BY <1>1, <2>1 DEF DirectoryInv, Mended
  <2>3. records[o] \in Seq(Content) /\ (cuts = 0 => Len(records[o]) <= MaxHistory)
    BY <1>1, <2>1 DEF DirectoryInv, Directory!TypeOK, Bounded
  <2>4. CASE file[o] = None
    BY <2>2, <2>4, PartsAssumption DEF Directory!Get, Directory!Revisions, StorageConstants
  <2>5. CASE file[o] # None
    <3>1. records[o] # << >> => records[o][Len(records[o])] = file[o]
      BY <2>2, <2>3, <2>5, PartsAssumption DEF Directory!Revision, Directory!Latest,
          StorageConstants
    <3> QED BY <2>2, <2>3, <2>5, <3>1 DEF Directory!Get, Directory!Revisions
  <2> QED BY <2>4, <2>5
<1>2. DirectoryInv => DirectoryKeeps BY <1>1 DEF DirectoryInv, DirectoryKeeps
<1> QED BY <1>2, PartsAssumption, DirectoryInvHolds, PTL

-----------------------------------------------------------------------------
(* The bucket: requests take turns with each other between any two calls.  *)

(* What a request puts is a content, and was the object's once it is past  *)
(* the put; of the sidecar nothing is read or written that was not.        *)
PutsAreStored ==
  /\ \A r \in Writer :
       /\ at[r] \in {"head", "put", "load", "save"} => arg[r].content \in Content
       /\ at[r] \in {"load", "save"} => arg[r].content \in stored
       /\ \A i \in DOMAIN loaded[r] : loaded[r][i] \in stored
  /\ \A i \in DOMAIN sidecar : sidecar[i] \in stored

(* While no two requests have met, one is under way at most, *)
Alone ==
  ~overlapped => \A q, r \in Writer : at[q] # "idle" /\ at[r] # "idle" => q = r

(* the history ends with the object's own revision, *)
EndsWithObject ==
  IF object = None THEN sidecar = << >> ELSE sidecar # << >> /\ sidecar[Len(sidecar)] = object

(* but for the request that has changed one of the two and not the other.  *)
Ended ==
  ~overlapped /\ ~failed =>
    \/ EndsWithObject /\ \A r \in Writer : at[r] \notin {"load", "save", "drop"}
    \/ \E r \in Writer : \/ at[r] \in {"load", "save"} /\ arg[r].content = object
                         \/ at[r] = "drop" /\ object = None

BucketInv == Bucket!TypeOK /\ PutsAreStored /\ Alone /\ Ended

-----------------------------------------------------------------------------
(* What is recorded is a history that ends with what was put. *)
LEMMA RecordedIs ==
  ASSUME StorageConstants, Bucket!TypeOK, NEW r \in Writer, arg[r].content \in Content
  PROVE  /\ Bucket!Recorded(r) \in Seq(Content) /\ Len(Bucket!Recorded(r)) <= MaxHistory
         /\ Bucket!Recorded(r) # << >>
              /\ Bucket!Recorded(r)[Len(Bucket!Recorded(r))] = arg[r].content
         /\ \A i \in DOMAIN Bucket!Recorded(r) :
              Bucket!Recorded(r)[i] = arg[r].content
                \/ \E j \in DOMAIN loaded[r] : Bucket!Recorded(r)[i] = loaded[r][j]
<1> DEFINE all == Append(loaded[r], arg[r].content)
<1>1. loaded[r] \in Seq(Content) BY DEF Bucket!TypeOK
<1>2. /\ all \in Seq(Content) /\ all # << >> /\ Len(all) = Len(loaded[r]) + 1
      /\ all[Len(all)] = arg[r].content /\ Len(all) \in Nat
      /\ \A j \in DOMAIN all : all[j] = arg[r].content
           \/ \E k \in DOMAIN loaded[r] : all[j] = loaded[r][k]
  BY <1>1, AppendProperties
<1> HIDE DEF all
<1>3. CASE Len(all) > MaxHistory
  <2>1. Bucket!Recorded(r) = SubSeq(all, Len(all) + 1 - MaxHistory, Len(all)) BY <1>3
      DEF Bucket!Recorded, all
  <2>2. /\ Bucket!Recorded(r) \in Seq(Content) /\ Len(Bucket!Recorded(r)) = MaxHistory
        /\ Bucket!Recorded(r)[Len(Bucket!Recorded(r))] = all[Len(all)]
        /\ \A i \in DOMAIN Bucket!Recorded(r) : \E j \in DOMAIN all :
             Bucket!Recorded(r)[i] = all[j]
    <3>1. MaxHistory \in Nat \ {0} BY DEF StorageConstants
    <3>2. LET t == SubSeq(all, Len(all) + 1 - MaxHistory, Len(all))
          IN  /\ t \in Seq(Content) /\ Len(t) = MaxHistory /\ t[Len(t)] = all[Len(all)]
              /\ \A i \in DOMAIN t : \E j \in DOMAIN all : t[i] = all[j]
      BY <1>2, <1>3, <3>1, LastOnes
    <3> QED BY <2>1, <3>2
  <2>3. Bucket!Recorded(r) # << >> BY <2>2 DEF StorageConstants
  <2> QED BY <1>2, <2>2, <2>3 DEF StorageConstants
<1>4. CASE ~ Len(all) > MaxHistory
  <2>1. Bucket!Recorded(r) = all BY <1>4 DEF Bucket!Recorded, all
  <2>2. Len(all) <= MaxHistory BY <1>2, <1>4 DEF StorageConstants
  <2> QED BY <1>2, <2>1, <2>2
<1> QED BY <1>3, <1>4

(* Every step keeps the invariant. *)
LEMMA BucketStepKeeps ==
  ASSUME StorageConstants, BucketInv, [Bucket!Next]_(Bucket!vars)
  PROVE  BucketInv'
<1> USE DEF StorageConstants
<1>1. ASSUME NEW r \in Writer, NEW to \in {"head", "put", "look"}, Bucket!Begin(r, to),
             arg' = arg \/ (\E c \in Content, expected \in Content \cup {None} :
                                arg' = [arg EXCEPT ![r] = [content |-> c, named |-> expected]]),
             to # "look" => arg'[r].content \in Content
      PROVE  BucketInv'
  <2>1. Bucket!TypeOK'
    <3>1. overlapped' \in BOOLEAN BY <1>1, Zenon DEF Bucket!Begin
    <3>2. failed' \in BOOLEAN BY <1>1 DEF BucketInv, Bucket!TypeOK, Bucket!Begin
    <3>3. at' \in [Writer -> {"idle", "head", "put", "load", "save", "look", "delete", "drop"}]
      BY <1>1 DEF BucketInv, Bucket!TypeOK, Bucket!Begin, Bucket!Goes
    <3>4. arg' \in [Writer -> [content : Content \cup {None}, named : Content \cup {None}]]
      <4>1. CASE arg' = arg BY <4>1 DEF BucketInv, Bucket!TypeOK
      <4>2. ASSUME NEW c \in Content, NEW expected \in Content \cup {None},
                   arg' = [arg EXCEPT ![r] = [content |-> c, named |-> expected]]
            PROVE  arg' \in [Writer -> [content : Content \cup {None}, named :
                         Content \cup {None}]]
        BY <4>2 DEF BucketInv, Bucket!TypeOK
      <4> QED BY <1>1, <4>1, <4>2
    <3> QED BY <1>1, <3>1, <3>2, <3>3, <3>4 DEF BucketInv, Bucket!TypeOK, Bucket!Begin
  <2>2. PutsAreStored' BY <1>1 DEF BucketInv, Bucket!TypeOK, PutsAreStored, Bucket!Begin,
      Bucket!Goes
  <2>3. Alone' BY <1>1 DEF BucketInv, Bucket!TypeOK, Alone, Bucket!Begin, Bucket!Goes
  <2>4. Ended' BY <1>1 DEF BucketInv, Bucket!TypeOK, Ended, EndsWithObject, Bucket!Begin,
      Bucket!Goes
  <2> QED BY <2>1, <2>2, <2>3, <2>4 DEF BucketInv
<1>2. ASSUME NEW r \in Writer, NEW c \in Content, NEW expected \in Content \cup {None},
             Bucket!BeginPut(r, c, expected)
      PROVE  BucketInv'
  <2>1. arg' = [arg EXCEPT ![r] = [content |-> c, named |-> expected]] /\ arg'[r].content \in Content
    BY <1>2 DEF Bucket!BeginPut, BucketInv, Bucket!TypeOK
  <2>2. CASE expected = None BY <1>1, <1>2, <2>1, <2>2 DEF Bucket!BeginPut
  <2>3. CASE expected # None BY <1>1, <1>2, <2>1, <2>3 DEF Bucket!BeginPut
  <2> QED BY <2>2, <2>3
<1>3. ASSUME NEW r \in Writer, Bucket!BeginDelete(r) PROVE BucketInv'
  BY <1>1, <1>3 DEF Bucket!BeginDelete
<1>n. Bucket!NoArg \in [content : Content \cup {None}, named : Content \cup {None}]
    BY DEF Bucket!NoArg
<1>4. ASSUME NEW r \in Writer, Bucket!HeadObject(r) PROVE BucketInv'
  <2>0. \/ Bucket!Goes(r, "put") /\ UNCHANGED arg
        \/ Bucket!Goes(r, "idle") /\ arg' = [arg EXCEPT ![r] = Bucket!NoArg]
    BY <1>4 DEF Bucket!HeadObject
  <2>1. Bucket!TypeOK'
    <3>1. arg' \in [Writer -> [content : Content \cup {None}, named : Content \cup {None}]]
      BY <1>n, <2>0 DEF BucketInv, Bucket!TypeOK
    <3>2. at' \in [Writer -> {"idle", "head", "put", "load", "save", "look", "delete", "drop"}]
      BY <2>0 DEF Bucket!Goes, BucketInv, Bucket!TypeOK
    <3> QED BY <1>4, <3>1, <3>2 DEF Bucket!HeadObject, BucketInv, Bucket!TypeOK
  <2>2. PutsAreStored' BY <1>4, <2>0 DEF Bucket!HeadObject, Bucket!Goes, BucketInv, Bucket!TypeOK,
      PutsAreStored
  <2>3. Alone' BY <1>4, <2>0 DEF Bucket!HeadObject, Bucket!Goes, BucketInv, Bucket!TypeOK, Alone
  <2>4. Ended' BY <1>4, <2>0 DEF Bucket!HeadObject, Bucket!Goes, BucketInv, Bucket!TypeOK, Ended,
      EndsWithObject
  <2> QED BY <2>1, <2>2, <2>3, <2>4 DEF BucketInv
<1>5. ASSUME NEW r \in Writer, Bucket!PutObject(r) PROVE BucketInv'
  <2>1. CASE Bucket!Accepts(r)
    <3>0. arg[r].content \in Content BY <1>5 DEF BucketInv, PutsAreStored, Bucket!PutObject
    <3>1. Bucket!TypeOK'
      <4>1. writes' \in 0 .. MaxWrites BY <1>5, <2>1 DEF Bucket!PutObject, BucketInv, Bucket!TypeOK
      <4> QED BY <1>5, <2>1, <3>0, <4>1 DEF Bucket!PutObject, Bucket!Goes, BucketInv, Bucket!TypeOK
    <3>2. PutsAreStored' BY <1>5, <2>1, <3>0 DEF Bucket!PutObject, Bucket!Goes, BucketInv,
        Bucket!TypeOK, PutsAreStored
    <3>3. Alone' BY <1>5, <2>1 DEF Bucket!PutObject, Bucket!Goes, BucketInv, Bucket!TypeOK, Alone
    <3>4. at'[r] = "load" /\ arg'[r].content = object'
      BY <1>5, <2>1 DEF Bucket!PutObject, Bucket!Goes, BucketInv, Bucket!TypeOK
    <3>5. Ended' BY <3>4 DEF Ended
    <3> QED BY <3>1, <3>2, <3>3, <3>5 DEF BucketInv
  <2>2. CASE ~Bucket!Accepts(r)
    <3>0. /\ at[r] = "put" /\ at' = [at EXCEPT ![r] = "idle"]
               /\ arg' = [arg EXCEPT ![r] = Bucket!NoArg]
          /\ UNCHANGED <<object, writes, stored, sidecar, loaded, overlapped, failed>>
      BY <1>5, <2>2 DEF Bucket!PutObject, Bucket!Goes
    <3>1. Bucket!TypeOK' BY <1>n, <3>0 DEF BucketInv, Bucket!TypeOK
    <3>2. PutsAreStored' BY <3>0 DEF BucketInv, Bucket!TypeOK, PutsAreStored
    <3>3. Alone' BY <3>0 DEF BucketInv, Bucket!TypeOK, Alone
    <3>4. Ended' BY <3>0 DEF BucketInv, Bucket!TypeOK, Ended, EndsWithObject
    <3> QED BY <3>1, <3>2, <3>3, <3>4 DEF BucketInv
  <2> QED BY <2>1, <2>2
<1>6. ASSUME NEW r \in Writer, Bucket!LoadSidecar(r) PROVE BucketInv'
  <2>1. Bucket!TypeOK'
    <3>1. PICK recorded \in {sidecar, << >>} : loaded' = [loaded EXCEPT ![r] = recorded]
      BY <1>6 DEF Bucket!LoadSidecar
    <3>2. recorded \in Seq(Content)
      <4>1. sidecar \in Seq(Content) /\ << >> \in Seq(Content) BY DEF BucketInv, Bucket!TypeOK
      <4> QED BY <3>1, <4>1
    <3> QED BY <1>6, <3>1, <3>2 DEF Bucket!LoadSidecar, Bucket!Goes, BucketInv, Bucket!TypeOK
  <2>2. PutsAreStored' BY <1>6 DEF Bucket!LoadSidecar, Bucket!Goes, BucketInv, Bucket!TypeOK,
      PutsAreStored
  <2>3. Alone' BY <1>6 DEF Bucket!LoadSidecar, Bucket!Goes, BucketInv, Bucket!TypeOK, Alone
  <2>4. Ended' BY <1>6 DEF Bucket!LoadSidecar, Bucket!Goes, BucketInv, Bucket!TypeOK, Ended, Alone
  <2> QED BY <2>1, <2>2, <2>3, <2>4 DEF BucketInv
<1>7. ASSUME NEW r \in Writer, Bucket!SaveSidecar(r) PROVE BucketInv'
  <2>0. arg[r].content \in Content /\ arg[r].content \in stored
    BY <1>7 DEF BucketInv, PutsAreStored, Bucket!SaveSidecar
  <2>5. sidecar' = Bucket!Recorded(r) BY <1>7 DEF Bucket!SaveSidecar
  <2>6. /\ Bucket!Recorded(r) \in Seq(Content) /\ Len(Bucket!Recorded(r)) <= MaxHistory
        /\ Bucket!Recorded(r) # << >>
             /\ Bucket!Recorded(r)[Len(Bucket!Recorded(r))] = arg[r].content
        /\ \A i \in DOMAIN Bucket!Recorded(r) : Bucket!Recorded(r)[i] \in stored
    BY <2>0, RecordedIs DEF BucketInv, PutsAreStored
  <2>1. Bucket!TypeOK' BY <1>7, <1>n, <2>5, <2>6 DEF Bucket!SaveSidecar, Bucket!Goes, BucketInv,
      Bucket!TypeOK
  <2>2. PutsAreStored'
    BY <1>7, <2>5, <2>6 DEF Bucket!SaveSidecar, Bucket!Goes, Bucket!NoArg, BucketInv,
      Bucket!TypeOK, PutsAreStored
  <2>3. Alone' BY <1>7 DEF Bucket!SaveSidecar, Bucket!Goes, BucketInv, Bucket!TypeOK, Alone
  <2>4. Ended'
    <3> SUFFICES ASSUME ~overlapped, ~failed PROVE Ended' BY <1>7 DEF Ended, Bucket!SaveSidecar
    <3>1. at[r] = "save" /\ \A q \in Writer : at[q] # "idle" => q = r
      BY <1>7 DEF BucketInv, Alone, Bucket!SaveSidecar
    <3>2. arg[r].content = object /\ object # None
      BY <2>0, <3>1 DEF BucketInv, Ended
    <3>3. EndsWithObject' BY <1>7, <2>5, <2>6, <3>2 DEF EndsWithObject, Bucket!SaveSidecar
    <3>4. \A q \in Writer : at'[q] = "idle"
      BY <1>7, <3>1 DEF Bucket!SaveSidecar, Bucket!Goes, BucketInv, Bucket!TypeOK
    <3> QED BY <3>3, <3>4 DEF Ended
  <2> QED BY <2>1, <2>2, <2>3, <2>4 DEF BucketInv
<1>8. ASSUME NEW r \in Writer, Bucket!Look(r) PROVE BucketInv'
  BY <1>8 DEF Bucket!Look, Bucket!Goes, BucketInv, Bucket!TypeOK, PutsAreStored, Alone, Ended,
    EndsWithObject
<1>9. ASSUME NEW r \in Writer, Bucket!DeleteObject(r) PROVE BucketInv'
  <2>1. Bucket!TypeOK' BY <1>9 DEF Bucket!DeleteObject, Bucket!Goes, BucketInv, Bucket!TypeOK
  <2>2. PutsAreStored' BY <1>9 DEF Bucket!DeleteObject, Bucket!Goes, BucketInv, Bucket!TypeOK,
      PutsAreStored
  <2>3. Alone' BY <1>9 DEF Bucket!DeleteObject, Bucket!Goes, BucketInv, Bucket!TypeOK, Alone
  <2>4. at'[r] = "drop" /\ object' = None BY <1>9 DEF Bucket!DeleteObject, Bucket!Goes, BucketInv,
      Bucket!TypeOK
  <2>5. Ended' BY <2>4 DEF Ended
  <2> QED BY <2>1, <2>2, <2>3, <2>5 DEF BucketInv
<1>10. ASSUME NEW r \in Writer, Bucket!DropSidecar(r) PROVE BucketInv'
  <2>1. Bucket!TypeOK' BY <1>10 DEF Bucket!DropSidecar, Bucket!Goes, BucketInv, Bucket!TypeOK
  <2>2. PutsAreStored' BY <1>10 DEF Bucket!DropSidecar, Bucket!Goes, BucketInv, Bucket!TypeOK,
      PutsAreStored
  <2>3. Alone' BY <1>10 DEF Bucket!DropSidecar, Bucket!Goes, BucketInv, Bucket!TypeOK, Alone
  <2>4. Ended' BY <1>10 DEF Bucket!DropSidecar, Bucket!Goes, BucketInv, Bucket!TypeOK, Alone,
      Ended, EndsWithObject
  <2> QED BY <2>1, <2>2, <2>3, <2>4 DEF BucketInv
<1>11. ASSUME NEW r \in Writer, Bucket!CallFails(r) PROVE BucketInv'
  <2>0. << >> \in Seq(Content) OBVIOUS
  <2>1. Bucket!TypeOK' BY <1>11, <1>n, <2>0 DEF Bucket!CallFails, Bucket!Goes, BucketInv,
      Bucket!TypeOK
  <2>2. PutsAreStored' BY <1>11 DEF Bucket!CallFails, Bucket!Goes, BucketInv, Bucket!TypeOK,
      PutsAreStored
  <2>3. Alone' BY <1>11 DEF Bucket!CallFails, Bucket!Goes, BucketInv, Bucket!TypeOK, Alone
  <2>4. Ended' BY <1>11 DEF Bucket!CallFails, Ended
  <2> QED BY <2>1, <2>2, <2>3, <2>4 DEF BucketInv
<1>12. CASE UNCHANGED Bucket!vars
  BY <1>12 DEF Bucket!vars, BucketInv, Bucket!TypeOK, PutsAreStored, Alone, Ended, EndsWithObject
<1> QED
  BY <1>2, <1>3, <1>4, <1>5, <1>6, <1>7, <1>8, <1>9, <1>10, <1>11, <1>12 DEF Bucket!Next

(* The bucket's invariant holds at first. *)
LEMMA BucketBegins == ASSUME StorageConstants, Bucket!Init PROVE BucketInv
<1> USE DEF StorageConstants, Bucket!Init
<1>1. << >> \in Seq(Content)
        /\ Bucket!NoArg \in [content : Content \cup {None}, named : Content \cup {None}]
  BY DEF Bucket!NoArg
<1>2. Bucket!TypeOK
  <2>1. arg \in [Writer -> [content : Content \cup {None}, named : Content \cup {None}]]
    BY <1>1
  <2>2. loaded \in [Writer -> Seq(Content)] BY <1>1
  <2>3. sidecar \in Seq(Content) /\ Len(sidecar) <= MaxHistory BY <1>1
  <2>4. writes \in 0 .. MaxWrites /\ stored \subseteq Content
          /\ object \in Content \cup {None} OBVIOUS
  <2>5. at \in [Writer -> {"idle", "head", "put", "load", "save", "look", "delete",
              "drop"}] OBVIOUS
  <2> QED BY <2>1, <2>2, <2>3, <2>4, <2>5 DEF Bucket!TypeOK
<1>3. PutsAreStored /\ Alone /\ Ended BY DEF PutsAreStored, Alone, Ended, EndsWithObject
<1> QED BY <1>2, <1>3 DEF BucketInv

(* s3.go: while no two requests have met, whatever call failed, the        *)
(* history tells what the object was, and a put that names a revision      *)
(* replaces that content.                                                  *)
THEOREM StorageIsTrue == Directory!Spec /\ Bucket!Spec => StorageKeeps
<1>1. BucketInv => HistoryIsTrue
  BY DEF BucketInv, PutsAreStored, Ended, EndsWithObject, Bucket!HistoryIsTrue, HistoryIsTrue
<1>2. BucketInv /\ [Bucket!Next]_(Bucket!vars) =>
        [\A r \in Writer : object' # object /\ at[r] = "put" /\ at'[r] = "load" =>
           arg[r].named \in {None, object}]_(Bucket!vars)
  <2> SUFFICES ASSUME BucketInv, Bucket!Next, NEW r \in Writer, object' # object, at[r] = "put",
                      at'[r] = "load"
               PROVE  arg[r].named \in {None, object}
    OBVIOUS
  <2>1. PICK q \in Writer : Bucket!PutObject(q) \/ Bucket!DeleteObject(q)
    BY DEF Bucket!Next, Bucket!BeginPut, Bucket!BeginDelete, Bucket!Begin, Bucket!HeadObject,
      Bucket!LoadSidecar, Bucket!SaveSidecar, Bucket!Look,
           Bucket!DropSidecar, Bucket!CallFails
  <2>2. q = r BY <2>1 DEF Bucket!PutObject, Bucket!DeleteObject, Bucket!Goes, BucketInv,
      Bucket!TypeOK
  <2> QED BY <2>1, <2>2 DEF Bucket!PutObject, Bucket!DeleteObject, Bucket!Accepts, Bucket!Goes,
      BucketInv, Bucket!TypeOK
<1>3. Bucket!Init => BucketInv BY PartsAssumption, BucketBegins
<1>4. BucketInv /\ [Bucket!Next]_(Bucket!vars) => BucketInv' BY PartsAssumption, BucketStepKeeps
<1>5. Directory!Spec => []DirectoryKeeps BY DirectoryIsTrue
<1> QED
  BY <1>1, <1>2, <1>3, <1>4, <1>5, PTL
     DEF StorageKeeps, Bucket!Spec, Bucket!ReplacesWhatItNames

-----------------------------------------------------------------------------
(* The update records.  A row that says an announcement is settled was     *)
(* written by its worker since it joined; pruning keeps the newest of      *)
(* every kind, ties broken by ID.                                          *)

(* An announcer works on an announcement that is stored once it is past    *)
(* the insert.                                                             *)
AnnouncersKnow ==
  /\ inserted \subseteq {a \in Updates!Announcement : announced[a] # None}
  /\ \A p \in Announcer :
       /\ announcerAt[p] # "idle" => id[p] \in Updates!Announcement /\ announced[id[p]] # None
       /\ announcerAt[p] \in {"prune", "tell"} => id[p] \in inserted

(* A row names what was announced; one of a worker of the chart that says  *)
(* an announcement of its kind is settled was written by that worker since *)
(* it joined, unless a delete has still to take the row or has missed it.  *)
RowsAreKnown ==
  /\ \A key \in Addressee \X Kind :
       rows[key] # None /\ rows[key].announcement # None
         => announced[rows[key].announcement] # None
  /\ \A w \in chart \ unclean, k \in Kind :
       LET row == rows[<<w, k>>] IN
       /\ leaving[w] # "rows" /\ row # None /\ row.status \in Updates!Settling
       /\ row.announcement # None /\ announced[row.announcement].kind = k
       => <<w, row.announcement>> \in settled

(* Who is not in the chart has no row once they are deleted, and no app    *)
(* once that is; a request that looked at the chart before the worker left *)
(* it may undo that, and is known.                                         *)
OthersHaveNothing ==
  /\ asking \ chart \subseteq unclean
  /\ \A w \in Addressee \ (chart \cup unclean) :
       /\ leaving[w] # "rows" => \A k \in Kind : rows[<<w, k>>] = None
       /\ leaving[w] = None => w \notin apps

(* A row is about what the last report that named an announcement named;   *)
(* without a row nothing was named since the rows were deleted.            *)
RowsAreNamed ==
  /\ \A key \in Addressee \X Kind : rows[key] = None => named[key] = None
  /\ Updates!RolloutKept

RecordInv ==
  Updates!TypeOK /\ AnnouncersKnow /\ Updates!NewestKept /\ RowsAreKnown /\ OthersHaveNothing
    /\ RowsAreNamed
  /\ Updates!ToldIsStored

(* The announcements in the table of a's kind that came after it. *)
Ahead(a) == {b \in Updates!OfKind(announced[a].kind, announcements) : Updates!Newer(b, a)}

(* The sizes that the instance speaks of are sizes. *)
LEMMA SameSizes == \A S : Updates!Cardinality(S) = Cardinality(S)
BY DEF Updates!Cardinality, Cardinality, Updates!IsFiniteSet, IsFiniteSet

(* The announcements of any description are finitely many. *)
LEMMA TableIsFinite ==
  ASSUME RecordConstants, Updates!TypeOK, NEW S \in SUBSET announcements
  PROVE  IsFiniteSet(S) /\ Cardinality(S) \in Nat
<1>1. S \subseteq 1 .. MaxAnnouncements BY DEF Updates!TypeOK, Updates!Announcement
<1>2. IsFiniteSet(1 .. MaxAnnouncements)
  <2>1. MaxAnnouncements \in Int /\ 1 \in Int BY DEF RecordConstants
  <2> QED BY <2>1, FS_Interval
<1> QED BY <1>1, <1>2, FS_Subset, FS_CardinalityType

(* What is announced stays what it was; as long as no row leaves the table *)
(* what is gone has as many ahead of it.                                   *)
LEMMA NoneLeaves ==
  ASSUME RecordConstants, RecordInv, Updates!TypeOK',
         \A a \in Updates!Announcement : announced[a] # None => announced'[a] = announced[a],
         announcements \subseteq announcements', inserted' \ announcements'
           \subseteq inserted \ announcements
  PROVE  Updates!NewestKept'
<1> SUFFICES ASSUME NEW a \in inserted' \ announcements'
             PROVE  Cardinality(Ahead(a)') >= UpdateRetention
  BY SameSizes DEF Updates!NewestKept, Ahead
<1>1. a \in inserted \ announcements /\ a \in Updates!Announcement /\ announced[a] # None
        /\ announced'[a] = announced[a]
  BY DEF RecordInv, AnnouncersKnow
<1>2. Cardinality(Ahead(a)) >= UpdateRetention
  BY <1>1, SameSizes DEF RecordInv, Updates!NewestKept, Ahead
<1>3. Ahead(a) \subseteq Ahead(a)'
  <2> SUFFICES ASSUME NEW b \in Ahead(a) PROVE b \in Ahead(a)' OBVIOUS
  <2>1. b \in announcements /\ announced'[b] = announced[b] BY DEF Ahead, Updates!OfKind,
      RecordInv, Updates!TypeOK
  <2> QED BY <1>1, <2>1 DEF Ahead, Updates!OfKind, Updates!Newer
<1>4. /\ IsFiniteSet(Ahead(a)') /\ Cardinality(Ahead(a)') \in Nat
      /\ Cardinality(Ahead(a)) \in Nat
  <2>1. Ahead(a) \subseteq announcements /\ Ahead(a)' \subseteq announcements' BY DEF Ahead,
      Updates!OfKind
  <2>2. IsFiniteSet(1 .. MaxAnnouncements) BY FS_Interval DEF RecordConstants
  <2>3. Ahead(a) \subseteq 1 .. MaxAnnouncements /\ Ahead(a)' \subseteq 1 .. MaxAnnouncements
    BY <2>1 DEF RecordInv, Updates!TypeOK, Updates!Announcement
  <2> QED BY <2>2, <2>3, FS_Subset, FS_CardinalityType
<1> QED BY <1>2, <1>3, <1>4, FS_Subset DEF RecordConstants

(* Newer is a total order on what is announced. *)
LEMMA NewerIsAnOrder ==
  ASSUME RecordConstants, Updates!TypeOK
  PROVE  LET Known == {a \in Updates!Announcement : announced[a] # None} IN
         /\ \A a, b, c \in Known : Updates!Newer(a, b) /\ Updates!Newer(b, c)
              => Updates!Newer(a, c)
         /\ \A a \in Known : ~ Updates!Newer(a, a)
         /\ \A a, b \in Known : a = b \/ Updates!Newer(a, b) \/ Updates!Newer(b, a)
<1> DEFINE Known == {a \in Updates!Announcement : announced[a] # None}
<1>1. \A a \in Known : a \in Nat /\ announced[a].time \in Nat
  BY DEF Updates!TypeOK, Updates!Announcement, RecordConstants
<1> HIDE DEF Known
<1>2. \A a, b, c \in Known : Updates!Newer(a, b) /\ Updates!Newer(b, c) => Updates!Newer(a, c)
    BY <1>1 DEF Updates!Newer
<1>3. \A a \in Known : ~ Updates!Newer(a, a) BY <1>1 DEF Updates!Newer
<1>4. \A a, b \in Known : a = b \/ Updates!Newer(a, b) \/ Updates!Newer(b, a) BY <1>1
    DEF Updates!Newer
<1> USE DEF Known
<1> QED BY <1>2, <1>3, <1>4

(* Pruning keeps the newest: what it takes has Retention ahead of it that  *)
(* it leaves, and so has what was taken before.                            *)
LEMMA PruneTableKeeps ==
  ASSUME RecordConstants, RecordInv, NEW p \in Announcer, Updates!Prune(p), Updates!TypeOK'
  PROVE  Updates!NewestKept'
<1> DEFINE k == announced[id[p]].kind
           S == Updates!OfKind(k, announcements)
<1>0. announced' = announced /\ inserted' = inserted
        /\ announcements' = (announcements \ S) \cup Updates!Kept(k)
  BY DEF Updates!Prune
<1> SUFFICES ASSUME NEW a \in inserted' \ announcements'
             PROVE  Cardinality(Ahead(a)') >= UpdateRetention
  BY SameSizes DEF Updates!NewestKept, Ahead
<1>1. a \in inserted /\ a \in Updates!Announcement /\ announced[a] # None
  BY <1>0 DEF RecordInv, AnnouncersKnow
<1>2. CASE announced[a].kind # k
  <2>1. a \notin announcements BY <1>0, <1>1, <1>2 DEF Updates!OfKind
  <2>2. Cardinality(Ahead(a)) >= UpdateRetention
    BY <1>1, <2>1, SameSizes DEF RecordInv, Updates!NewestKept,
      Ahead
  <2>3. Ahead(a)' = Ahead(a)
    <3>1. ASSUME NEW b PROVE b \in Ahead(a)' <=> b \in Ahead(a)
      <4>1. b \in Ahead(a)
              <=> b \in announcements /\ announced[b].kind = announced[a].kind
                /\ Updates!Newer(b, a)
        BY DEF Ahead, Updates!OfKind
      <4>2. b \in Ahead(a)'
              <=> b \in announcements' /\ announced[b].kind = announced[a].kind
                /\ Updates!Newer(b, a)
        BY <1>0 DEF Ahead, Updates!OfKind, Updates!Newer
      <4>3. b \in announcements' /\ announced[b].kind # k
              <=> b \in announcements /\ announced[b].kind # k
        BY <1>0 DEF Updates!OfKind, Updates!Kept
      <4> QED BY <1>2, <4>1, <4>2, <4>3
    <3> QED BY <3>1
  <2> QED BY <2>2, <2>3
<1>3. CASE announced[a].kind = k
  <2>1. S \subseteq announcements /\ IsFiniteSet(S) BY TableIsFinite DEF Updates!OfKind, RecordInv
  <2> DEFINE before == [x \in S \cup {a} |-> {b \in S : Updates!Newer(b, x)}]
             Known  == {x \in Updates!Announcement : announced[x] # None}
  <2>2. /\ \A x, y, z \in Known : Updates!Newer(x, y) /\ Updates!Newer(y, z) => Updates!Newer(x, z)
        /\ \A x \in Known : ~ Updates!Newer(x, x)
    BY NewerIsAnOrder DEF RecordInv
  <2>3. S \subseteq Known /\ a \in Known BY <1>1, <2>1 DEF RecordInv, Updates!TypeOK
  <2>4. /\ before \in [S \cup {a} -> SUBSET S]
        /\ \A x \in S \cup {a} : before[x] = {b \in S : Updates!Newer(b, x)}
    OBVIOUS
  <2>5. \A x \in S, y \in S : \A z \in S \cup {a} :
          x \in before[y] /\ y \in before[z] => x \in before[z]
    <3> HIDE DEF S, Known, before
    <3> QED BY <2>2, <2>3, <2>4
  <2>6. \A x \in S : x \notin before[x]
    <3> HIDE DEF S, Known, before
    <3> QED BY <2>2, <2>3, <2>4
  <2>8. Updates!Kept(k) = {c \in S : Cardinality(before[c]) < UpdateRetention}
    BY SameSizes DEF Updates!Kept
  <2>9. Cardinality(before[a]) >= UpdateRetention
    <3>1. CASE a \in announcements
      <4>1. a \in S /\ a \notin Updates!Kept(k) BY <1>0, <1>3, <3>1 DEF Updates!OfKind
      <4>2. ~ Cardinality(before[a]) < UpdateRetention BY <2>8, <4>1
      <4>3. Cardinality(before[a]) \in Nat
        <5>1. before[a] \subseteq announcements BY <2>1
        <5> QED BY <5>1, TableIsFinite DEF RecordInv
      <4> HIDE DEF before
      <4> QED BY <4>2, <4>3 DEF RecordConstants
    <3>2. CASE a \notin announcements
      <4>1. Cardinality(Ahead(a)) >= UpdateRetention BY <1>1, <3>2, SameSizes DEF RecordInv,
          Updates!NewestKept, Ahead
      <4>2. Ahead(a) = before[a] BY <1>3 DEF Ahead
      <4> QED BY <4>1, <4>2
    <3> QED BY <3>1, <3>2
  <2>10. Cardinality(Updates!Kept(k) \cap before[a]) >= UpdateRetention
    <3>1. UpdateRetention \in Nat BY DEF RecordConstants
    <3> DEFINE First == Updates!Kept(k)
    <3> SUFFICES Cardinality(First \cap before[a]) >= UpdateRetention OBVIOUS
    <3>2. First = {c \in S : Cardinality(before[c]) < UpdateRetention} BY <2>8
    <3> HIDE DEF S, before, First
    <3> QED BY <2>1, <2>4, <2>5, <2>6, <2>9, <3>1, <3>2, FirstOnesStay
  <2>11. Ahead(a)' = Updates!Kept(k) \cap before[a]
    <3>1. ASSUME NEW b PROVE b \in Ahead(a)' <=> b \in Updates!Kept(k) \cap before[a]
      <4>1. b \in Ahead(a)'
              <=> b \in announcements' /\ announced[b].kind = k /\ Updates!Newer(b, a)
        BY <1>0, <1>3 DEF Ahead, Updates!OfKind, Updates!Newer
      <4>2. b \in announcements' /\ announced[b].kind = k <=> b \in Updates!Kept(k)
        BY <1>0 DEF Updates!OfKind, Updates!Kept
      <4>3. b \in Updates!Kept(k) => b \in S BY SameSizes DEF Updates!Kept
      <4> HIDE DEF before, k, S
      <4> QED BY <2>4, <4>1, <4>2, <4>3
    <3> HIDE DEF before, k, S
    <3> QED BY <3>1
  <2> HIDE DEF S, before, Known, k
  <2> QED BY <2>10, <2>11
<1> QED BY <1>2, <1>3

(* What has come latest of a kind is in the table, and of that kind. *)
LEMMA LatestIs ==
  ASSUME RecordConstants, Updates!TypeOK, NEW k \in Kind, Updates!Latest(k) # None
  PROVE  Updates!Latest(k) \in Updates!OfKind(k, announcements)
<1> DEFINE S == Updates!OfKind(k, announcements)
           before == [x \in S |-> {b \in S : Updates!Newer(b, x)}]
           Known == {a \in Updates!Announcement : announced[a] # None}
<1>1. S # {} BY DEF Updates!Latest
<1>2. S \subseteq announcements /\ IsFiniteSet(S) BY TableIsFinite DEF Updates!OfKind
<1>3. S \subseteq Known BY <1>2 DEF Updates!TypeOK
<1>4. /\ \A a, b, c \in Known : Updates!Newer(a, b) /\ Updates!Newer(b, c) => Updates!Newer(a, c)
      /\ \A a \in Known : ~ Updates!Newer(a, a)
      /\ \A a, b \in Known : a = b \/ Updates!Newer(a, b) \/ Updates!Newer(b, a)
  BY NewerIsAnOrder
<1>5. before \in [S -> SUBSET S] /\ \A x \in S : before[x] = {b \in S : Updates!Newer(b, x)}
  OBVIOUS
<1>6. \E m \in S : \A x \in S \ {m} : m \in before[x]
  <2> HIDE DEF S, before, Known
  <2>1. \A x, y, z \in S : x \in before[y] /\ y \in before[z] => x \in before[z]
    BY <1>3, <1>4, <1>5
  <2>2. \A x \in S : x \notin before[x] BY <1>3, <1>4, <1>5
  <2>3. \A x, y \in S : x = y \/ x \in before[y] \/ y \in before[x] BY <1>3, <1>4, <1>5
  <2> QED BY <1>1, <1>2, <1>5, <2>1, <2>2, <2>3, OneIsFirst
<1>7. \E m \in S : \A x \in S \ {m} : Updates!Newer(m, x)
  <2> HIDE DEF S, before
  <2> QED BY <1>5, <1>6
<1> QED BY <1>1, <1>7 DEF Updates!Latest

(* What the invariant says is what the run checks. *)
LEMMA RecordsTell ==
  ASSUME RecordConstants, RecordInv
  PROVE  Updates!NobodyMissesIt /\ Updates!OrphansAreKnown
<1>1. Updates!OrphansAreKnown
  BY DEF Updates!OrphansAreKnown, Updates!Clean, RecordInv, OthersHaveNothing, RecordConstants
<1>2. Updates!NobodyMissesIt
  <2> SUFFICES ASSUME NEW w \in chart, NEW k \in Kind, Updates!Latest(k) # None
               PROVE  /\ Updates!Latest(k) \notin Updates!Pending(w) /\ Updates!Clean(w)
                           => <<w, Updates!Latest(k)>> \in settled
                      /\ Updates!Latest(k) \in Updates!Pending(w)
                           <=> Updates!RolloutStatus(w, k,
                               Updates!Latest(k)) \notin Updates!Settling
    BY DEF Updates!NobodyMissesIt
  <2> DEFINE a == Updates!Latest(k)
             row == rows[<<w, k>>]
  <2>1. /\ a \in Updates!Announcement /\ a # None /\ announced[a].kind = k
             /\ a \in {Updates!Latest(j) : j \in Kind} \ {None}
    BY LatestIs DEF RecordInv, Updates!TypeOK, Updates!OfKind
  <2> HIDE DEF a
  <2>2. a \in Updates!Pending(w)
          <=> row = None \/ row.announcement # a \/ row.status \notin Updates!Settling
    BY <2>1 DEF Updates!Pending
  <2>3. Updates!RolloutStatus(w, k, a) = IF row = None \/ row.announcement # a THEN "unknown"
          ELSE row.status
    BY <2>1 DEF Updates!RolloutStatus
  <2>4. "unknown" \notin Updates!Settling BY DEF Updates!Settling
  <2>5. a \notin Updates!Pending(w) /\ Updates!Clean(w) => <<w, a>> \in settled
    <3> HAVE a \notin Updates!Pending(w) /\ Updates!Clean(w)
    <3>1. row # None /\ row.announcement = a /\ row.status \in Updates!Settling BY <2>2
    <3>2. w \in chart \ unclean /\ leaving[w] # "rows" BY DEF Updates!Clean, RecordConstants
    <3> HIDE DEF row
    <3> QED BY <2>1, <3>1, <3>2 DEF RecordInv, RowsAreKnown, row
  <2> HIDE DEF row
  <2>6. a \in Updates!Pending(w) <=> Updates!RolloutStatus(w, k, a) \notin Updates!Settling
      BY <2>2, <2>3, <2>4
  <2> QED BY <2>5, <2>6 DEF a
<1> QED BY <1>1, <1>2

-----------------------------------------------------------------------------
(* Every step keeps the invariant.  The announcers:                        *)
LEMMA AnnouncersKeep ==
  ASSUME RecordConstants, RecordInv, NEW p \in Announcer,
         (\E k \in Kind : Updates!Announce(p, k)) \/ Updates!Insert(p) \/ Updates!Prune(p)
           \/ Updates!Tell(p) \/ Updates!AnnounceReturns(p)
  PROVE  RecordInv'
<1> USE DEF RecordInv
<1>1. ASSUME NEW k \in Kind, Updates!Announce(p, k) PROVE RecordInv'
  <2>0. PICK a \in Updates!Announcement :
          /\ announced[a] = None
          /\ announced' = [announced EXCEPT ![a] = [kind |-> k, time |-> now]]
          /\ id' = [id EXCEPT ![p] = a]
    BY <1>1 DEF Updates!Announce
  <2>1. Updates!TypeOK'
    <3>1. [kind |-> k, time |-> now] # None BY DEF Updates!TypeOK, RecordConstants
    <3>2. announced' \in [Updates!Announcement -> [kind : Kind, time : 0 .. MaxTime] \cup {None}]
      BY <2>0 DEF Updates!TypeOK
    <3>3. announcements' \subseteq {x \in Updates!Announcement : announced'[x] # None}
      BY <1>1, <2>0, <3>1 DEF Updates!TypeOK, Updates!Announce
    <3>4. announcerAt' \in [Announcer -> {"idle", "insert", "prune", "tell"}] BY <1>1
        DEF Updates!TypeOK, Updates!Announce
    <3> QED BY <1>1, <2>0, <3>2, <3>3, <3>4 DEF Updates!TypeOK, Updates!Announce
  <2>2. /\ \A x \in Updates!Announcement : announced[x] # None => announced'[x] = announced[x]
        /\ announced'[a] # None
    BY <2>0, <2>1 DEF Updates!TypeOK, RecordConstants
  <2>3. AnnouncersKnow' BY <1>1, <2>0, <2>2 DEF AnnouncersKnow, Updates!Announce, Updates!TypeOK
  <2>4. Updates!NewestKept' BY <1>1, <2>1, <2>2, NoneLeaves DEF Updates!Announce
  <2>5. RowsAreKnown'
    <3>1. \A key \in Addressee \X Kind : rows[key] # None /\ rows[key].announcement # None =>
            /\ announced[rows[key].announcement] # None
                 /\ rows[key].announcement \in Updates!Announcement
            /\ announced'[rows[key].announcement] = announced[rows[key].announcement]
      BY <2>2 DEF RowsAreKnown, Updates!TypeOK, Updates!Row
    <3>2. \A w \in chart, j \in Kind : <<w, j>> \in Addressee \X Kind BY DEF Updates!TypeOK
    <3> QED BY <1>1, <3>1, <3>2 DEF RowsAreKnown, Updates!Announce
  <2>6. OthersHaveNothing' /\ RowsAreNamed' /\ Updates!ToldIsStored'
    BY <1>1 DEF Updates!Announce, OthersHaveNothing, RowsAreNamed, Updates!RolloutKept,
      Updates!ToldIsStored
  <2> QED BY <2>1, <2>3, <2>4, <2>5, <2>6
<1>2. CASE Updates!Insert(p)
  <2>0. id[p] \in Updates!Announcement /\ announced[id[p]] # None BY <1>2 DEF AnnouncersKnow,
      Updates!Insert
  <2>1. Updates!TypeOK'
    <3>1. announcerAt' \in [Announcer -> {"idle", "insert", "prune", "tell"}] BY <1>2
        DEF Updates!TypeOK, Updates!Insert
    <3> QED BY <1>2, <2>0, <3>1 DEF Updates!TypeOK, Updates!Insert
  <2>2. AnnouncersKnow' BY <1>2, <2>0 DEF AnnouncersKnow, Updates!Insert, Updates!TypeOK
  <2>3. Updates!NewestKept' BY <1>2, <2>1, NoneLeaves DEF Updates!Insert
  <2>4. RowsAreKnown' /\ OthersHaveNothing' /\ RowsAreNamed' /\ Updates!ToldIsStored'
    BY <1>2 DEF Updates!Insert, RowsAreKnown, OthersHaveNothing, RowsAreNamed, Updates!RolloutKept,
      Updates!ToldIsStored
  <2> QED BY <2>1, <2>2, <2>3, <2>4
<1>3. CASE Updates!Prune(p)
  <2>1. Updates!TypeOK'
    <3>1. announcerAt' \in [Announcer -> {"idle", "insert", "prune", "tell"}] BY <1>3
        DEF Updates!TypeOK, Updates!Prune
    <3>2. announcements' \subseteq announcements BY <1>3 DEF Updates!Prune, Updates!Kept,
        Updates!OfKind
    <3> QED BY <1>3, <3>1, <3>2 DEF Updates!TypeOK, Updates!Prune
  <2>2. AnnouncersKnow' BY <1>3 DEF AnnouncersKnow, Updates!Prune, Updates!TypeOK
  <2>3. Updates!NewestKept' BY <1>3, <2>1, PruneTableKeeps
  <2>4. RowsAreKnown' /\ OthersHaveNothing' /\ RowsAreNamed' /\ Updates!ToldIsStored'
    BY <1>3 DEF Updates!Prune, RowsAreKnown, OthersHaveNothing, RowsAreNamed, Updates!RolloutKept,
      Updates!ToldIsStored
  <2> QED BY <2>1, <2>2, <2>3, <2>4
<1>4. CASE Updates!Tell(p)
  <2>0. PICK w \in todo[p] : /\ todo' = [todo EXCEPT ![p] = @ \ {w}]
                             /\ told' \in {told, told \cup {<<w, id[p]>>}}
    BY <1>4 DEF Updates!Tell
  <2>1. id[p] \in Updates!Announcement /\ id[p] \in inserted /\ w \in Addressee
    BY <1>4, <2>0 DEF AnnouncersKnow, Updates!Tell, Updates!TypeOK
  <2>2. Updates!TypeOK'
    <3>1. told' \subseteq Addressee \X Updates!Announcement BY <2>0, <2>1 DEF Updates!TypeOK
    <3>2. todo' \in [Announcer -> SUBSET Addressee] BY <2>0 DEF Updates!TypeOK
    <3> QED BY <1>4, <3>1, <3>2 DEF Updates!TypeOK, Updates!Tell
  <2>3. Updates!ToldIsStored'
    <3>1. <<w, id[p]>>[2] = id[p] OBVIOUS
    <3>2. \A t \in told' : t \in told \/ t = <<w, id[p]>> BY <2>0
    <3> QED BY <1>4, <2>1, <3>1, <3>2 DEF Updates!ToldIsStored, Updates!Tell
  <2>4. AnnouncersKnow' /\ RowsAreKnown' /\ OthersHaveNothing' /\ RowsAreNamed'
    BY <1>4 DEF Updates!Tell, AnnouncersKnow, RowsAreKnown, OthersHaveNothing,
      RowsAreNamed, Updates!RolloutKept
  <2>5. Updates!NewestKept' BY <1>4, <2>2, NoneLeaves DEF Updates!Tell
  <2> QED BY <2>2, <2>3, <2>4, <2>5
<1>5. CASE Updates!AnnounceReturns(p)
  <2>1. Updates!TypeOK'
    <3>1. announcerAt' \in [Announcer -> {"idle", "insert", "prune", "tell"}]
      BY <1>5 DEF Updates!TypeOK, Updates!AnnounceReturns
    <3>2. todo' \in [Announcer -> SUBSET Addressee] BY <1>5 DEF Updates!TypeOK,
        Updates!AnnounceReturns
    <3> QED BY <1>5, <3>1, <3>2 DEF Updates!TypeOK, Updates!AnnounceReturns
  <2>2. AnnouncersKnow' BY <1>5 DEF AnnouncersKnow, Updates!AnnounceReturns, Updates!TypeOK
  <2>3. Updates!NewestKept' BY <1>5, <2>1, NoneLeaves DEF Updates!AnnounceReturns
  <2>4. RowsAreKnown' /\ OthersHaveNothing' /\ RowsAreNamed' /\ Updates!ToldIsStored'
    BY <1>5 DEF Updates!AnnounceReturns, RowsAreKnown, OthersHaveNothing,
      RowsAreNamed, Updates!RolloutKept, Updates!ToldIsStored
  <2> QED BY <2>1, <2>2, <2>3, <2>4
<1> QED BY <1>1, <1>2, <1>3, <1>4, <1>5

(* A report of a worker. *)
LEMMA ReportingKeeps ==
  ASSUME RecordConstants, RecordInv, NEW w \in Addressee, NEW r \in Updates!Report,
         Updates!EndReport(w, r)
  PROVE  RecordInv'
<1> USE DEF RecordInv
<1> DEFINE key == <<w, r.kind>>
           about == Updates!About(w, r)
<1>0. /\ w \in asking
      /\ r.announcement # None => announced[r.announcement] # None
      /\ named' = IF r.announcement = None THEN named
                  ELSE [named EXCEPT ![key] =
                          [announcement |-> r.announcement, target |-> r.target]]
      /\ rows' = [rows EXCEPT ![key] = Updates!Merged(rows[key], r)]
      /\ asking' = asking \ {w}
      /\ settled' = IF r.status \in Updates!Settling /\ about # None
           /\ announced[about].kind = r.kind
                    THEN settled \cup {<<w, about>>} ELSE settled
      /\ UNCHANGED <<chart, now, announced, announcements, announcerAt, id, todo, told, apps,
             leaving, inserted,
                     unclean>>
  BY DEF Updates!EndReport
<1>1. key \in Addressee \X Kind /\ rows[key] \in Updates!Row \cup {None}
  BY DEF Updates!TypeOK, Updates!Report
<1>2. /\ r.status \in Progress /\ r.announcement \in Updates!Announcement \cup {None}
      /\ r.target \in Updates!Announcement \cup {None}
  BY DEF Updates!Report
<1> DEFINE row == Updates!Merged(rows[key], r)
<1>3. /\ row \in Updates!Row /\ row # None /\ row.status = r.status /\ row.announcement = about
      /\ about \in Updates!Announcement \cup {None}
      /\ about # None => announced[about] # None
  <2>1. CASE rows[key] = None \/ r.announcement # None
    <3>1. about = r.announcement BY <2>1 DEF Updates!About
    <3>2. row = [status |-> r.status, announcement |-> r.announcement, target |-> r.target]
      BY <2>1 DEF Updates!Merged
    <3>3. row \in Updates!Row BY <1>2, <3>2 DEF Updates!Row
    <3>4. row # None BY <3>3 DEF RecordConstants
    <3>5. r.announcement # None => announced[r.announcement] # None BY <1>0
    <3> HIDE DEF row, about
    <3> QED BY <1>2, <3>1, <3>2, <3>3, <3>4, <3>5
  <2>2. CASE rows[key] # None /\ r.announcement = None
    <3>1. /\ rows[key].announcement \in Updates!Announcement \cup {None}
          /\ rows[key].target \in Updates!Announcement \cup {None}
      BY <1>1, <2>2 DEF Updates!Row
    <3>2. rows[key].announcement # None => announced[rows[key].announcement] # None
      BY <1>1, <2>2 DEF RowsAreKnown
    <3> QED BY <1>1, <1>2, <2>2, <3>1, <3>2 DEF Updates!Merged, Updates!About, Updates!Row,
        RecordConstants
  <2> QED BY <2>1, <2>2
<1> HIDE DEF key, about, row
<1>13. named' \in [Addressee \X Kind -> Updates!Named \cup {None}]
  <2>1. CASE r.announcement = None BY <1>0, <2>1 DEF Updates!TypeOK
  <2>2. CASE r.announcement # None
    <3>1. [announcement |-> r.announcement, target |-> r.target] \in Updates!Named
      BY <1>2, <2>2 DEF Updates!Named
    <3> QED BY <1>0, <1>1, <2>2, <3>1 DEF Updates!TypeOK
  <2> QED BY <2>1, <2>2
<1>4. Updates!TypeOK'
  <2>1. rows' \in [Addressee \X Kind -> Updates!Row \cup {None}] BY <1>0, <1>3 DEF Updates!TypeOK,
      row
  <2>2. settled' \subseteq Addressee \X Updates!Announcement
    <3>1. CASE r.status \in Updates!Settling /\ about # None /\ announced[about].kind = r.kind
      <4>1. <<w, about>> \in Addressee \X Updates!Announcement BY <1>3, <3>1
      <4>2. settled' = settled \cup {<<w, about>>} BY <1>0, <3>1
      <4> QED BY <4>1, <4>2 DEF Updates!TypeOK
    <3>2. CASE ~ (r.status \in Updates!Settling /\ about # None /\ announced[about].kind = r.kind)
      BY <1>0, <3>2 DEF Updates!TypeOK
    <3> QED BY <3>1, <3>2
  <2>3. asking' \subseteq Addressee BY <1>0 DEF Updates!TypeOK
  <2> QED BY <1>0, <1>13, <2>1, <2>2, <2>3 DEF Updates!TypeOK
<1>5. \A other \in Addressee \X Kind : rows'[other] = IF other = key THEN row ELSE rows[other]
  BY <1>0, <1>1 DEF Updates!TypeOK, row
<1>6. RowsAreKnown'
  <2>1. \A other \in Addressee \X Kind : rows'[other] # None /\ rows'[other].announcement # None =>
          announced'[rows'[other].announcement] # None
    <3> TAKE other \in Addressee \X Kind
    <3>1. announced' = announced BY <1>0
    <3>2. CASE other = key
      <4>1. rows'[other] = row BY <1>5, <3>2
      <4> QED BY <1>3, <3>1, <4>1
    <3>3. CASE other # key
      <4>1. rows'[other] = rows[other] BY <1>5, <3>3
      <4> QED BY <3>1, <4>1 DEF RowsAreKnown
    <3> QED BY <3>2, <3>3
  <2>2. ASSUME NEW v \in chart' \ unclean', NEW k \in Kind, leaving'[v] # "rows",
               rows'[<<v, k>>] # None, rows'[<<v, k>>].status \in Updates!Settling,
               rows'[<<v, k>>].announcement # None, announced'[rows'[<<v, k>>].announcement].kind
                 = k
        PROVE  <<v, rows'[<<v, k>>].announcement>> \in settled'
    <3>1. v \in chart \ unclean /\ <<v, k>> \in Addressee \X Kind BY <1>0 DEF Updates!TypeOK
    <3>2. CASE <<v, k>> = key
      <4>1. v = w /\ k = r.kind BY <3>2 DEF key
      <4>2. rows'[<<v, k>>] = row BY <1>5, <3>1, <3>2
      <4>3. r.status \in Updates!Settling /\ about # None /\ announced[about].kind = r.kind
        BY <1>0, <1>3, <2>2, <4>1, <4>2
      <4> QED BY <1>0, <1>3, <4>1, <4>2, <4>3
    <3>3. CASE <<v, k>> # key
      <4>1. rows'[<<v, k>>] = rows[<<v, k>>] BY <1>5, <3>1, <3>3
      <4>2. <<v, rows[<<v, k>>].announcement>> \in settled
        BY <1>0, <2>2, <3>1, <4>1 DEF RowsAreKnown
      <4>3. settled \subseteq settled' BY <1>0
      <4> QED BY <4>1, <4>2, <4>3
    <3> QED BY <3>2, <3>3
  <2> QED BY <2>1, <2>2 DEF RowsAreKnown
<1>7. OthersHaveNothing'
  <2>1. w \in chart \/ w \in unclean
    <3>1. w \in asking /\ asking \ chart \subseteq unclean BY <1>0 DEF OthersHaveNothing
    <3> QED BY <3>1
  <2>2. \A v \in Addressee \ (chart \cup unclean), k \in Kind : <<v, k>> # key BY <2>1 DEF key
  <2>3. \A v \in Addressee \ (chart \cup unclean), k \in Kind : rows'[<<v, k>>] = rows[<<v, k>>]
    BY <1>5, <2>2
  <2> QED BY <1>0, <2>3 DEF OthersHaveNothing
<1>8. RowsAreNamed'
  <2>1. DOMAIN rows = Addressee \X Kind /\ DOMAIN rows' = Addressee \X Kind BY <1>4
      DEF Updates!TypeOK
  <2>2. \A other \in Addressee \X Kind : other # key => named'[other] = named[other]
    BY <1>0 DEF Updates!TypeOK
  <2>3. \A other \in Addressee \X Kind :
          rows'[other] = None => other # key /\ rows[other] = None
    BY <1>3, <1>5
  <2>4. row.target = IF rows[key] = None \/ r.announcement # None THEN r.target
                     ELSE rows[key].target
    BY DEF row, Updates!Merged
  <2>5. IF named'[key] = None THEN row.announcement = None
        ELSE row.announcement = named'[key].announcement /\ row.target = named'[key].target
    <3>1. CASE r.announcement # None
      <4>1. named'[key] = [announcement |-> r.announcement, target |-> r.target]
        BY <1>0, <1>1, <3>1 DEF Updates!TypeOK
      <4>2. named'[key] # None BY <1>2, <3>1, <4>1 DEF Updates!Named, RecordConstants
      <4>3. about = r.announcement BY <3>1 DEF about, Updates!About
      <4> QED BY <1>3, <2>4, <3>1, <4>1, <4>2, <4>3
    <3>2. CASE r.announcement = None /\ rows[key] = None
      <4>1. named'[key] = None BY <1>0, <1>1, <3>2 DEF RowsAreNamed
      <4>2. about = None BY <3>2 DEF about, key, Updates!About
      <4> QED BY <1>3, <4>1, <4>2
    <3>3. CASE r.announcement = None /\ rows[key] # None
      <4>1. named'[key] = named[key] BY <1>0, <3>3
      <4>2. about = rows[key].announcement BY <3>3 DEF about, key, Updates!About
      <4>3. IF named[key] = None THEN rows[key].announcement = None
            ELSE /\ rows[key].announcement = named[key].announcement
                 /\ rows[key].target = named[key].target
        BY <1>1, <2>1, <3>3 DEF RowsAreNamed, Updates!RolloutKept
      <4> QED BY <1>3, <2>4, <3>3, <4>1, <4>2, <4>3
    <3> QED BY <3>1, <3>2, <3>3
  <2>6. \A other \in Addressee \X Kind : rows[other] # None =>
          IF named[other] = None THEN rows[other].announcement = None
          ELSE /\ rows[other].announcement = named[other].announcement
               /\ rows[other].target = named[other].target
    BY <2>1 DEF RowsAreNamed, Updates!RolloutKept
  <2>7. Updates!RolloutKept'
    <3> SUFFICES ASSUME NEW other \in Addressee \X Kind, rows'[other] # None
                 PROVE  IF named'[other] = None THEN rows'[other].announcement = None
                        ELSE /\ rows'[other].announcement = named'[other].announcement
                             /\ rows'[other].target = named'[other].target
      BY <2>1 DEF Updates!RolloutKept
    <3>1. CASE other = key BY <1>5, <2>5, <3>1
    <3>2. CASE other # key BY <1>5, <2>2, <2>6, <3>2
    <3> QED BY <3>1, <3>2
  <2> QED BY <2>2, <2>3, <2>7 DEF RowsAreNamed
<1>9. Updates!NewestKept' BY <1>0, <1>4, NoneLeaves
<1>10. AnnouncersKnow' /\ Updates!ToldIsStored' BY <1>0 DEF AnnouncersKnow, Updates!ToldIsStored
<1> QED BY <1>4, <1>6, <1>7, <1>8, <1>9, <1>10

(* What else a worker asks for, and workers that come and go. *)
LEMMA WorkersKeep ==
  ASSUME RecordConstants, RecordInv, NEW w \in Addressee,
         \/ Updates!Ask(w) \/ Updates!EndApp(w) \/ Updates!AskFails(w) \/ Updates!Join(w)
              \/ Updates!Leave(w) \/ Updates!DeleteRows(w)
         \/ Updates!DeleteApp(w) \/ Updates!DeleteFails(w)
  PROVE  RecordInv'
<1> USE DEF RecordInv
<1>0. /\ announced' = announced /\ announcements' = announcements /\ inserted' = inserted
           /\ announcerAt' = announcerAt /\ id' = id
      /\ told' = told /\ now' = now /\ todo' = todo
  BY DEF Updates!Ask, Updates!EndApp, Updates!AskFails, Updates!Join, Updates!Leave,
    Updates!DeleteRows, Updates!DeleteApp, Updates!DeleteFails
<1>1. Updates!TypeOK' => Updates!NewestKept' BY <1>0, NoneLeaves
<1>2. AnnouncersKnow' /\ Updates!ToldIsStored' BY <1>0 DEF AnnouncersKnow, Updates!ToldIsStored
<1>3. ASSUME rows' = rows, named' = named, Updates!TypeOK', RowsAreKnown', OthersHaveNothing'
      PROVE  RecordInv'
  BY <1>1, <1>2, <1>3 DEF RowsAreNamed, Updates!RolloutKept
<1>4. CASE Updates!Ask(w)
  <2>1. Updates!TypeOK' BY <1>4 DEF Updates!Ask, Updates!TypeOK
  <2>2. RowsAreKnown' /\ OthersHaveNothing' BY <1>4 DEF Updates!Ask, RowsAreKnown,
      OthersHaveNothing
  <2> QED BY <1>3, <1>4, <2>1, <2>2 DEF Updates!Ask
<1>5. CASE Updates!EndApp(w)
  <2>1. Updates!TypeOK' BY <1>5 DEF Updates!EndApp, Updates!TypeOK
  <2>2. RowsAreKnown' /\ OthersHaveNothing' BY <1>5 DEF Updates!EndApp, RowsAreKnown,
      OthersHaveNothing
  <2> QED BY <1>3, <1>5, <2>1, <2>2 DEF Updates!EndApp
<1>6. CASE Updates!AskFails(w)
  <2>1. Updates!TypeOK' BY <1>6 DEF Updates!AskFails, Updates!TypeOK
  <2>2. RowsAreKnown' /\ OthersHaveNothing' BY <1>6 DEF Updates!AskFails, RowsAreKnown,
      OthersHaveNothing
  <2> QED BY <1>3, <1>6, <2>1, <2>2 DEF Updates!AskFails
<1>7. CASE Updates!Join(w)
  <2>1. Updates!TypeOK' BY <1>7 DEF Updates!Join, Updates!TypeOK
  <2>2. RowsAreKnown'
    <3>1. w \notin unclean /\ leaving[w] # "rows" => \A k \in Kind : rows[<<w, k>>] = None
      BY <1>7 DEF OthersHaveNothing, Updates!Join
    <3> QED BY <1>7, <3>1 DEF Updates!Join, RowsAreKnown
  <2>3. OthersHaveNothing' BY <1>7 DEF Updates!Join, OthersHaveNothing
  <2> QED BY <1>3, <1>7, <2>1, <2>2, <2>3 DEF Updates!Join
<1>8. CASE Updates!Leave(w)
  <2>1. Updates!TypeOK'
    <3>1. leaving' \in [Addressee -> {"rows", "app", None}] BY <1>8 DEF Updates!Leave,
        Updates!TypeOK
    <3>2. unclean' \subseteq Addressee BY <1>8 DEF Updates!Leave, Updates!TypeOK
    <3>3. settled' \subseteq Addressee \X Updates!Announcement BY <1>8 DEF Updates!Leave,
        Updates!TypeOK
    <3> QED BY <1>8, <3>1, <3>2, <3>3 DEF Updates!Leave, Updates!TypeOK
  <2>2. RowsAreKnown'
    <3>1. \A v \in chart' \ unclean', k \in Kind :
            leaving'[v] = leaving[v] /\ v \in chart \ unclean /\ v # w
      BY <1>8 DEF Updates!Leave, Updates!TypeOK
    <3>2. \A v, a : <<v, a>> \in settled /\ v # w => <<v, a>> \in settled'
      <4>1. \A v, a : <<v, a>>[1] = v OBVIOUS
      <4> QED BY <1>8, <4>1 DEF Updates!Leave
    <3> QED BY <1>8, <3>1, <3>2 DEF Updates!Leave, RowsAreKnown
  <2>3. OthersHaveNothing'
    <3>1. leaving'[w] = "rows" /\ \A v \in Addressee \ {w} : leaving'[v] = leaving[v]
      BY <1>8 DEF Updates!Leave, Updates!TypeOK
    <3>2. asking' \ chart' \subseteq unclean' BY <1>8 DEF Updates!Leave, OthersHaveNothing
    <3>3. \A v \in Addressee \ (chart' \cup unclean') : v = w
            \/ v \in Addressee \ (chart \cup unclean)
      BY <1>8 DEF Updates!Leave
    <3> QED BY <1>8, <3>1, <3>2, <3>3 DEF Updates!Leave, OthersHaveNothing, RecordConstants
  <2> QED BY <1>3, <1>8, <2>1, <2>2, <2>3 DEF Updates!Leave
<1>9. CASE Updates!DeleteRows(w)
  <2>1. Updates!TypeOK'
    <3>1. leaving' \in [Addressee -> {"rows", "app", None}] BY <1>9 DEF Updates!DeleteRows,
        Updates!TypeOK
    <3>2. rows' \in [Addressee \X Kind -> Updates!Row \cup {None}] BY <1>9 DEF Updates!DeleteRows,
        Updates!TypeOK, Updates!Forgotten
    <3>3. named' \in [Addressee \X Kind -> Updates!Named \cup {None}] BY <1>9
        DEF Updates!DeleteRows, Updates!TypeOK
    <3> QED BY <1>9, <3>1, <3>2, <3>3 DEF Updates!DeleteRows, Updates!TypeOK
  <2>2. /\ DOMAIN rows = Addressee \X Kind
        /\ \A key \in Addressee \X Kind : rows'[key] = IF key[1] = w THEN None ELSE rows[key]
    BY <1>9 DEF Updates!DeleteRows, Updates!TypeOK, Updates!Forgotten
  <2>3. \A v \in Addressee, k \in Kind : rows'[<<v, k>>] = IF v = w THEN None ELSE rows[<<v, k>>]
    <3>1. \A v, k : <<v, k>>[1] = v OBVIOUS
    <3> QED BY <2>2, <3>1
  <2>4. leaving'[w] = "app" /\ \A v \in Addressee \ {w} : leaving'[v] = leaving[v]
    BY <1>9 DEF Updates!DeleteRows, Updates!TypeOK
  <2>5. RowsAreKnown'
    <3>1. \A key \in Addressee \X Kind : rows'[key] # None /\ rows'[key].announcement # None =>
            announced'[rows'[key].announcement] # None
      BY <1>0, <2>2 DEF RowsAreKnown
    <3>2. \A v \in chart' \ unclean' : v \in Addressee /\ v \in chart \ unclean
      BY <1>9 DEF Updates!DeleteRows, Updates!TypeOK
    <3>3. settled' = settled BY <1>9 DEF Updates!DeleteRows
    <3>4. \A v \in chart' \ unclean', k \in Kind : leaving'[v] # "rows" /\ rows'[<<v, k>>] # None =>
            /\ v \in chart \ unclean /\ leaving[v] # "rows"
            /\ rows'[<<v, k>>] = rows[<<v, k>>]
      BY <2>3, <2>4, <3>2
    <3> QED BY <1>0, <3>1, <3>3, <3>4 DEF RowsAreKnown
  <2>6. OthersHaveNothing'
    BY <1>9, <2>3, <2>4 DEF Updates!DeleteRows, OthersHaveNothing, RecordConstants
  <2>7. RowsAreNamed'
    <3>1. DOMAIN rows' = Addressee \X Kind BY <2>1 DEF Updates!TypeOK
    <3>2. \A key \in Addressee \X Kind : named'[key] = IF key[1] = w THEN None ELSE named[key]
      BY <1>9 DEF Updates!DeleteRows, Updates!TypeOK
    <3> QED BY <2>2, <3>1, <3>2 DEF RowsAreNamed, Updates!RolloutKept
  <2> QED BY <1>1, <1>2, <2>1, <2>5, <2>6, <2>7
<1>10. CASE Updates!DeleteApp(w)
  <2>1. Updates!TypeOK'
    <3>1. leaving' \in [Addressee -> {"rows", "app", None}] BY <1>10 DEF Updates!DeleteApp,
        Updates!TypeOK
    <3> QED BY <1>10, <3>1 DEF Updates!DeleteApp, Updates!TypeOK
  <2>2. leaving[w] = "app" /\ leaving'[w] = None
          /\ \A v \in Addressee \ {w} : leaving'[v] = leaving[v]
    BY <1>10 DEF Updates!DeleteApp, Updates!TypeOK
  <2>3. RowsAreKnown'
    <3>1. chart \subseteq Addressee BY DEF Updates!TypeOK
    <3> QED BY <1>10, <2>2, <3>1 DEF Updates!DeleteApp, RowsAreKnown, RecordConstants
  <2>4. OthersHaveNothing' BY <1>10, <2>2 DEF Updates!DeleteApp, OthersHaveNothing, RecordConstants
  <2> QED BY <1>3, <1>10, <2>1, <2>3, <2>4 DEF Updates!DeleteApp
<1>11. CASE Updates!DeleteFails(w)
  <2>1. Updates!TypeOK'
    <3>1. leaving' \in [Addressee -> {"rows", "app", None}] BY <1>11 DEF Updates!DeleteFails,
        Updates!TypeOK
    <3> QED BY <1>11, <3>1 DEF Updates!DeleteFails, Updates!TypeOK
  <2>2. w \in unclean' /\ \A v \in Addressee \ {w} : leaving'[v] = leaving[v]
    BY <1>11 DEF Updates!DeleteFails, Updates!TypeOK
  <2>3. RowsAreKnown'
    <3>1. chart \subseteq Addressee BY DEF Updates!TypeOK
    <3> QED BY <1>11, <2>2, <3>1 DEF Updates!DeleteFails, RowsAreKnown
  <2>4. OthersHaveNothing' BY <1>11, <2>2 DEF Updates!DeleteFails, OthersHaveNothing
  <2> QED BY <1>3, <1>11, <2>1, <2>3, <2>4 DEF Updates!DeleteFails
<1> QED BY <1>4, <1>5, <1>6, <1>7, <1>8, <1>9, <1>10, <1>11

(* Every step keeps the invariant of the worker's records. *)
LEMMA RecordStepKeeps ==
  ASSUME RecordConstants, RecordInv, [Updates!Next]_(Updates!vars)
  PROVE  RecordInv'
<1>1. ASSUME UNCHANGED <<chart, announced, announcements, announcerAt, id, todo, told, rows, apps,
                 asking, leaving, named,
                         inserted, settled, unclean>>, now' \in 0 .. MaxTime
      PROVE  RecordInv'
  <2>1. Updates!TypeOK' BY <1>1 DEF RecordInv, Updates!TypeOK
  <2>2. Updates!NewestKept' BY <1>1, <2>1, NoneLeaves
  <2> QED BY <1>1, <2>1, <2>2 DEF RecordInv, AnnouncersKnow, RowsAreKnown, OthersHaveNothing,
                                  RowsAreNamed, Updates!RolloutKept, Updates!ToldIsStored
<1>2. CASE Updates!Tick
  <2>1. now' \in 0 .. MaxTime BY <1>2 DEF Updates!Tick, RecordInv, Updates!TypeOK, RecordConstants
  <2> QED BY <1>1, <1>2, <2>1 DEF Updates!Tick
<1>3. CASE UNCHANGED Updates!vars BY <1>1, <1>3 DEF Updates!vars, RecordInv, Updates!TypeOK
<1> QED BY <1>2, <1>3, AnnouncersKeep, ReportingKeeps, WorkersKeep DEF Updates!Next

(* The invariant of the worker's records holds at first. *)
LEMMA RecordsBegin == ASSUME RecordConstants, Updates!Init PROVE RecordInv
<1>1. Updates!TypeOK BY DEF Updates!Init, Updates!TypeOK, RecordConstants
<1>2. \A key \in Addressee \X Kind : rows[key] = None BY DEF Updates!Init
<1>3. RowsAreKnown
  <2>1. chart = {} BY DEF Updates!Init
  <2> QED BY <1>2, <2>1 DEF RowsAreKnown
<1>4. OthersHaveNothing
  <2>1. asking = {} /\ apps = {} BY DEF Updates!Init
  <2> QED BY <1>2, <2>1 DEF OthersHaveNothing
<1>5. RowsAreNamed
  <2>1. DOMAIN rows = Addressee \X Kind BY DEF Updates!Init
  <2>2. \A key \in Addressee \X Kind : named[key] = None BY DEF Updates!Init
  <2> QED BY <1>2, <2>1, <2>2 DEF RowsAreNamed, Updates!RolloutKept
<1>6. AnnouncersKnow /\ Updates!NewestKept /\ Updates!ToldIsStored
  BY DEF Updates!Init, AnnouncersKnow, Updates!NewestKept, Updates!ToldIsStored
<1> QED BY <1>1, <1>3, <1>4, <1>5, <1>6 DEF RecordInv

(* updates.go, store/updates.go: however announcers, reports, joins and    *)
(* deletions overlap, who is in the chart while an announcement goes out   *)
(* does not miss it, the newest stay, a report that names no announcement  *)
(* moves no row to another, and no row outlives its worker but those a     *)
(* race is known to leave.                                                 *)
THEOREM RecordsAreTrue == Updates!Spec => []RecordsKeep
<1>1. RecordInv => RecordsKeep
  BY PartsAssumption, RecordsTell DEF RecordInv, RowsAreNamed, RecordsKeep
<1>2. Updates!Init => RecordInv BY PartsAssumption, RecordsBegin
<1>3. RecordInv /\ [Updates!Next]_(Updates!vars) => RecordInv'
  BY PartsAssumption, RecordStepKeeps
<1> QED BY <1>1, <1>2, <1>3, PTL DEF Updates!Spec

-----------------------------------------------------------------------------
(* The polls: the picture a dashboard has is the last poll.                *)

(* Before the first poll nothing is known. *)
PollInv ==
  /\ Polls!TypeOK
  /\ Polls!PictureFollows
  /\ ~initialized => workers = Polls!Nobody /\ revisions = Polls!Empty

(* What is told of a worker between two polls makes the second state of    *)
(* the first.                                                              *)
LEMMA EventsAreEnough ==
  ASSUME PollConstants, initialized, NEW w \in Polled,
         NEW prev \in Polls!Snapshot \cup {None}, NEW next \in Polls!Snapshot \cup {None}
  PROVE  Polls!Applied(prev, Polls!WorkerEvents(w, prev, next)) = next
<1> DEFINE es == Polls!WorkerEvents(w, prev, next)
<1> SUFFICES Polls!Applied(prev, es) = next OBVIOUS
<1>1. CASE prev = None /\ next = None
  BY <1>1 DEF Polls!WorkerEvents, Polls!Applied
<1>2. CASE prev = None /\ next # None
  <2>1. next \in Polls!Snapshot /\ es = {Polls!Connected(w, next)} BY <1>2 DEF Polls!WorkerEvents
  <2>2. /\ Polls!Connected(w, next).type = "worker_connected"
             /\ Polls!Connected(w, next).role = next.role
        /\ Polls!Connected(w, next).reportsTo = next.reportsTo
             /\ Polls!Connected(w, next).status = next.status
    BY DEF Polls!Connected
  <2>3. (CHOOSE x \in es : x.type = "worker_connected") = Polls!Connected(w, next)
    BY <2>1, <2>2
  <2>4. next = [role |-> next.role, reportsTo |-> next.reportsTo, status |-> next.status]
    BY <2>1 DEF Polls!Snapshot
  <2>5. (\E e \in es : e.type = "worker_connected")
          /\ ~ \E e \in es : e.type = "worker_disconnected"
    BY <2>1, <2>2
  <2> HIDE DEF es
  <2> QED BY <2>2, <2>3, <2>4, <2>5 DEF Polls!Applied
<1>3. CASE prev # None /\ next = None
  <2>1. es = {Polls!Disconnected(w)} BY <1>3 DEF Polls!WorkerEvents
  <2> QED BY <1>3, <2>1 DEF Polls!Applied, Polls!Disconnected
<1>4. CASE prev # None /\ next # None
  <2>0. prev \in Polls!Snapshot /\ next \in Polls!Snapshot BY <1>4
  <2>1. es = Polls!RoleEvents(w, prev, next) \cup Polls!MoveEvents(w, prev, next) BY <1>4
      DEF Polls!WorkerEvents
  <2>2. next = [role |-> next.role, reportsTo |-> next.reportsTo, status |-> next.status]
    BY <2>0 DEF Polls!Snapshot
  <2>3. prev # next => \/ prev.role # next.role \/ prev.reportsTo # next.reportsTo
                       \/ prev.status # next.status
    BY <2>0 DEF Polls!Snapshot
  <2> DEFINE R == [type |-> "worker_role_changed", worker |-> w, role |-> next.role]
             M == Polls!Reassigned(w, next)
             S == Polls!StatusChanged(w, next)
  <2>4. /\ R.type = "worker_role_changed" /\ R.role = next.role
        /\ M.type = "worker_reassigned" /\ M.reportsTo = next.reportsTo
        /\ S.type = "worker_status_changed" /\ S.status = next.status
    BY DEF Polls!Reassigned, Polls!StatusChanged
  <2>5. Polls!RoleEvents(w, prev, next) = IF prev.role # next.role THEN {R} ELSE {}
    BY <1>4, <2>3 DEF Polls!RoleEvents
  <2>6. Polls!MoveEvents(w, prev, next) = IF prev.reportsTo # next.reportsTo THEN {M, S}
                                    ELSE IF prev.status # next.status THEN {S} ELSE {}
    <3>1. CASE prev.reportsTo # next.reportsTo BY <3>1 DEF Polls!MoveEvents
    <3>2. CASE prev.reportsTo = next.reportsTo /\ prev.status # next.status
      BY <3>2 DEF Polls!MoveEvents
    <3>3. CASE prev.reportsTo = next.reportsTo /\ prev.status = next.status
      BY <3>3 DEF Polls!MoveEvents
    <3> QED BY <3>1, <3>2, <3>3
  <2> HIDE DEF R, M, S
  <2>7. \A e \in es : e \in {R, M, S} BY <2>1, <2>5, <2>6
  <2>8. /\ ~ \E e \in es : e.type = "worker_disconnected"
        /\ ~ \E e \in es : e.type = "worker_connected"
    BY <2>4, <2>7
  <2>9. /\ R \in es <=> prev.role # next.role
        /\ M \in es <=> prev.reportsTo # next.reportsTo
        /\ S \in es <=> prev.reportsTo # next.reportsTo \/ prev.status # next.status
    BY <2>1, <2>4, <2>5, <2>6
  <2> HIDE DEF es
  <2>10. /\ (\E e \in es : e.type = "worker_role_changed") <=> R \in es
         /\ (\E e \in es : e.type = "worker_reassigned") <=> M \in es
         /\ (\E e \in es : e.type = "worker_status_changed") <=> S \in es
    BY <2>4, <2>7
  <2>11. /\ R \in es => (CHOOSE x \in es : x.type = "worker_role_changed") = R
         /\ M \in es => (CHOOSE x \in es : x.type = "worker_reassigned") = M
         /\ S \in es => (CHOOSE x \in es : x.type = "worker_status_changed") = S
    BY <2>4, <2>7
  <2> QED BY <1>4, <2>2, <2>4, <2>8, <2>9, <2>10, <2>11 DEF Polls!Applied
<1> QED BY <1>1, <1>2, <1>3, <1>4

(* What is told of an object is enough to follow it from one poll to the next. *)
LEMMA ObjectEventsAreEnough ==
  ASSUME PollConstants, initialized, NEW o \in PolledObject,
         NEW prev \in ObjectRevision \cup {None}, NEW next \in ObjectRevision \cup {None}
  PROVE  Polls!AppliedObject(prev, Polls!ObjectEvents(o, prev, next)) = next
<1>1. CASE prev = next BY <1>1 DEF Polls!ObjectEvents, Polls!AppliedObject
<1>2. ASSUME prev # next, NEW e, Polls!ObjectEvents(o, prev, next) = {e},
             next = IF e.type = "storage_delete" THEN None ELSE e.revision
      PROVE  Polls!AppliedObject(prev, Polls!ObjectEvents(o, prev, next)) = next
  <2>1. (CHOOSE x \in {e} : TRUE) = e OBVIOUS
  <2> QED BY <1>2, <2>1 DEF Polls!AppliedObject
<1>3. CASE prev # next /\ next = None
  <2> DEFINE e == [type |-> "storage_delete", object |-> o]
  <2>1. Polls!ObjectEvents(o, prev, next) = {e} BY <1>3 DEF Polls!ObjectEvents
  <2>2. e.type = "storage_delete" OBVIOUS
  <2> HIDE DEF e
  <2> QED BY <1>2, <1>3, <2>1, <2>2
<1>4. CASE prev # next /\ next # None
  <2> DEFINE e == [type |-> "storage_write", object |-> o, revision |-> next]
  <2>1. Polls!ObjectEvents(o, prev, next) = {e} BY <1>4 DEF Polls!ObjectEvents
  <2>2. e.type = "storage_write" /\ e.revision = next OBVIOUS
  <2> HIDE DEF e
  <2> QED BY <1>2, <1>4, <2>1, <2>2
<1> QED BY <1>1, <1>3, <1>4

(* Every step of the polls keeps their invariant. *)
LEMMA PollStepKeeps ==
  ASSUME PollConstants, PollInv, [Polls!Next]_(Polls!vars)
  PROVE  PollInv'
<1> USE DEF PollInv
<1>1. CASE Polls!ChangeChart
  BY <1>1 DEF Polls!ChangeChart, Polls!TypeOK, Polls!PictureFollows, Polls!Nobody, Polls!Empty
<1>2. CASE Polls!ChangeObjects
  BY <1>2 DEF Polls!ChangeObjects, Polls!TypeOK, Polls!PictureFollows, Polls!Nobody, Polls!Empty
<1>3. ASSUME NEW answered \in BOOLEAN, Polls!Poll(answered) PROVE PollInv'
  <2>0. /\ workerRows \in [Polled -> Polls!Snapshot \cup {None}]
             /\ workers \in [Polled -> Polls!Snapshot \cup {None}]
        /\ objects \in [PolledObject -> ObjectRevision \cup {None}]
        /\ revisions \in [PolledObject -> ObjectRevision \cup {None}]
        /\ workers' = workerRows /\ revisions' = (IF answered THEN objects ELSE revisions)
        /\ initialized' = TRUE /\ workerRows' = workerRows /\ objects' = objects
    BY <1>3 DEF Polls!Poll, Polls!TypeOK
  <2>1. picture' = [workers |-> workers', revisions |-> revisions']
    <3>1. CASE ~initialized BY <1>3, <3>1 DEF Polls!Poll
    <3>2. CASE initialized
      <4>1. picture = [workers |-> workers, revisions |-> revisions] BY <3>2
          DEF Polls!PictureFollows
      <4>2. ASSUME NEW w \in Polled
            PROVE  Polls!Applied(picture.workers[w],
                       Polls!WorkerEvents(w, workers[w], workerRows[w])) = workerRows[w]
        BY <2>0, <3>2, <4>1, EventsAreEnough
      <4>3. [w \in Polled |-> Polls!Applied(picture.workers[w],
                  Polls!WorkerEvents(w, workers[w], workerRows[w]))]
              = workerRows
        BY <2>0, <4>2
      <4>4. ASSUME NEW o \in PolledObject
            PROVE  Polls!AppliedObject(picture.revisions[o],
                                 IF answered THEN Polls!ObjectEvents(o, revisions[o], objects[o])
                                   ELSE {})
                     = revisions'[o]
        <5>1. CASE answered BY <2>0, <3>2, <4>1, <5>1, ObjectEventsAreEnough
        <5>2. CASE ~answered BY <2>0, <4>1, <5>2 DEF Polls!AppliedObject
        <5> QED BY <5>1, <5>2
      <4>5. [o \in PolledObject |-> Polls!AppliedObject(picture.revisions[o],
                                IF answered THEN Polls!ObjectEvents(o, revisions[o], objects[o])
                                  ELSE {})]
              = revisions'
        <5>1. revisions' \in [PolledObject -> ObjectRevision \cup {None}] BY <2>0
        <5> QED BY <4>4, <5>1
      <4> QED BY <1>3, <2>0, <3>2, <4>3, <4>5 DEF Polls!Poll
    <3> QED BY <3>1, <3>2
  <2>2. Polls!TypeOK' BY <2>0, <2>1 DEF Polls!TypeOK
  <2> QED BY <2>0, <2>1, <2>2 DEF Polls!PictureFollows
<1>4. CASE UNCHANGED Polls!vars
  BY <1>4 DEF Polls!vars, Polls!TypeOK, Polls!PictureFollows, Polls!Nobody, Polls!Empty
<1> QED BY <1>1, <1>2, <1>3, <1>4 DEF Polls!Next

(* The invariant of the polls holds at first. *)
LEMMA PollsBegin == ASSUME PollConstants, Polls!Init PROVE PollInv
<1>1. Polls!Nobody \in [Polled -> Polls!Snapshot \cup {None}]
        /\ Polls!Empty \in [PolledObject -> ObjectRevision \cup {None}]
  BY DEF Polls!Nobody, Polls!Empty
<1> QED BY <1>1 DEF Polls!Init, PollInv, Polls!TypeOK, Polls!PictureFollows

(* The first poll, which has nothing to compare with, tells nothing. *)
LEMMA FirstIsQuiet == ASSUME PollConstants, PollInv PROVE Polls!FirstPollIsQuiet
<1> SUFFICES ASSUME ~initialized PROVE Polls!FirstPollEvents = {} BY DEF Polls!FirstPollIsQuiet
<1>1. ASSUME NEW w \in Polled PROVE Polls!WorkerEvents(w, workers[w], workerRows[w]) = {}
  BY DEF PollInv, Polls!Nobody, Polls!WorkerEvents
<1>2. ASSUME NEW o \in PolledObject PROVE Polls!ObjectEvents(o, revisions[o], objects[o]) = {}
  BY DEF Polls!ObjectEvents
<1> QED BY <1>1, <1>2 DEF Polls!FirstPollEvents

(* events.go: whatever happens to the chart and the objects between polls  *)
(* and whichever listing fails, what a dashboard is told, added up, is the *)
(* chart and the objects as they were polled; the first poll tells nothing.*)
THEOREM PollsAreTrue == Polls!Spec => []PictureFollows
<1>1. PollInv => PictureFollows BY PartsAssumption, FirstIsQuiet DEF PollInv, PictureFollows
<1>2. Polls!Init => PollInv BY PartsAssumption, PollsBegin
<1>3. PollInv /\ [Polls!Next]_(Polls!vars) => PollInv' BY PartsAssumption, PollStepKeeps
<1> QED BY <1>1, <1>2, <1>3, PTL DEF Polls!Spec

-----------------------------------------------------------------------------
(* The stored reports.  Whatever is pruned has RowRetention newer rows of  *)
(* its scope among what was inserted, and these are never pruned before.   *)

StoredRow == [scope : Scope, at : Instant, of : 1 .. MaxPosts, id : Nat]

PostUnderWay ==
  {ReportRows!Idle}
    \cup [pc : {"insert", "prune", "events", "pruneEvents"}, scope : Scope, at : Instant,
               left : Seq(Instant), of : 1 .. MaxPosts]

(* Of one of the tables: rows is what it has, all what was ever inserted   *)
(* and not purged.  The newest are there, and at a scope that nobody has   *)
(* still to prune nothing else is.                                         *)
HasNewest(kept, all, n) == \A s \in Scope :
  ReportRows!Newest(ReportRows!AtScope(all, s), n) \subseteq ReportRows!AtScope(kept, s)
IsPruned(kept, all, s, n) == ReportRows!AtScope(kept, s)
  = ReportRows!Newest(ReportRows!AtScope(all, s), n)

PrunesInstances(p, s) == posts[p].pc = "prune" /\ posts[p].scope = s
PrunesEvents(p, s) ==
  /\ posts[p].pc = "pruneEvents" \/ (posts[p].pc = "events" /\ posts[p].left # << >>)
  /\ posts[p].scope = s

RowsAreTyped ==
  /\ posts \in [Poster -> PostUnderWay]
  /\ accepted \in [instances : SUBSET StoredRow, events : SUBSET StoredRow]
  /\ IsFiniteSet(accepted.instances) /\ IsFiniteSet(accepted.events)
  /\ instances \subseteq accepted.instances /\ events \subseteq accepted.events
  /\ posted \in 0 .. MaxPosts /\ faults \in 0 .. MaxFaults

RowInv ==
  /\ RowsAreTyped
  /\ HasNewest(instances, accepted.instances, RowRetention)
  /\ HasNewest(events, accepted.events, EventRetention)
  /\ faults = 0 => \A s \in Scope :
       /\ (\A p \in Poster : ~ PrunesInstances(p, s)) =>
            IsPruned(instances, accepted.instances, s, RowRetention)
       /\ (\A p \in Poster : ~ PrunesEvents(p, s)) =>
            IsPruned(events, accepted.events, s, EventRetention)

-----------------------------------------------------------------------------
(* The sizes that the instance speaks of are sizes. *)
LEMMA SameRowSizes == \A S : ReportRows!Cardinality(S) = Cardinality(S)
BY DEF ReportRows!Cardinality, Cardinality, ReportRows!IsFiniteSet, IsFiniteSet

(* Newest first is a strict order of the rows. *)
LEMMA RowsAreOrdered ==
  ASSUME RowConstants
  PROVE  /\ \A q, r, s \in StoredRow :
              ReportRows!RowBefore(q, r) /\ ReportRows!RowBefore(r, s)
                => ReportRows!RowBefore(q, s)
         /\ \A r \in StoredRow : ~ ReportRows!RowBefore(r, r)
<1>1. \A r \in StoredRow : r.at \in Int /\ r.id \in Nat BY DEF StoredRow, RowConstants
<1> QED BY <1>1 DEF ReportRows!RowBefore

(* The newest of a table that has the newest of all are those. *)
LEMMA NewestOfTheRest ==
  ASSUME RowConstants, NEW All \in SUBSET StoredRow, IsFiniteSet(All), NEW Some \in SUBSET All,
         NEW n \in Nat, ReportRows!Newest(All, n) \subseteq Some
  PROVE  ReportRows!Newest(Some, n) = ReportRows!Newest(All, n)
<1> DEFINE after(S, r) == {o \in S : ReportRows!RowBefore(r, o)}
<1>1. \A r : /\ IsFiniteSet(after(All, r)) /\ Cardinality(after(All, r)) \in Nat
             /\ IsFiniteSet(after(Some, r)) /\ Cardinality(after(Some, r)) \in Nat
             /\ Cardinality(after(Some, r)) <= Cardinality(after(All, r))
  <2> TAKE r
  <2>1. /\ after(All, r) \subseteq All /\ after(Some, r) \subseteq All
        /\ after(Some, r) \subseteq after(All, r)
    OBVIOUS
  <2> HIDE DEF after
  <2> QED BY <2>1, FS_Subset, FS_CardinalityType
<1>2. ASSUME NEW r \in ReportRows!Newest(All, n) PROVE r \in ReportRows!Newest(Some, n)
  <2>1. r \in Some /\ Cardinality(after(All, r)) < n BY SameRowSizes DEF ReportRows!Newest
  <2>2. Cardinality(after(Some, r)) < n
    <3> HIDE DEF after
    <3> QED BY <1>1, <2>1
  <2> QED BY <2>1, <2>2, SameRowSizes DEF ReportRows!Newest
<1>3. ASSUME NEW r \in ReportRows!Newest(Some, n), r \notin ReportRows!Newest(All, n) PROVE FALSE
  <2>1. r \in All /\ r \in Some /\ Cardinality(after(Some, r)) < n
    BY SameRowSizes DEF ReportRows!Newest
  <2>2. ~ Cardinality(after(All, r)) < n BY <1>3, <2>1, SameRowSizes DEF ReportRows!Newest
  <2> DEFINE before == [x \in All \cup {r} |-> after(All, x)]
             First  == ReportRows!Newest(All, n)
  <2>3. before \in [All \cup {r} -> SUBSET All] OBVIOUS
  <2>4. \A x \in All \cup {r} : before[x] = {o \in All : ReportRows!RowBefore(x, o)} OBVIOUS
  <2>5. /\ \A x, y \in All : \A z \in All \cup {r} :
             x \in before[y] /\ y \in before[z] => x \in before[z]
        /\ \A x \in All : x \notin before[x]
    <3> HIDE DEF before, First
    <3> QED BY <2>1, <2>4, RowsAreOrdered
  <2>6. First = {x \in All : Cardinality(before[x]) < n} BY SameRowSizes DEF ReportRows!Newest
  <2>7. Cardinality(before[r]) >= n
    <3>1. before[r] = after(All, r) OBVIOUS
    <3> HIDE DEF after, before
    <3> QED BY <1>1, <2>2, <3>1
  <2>8. Cardinality(First \cap before[r]) >= n
    <3> HIDE DEF before, First, after
    <3> QED BY <2>3, <2>5, <2>6, <2>7, FirstOnesStay
  <2>9. First \cap before[r] \subseteq after(Some, r)
    <3> HIDE DEF before
    <3> QED BY <2>1, <2>4
  <2> HIDE DEF before, First, after
  <2>10. IsFiniteSet(First \cap before[r]) /\ Cardinality(First \cap before[r]) \in Nat
    BY <1>1, <2>9, FS_Subset, FS_CardinalityType
  <2>11. Cardinality(First \cap before[r]) <= Cardinality(after(Some, r))
    BY <1>1, <2>9, FS_Subset
  <2> QED BY <1>1, <2>1, <2>8, <2>10, <2>11
<1>4. ReportRows!Newest(Some, n) \subseteq ReportRows!Newest(All, n) BY <1>3
<1> QED BY <1>2, <1>4

(* One more row makes none the newest but itself. *)
LEMMA NewestOfOneMore ==
  ASSUME RowConstants, NEW All, IsFiniteSet(All), NEW row, NEW n \in Nat
  PROVE  ReportRows!Newest(All \cup {row}, n) \subseteq ReportRows!Newest(All, n) \cup {row}
<1> SUFFICES ASSUME NEW r \in ReportRows!Newest(All \cup {row}, n), r # row
             PROVE  r \in ReportRows!Newest(All, n)
  OBVIOUS
<1> DEFINE X == {o \in All : ReportRows!RowBefore(r, o)}
           Y == {o \in All \cup {row} : ReportRows!RowBefore(r, o)}
<1>1. r \in All /\ Cardinality(Y) < n BY SameRowSizes DEF ReportRows!Newest
<1>2. X \subseteq Y /\ X \subseteq All /\ Y \subseteq All \cup {row} OBVIOUS
<1>3. IsFiniteSet(All \cup {row}) BY FS_AddElement
<1>4. Cardinality(X) < n
  <2> HIDE DEF X, Y
  <2>1. IsFiniteSet(Y) /\ IsFiniteSet(X) /\ Cardinality(X) \in Nat /\ Cardinality(Y) \in Nat
    BY <1>2, <1>3, FS_Subset, FS_CardinalityType
  <2>2. Cardinality(X) <= Cardinality(Y) BY <1>2, <2>1, FS_Subset
  <2> QED BY <1>1, <2>1, <2>2
<1> QED BY <1>1, <1>4, SameRowSizes DEF ReportRows!Newest

-----------------------------------------------------------------------------
(* What the statements do to a table. *)
LEMMA InsertKeeps ==
  ASSUME RowConstants, NEW all \in SUBSET StoredRow, IsFiniteSet(all), NEW kept \in SUBSET all,
         NEW row \in StoredRow, NEW n \in Nat, HasNewest(kept, all, n)
  PROVE  /\ HasNewest(kept \cup {row}, all \cup {row}, n)
         /\ \A s \in Scope : s # row.scope /\ IsPruned(kept, all, s, n) =>
              IsPruned(kept \cup {row}, all \cup {row}, s, n)
         /\ all \cup {row} \in SUBSET StoredRow /\ IsFiniteSet(all \cup {row})
         /\ kept \cup {row} \subseteq all \cup {row}
<1>1. IsFiniteSet(all \cup {row}) BY FS_AddElement
<1>2. \A s \in Scope : s # row.scope =>
        ReportRows!AtScope(kept \cup {row}, s) = ReportRows!AtScope(kept, s)
          /\ ReportRows!AtScope(all \cup {row}, s) = ReportRows!AtScope(all, s)
  BY DEF ReportRows!AtScope
<1>3. ASSUME NEW s \in Scope
      PROVE  ReportRows!Newest(ReportRows!AtScope(all \cup {row}, s), n)
               \subseteq ReportRows!AtScope(kept \cup {row}, s)
  <2>1. CASE s # row.scope BY <1>2, <2>1 DEF HasNewest
  <2>2. CASE s = row.scope
    <3>1. ReportRows!AtScope(all \cup {row}, s) = ReportRows!AtScope(all, s) \cup {row}
        BY <2>2 DEF ReportRows!AtScope
    <3>2. ReportRows!AtScope(kept \cup {row}, s) = ReportRows!AtScope(kept, s) \cup {row}
        BY <2>2 DEF ReportRows!AtScope
    <3>3. IsFiniteSet(ReportRows!AtScope(all, s))
      <4>1. ReportRows!AtScope(all, s) \subseteq all BY DEF ReportRows!AtScope
      <4> QED BY <4>1, FS_Subset
    <3>4. ReportRows!Newest(ReportRows!AtScope(all, s) \cup {row}, n)
            \subseteq ReportRows!Newest(ReportRows!AtScope(all, s), n) \cup {row}
      BY <3>3, NewestOfOneMore
    <3> QED BY <3>1, <3>2, <3>4 DEF HasNewest
  <2> QED BY <2>1, <2>2
<1>4. HasNewest(kept \cup {row}, all \cup {row}, n) BY <1>3 DEF HasNewest
<1> QED BY <1>1, <1>2, <1>4 DEF IsPruned

(* Pruning one scope keeps the newest of every scope, and what was pruned pruned. *)
LEMMA PruneRowsKeeps ==
  ASSUME RowConstants, NEW all \in SUBSET StoredRow, IsFiniteSet(all), NEW kept \in SUBSET all,
         NEW scope \in Scope, NEW n \in Nat, HasNewest(kept, all, n)
  PROVE  /\ HasNewest(ReportRows!Pruned(kept, scope, n), all, n)
         /\ IsPruned(ReportRows!Pruned(kept, scope, n), all, scope, n)
         /\ \A s \in Scope : s # scope /\ IsPruned(kept, all, s, n) =>
              IsPruned(ReportRows!Pruned(kept, scope, n), all, s, n)
         /\ ReportRows!Pruned(kept, scope, n) \subseteq all
<1>1. /\ ReportRows!AtScope(all, scope) \in SUBSET StoredRow
           /\ ReportRows!AtScope(all, scope) \subseteq all
      /\ ReportRows!AtScope(kept, scope) \subseteq ReportRows!AtScope(all, scope)
  BY DEF ReportRows!AtScope
<1>2. ReportRows!Newest(ReportRows!AtScope(all, scope), n) \subseteq ReportRows!AtScope(kept,
    scope) BY DEF HasNewest
<1>3. ReportRows!Newest(ReportRows!AtScope(kept, scope), n)
        = ReportRows!Newest(ReportRows!AtScope(all, scope), n)
  <2>1. IsFiniteSet(ReportRows!AtScope(all, scope)) BY <1>1, FS_Subset
  <2> QED BY <1>1, <1>2, <2>1, NewestOfTheRest
<1>4. ReportRows!AtScope(ReportRows!Pruned(kept, scope, n), scope)
        = ReportRows!Newest(ReportRows!AtScope(kept, scope), n)
  <2>1. ReportRows!Newest(ReportRows!AtScope(kept, scope), n) \subseteq ReportRows!AtScope(kept,
      scope) BY SameRowSizes DEF ReportRows!Newest
  <2> QED BY <2>1 DEF ReportRows!Pruned, ReportRows!AtScope
<1>5. \A s \in Scope : s # scope
        => ReportRows!AtScope(ReportRows!Pruned(kept, scope, n), s) = ReportRows!AtScope(kept, s)
  BY DEF ReportRows!Pruned, ReportRows!AtScope
<1>6. ReportRows!Pruned(kept, scope, n) \subseteq all BY DEF ReportRows!Pruned
<1> QED BY <1>2, <1>3, <1>4, <1>5, <1>6 DEF HasNewest, IsPruned

(* Purging a scope from the table and from what was accepted keeps what holds of both. *)
LEMMA PurgeKeeps ==
  ASSUME RowConstants, NEW all \in SUBSET StoredRow, IsFiniteSet(all), NEW kept \in SUBSET all,
         NEW scope \in Scope, NEW n \in Nat, HasNewest(kept, all, n)
  PROVE  /\ HasNewest(ReportRows!KeptBy(scope, kept), ReportRows!KeptBy(scope, all), n)
         /\ \A s \in Scope : IsPruned(kept, all, s, n) =>
              IsPruned(ReportRows!KeptBy(scope, kept), ReportRows!KeptBy(scope, all), s, n)
         /\ ReportRows!KeptBy(scope, all) \in SUBSET StoredRow
              /\ IsFiniteSet(ReportRows!KeptBy(scope, all))
         /\ ReportRows!KeptBy(scope, kept) \subseteq ReportRows!KeptBy(scope, all)
<1>1. IsFiniteSet(ReportRows!KeptBy(scope, all))
  <2>1. ReportRows!KeptBy(scope, all) \subseteq all BY DEF ReportRows!KeptBy
  <2> QED BY <2>1, FS_Subset
<1>2. \A s \in Scope : ReportRows!PurgeMatches(scope, s) =>
        ReportRows!AtScope(ReportRows!KeptBy(scope, kept), s) = {}
          /\ ReportRows!AtScope(ReportRows!KeptBy(scope, all), s) = {}
  BY DEF ReportRows!KeptBy, ReportRows!AtScope
<1>3. \A s \in Scope : ~ ReportRows!PurgeMatches(scope, s) =>
        /\ ReportRows!AtScope(ReportRows!KeptBy(scope, kept), s) = ReportRows!AtScope(kept, s)
        /\ ReportRows!AtScope(ReportRows!KeptBy(scope, all), s) = ReportRows!AtScope(all, s)
  BY DEF ReportRows!KeptBy, ReportRows!AtScope
<1>4. ReportRows!Newest({}, n) = {} BY SameRowSizes DEF ReportRows!Newest
<1>5. ReportRows!KeptBy(scope, all) \in SUBSET StoredRow
        /\ ReportRows!KeptBy(scope, kept) \subseteq ReportRows!KeptBy(scope, all)
  BY DEF ReportRows!KeptBy
<1> QED BY <1>1, <1>2, <1>3, <1>4, <1>5 DEF HasNewest, IsPruned

(* A row that is inserted has a number. *)
LEMMA NextIdIs ==
  ASSUME RowConstants, NEW kept \in SUBSET StoredRow, IsFiniteSet(kept)
  PROVE  ReportRows!NextId(kept) \in Nat
<1> DEFINE S == {0} \cup {r.id : r \in kept}
           before == [x \in S |-> {y \in S : y > x}]
<1>1. S \subseteq Nat /\ S # {} BY DEF StoredRow
<1>2. IsFiniteSet(S)
  <2> DEFINE f == [r \in kept |-> r.id]
             Ids == {f[r] : r \in kept}
  <2>1. IsFiniteSet(Ids)
    <3>1. f \in Surjection(kept, Ids) BY DEF Surjection
    <3> HIDE DEF f, Ids
    <3> QED BY <3>1, FS_Surjection
  <2>2. S = Ids \cup {0} OBVIOUS
  <2> HIDE DEF Ids, S
  <2> QED BY <2>1, <2>2, FS_AddElement
<1>3. before \in [S -> SUBSET S] /\ \A x \in S : before[x] = {y \in S : y > x} OBVIOUS
<1>4. \E m \in S : \A x \in S \ {m} : m \in before[x]
  <2> HIDE DEF S, before
  <2>1. \A x, y, z \in S : x \in before[y] /\ y \in before[z] => x \in before[z]
    BY <1>1, <1>3
  <2>2. \A x \in S : x \notin before[x] BY <1>1, <1>3
  <2>3. \A x, y \in S : x = y \/ x \in before[y] \/ y \in before[x] BY <1>1, <1>3
  <2> QED BY <1>1, <1>2, <1>3, <2>1, <2>2, <2>3, OneIsFirst
<1>5. \E m \in S : \A r \in kept : r.id <= m
  <2>1. PICK m \in S : \A x \in S \ {m} : m \in before[x] BY <1>4
  <2>2. \A x \in S : x <= m
    <3> HIDE DEF S, before
    <3> QED BY <1>1, <1>3, <2>1
  <2> QED BY <2>2
<1>6. (CHOOSE m \in S : \A r \in kept : r.id <= m) \in Nat
  <2> HIDE DEF S
  <2> QED BY <1>1, <1>5
<1> QED BY <1>6 DEF ReportRows!NextId

-----------------------------------------------------------------------------
(* The step a request stands before, after it has taken one. *)
LEMMA ProceedIs ==
  ASSUME RowsAreTyped, NEW p \in Poster, NEW pc \in {"idle", "prune", "events", "pruneEvents"},
         posts[p].pc # "idle", ReportRows!Proceed(p, pc)
  PROVE  /\ posts' \in [Poster -> PostUnderWay]
         /\ \A q \in Poster \ {p} : posts'[q] = posts[q]
         /\ posts'[p].pc = pc
         /\ pc # "idle" => posts'[p].scope = posts[p].scope /\ posts'[p].left = posts[p].left
<1>1. posts[p] \in PostUnderWay /\ posts \in [Poster -> PostUnderWay] /\ posts[p] # ReportRows!Idle
  BY DEF RowsAreTyped, ReportRows!Idle
<1>2. CASE pc = "idle"
  <2>1. posts' = [posts EXCEPT ![p] = ReportRows!Idle] BY <1>2 DEF ReportRows!Proceed
  <2>2. ReportRows!Idle \in PostUnderWay /\ ReportRows!Idle.pc = "idle" BY DEF PostUnderWay,
      ReportRows!Idle
  <2> QED BY <1>1, <1>2, <2>1, <2>2
<1>3. CASE pc # "idle"
  <2> DEFINE next == [posts[p] EXCEPT !.pc = pc]
  <2>1. posts' = [posts EXCEPT ![p] = next] BY <1>3 DEF ReportRows!Proceed
  <2>2. next \in PostUnderWay /\ next.pc = pc /\ next.scope = posts[p].scope
          /\ next.left = posts[p].left
    BY <1>1, <1>3 DEF PostUnderWay, ReportRows!Idle
  <2> HIDE DEF next
  <2> QED BY <1>1, <2>1, <2>2
<1> QED BY <1>2, <1>3

(* A request under way is typed field by field. *)
LEMMA WritersAre ==
  ASSUME RowConstants, RowInv, NEW p \in Poster, posts[p].pc # "idle"
  PROVE  /\ posts[p].scope \in Scope /\ posts[p].at \in Instant /\ posts[p].left \in Seq(Instant)
         /\ posts[p].of \in 1 .. MaxPosts
BY DEF RowInv, RowsAreTyped, PostUnderWay, ReportRows!Idle

(* The instance's insert and its pruning keep the invariant. *)
LEMMA InstancesKeep ==
  ASSUME RowConstants, RowInv, NEW p \in Poster,
         ReportRows!InsertInstance(p) \/ ReportRows!PruneInstances(p)
  PROVE  RowInv'
<1> USE DEF RowInv
<1> DEFINE all  == accepted.instances
           post == posts[p]
<1>0. /\ post.pc # "idle" /\ post.scope \in Scope /\ all \in SUBSET StoredRow /\ IsFiniteSet(all)
      /\ instances \in SUBSET all /\ IsFiniteSet(instances) /\ RowRetention \in Nat
      /\ events' = events /\ faults' = faults /\ posted' = posted
  <2>1. all \in SUBSET StoredRow /\ IsFiniteSet(all) /\ instances \in SUBSET all
      BY DEF RowsAreTyped
  <2>2. IsFiniteSet(instances)
    <3> HIDE DEF all
    <3> QED BY <2>1, FS_Subset
  <2>3. post.pc # "idle" BY DEF ReportRows!InsertInstance, ReportRows!PruneInstances
  <2>4. post.scope \in Scope BY <2>3, WritersAre
  <2>5. events' = events /\ faults' = faults /\ posted' = posted
    BY DEF ReportRows!InsertInstance, ReportRows!PruneInstances
  <2> QED BY <2>1, <2>2, <2>3, <2>4, <2>5 DEF RowConstants
<1>1. CASE ReportRows!InsertInstance(p)
  <2> DEFINE row == [scope |-> post.scope, at |-> post.at, of |-> post.of,
                 id |-> ReportRows!NextId(instances)]
  <2>1. /\ post.pc = "insert" /\ instances' = instances \cup {row}
             /\ ReportRows!Proceed(p, "prune")
        /\ accepted' = [accepted EXCEPT !.instances = @ \cup {row}]
    BY <1>1 DEF ReportRows!InsertInstance
  <2>2. row \in StoredRow /\ row.scope = post.scope
    <3>1. ReportRows!NextId(instances) \in Nat
      <4> HIDE DEF all, post
      <4>1. instances \in SUBSET StoredRow BY <1>0
      <4> QED BY <1>0, <4>1, NextIdIs
    <3>2. /\ post.scope \in Scope /\ post.at \in Instant /\ post.of \in 1 .. MaxPosts
      BY <1>0, WritersAre
    <3> QED BY <3>1, <3>2 DEF StoredRow
  <2>3. /\ accepted'.instances = all \cup {row} /\ accepted'.events = accepted.events
        /\ accepted' = [instances |-> all \cup {row}, events |-> accepted.events]
    BY <2>1 DEF RowsAreTyped
  <2> HIDE DEF row, all
  <2>4. /\ HasNewest(instances \cup {row}, all \cup {row}, RowRetention)
        /\ \A s \in Scope : s # row.scope /\ IsPruned(instances, all, s, RowRetention) =>
              IsPruned(instances \cup {row}, all \cup {row}, s, RowRetention)
        /\ all \cup {row} \in SUBSET StoredRow /\ IsFiniteSet(all \cup {row})
        /\ instances \cup {row} \subseteq all \cup {row}
    <3>1. HasNewest(instances, all, RowRetention) BY DEF all
    <3> QED BY <1>0, <2>2, <3>1, InsertKeeps
  <2>5. /\ posts' \in [Poster -> PostUnderWay]
        /\ \A q \in Poster \ {p} : posts'[q] = posts[q]
        /\ posts'[p].pc = "prune" /\ posts'[p].scope = post.scope
    BY <1>0, <2>1, ProceedIs
  <2>6. RowsAreTyped'
    BY <1>0, <2>1, <2>3, <2>4, <2>5 DEF RowsAreTyped
  <2>7. ASSUME faults' = 0, NEW s \in Scope
        PROVE  /\ (\A q \in Poster : ~ PrunesInstances(q, s)') =>
                    IsPruned(instances', accepted'.instances, s, RowRetention)
               /\ (\A q \in Poster : ~ PrunesEvents(q, s)') =>
                    IsPruned(events', accepted'.events, s, EventRetention)
    <3>1. \A q \in Poster : PrunesEvents(q, s) <=> PrunesEvents(q, s)'
      BY <2>1, <2>5 DEF PrunesEvents
    <3>2. \A q \in Poster : PrunesInstances(q, s) => PrunesInstances(q, s)'
      BY <2>1, <2>5 DEF PrunesInstances
    <3>3. s = row.scope => PrunesInstances(p, s)' BY <2>2, <2>5 DEF PrunesInstances
    <3>4. (\A q \in Poster : ~ PrunesInstances(q, s)) => IsPruned(instances, all, s, RowRetention)
      BY <1>0, <2>7 DEF all
    <3>5. (\A q \in Poster : ~ PrunesEvents(q, s))
            => IsPruned(events, accepted.events, s, EventRetention)
      BY <1>0, <2>7
    <3> QED BY <1>0, <2>1, <2>3, <2>4, <3>1, <3>2, <3>3, <3>4, <3>5
  <2>8. /\ HasNewest(instances', accepted'.instances, RowRetention)
        /\ HasNewest(events', accepted'.events, EventRetention)
    BY <1>0, <2>1, <2>3, <2>4
  <2> QED BY <2>6, <2>7, <2>8
<1>2. CASE ReportRows!PruneInstances(p)
  <2> DEFINE pc == IF post.left = << >> THEN "idle" ELSE "events"
  <2>1. /\ post.pc = "prune" /\ instances' = ReportRows!Pruned(instances, post.scope, RowRetention)
        /\ ReportRows!Proceed(p, pc) /\ accepted' = accepted
    BY <1>2 DEF ReportRows!PruneInstances
  <2>2. /\ HasNewest(ReportRows!Pruned(instances, post.scope, RowRetention), all, RowRetention)
        /\ IsPruned(ReportRows!Pruned(instances, post.scope, RowRetention), all, post.scope,
               RowRetention)
        /\ \A s \in Scope : s # post.scope /\ IsPruned(instances, all, s, RowRetention) =>
             IsPruned(ReportRows!Pruned(instances, post.scope, RowRetention), all, s, RowRetention)
        /\ ReportRows!Pruned(instances, post.scope, RowRetention) \subseteq all
    <3>1. HasNewest(instances, all, RowRetention) OBVIOUS
    <3> HIDE DEF all, post
    <3> QED BY <1>0, <3>1, PruneRowsKeeps
  <2>3. /\ posts' \in [Poster -> PostUnderWay]
        /\ \A q \in Poster \ {p} : posts'[q] = posts[q]
        /\ posts'[p].pc \in {"idle", "events"}
        /\ posts'[p].pc = "events" => posts'[p].left # << >> /\ posts'[p].scope = post.scope
    <3>1. pc \in {"idle", "prune", "events", "pruneEvents"} /\ (pc # "idle" => post.left # << >>)
      OBVIOUS
    <3>2. pc \in {"idle", "events"} OBVIOUS
    <3> HIDE DEF pc
    <3> QED BY <1>0, <2>1, <3>1, <3>2, ProceedIs
  <2>4. RowsAreTyped' BY <1>0, <2>1, <2>2, <2>3 DEF RowsAreTyped
  <2>5. ASSUME faults' = 0, NEW s \in Scope
        PROVE  /\ (\A q \in Poster : ~ PrunesInstances(q, s)') =>
                    IsPruned(instances', accepted'.instances, s, RowRetention)
               /\ (\A q \in Poster : ~ PrunesEvents(q, s)') =>
                    IsPruned(events', accepted'.events, s, EventRetention)
    <3>1. \A q \in Poster : PrunesEvents(q, s) => PrunesEvents(q, s)'
      BY <2>1, <2>3 DEF PrunesEvents
    <3>2. s # post.scope => \A q \in Poster : PrunesInstances(q, s) => PrunesInstances(q, s)'
      BY <2>1, <2>3 DEF PrunesInstances
    <3>4. (\A q \in Poster : ~ PrunesInstances(q, s)) => IsPruned(instances, all, s, RowRetention)
      BY <1>0, <2>5
    <3>5. (\A q \in Poster : ~ PrunesEvents(q, s))
            => IsPruned(events, accepted.events, s, EventRetention)
      BY <1>0, <2>5
    <3> HIDE DEF post
    <3> QED BY <1>0, <2>1, <2>2, <3>1, <3>2, <3>4, <3>5
  <2>6. /\ HasNewest(instances', accepted'.instances, RowRetention)
        /\ HasNewest(events', accepted'.events, EventRetention)
    BY <1>0, <2>1, <2>2
  <2> QED BY <2>4, <2>5, <2>6
<1> QED BY <1>1, <1>2

(* The insert of an event and the pruning of events keep the invariant. *)
LEMMA EventsKeep ==
  ASSUME RowConstants, RowInv, NEW p \in Poster,
         ReportRows!InsertEvent(p) \/ ReportRows!PruneEvents(p)
  PROVE  RowInv'
<1> USE DEF RowInv
<1> DEFINE all  == accepted.events
           post == posts[p]
<1>0. /\ post.pc # "idle" /\ post.scope \in Scope /\ all \in SUBSET StoredRow /\ IsFiniteSet(all)
      /\ events \in SUBSET all /\ IsFiniteSet(events) /\ EventRetention \in Nat
      /\ instances' = instances /\ faults' = faults /\ posted' = posted
  <2>1. all \in SUBSET StoredRow /\ IsFiniteSet(all) /\ events \in SUBSET all BY DEF RowsAreTyped
  <2>2. IsFiniteSet(events)
    <3> HIDE DEF all
    <3> QED BY <2>1, FS_Subset
  <2>3. post.pc # "idle" BY DEF ReportRows!InsertEvent, ReportRows!PruneEvents
  <2>4. post.scope \in Scope BY <2>3, WritersAre
  <2>5. instances' = instances /\ faults' = faults /\ posted' = posted
    BY DEF ReportRows!InsertEvent, ReportRows!PruneEvents
  <2> QED BY <2>1, <2>2, <2>3, <2>4, <2>5 DEF RowConstants
<1>1. CASE ReportRows!InsertEvent(p)
  <2> DEFINE row == [scope |-> post.scope, at |-> Head(post.left), of |-> post.of,
                 id |-> ReportRows!NextId(events)]
  <2>1. /\ post.pc = "events" /\ post.left # << >> /\ events' = events \cup {row}
        /\ accepted' = [accepted EXCEPT !.events = @ \cup {row}]
        /\ posts' = [posts EXCEPT ![p].left = Tail(@),
                                  ![p].pc = IF Len(post.left) = 1 THEN "pruneEvents" ELSE "events"]
    BY <1>1 DEF ReportRows!InsertEvent
  <2>2. row \in StoredRow /\ row.scope = post.scope
    <3>1. ReportRows!NextId(events) \in Nat
      <4> HIDE DEF all, post
      <4>1. events \in SUBSET StoredRow BY <1>0
      <4> QED BY <1>0, <4>1, NextIdIs
    <3>2. /\ post.scope \in Scope /\ post.left \in Seq(Instant) /\ post.of \in 1 .. MaxPosts
      BY <1>0, WritersAre
    <3>3. Head(post.left) \in Instant BY <2>1, <3>2
    <3> QED BY <3>1, <3>2, <3>3 DEF StoredRow
  <2>3. /\ accepted'.events = all \cup {row} /\ accepted'.instances = accepted.instances
        /\ accepted' = [instances |-> accepted.instances, events |-> all \cup {row}]
    BY <2>1 DEF RowsAreTyped
  <2> HIDE DEF row, all
  <2>4. /\ HasNewest(events \cup {row}, all \cup {row}, EventRetention)
        /\ \A s \in Scope : s # row.scope /\ IsPruned(events, all, s, EventRetention) =>
              IsPruned(events \cup {row}, all \cup {row}, s, EventRetention)
        /\ all \cup {row} \in SUBSET StoredRow /\ IsFiniteSet(all \cup {row})
        /\ events \cup {row} \subseteq all \cup {row}
    <3>1. HasNewest(events, all, EventRetention) BY DEF all
    <3> QED BY <1>0, <2>2, <3>1, InsertKeeps
  <2>5. /\ posts' \in [Poster -> PostUnderWay]
        /\ \A q \in Poster \ {p} : posts'[q] = posts[q]
        /\ posts'[p].scope = post.scope
        /\ posts'[p].pc = "pruneEvents" \/ (posts'[p].pc = "events" /\ posts'[p].left # << >>)
    <3> DEFINE pc == IF Len(post.left) = 1 THEN "pruneEvents" ELSE "events"
               next == [post EXCEPT !.left = Tail(post.left), !.pc = pc]
    <3>1. post \in PostUnderWay /\ post # ReportRows!Idle /\ posts \in [Poster -> PostUnderWay]
        BY <2>1 DEF RowsAreTyped, ReportRows!Idle
    <3>2. post.left \in Seq(Instant) BY <1>0, WritersAre
    <3>3. Tail(post.left) \in Seq(Instant) /\ (Len(post.left) # 1 => Tail(post.left) # << >>)
      <4>1. ASSUME NEW left \in Seq(Instant), left # << >>
            PROVE  Tail(left) \in Seq(Instant) /\ (Len(left) # 1 => Tail(left) # << >>)
        <5>1. Tail(left) \in Seq(Instant) /\ Len(Tail(left)) = Len(left) - 1 BY <4>1
        <5>2. Len(left) \in Nat BY <4>1
        <5>3. Len(<< >>) = 0 OBVIOUS
        <5>4. ASSUME Tail(left) = << >> PROVE Len(left) = 1
          <6>1. Len(Tail(left)) = 0 BY <5>3, <5>4
          <6> DEFINE n == Len(left)
          <6>2. n \in Nat /\ n - 1 = 0 BY <5>1, <5>2, <6>1
          <6> HIDE DEF n
          <6>3. n = 1 BY <6>2
          <6> QED BY <6>3 DEF n
        <5> QED BY <5>1, <5>4
      <4> QED BY <2>1, <3>2, <4>1
    <3>4. /\ next \in PostUnderWay /\ next.scope = post.scope /\ next.pc = pc
          /\ next.left = Tail(post.left)
      BY <3>1, <3>3 DEF PostUnderWay, ReportRows!Idle
    <3>5. posts' = [posts EXCEPT ![p] = next] BY <2>1, <3>1
    <3>6. pc = "pruneEvents" \/ (pc = "events" /\ Tail(post.left) # << >>) BY <3>3
    <3> HIDE DEF next, pc, post
    <3> QED BY <3>1, <3>4, <3>5, <3>6
  <2>6. RowsAreTyped'
    BY <1>0, <2>1, <2>3, <2>4, <2>5 DEF RowsAreTyped
  <2>7. ASSUME faults' = 0, NEW s \in Scope
        PROVE  /\ (\A q \in Poster : ~ PrunesInstances(q, s)') =>
                    IsPruned(instances', accepted'.instances, s, RowRetention)
               /\ (\A q \in Poster : ~ PrunesEvents(q, s)') =>
                    IsPruned(events', accepted'.events, s, EventRetention)
    <3>1. \A q \in Poster : PrunesEvents(q, s) => PrunesEvents(q, s)'
      BY <2>1, <2>5 DEF PrunesEvents
    <3>2. \A q \in Poster : PrunesInstances(q, s) => PrunesInstances(q, s)'
      BY <2>1, <2>5 DEF PrunesInstances
    <3>3. s = row.scope => PrunesEvents(p, s)' BY <2>2, <2>5 DEF PrunesEvents
    <3>4. (\A q \in Poster : ~ PrunesInstances(q, s)) =>
            IsPruned(instances, accepted.instances, s, RowRetention)
      BY <1>0, <2>7
    <3>5. (\A q \in Poster : ~ PrunesEvents(q, s)) => IsPruned(events, all, s, EventRetention)
      BY <1>0, <2>7 DEF all
    <3> QED BY <1>0, <2>1, <2>3, <2>4, <3>1, <3>2, <3>3, <3>4, <3>5
  <2>8. /\ HasNewest(instances', accepted'.instances, RowRetention)
        /\ HasNewest(events', accepted'.events, EventRetention)
    BY <1>0, <2>1, <2>3, <2>4
  <2> QED BY <2>6, <2>7, <2>8
<1>2. CASE ReportRows!PruneEvents(p)
  <2>1. /\ post.pc = "pruneEvents"
             /\ events' = ReportRows!Pruned(events, post.scope, EventRetention)
        /\ ReportRows!Proceed(p, "idle") /\ accepted' = accepted
    BY <1>2 DEF ReportRows!PruneEvents
  <2>2. /\ HasNewest(ReportRows!Pruned(events, post.scope, EventRetention), all, EventRetention)
        /\ IsPruned(ReportRows!Pruned(events, post.scope, EventRetention), all, post.scope,
               EventRetention)
        /\ \A s \in Scope : s # post.scope /\ IsPruned(events, all, s, EventRetention) =>
             IsPruned(ReportRows!Pruned(events, post.scope, EventRetention), all, s,
                 EventRetention)
        /\ ReportRows!Pruned(events, post.scope, EventRetention) \subseteq all
    <3>1. HasNewest(events, all, EventRetention) OBVIOUS
    <3> HIDE DEF all, post
    <3> QED BY <1>0, <3>1, PruneRowsKeeps
  <2>3. /\ posts' \in [Poster -> PostUnderWay]
        /\ \A q \in Poster \ {p} : posts'[q] = posts[q]
        /\ posts'[p].pc = "idle"
    BY <1>0, <2>1, ProceedIs
  <2>4. RowsAreTyped' BY <1>0, <2>1, <2>2, <2>3 DEF RowsAreTyped
  <2>5. ASSUME faults' = 0, NEW s \in Scope
        PROVE  /\ (\A q \in Poster : ~ PrunesInstances(q, s)') =>
                    IsPruned(instances', accepted'.instances, s, RowRetention)
               /\ (\A q \in Poster : ~ PrunesEvents(q, s)') =>
                    IsPruned(events', accepted'.events, s, EventRetention)
    <3>1. \A q \in Poster : PrunesInstances(q, s) => PrunesInstances(q, s)'
      BY <2>1, <2>3 DEF PrunesInstances
    <3>2. s # post.scope => \A q \in Poster : PrunesEvents(q, s) => PrunesEvents(q, s)'
      BY <2>1, <2>3 DEF PrunesEvents
    <3>4. (\A q \in Poster : ~ PrunesInstances(q, s)) =>
            IsPruned(instances, accepted.instances, s, RowRetention)
      BY <1>0, <2>5
    <3>5. (\A q \in Poster : ~ PrunesEvents(q, s)) => IsPruned(events, all, s, EventRetention)
      BY <1>0, <2>5
    <3> HIDE DEF post
    <3> QED BY <1>0, <2>1, <2>2, <3>1, <3>2, <3>4, <3>5
  <2>6. /\ HasNewest(instances', accepted'.instances, RowRetention)
        /\ HasNewest(events', accepted'.events, EventRetention)
    BY <1>0, <2>1, <2>2
  <2> QED BY <2>4, <2>5, <2>6
<1> QED BY <1>1, <1>2

(* A purge keeps the invariant. *)
LEMMA PurgesKeep ==
  ASSUME RowConstants, RowInv, NEW scope \in Scope, ReportRows!Purge(scope)
  PROVE  RowInv'
<1> USE DEF RowInv
<1>0. /\ instances' = ReportRows!KeptBy(scope, instances)
           /\ events' = ReportRows!KeptBy(scope, events)
      /\ accepted' = [instances |-> ReportRows!KeptBy(scope, accepted.instances),
                      events    |-> ReportRows!KeptBy(scope, accepted.events)]
      /\ UNCHANGED <<posts, posted, faults>>
  BY DEF ReportRows!Purge
<1>1. /\ HasNewest(ReportRows!KeptBy(scope, instances),
             ReportRows!KeptBy(scope, accepted.instances), RowRetention)
      /\ \A s \in Scope : IsPruned(instances, accepted.instances, s, RowRetention) =>
           IsPruned(ReportRows!KeptBy(scope, instances),
               ReportRows!KeptBy(scope, accepted.instances), s, RowRetention)
      /\ ReportRows!KeptBy(scope, accepted.instances) \in SUBSET StoredRow
      /\ IsFiniteSet(ReportRows!KeptBy(scope, accepted.instances))
      /\ ReportRows!KeptBy(scope, instances) \subseteq ReportRows!KeptBy(scope, accepted.instances)
  <2>1. accepted.instances \in SUBSET StoredRow /\ RowRetention \in Nat BY DEF RowsAreTyped,
      RowConstants
  <2> QED BY <2>1, PurgeKeeps DEF RowsAreTyped
<1>2. /\ HasNewest(ReportRows!KeptBy(scope, events), ReportRows!KeptBy(scope, accepted.events),
             EventRetention)
      /\ \A s \in Scope : IsPruned(events, accepted.events, s, EventRetention) =>
           IsPruned(ReportRows!KeptBy(scope, events), ReportRows!KeptBy(scope, accepted.events), s,
               EventRetention)
      /\ ReportRows!KeptBy(scope, accepted.events) \in SUBSET StoredRow
      /\ IsFiniteSet(ReportRows!KeptBy(scope, accepted.events))
      /\ ReportRows!KeptBy(scope, events) \subseteq ReportRows!KeptBy(scope, accepted.events)
  <2>1. accepted.events \in SUBSET StoredRow /\ EventRetention \in Nat BY DEF RowsAreTyped,
      RowConstants
  <2> QED BY <2>1, PurgeKeeps DEF RowsAreTyped
<1>3. RowsAreTyped' BY <1>0, <1>1, <1>2 DEF RowsAreTyped
<1>4. \A p \in Poster, s \in Scope : /\ PrunesInstances(p, s)' <=> PrunesInstances(p, s)
                                     /\ PrunesEvents(p, s)' <=> PrunesEvents(p, s)
  BY <1>0 DEF PrunesInstances, PrunesEvents
<1> QED BY <1>0, <1>1, <1>2, <1>3, <1>4

(* Every step keeps the invariant of the report tables. *)
LEMMA RowStepKeeps ==
  ASSUME RowConstants, RowInv, [ReportRows!Next]_(ReportRows!vars)
  PROVE  RowInv'
<1> USE DEF RowInv
<1>1. ASSUME UNCHANGED <<instances, events, accepted>>, posts' \in [Poster -> PostUnderWay],
             posted' \in 0 .. MaxPosts, faults' \in 0 .. MaxFaults, faults' = 0 => faults = 0,
             faults' = 0 => \A p \in Poster, s \in Scope :
                              /\ PrunesInstances(p, s) => PrunesInstances(p, s)'
                              /\ PrunesEvents(p, s) => PrunesEvents(p, s)'
      PROVE  RowInv'
  <2>1. RowsAreTyped' BY <1>1 DEF RowsAreTyped
  <2> QED BY <1>1, <2>1
<1>2. ASSUME NEW p \in Poster, ReportRows!Post(p) PROVE RowInv'
  <2>0. PICK scope \in Scope, moment \in Instant,
             times \in UNION {[1 .. n -> Instant] : n \in 0 .. MaxEvents}, pc
               \in {"insert", "events"} :
          posts' = [posts EXCEPT ![p] = [pc |-> pc, scope |-> scope, at |-> moment, left |-> times,
                                         of |-> posted + 1]]
    BY <1>2 DEF ReportRows!Post
  <2>1. times \in Seq(Instant)
    <3>1. PICK n \in 0 .. MaxEvents : times \in [1 .. n -> Instant] OBVIOUS
    <3>2. n \in Nat BY DEF RowConstants
    <3> QED BY <3>1, <3>2
  <2>2. posted + 1 \in 1 .. MaxPosts BY <1>2 DEF ReportRows!Post, RowsAreTyped, RowConstants
  <2> DEFINE new == [pc |-> pc, scope |-> scope, at |-> moment, left |-> times, of |-> posted + 1]
  <2>3. new \in PostUnderWay /\ new.pc \in {"insert", "events"} BY <2>1, <2>2 DEF PostUnderWay
  <2>4. posts[p].pc = "idle" BY <1>2 DEF ReportRows!Post
  <2> HIDE DEF new
  <2>5. posts' \in [Poster -> PostUnderWay] /\ \A q \in Poster \ {p} : posts'[q] = posts[q]
    BY <2>0, <2>3 DEF RowsAreTyped, new
  <2>6. \A q \in Poster, s \in Scope : /\ PrunesInstances(q, s) => PrunesInstances(q, s)'
                                       /\ PrunesEvents(q, s) => PrunesEvents(q, s)'
    BY <2>4, <2>5 DEF PrunesInstances, PrunesEvents
  <2>7. posted' \in 0 .. MaxPosts BY <1>2, <2>2 DEF ReportRows!Post
  <2>8. faults' = faults /\ UNCHANGED <<instances, events, accepted>> BY <1>2 DEF ReportRows!Post
  <2>9. faults' \in 0 .. MaxFaults BY <2>8 DEF RowsAreTyped
  <2> QED BY <1>1, <2>5, <2>6, <2>7, <2>8, <2>9
<1>3. ASSUME NEW p \in Poster, ReportRows!NoEvents(p) PROVE RowInv'
  <2>1. /\ posts' \in [Poster -> PostUnderWay]
        /\ \A q \in Poster \ {p} : posts'[q] = posts[q]
    BY <1>3, ProceedIs DEF ReportRows!NoEvents
  <2>2. \A q \in Poster, s \in Scope : /\ PrunesInstances(q, s) => PrunesInstances(q, s)'
                                       /\ PrunesEvents(q, s) => PrunesEvents(q, s)'
    BY <1>3, <2>1 DEF PrunesInstances, PrunesEvents, ReportRows!NoEvents
  <2> QED BY <1>1, <1>3, <2>1, <2>2 DEF ReportRows!NoEvents, RowsAreTyped
<1>4. ASSUME NEW p \in Poster, ReportRows!StatementFails(p) PROVE RowInv'
  <2>1. posts' \in [Poster -> PostUnderWay] BY <1>4, ProceedIs DEF ReportRows!StatementFails
  <2>2. faults' \in 0 .. MaxFaults /\ faults' # 0 BY <1>4 DEF ReportRows!StatementFails,
      RowsAreTyped, RowConstants
  <2> QED BY <1>1, <1>4, <2>1, <2>2 DEF ReportRows!StatementFails, RowsAreTyped
<1>5. CASE UNCHANGED ReportRows!vars
  BY <1>1, <1>5 DEF ReportRows!vars, RowsAreTyped, PrunesInstances, PrunesEvents
<1> QED BY <1>2, <1>3, <1>4, <1>5, InstancesKeep, EventsKeep, PurgesKeep DEF ReportRows!Next

(* The invariant of the report tables holds at first. *)
LEMMA RowsBegin == ASSUME RowConstants, ReportRows!Init PROVE RowInv
<1>1. IsFiniteSet({}) BY FS_EmptySet
<1>2. ReportRows!Idle \in PostUnderWay BY DEF PostUnderWay
<1>3. RowsAreTyped BY <1>1, <1>2 DEF ReportRows!Init, RowsAreTyped, RowConstants
<1>4. \A s \in Scope, n \in Nat : ReportRows!AtScope({}, s) = {} /\ ReportRows!Newest({},
    n) = {} BY DEF ReportRows!AtScope, ReportRows!Newest
<1> QED BY <1>3, <1>4 DEF ReportRows!Init, RowInv, HasNewest, IsPruned, RowConstants

(* What the invariant says is what the run checks. *)
LEMMA RowsTell ==
  ASSUME RowConstants, RowInv
  PROVE  ReportRows!TypeOK /\ ReportRows!NewestStay /\ ReportRows!RestIsPruned
<1> USE DEF RowInv
<1>1. ReportRows!TypeOK
  <2>1. \A r \in instances \cup events :
          r.scope \in Scope /\ r.at \in Instant /\ r.of \in 1 .. MaxPosts
    <3>1. instances \cup events \subseteq StoredRow BY DEF RowsAreTyped
    <3> QED BY <3>1 DEF StoredRow
  <2>2. \A p \in Poster : posts[p].pc \in {"idle", "insert", "prune", "events", "pruneEvents"}
    BY DEF RowsAreTyped, PostUnderWay, ReportRows!Idle
  <2> QED BY <2>1, <2>2 DEF ReportRows!TypeOK, RowsAreTyped
<1>2. ReportRows!NewestStay BY DEF ReportRows!NewestStay, HasNewest, ReportRows!AtScope
<1>3. ReportRows!RestIsPruned
  <2> SUFFICES ASSUME NEW s \in Scope, faults = 0,
                      \A p \in Poster : posts[p].pc = "idle" \/ posts[p].scope # s
               PROVE  /\ IsPruned(instances, accepted.instances, s, RowRetention)
                      /\ IsPruned(events, accepted.events, s, EventRetention)
    BY DEF ReportRows!RestIsPruned, IsPruned
  <2>1. \A p \in Poster : ~ PrunesInstances(p, s) /\ ~ PrunesEvents(p, s)
    BY DEF PrunesInstances, PrunesEvents
  <2> QED BY <2>1
<1> QED BY <1>1, <1>2, <1>3

(* A purge takes what is at or below its scope, and what it takes is the   *)
(* scope itself or below one of the same letters.                          *)
LEMMA MatchesAreBelow ==
  ASSUME RowConstants, NEW s \in Scope, NEW t \in Scope
  PROVE  /\ ReportRows!ScopeWithin(s, t) => ReportRows!PurgeMatches(s, t)
         /\ ReportRows!PurgeMatches(s, t) =>
              \/ t = s
              \/ Len(t) > Len(s) /\ \A i \in DOMAIN s : Lower(t[i]) = Lower(s[i])
<1> DEFINE Segment == {s[i] : i \in DOMAIN s} \cup {t[i] : i \in DOMAIN t}
<1>1. s \in Seq({s[i] : i \in DOMAIN s}) /\ t \in Seq({t[i] : i \in DOMAIN t})
  BY DEF RowConstants
<1>2. s \in Seq(Segment) /\ t \in Seq(Segment)
  <2>1. /\ {s[i] : i \in DOMAIN s} \subseteq Segment
        /\ {t[i] : i \in DOMAIN t} \subseteq Segment
    OBVIOUS
  <2> QED BY <1>1, <2>1, SeqMonotonic
<1> HIDE DEF Segment
<1>3. SubSeq(s, 1, Len(s)) = s /\ SubSeq(t, 1, Len(t)) = t BY <1>2
<1>6. Len(s) \in Nat /\ Len(t) \in Nat /\ DOMAIN s = 1 .. Len(s) /\ DOMAIN t = 1 .. Len(t)
  BY <1>2
<1>4. ASSUME Len(t) > Len(s), ReportRows!IsPrefix(ReportRows!LowerPath(s), ReportRows!LowerPath(t))
      PROVE  \A i \in DOMAIN s : Lower(t[i]) = Lower(s[i])
  <2> DEFINE ls == ReportRows!LowerPath(s)
             lt == ReportRows!LowerPath(t)
             Lowers == {ls[i] : i \in DOMAIN s} \cup {lt[i] : i \in DOMAIN t}
  <2>1. /\ ls \in [1 .. Len(s) -> Lowers] /\ lt \in [1 .. Len(t) -> Lowers]
        /\ \A i \in 1 .. Len(s) : ls[i] = Lower(s[i])
        /\ \A i \in 1 .. Len(t) : lt[i] = Lower(t[i])
    BY <1>6 DEF ReportRows!LowerPath
  <2>2. SubSeq(ls, 1, Len(ls)) = SubSeq(lt, 1, Len(ls)) BY <1>4 DEF ReportRows!IsPrefix
  <2> HIDE DEF ls, lt, Lowers
  <2>3. ls \in Seq(Lowers) /\ lt \in Seq(Lowers) /\ Len(ls) = Len(s) /\ Len(lt) = Len(t)
    <3>1. ls \in Seq(Lowers) /\ lt \in Seq(Lowers) BY <1>6, <2>1
    <3> QED BY <1>6, <2>1, <3>1
  <2>4. \A i \in 1 .. Len(s) : ls[i] = lt[i]
    <3> TAKE i \in 1 .. Len(s)
    <3>1. SubSeq(ls, 1, Len(ls))[i] = ls[i] /\ SubSeq(lt, 1, Len(ls))[i] = lt[i]
      BY <1>4, <1>6, <2>3
    <3> QED BY <2>2, <3>1
  <2> QED BY <1>4, <1>6, <2>1, <2>4
<1>5. ASSUME ReportRows!ScopeWithin(s, t), t # s
      PROVE  Len(t) > Len(s)
               /\ ReportRows!IsPrefix(ReportRows!LowerPath(s), ReportRows!LowerPath(t))
  <2>1. Len(s) <= Len(t) /\ s = SubSeq(t, 1, Len(s)) BY <1>3, <1>5, SMTT(30) DEF ReportRows!ScopeWithin,
      ReportRows!IsPrefix
  <2>2. Len(s) # Len(t) BY <1>3, <1>5, <2>1
  <2>3. \A i \in 1 .. Len(s) : i \in 1 .. Len(t) /\ s[i] = t[i]
    <3>1. SubSeq(t, 1, Len(s)) \in Seq(Segment)
            /\ \A i \in 1 .. Len(s) : SubSeq(t, 1, Len(s))[i] = t[i]
      BY <1>2, <2>1
    <3> QED BY <1>2, <2>1, <3>1
  <2> DEFINE ls == ReportRows!LowerPath(s)
             lt == ReportRows!LowerPath(t)
             Lowers == {ls[i] : i \in DOMAIN s} \cup {lt[i] : i \in DOMAIN t}
  <2>4. /\ DOMAIN ls = 1 .. Len(s) /\ DOMAIN lt = 1 .. Len(t)
        /\ ls \in [1 .. Len(s) -> Lowers] /\ lt \in [1 .. Len(t) -> Lowers]
        /\ \A i \in 1 .. Len(s) : ls[i] = lt[i]
    BY <1>2, <2>3 DEF ReportRows!LowerPath
  <2> HIDE DEF ls, lt, Lowers
  <2>5. /\ ls \in Seq(Lowers) /\ lt \in Seq(Lowers) /\ Len(ls) = Len(s) /\ Len(lt) = Len(t)
    <3>1. Len(s) \in Nat /\ Len(t) \in Nat BY <1>2
    <3>2. ls \in Seq(Lowers) /\ lt \in Seq(Lowers) BY <2>4, <3>1
    <3> QED BY <2>4, <3>1, <3>2
  <2>6. SubSeq(ls, 1, Len(ls)) = SubSeq(lt, 1, Len(ls))
    BY <1>2, <2>1, <2>4, <2>5
  <2>7. ReportRows!IsPrefix(ls, lt) BY <2>1, <2>5, <2>6 DEF ReportRows!IsPrefix
  <2> QED BY <1>2, <2>1, <2>2, <2>7 DEF ls, lt
<1> QED BY <1>4, <1>5 DEF ReportRows!PurgeMatches

(* store/reports.go: however posts and purges interleave, the newest rows  *)
(* of every scope stay, even when a statement fails; while none has failed *)
(* nothing else stays where nobody has still to prune; and a purge takes   *)
(* what is at or below its scope, and besides nothing but what is below a  *)
(* scope of the same letters.                                              *)
THEOREM RowsAreTrue == ReportRows!Spec => RowsStay
<1> DEFINE Taken(scope, r) ==
      LET gone == r \notin instances' \cup events' IN
      /\ ReportRows!ScopeWithin(scope, r.scope) => gone
      /\ gone => \/ r.scope = scope
                 \/ /\ Len(r.scope) > Len(scope)
                    /\ \A i \in DOMAIN scope : Lower(r.scope[i]) = Lower(scope[i])
<1>1. ASSUME RowInv
      PROVE  \A scope \in Scope : ReportRows!Purge(scope) =>
               \A r \in instances \cup events : Taken(scope, r)
  <2> SUFFICES ASSUME NEW scope \in Scope, ReportRows!Purge(scope), NEW r \in instances \cup events
               PROVE  Taken(scope, r)
    OBVIOUS
  <2>1. r.scope \in Scope BY <1>1, PartsAssumption, RowsTell DEF RowInv, RowsAreTyped, StoredRow
  <2>2. r \in instances' \cup events' <=> ~ ReportRows!PurgeMatches(scope, r.scope)
      BY DEF ReportRows!Purge, ReportRows!KeptBy
  <2>3. RowConstants BY PartsAssumption
  <2> QED BY <2>1, <2>2, <2>3, MatchesAreBelow
<1>2. RowInv => RowsAreNewest /\ RestIsPruned
  BY PartsAssumption, RowsTell DEF RowsAreNewest, RestIsPruned
<1>3. ReportRows!Init => RowInv BY PartsAssumption, RowsBegin
<1>4. RowInv /\ [ReportRows!Next]_(ReportRows!vars) => RowInv' BY PartsAssumption, RowStepKeeps
<1> QED BY <1>1, <1>2, <1>3, <1>4, PTL DEF RowsStay, ReportRows!Spec, ReportRows!PurgeIsWithin

-----------------------------------------------------------------------------
(* Where messages go, on a chart that does not change.                     *)

(* server.go EmitFromWorker: where nobody reports to an ID that is gone,   *)
(* what is sent goes to a worker, or is a report by one at the root; and   *)
(* it goes to its sender only if it names itself.                          *)
THEOREM MessagesGoToWorkers ==
  ASSUME NEW g \in Chart
  PROVE  GoesToWorkers(g)
<1> SUFFICES ASSUME NoDangling(g), NoSelfEdge(g),
                    NEW from \in Worker \cup {NoOne}, NEW to \in Worker \cup {NoOne},
                    NEW type \in MessageType \cup {"other"},
                    EmitFromWorker(g, from, type, to).refused = ""
             PROVE  LET reply == EmitFromWorker(g, from, type, to) IN
                    /\ \/ reply.to \in Members(g)
                       \/ type \notin {"escalation", "scheduled"} /\ g[from].reportsTo = NoOne
                    /\ reply.to = from => to = from /\ type \notin Upward
  BY DEF GoesToWorkers
<1> DEFINE recipient == Recipient(g, from, type, to)
<1>1. /\ from \in Members(g) /\ type \in MessageType
      /\ ~ (type = "scheduled" /\ to = NoOne) /\ recipient # Absent
      /\ ~ (recipient = NoOne /\ type \in {"escalation", "request_for_input"})
      /\ EmitFromWorker(g, from, type, to) = To(recipient)
  BY DEF EmitFromWorker, Refused
<1>2. EmitFromWorker(g, from, type, to).to = recipient
  <2>1. To(recipient).to = recipient BY DEF To
  <2> QED BY <1>1, <2>1
<1>3. CASE type \in Upward \/ (type \in Addressed /\ to = NoOne)
  <2>1. recipient = Parent(g, from) BY <1>3 DEF Recipient
  <2>2. recipient \in Members(g) \cup {NoOne} BY <1>1, <2>1 DEF NoDangling
  <2>3. recipient # from BY <1>1, <2>1 DEF NoSelfEdge
  <2>4. type # "scheduled" BY <1>3 DEF Upward, Addressed
  <2> QED BY <1>1, <1>2, <2>1, <2>2, <2>3, <2>4 DEF Parent
<1>4. CASE ~ (type \in Upward \/ (type \in Addressed /\ to = NoOne))
  <2>1. recipient = to /\ to \in Members(g) BY <1>1, <1>4 DEF Recipient
  <2> QED BY <1>2, <1>4, <2>1
<1> QED BY <1>3, <1>4

(* What somebody's manager answers to an escalation of theirs. *)
HandsOn(g, x) == HandleEmitMessage(g, x, "escalation", NoOne)

Reply == [refused : {"", "unknown sender", "unknown recipient", "nobody to escalate to"},
          to : Worker \cup {NoOne}]

(* A reply that says where it went, and the one that says there is nobody. *)
Handed(r)  == r.refused = ""
NobodyLeft == Refused("nobody to escalate to")

LEMMA Replies ==
  ASSUME NEW x
  PROVE  Handed(To(x)) /\ To(x).to = x /\ ~Handed(NobodyLeft)
<1>3. To(x).refused = "" /\ To(x).to = x BY DEF To
<1>4. NobodyLeft.refused = "nobody to escalate to" BY DEF NobodyLeft, Refused
<1>5. "nobody to escalate to" # "" OBVIOUS
<1> QED BY <1>3, <1>4, <1>5 DEF Handed

LEMMA HandsOnIs ==
  ASSUME NEW g \in Chart, NEW x, Absent \notin Worker \cup {NoOne}
  PROVE  /\ HandsOn(g, x) \in Reply
         /\ x \in Members(g) => HandsOn(g, x) = IF Parent(g, x) = NoOne THEN NobodyLeft
                                                ELSE To(Parent(g, x))
<1>1. "escalation" \in MessageType /\ "escalation" \in Upward BY DEF MessageType, Upward
<1>2. HandsOn(g, x) = EmitFromWorker(g, x, "escalation", NoOne) BY DEF HandsOn, HandleEmitMessage
<1>3. Recipient(g, x, "escalation", NoOne) = Parent(g, x) BY <1>1 DEF Recipient
<1>4. CASE x \notin Members(g)
  <2>1. HandsOn(g, x) = Refused("unknown sender") BY <1>2, <1>4 DEF EmitFromWorker
  <2>2. Refused("unknown sender") \in Reply BY DEF Refused, Reply
  <2> QED BY <1>4, <2>1, <2>2
<1>5. CASE x \in Members(g)
  <2>1. Parent(g, x) \in Worker \cup {NoOne} BY <1>5, MemberRow
  <2>2. HandsOn(g, x) = IF Parent(g, x) = NoOne THEN NobodyLeft
                                               ELSE To(Parent(g, x))
    BY <1>1, <1>2, <1>3, <1>5, <2>1 DEF EmitFromWorker, NobodyLeft
  <2>3. NobodyLeft \in Reply BY DEF NobodyLeft, Refused, Reply
  <2>4. Parent(g, x) # NoOne => To(Parent(g, x)) \in Reply BY <2>1 DEF To, Reply
  <2> QED BY <1>5, <2>2, <2>3, <2>4
<1> QED BY <1>4, <1>5

(* h is what becomes of it, round by round. *)
Rounds(h, g, w, n) ==
  /\ h \in [0 .. n -> Reply]
  /\ h[0] = To(w)
  /\ \A k \in 1 .. n : h[k] = IF Handed(h[k - 1]) THEN HandsOn(g, h[k - 1].to) ELSE h[k - 1]
  /\ Escalated(g, w, n) = h[n]

LEMMA EscalatedInRounds ==
  ASSUME NEW g \in Chart, NEW w \in Worker, NEW n \in Nat, Absent \notin Worker \cup {NoOne}
  PROVE  \E h : Rounds(h, g, w, n)
<1> DEFINE F == [i \in 1 .. n |-> [r \in Reply |-> IF Handed(r) THEN HandsOn(g, r.to) ELSE r]]
           Step(h) == [k \in 0 .. n |-> IF k = 0 THEN To(w)
                                        ELSE IF h[k - 1].refused # "" THEN h[k - 1]
                                        ELSE HandleEmitMessage(g, h[k - 1].to, "escalation", NoOne)]
           K == CHOOSE h : h = Step(h)
<1>1. To(w) \in Reply BY DEF To, Reply
<1>2. F \in [1 .. n -> [Reply -> Reply]]
  <2> SUFFICES ASSUME NEW r \in Reply PROVE (IF Handed(r) THEN HandsOn(g, r.to) ELSE r) \in Reply
    OBVIOUS
  <2> QED BY HandsOnIs
<1>3. PICK f : GoesOn(f, n, Reply, To(w), F)
  <2> HIDE DEF F
  <2> QED BY <1>1, <1>2, RecursionIs
<1>4. f \in [0 .. n -> Reply] /\ f[0] = To(w) BY <1>3 DEF GoesOn
<1>5. ASSUME NEW k \in 1 .. n
      PROVE  f[k] = IF Handed(f[k - 1]) THEN HandsOn(g, f[k - 1].to) ELSE f[k - 1]
  <2>1. f[k] = F[k][f[k - 1]] BY <1>3 DEF GoesOn
  <2>2. f[k - 1] \in Reply BY <1>4
  <2> QED BY <2>1, <2>2
<1>6. f = Step(f)
  <2>1. ASSUME NEW k \in 0 .. n PROVE f[k] = Step(f)[k]
    <3>1. CASE k = 0 BY <3>1, <1>4
    <3>2. CASE k # 0
      <4>1. k \in 1 .. n BY <3>2
      <4> QED BY <3>2, <4>1, <1>5 DEF HandsOn, Handed
    <3> QED BY <3>1, <3>2
  <2> QED BY <1>4, <2>1
<1>7. K = Step(K)
  <2>1. \E h : h = Step(h) BY <1>6
  <2> HIDE DEF Step
  <2> QED BY <2>1
<1>8. K[0] = To(w)
  <2>1. Step(K)[0] = To(w) OBVIOUS
  <2> HIDE DEF K, Step
  <2> QED BY <2>1, <1>7
<1>9. ASSUME NEW k \in 1 .. n
      PROVE  K[k] = IF Handed(K[k - 1]) THEN HandsOn(g, K[k - 1].to) ELSE K[k - 1]
  <2>1. k \in 0 .. n /\ k # 0 OBVIOUS
  <2>2. Step(K)[k] = IF Handed(K[k - 1]) THEN HandsOn(g, K[k - 1].to) ELSE K[k - 1]
    <3> HIDE DEF K
    <3> QED BY <2>1 DEF HandsOn, Handed
  <2> HIDE DEF K, Step
  <2> QED BY <2>2, <1>7
<1>10. DOMAIN K = 0 .. n
  <2>1. DOMAIN Step(K) = 0 .. n OBVIOUS
  <2> HIDE DEF K, Step
  <2> QED BY <2>1, <1>7
<1>11. \A k \in 0 .. n : K[k] = f[k]
  <2> HIDE DEF K, Step
  <2> DEFINE Bad == {k \in 0 .. n : K[k] # f[k]}
  <2> SUFFICES ASSUME Bad # {} PROVE FALSE OBVIOUS
  <2>1. Bad \in SUBSET Nat OBVIOUS
  <2>2. PICK k \in Bad : \A m \in Bad : k <= m
    <3> HIDE DEF Bad
    <3> QED BY <2>1, LeastNatural
  <2>3. k \in 0 .. n /\ K[k] # f[k] BY <2>2
  <2>4. k \in 1 .. n
    <3>1. k # 0 BY <2>3, <1>4, <1>8
    <3> QED BY <3>1, <2>3
  <2>5. K[k - 1] = f[k - 1]
    <3>1. k - 1 \in 0 .. n /\ ~ k <= k - 1 BY <2>4
    <3>2. k - 1 \notin Bad
      <4> HIDE DEF Bad
      <4> QED BY <2>2, <3>1
    <3> QED BY <3>1, <3>2
  <2> HIDE DEF Bad
  <2> QED BY <1>5, <1>9, <2>3, <2>4, <2>5
<1>12. Escalated(g, w, n) = K[n] BY DEF Escalated
<1>13. Rounds(f, g, w, n)
  <2>1. Escalated(g, w, n) = f[n]
    <3> HIDE DEF K
    <3> QED BY <1>11, <1>12
  <2> QED BY <1>4, <1>5, <2>1 DEF Rounds
<1> QED BY <1>13

(* Who is refused stays refused. *)
LEMMA RefusedStays ==
  ASSUME NEW g, NEW w, NEW n \in Nat, NEW h, Rounds(h, g, w, n), Handed(h[n])
  PROVE  \A k \in 0 .. n : Handed(h[k])
<1> DEFINE Bad == {j \in 0 .. n : ~Handed(h[n - j])}
<1>1. Bad = {}
  <2> SUFFICES ASSUME Bad # {} PROVE FALSE OBVIOUS
  <2>1. PICK j \in Bad : \A m \in Bad : j <= m
    <3>1. Bad \in SUBSET Nat OBVIOUS
    <3> HIDE DEF Bad
    <3> QED BY <3>1, LeastNatural
  <2>2. j \in 0 .. n /\ j # 0 /\ ~Handed(h[n - j]) BY <2>1
  <2> DEFINE k == n - (j - 1)
  <2>3. k \in 1 .. n /\ k - 1 = n - j /\ j - 1 \in 0 .. n /\ ~ j <= j - 1 BY <2>2
  <2>4. j - 1 \notin Bad
    <3> HIDE DEF Bad
    <3> QED BY <2>1, <2>3
  <2>5. Handed(h[k]) BY <2>3, <2>4
  <2>6. h[k] = h[k - 1]
    <3> HIDE DEF k
    <3> QED BY <2>2, <2>3 DEF Rounds
  <2> HIDE DEF k
  <2> QED BY <2>2, <2>3, <2>5, <2>6
<1> QED
  <2> TAKE k \in 0 .. n
  <2>1. n - k \in 0 .. n /\ n - (n - k) = k OBVIOUS
  <2>2. n - k \notin Bad
    <3> HIDE DEF Bad
    <3> QED BY <1>1
  <2> QED BY <2>1, <2>2

(* On a forest an escalation that everybody hands on comes to a worker who *)
(* has nobody above; from a worker whose line loops it never does.  A line *)
(* is no longer than there are workers, or two on it would be one.         *)
THEOREM EscalationsGoUp ==
  ASSUME NEW g \in Chart, IsFiniteSet(Worker), Absent \notin Worker \cup {NoOne}
  PROVE  EscalationsEnd(g)
<1> DEFINE n == Cardinality(Worker) + 1
<1>1. n \in Nat /\ Cardinality(Worker) \in Nat BY FS_CardinalityType
<1> SUFFICES ASSUME NEW w \in Members(g)
             PROVE  /\ Forest(g) => Escalated(g, w, n) = NobodyLeft
                    /\ ClimbLoops(g, w) => Handed(Escalated(g, w, n))
  <2>1. NobodyLeft.refused = "nobody to escalate to" BY DEF NobodyLeft, Refused
  <2> QED BY <2>1 DEF EscalationsEnd, Handed
<1> HIDE DEF n
<1>2. w \in Worker BY DEF Members
<1>3. PICK h : Rounds(h, g, w, n) BY <1>1, <1>2, EscalatedInRounds
<1>4. h \in [0 .. n -> Reply] /\ h[0] = To(w) /\ Escalated(g, w, n) = h[n] BY <1>3 DEF Rounds
<1>5. ASSUME NEW k \in 1 .. n
      PROVE  h[k] = IF Handed(h[k - 1]) THEN HandsOn(g, h[k - 1].to) ELSE h[k - 1]
  BY <1>3 DEF Rounds
<1>6. ASSUME NEW A, w \in A, A \subseteq Members(g),
             \A x \in A : Parent(g, x) \in A \cup {NoOne}
      PROVE  \A k \in 0 .. n : \/ \E x \in A : h[k] = To(x)
                               \/ h[k] = NobodyLeft /\ \E x \in A : Parent(g, x) = NoOne
  <2> DEFINE Good(k) == \/ \E x \in A : h[k] = To(x)
                        \/ h[k] = NobodyLeft /\ \E x \in A : Parent(g, x) = NoOne
             Bad == {k \in 0 .. n : ~ Good(k)}
  <2> SUFFICES ASSUME Bad # {} PROVE FALSE OBVIOUS
  <2>1. PICK k \in Bad : \A m \in Bad : k <= m
    <3>1. Bad \in SUBSET Nat BY <1>1
    <3> HIDE DEF Bad
    <3> QED BY <3>1, LeastNatural
  <2>2. k \in 0 .. n /\ ~ Good(k) BY <2>1
  <2>3. k \in 1 .. n
    <3>1. k # 0 BY <2>2, <1>4, <1>6
    <3> QED BY <3>1, <2>2, <1>1
  <2>4. k - 1 \in 0 .. n /\ ~ k <= k - 1 BY <2>3, <1>1
  <2>5. Good(k - 1)
    <3>1. k - 1 \notin Bad
      <4> HIDE DEF Bad
      <4> QED BY <2>1, <2>4
    <3> HIDE DEF Good
    <3> QED BY <2>4, <3>1
  <2>6. CASE \E x \in A : h[k - 1] = To(x)
    <3>1. PICK x \in A : h[k - 1] = To(x) BY <2>6
    <3>2. Handed(h[k - 1]) /\ h[k - 1].to = x BY <3>1, Replies
    <3>3. h[k] = HandsOn(g, x) BY <1>5, <2>3, <3>2
    <3>4. h[k] = IF Parent(g, x) = NoOne THEN NobodyLeft ELSE To(Parent(g, x))
      BY <1>6, <3>1, <3>3, HandsOnIs
    <3> QED BY <1>6, <2>2, <3>1, <3>4
  <2>7. CASE h[k - 1] = NobodyLeft /\ \E x \in A : Parent(g, x) = NoOne
    <3>1. ~Handed(h[k - 1]) BY <2>7, Replies
    <3> QED BY <1>5, <2>2, <2>3, <2>7, <3>1
  <2> QED BY <2>5, <2>6, <2>7
<1>7. ASSUME Forest(g) PROVE h[n] = NobodyLeft
  <2>1. \A k \in 0 .. n : \/ \E x \in Members(g) : h[k] = To(x)
                         \/ h[k] = NobodyLeft
    BY <1>6, <1>7 DEF Forest, NoDangling
  <2> SUFFICES ASSUME Handed(h[n]) PROVE FALSE
    BY <1>1, <2>1, Replies
  <2>2. \A k \in 0 .. n : Handed(h[k]) BY <1>1, <1>3, RefusedStays
  <2> DEFINE places == [k \in 0 .. n |-> h[k].to]
  <2>3. \A k \in 0 .. n : h[k].to \in Members(g) /\ h[k] = To(h[k].to)
    <3> TAKE k \in 0 .. n
    <3>1. PICK x \in Members(g) : h[k] = To(x) BY <2>1, <2>2, Replies
    <3> QED BY <3>1, Replies
  <2>4. PICK i \in 0 .. n, j \in 0 .. n : i < j /\ h[i].to = h[j].to
    <3>1. places \in [0 .. n -> Worker] BY <2>3 DEF Members
    <3>2. IsFiniteSet(0 .. n) /\ Cardinality(0 .. n) = n + 1
      BY <1>1, FS_Interval
    <3>3. Cardinality(Worker) < Cardinality(0 .. n) BY <1>1, <3>2 DEF n
    <3>4. PICK x \in 0 .. n, y \in 0 .. n : x # y /\ places[x] = places[y]
      <4> HIDE DEF places
      <4> DEFINE T == 0 .. n
      <4>1. places \in [T -> Worker] /\ IsFiniteSet(T) /\ Cardinality(Worker) < Cardinality(T)
        BY <3>1, <3>2, <3>3
      <4> HIDE DEF T
      <4>2. \A f \in [T -> Worker] : \E x, y \in T : x # y /\ f[x] = f[y]
        BY <4>1, FS_PigeonHole
      <4> QED BY <4>1, <4>2 DEF T
    <3>5. h[x].to = h[y].to BY <3>4
    <3>6. x < y \/ y < x BY <1>1, <3>4
    <3> QED BY <3>5, <3>6
  <2> DEFINE S == {h[k].to : k \in i .. j - 1}
  <2>5. S \in SUBSET Members(g) /\ S # {}
    <3>1. \A k \in i .. j - 1 : k \in 0 .. n BY <1>1, <2>4
    <3>2. i \in i .. j - 1 BY <1>1, <2>4
    <3> QED BY <2>3, <3>1, <3>2
  <2>6. ASSUME NEW k \in i .. j - 1 PROVE Parent(g, h[k].to) \in S
    <3>1. k \in 0 .. n /\ k + 1 \in 1 .. n /\ k + 1 \in 0 .. n /\ (k + 1) - 1 = k BY <1>1, <2>4
    <3>2. h[k + 1] = HandsOn(g, h[k].to)
      <4> DEFINE l == k + 1
      <4>1. h[l] = IF Handed(h[l - 1]) THEN HandsOn(g, h[l - 1].to) ELSE h[l - 1] BY <1>5, <3>1
      <4> QED BY <2>2, <3>1, <4>1
    <3>3. h[k + 1].to = Parent(g, h[k].to)
      <4>1. h[k].to \in Members(g) /\ Handed(h[k + 1]) BY <2>2, <2>3, <3>1
      <4> QED BY <3>2, <4>1, HandsOnIs, Replies
    <3>4. CASE k + 1 \in i .. j - 1 BY <3>3, <3>4
    <3>5. CASE k + 1 = j
      <4>1. i \in i .. j - 1 BY <1>1, <2>4
      <4> QED BY <2>4, <3>3, <3>5, <4>1
    <3>6. k + 1 \in i .. j - 1 \/ k + 1 = j BY <1>1, <2>4
    <3> QED BY <3>4, <3>5, <3>6
  <2> QED BY <1>7, <2>5, <2>6 DEF Forest, Acyclic
<1>8. ASSUME ClimbLoops(g, w) PROVE Handed(h[n])
  <2>1. w \in Line(g, w) /\ Line(g, w) \subseteq Worker BY <1>2, LineClosed
  <2>2. \A x \in Line(g, w) : /\ x \in Members(g) /\ Parent(g, x) \in Line(g, w)
                              /\ Parent(g, x) # NoOne
    BY <1>8, <2>1, NoOneAssumption DEF ClimbLoops
  <2>3. \E x \in Line(g, w) : h[n] = To(x) BY <1>1, <1>6, <2>1, <2>2
  <2> QED BY <2>3, Replies
<1> QED BY <1>4, <1>7, <1>8

-----------------------------------------------------------------------------
(* The library of report definitions.  A file that a name belongs to is    *)
(* the first that has it.                                                  *)
LEMMA FilesOfNames ==
  ASSUME NEW files, Library!IsLibrary(files)
  PROVE  /\ Len(files) \in Nat /\ DOMAIN files = 1 .. Len(files)
         /\ \A name : /\ Library!FileOf(files, name) \in Nat
                      /\ Library!FileOf(files, name) # 0 =>
                           /\ Library!FileOf(files, name) \in DOMAIN files
                           /\ files[Library!FileOf(files, name)].name = name
                           /\ name # Library!NoName
         /\ \A i \in DOMAIN files : files[i].name # Library!NoName =>
              Library!FileOf(files, files[i].name) # 0
<1>1. files \in Seq({files[i] : i \in DOMAIN files}) BY DEF Library!IsLibrary
<1>2. Len(files) \in Nat /\ DOMAIN files = 1 .. Len(files) BY <1>1
<1>3. ASSUME NEW name
      PROVE  /\ Library!FileOf(files, name) \in Nat
             /\ Library!FileOf(files, name) # 0 =>
                  /\ Library!FileOf(files, name) \in DOMAIN files
                  /\ files[Library!FileOf(files, name)].name = name
                  /\ name # Library!NoName
             /\ name # Library!NoName /\ (\E i \in DOMAIN files : files[i].name = name)
                  => Library!FileOf(files, name) # 0
  <2> DEFINE with == {i \in DOMAIN files : files[i].name = name}
  <2>1. Library!FileOf(files, name)
          = IF name = Library!NoName \/ with = {} THEN 0 ELSE Library!Min(with)
    BY DEF Library!FileOf
  <2>2. ASSUME with # {} PROVE Library!Min(with) \in with
    <3>1. with \in SUBSET Nat BY <1>2
    <3>2. \E n \in with : \A m \in with : n <= m
      <4> HIDE DEF with
      <4> QED BY <2>2, <3>1, LeastNatural
    <3> HIDE DEF with
    <3> QED BY <3>2 DEF Library!Min
  <2>3. \A i \in with : i \in Nat /\ i # 0 /\ i \in DOMAIN files /\ files[i].name = name BY <1>2
  <2>4. (\E i \in DOMAIN files : files[i].name = name) => with # {} OBVIOUS
  <2> HIDE DEF with
  <2> QED BY <2>1, <2>2, <2>3, <2>4
<1> QED BY <1>2, <1>3

LEMMA ServedFiles ==
  ASSUME NEW files, Library!IsLibrary(files), NEW i \in Library!Served(files)
  PROVE  i \in DOMAIN files /\ i # 0 /\ Library!FileOf(files, files[i].name) = i
         /\ files[i].name # Library!NoName
<1>1. i \in DOMAIN files /\ Library!FileOf(files, files[i].name) = i BY DEF Library!Served
<1> QED BY <1>1, FilesOfNames
(* What resolve is in the middle of when it was called for i: each file    *)
(* extended by the one before, none twice but perhaps the last.            *)
InCalls(files, i, c) ==
  /\ c \in Seq(DOMAIN files) /\ Len(c) # 0 /\ c[1] = i
  /\ \A k \in 1 .. Len(c) - 1 : /\ files[c[k]].extends # Library!NoName
                                /\ Library!FileOf(files, files[c[k]].extends) = c[k + 1]
  /\ \A k, l \in 1 .. Len(c) - 1 : k < l => files[c[k]].name # files[c[l]].name

LEMMA CallsGoOn ==
  ASSUME NEW files, Library!IsLibrary(files), NEW i \in DOMAIN files
  PROVE  \E h : /\ h[0] = <<i>>
                /\ \A n \in 1 .. Len(files) : h[n] = Library!NextCall(files, h[n - 1])
                /\ Library!Calls(files, i) = h[Len(files)]
<1> DEFINE N == Len(files)
           F == [n \in 1 .. N |-> [c \in Seq(Nat) |-> Library!NextCall(files, c)]]
           Is(h) == h = [n \in 0 .. N |-> IF n = 0 THEN <<i>> ELSE Library!NextCall(files, h[n - 1])]
           K == CHOOSE h : Is(h)
<1>1. N \in Nat /\ DOMAIN files = 1 .. N BY FilesOfNames
<1>2. ASSUME NEW c \in Seq(Nat) PROVE Library!NextCall(files, c) \in Seq(Nat)
  <2>1. Library!FileOf(files, files[Library!Last(c)].extends) \in Nat BY FilesOfNames
  <2> QED BY <2>1 DEF Library!NextCall
<1>3. F \in [1 .. N -> [Seq(Nat) -> Seq(Nat)]] BY <1>2
<1>4. <<i>> \in Seq(Nat) BY <1>1
<1>5. PICK h : GoesOn(h, N, Seq(Nat), <<i>>, F)
  <2> HIDE DEF F, N
  <2> QED BY <1>1, <1>3, <1>4, RecursionIs
<1>6. h \in [0 .. N -> Seq(Nat)] /\ h[0] = <<i>> /\ \A n \in 1 .. N : h[n] = F[n][h[n - 1]]
  BY <1>5 DEF GoesOn
<1>7. \A n \in 0 .. N : h[n] = IF n = 0 THEN <<i>> ELSE Library!NextCall(files, h[n - 1])
  <2> TAKE n \in 0 .. N
  <2>1. CASE n = 0 BY <1>6, <2>1
  <2>2. CASE n # 0
    <3>1. n \in 1 .. N /\ n - 1 \in 0 .. N BY <1>1, <2>2
    <3>2. h[n - 1] \in Seq(Nat) BY <1>6, <3>1
    <3>3. F[n][h[n - 1]] = Library!NextCall(files, h[n - 1]) BY <3>1, <3>2
    <3> HIDE DEF F
    <3> QED BY <1>6, <2>2, <3>1, <3>3
  <2> QED BY <2>1, <2>2
<1>8. Is(h)
  <2>1. h = [n \in 0 .. N |-> h[n]] BY <1>6
  <2> HIDE DEF F, N
  <2> QED BY <1>7, <2>1
<1>9. Is(K)
  <2> HIDE DEF Is
  <2> QED BY <1>8
<1>10. Library!Calls(files, i) = K[N] BY DEF Library!Calls
<1>11. K[0] = <<i>> /\ \A n \in 1 .. N : K[n] = Library!NextCall(files, K[n - 1])
  <2> HIDE DEF K
  <2>1. 0 \in 0 .. N BY <1>1
  <2>2. \A n \in 1 .. N : n \in 0 .. N /\ n # 0 BY <1>1
  <2> HIDE DEF N
  <2> QED BY <1>9, <2>1, <2>2
<1> HIDE DEF K
<1> QED BY <1>10, <1>11

LEMMA NextCallIs ==
  ASSUME NEW files, Library!IsLibrary(files), NEW i \in DOMAIN files, NEW c, InCalls(files, i, c)
  PROVE  /\ Library!NextCall(files, c) = c
              <=> Library!Fails(files, c) \/ files[c[Len(c)]].extends = Library!NoName
         /\ InCalls(files, i, Library!NextCall(files, c))
         /\ Library!NextCall(files, c) # c => Len(Library!NextCall(files, c)) = Len(c) + 1
         /\ ~Library!Fails(files, c) =>
              \A k, l \in 1 .. Len(c) : k < l => files[c[k]].name # files[c[l]].name
<1> DEFINE d == files[c[Len(c)]]
           j == Library!FileOf(files, d.extends)
           e == Append(c, j)
<1>1. c \in Seq(DOMAIN files) /\ Len(c) # 0 /\ c[1] = i /\ Len(c) \in Nat
  BY DEF InCalls
<1>2. Library!Last(c) = c[Len(c)] BY DEF Library!Last
<1>3. Library!NextCall(files, c)
        = IF Library!Fails(files, c) \/ d.extends = Library!NoName THEN c ELSE e
  BY <1>2 DEF Library!NextCall
<1>4. j \in Nat /\ (j # 0 => j \in DOMAIN files) BY FilesOfNames
<1>5. ASSUME ~Library!Fails(files, c)
      PROVE  /\ \A k, l \in 1 .. Len(c) : k < l => files[c[k]].name # files[c[l]].name
             /\ d.extends # Library!NoName => j # 0
  <2>1. /\ \A k \in 1 .. Len(c) - 1 : files[c[k]].name # d.name
        /\ d.extends # Library!NoName => j # 0
    BY <1>2, <1>5 DEF Library!Fails
  <2>2. ASSUME NEW k \in 1 .. Len(c), NEW l \in 1 .. Len(c), k < l
        PROVE  files[c[k]].name # files[c[l]].name
    <3>1. k \in 1 .. Len(c) - 1 /\ (l = Len(c) \/ l \in 1 .. Len(c) - 1) BY <1>1, <2>2
    <3>2. CASE l = Len(c) BY <2>1, <3>1, <3>2
    <3>3. CASE l \in 1 .. Len(c) - 1 BY <2>2, <3>1, <3>3 DEF InCalls
    <3> QED BY <3>1, <3>2, <3>3
  <2> QED BY <2>1, <2>2
<1>6. ASSUME ~Library!Fails(files, c), d.extends # Library!NoName
      PROVE  /\ e # c /\ Len(e) = Len(c) + 1 /\ InCalls(files, i, e)
  <2>1. j \in DOMAIN files BY <1>4, <1>5, <1>6
  <2>2. e \in Seq(DOMAIN files) /\ Len(e) = Len(c) + 1 BY <1>1, <2>1
  <2>3. e[Len(c) + 1] = j /\ \A k \in 1 .. Len(c) : e[k] = c[k] BY <1>1, <2>1
  <2>4. \A k \in 1 .. Len(e) - 1 : /\ files[e[k]].extends # Library!NoName
                                   /\ Library!FileOf(files, files[e[k]].extends) = e[k + 1]
    <3> TAKE k \in 1 .. Len(e) - 1
    <3>1. k \in 1 .. Len(c) /\ e[k] = c[k] BY <1>1, <2>2, <2>3
    <3>2. CASE k = Len(c) BY <1>6, <2>3, <3>1, <3>2
    <3>3. CASE k # Len(c)
      <4>1. k \in 1 .. Len(c) - 1 /\ k + 1 \in 1 .. Len(c) BY <1>1, <3>1, <3>3
      <4>2. e[k + 1] = c[k + 1] BY <2>3, <4>1
      <4> HIDE DEF e, j, d
      <4> QED BY <3>1, <4>1, <4>2 DEF InCalls
    <3> QED BY <3>2, <3>3
  <2>5. \A k, l \in 1 .. Len(e) - 1 : k < l => files[e[k]].name # files[e[l]].name
    <3> HIDE DEF e, j, d
    <3> QED BY <1>1, <1>5, <1>6, <2>2, <2>3
  <2>6. 1 \in 1 .. Len(c) /\ Len(e) # 0 /\ e # c
    <3>1. Len(e) # Len(c) BY <1>1, <2>2
    <3> QED BY <1>1, <2>2, <3>1
  <2> HIDE DEF e, j, d
  <2> QED BY <1>1, <2>2, <2>3, <2>4, <2>5, <2>6 DEF InCalls
<1> HIDE DEF e, j
<1> QED BY <1>3, <1>5, <1>6
(* Where nobody fails, no more calls than there are files.                 *)
LEMMA CallsAreFew ==
  ASSUME NEW files, Library!IsLibrary(files), NEW i \in DOMAIN files, NEW c, InCalls(files, i, c),
         ~Library!Fails(files, c)
  PROVE  Len(c) <= Len(files)
<1> DEFINE S == 1 .. Len(c)
           T == 1 .. Len(files)
<1>1. Len(c) \in Nat /\ Len(files) \in Nat /\ DOMAIN files = T /\ c \in [S -> T]
  BY FilesOfNames DEF InCalls
<1>2. \A k, l \in S : k < l => files[c[k]].name # files[c[l]].name
  BY NextCallIs
<1> SUFFICES ASSUME Len(files) < Len(c) PROVE FALSE BY <1>1
<1>3. IsFiniteSet(S) /\ Cardinality(T) < Cardinality(S) BY <1>1, FS_Interval
<1>4. IsFiniteSet(T) BY <1>1, FS_Interval
<1>5. \E x, y \in S : x # y /\ c[x] = c[y]
  <2> HIDE DEF S, T
  <2> QED BY <1>1, <1>3, <1>4, FS_PigeonHole
<1> QED BY <1>1, <1>2, <1>5

(* So that the calls return, or the last fails. *)
LEMMA CallsReturn ==
  ASSUME NEW files, Library!IsLibrary(files), NEW i \in DOMAIN files
  PROVE  LET c == Library!Calls(files, i)
         IN  /\ InCalls(files, i, c)
             /\ Library!Fails(files, c) \/ files[c[Len(c)]].extends = Library!NoName
<1> DEFINE N == Len(files)
           c == Library!Calls(files, i)
<1>1. PICK h : /\ h[0] = <<i>>
               /\ \A n \in 1 .. N : h[n] = Library!NextCall(files, h[n - 1])
               /\ c = h[N]
  BY CallsGoOn
<1>2. N \in Nat BY FilesOfNames
<1> DEFINE Good(n) == /\ InCalls(files, i, h[n])
                      /\ Library!NextCall(files, h[n]) = h[n] \/ Len(h[n]) = n + 1
           Bad == {n \in 0 .. N : ~ Good(n)}
<1> HIDE DEF c
<1>3. Bad = {}
  <2> SUFFICES ASSUME Bad # {} PROVE FALSE OBVIOUS
  <2>1. PICK n \in Bad : \A m \in Bad : n <= m
    <3>1. Bad \in SUBSET Nat BY <1>2
    <3> HIDE DEF Bad
    <3> QED BY <3>1, LeastNatural
  <2>2. n \in 0 .. N /\ ~ Good(n) BY <2>1
  <2>3. Good(0)
    <3>1. <<i>> \in Seq(DOMAIN files) /\ Len(<<i>>) = 1 /\ <<i>>[1] = i OBVIOUS
    <3>2. InCalls(files, i, <<i>>) BY <3>1 DEF InCalls
    <3> QED BY <1>1, <3>1, <3>2
  <2>4. n \in 1 .. N /\ n - 1 \in 0 .. N /\ ~ n <= n - 1
    <3>1. n # 0
      <4> HIDE DEF Good
      <4> QED BY <2>2, <2>3
    <3> QED BY <1>2, <2>2, <3>1
  <2>5. Good(n - 1)
    <3>1. n - 1 \notin Bad
      <4> HIDE DEF Bad
      <4> QED BY <2>1, <2>4
    <3> HIDE DEF Good
    <3> QED BY <2>4, <3>1
  <2>6. h[n] = Library!NextCall(files, h[n - 1]) BY <1>1, <2>4
  <2>7. CASE h[n] = h[n - 1] BY <2>2, <2>5, <2>6, <2>7
  <2>8. CASE h[n] # h[n - 1]
    <3>1. InCalls(files, i, h[n]) /\ Len(h[n]) = Len(h[n - 1]) + 1
      BY <2>5, <2>6, <2>8, NextCallIs
    <3>2. Len(h[n - 1]) = n BY <1>2, <2>4, <2>5, <2>6, <2>8
    <3> QED BY <2>2, <3>1, <3>2
  <2> QED BY <2>7, <2>8
<1>4. Good(N)
  <2>1. N \in 0 .. N /\ N \notin Bad BY <1>2, <1>3
  <2> HIDE DEF Good
  <2> QED BY <2>1
<1>5. InCalls(files, i, c) BY <1>1, <1>4
<1>6. CASE Library!NextCall(files, c) = c
  <2> QED BY <1>5, <1>6, NextCallIs DEF c
<1>7. CASE Len(c) = N + 1
  <2>1. Library!Fails(files, c)
    <3> SUFFICES ASSUME ~Library!Fails(files, c) PROVE FALSE OBVIOUS
    <3>1. Len(c) <= N BY <1>5, CallsAreFew
    <3> QED BY <1>2, <1>7, <3>1
  <2> QED BY <1>5, <2>1 DEF c
<1>8. Library!NextCall(files, c) = c \/ Len(c) = N + 1 BY <1>1, <1>4
<1> QED BY <1>6, <1>7, <1>8

(* A chain is told by where it begins, and it is what resolve calls, if    *)
(* that does not fail; when it fails there is none.                        *)
LEMMA ChainsAre ==
  ASSUME NEW files, Library!IsLibrary(files), NEW c \in Library!Chains(files)
  PROVE  /\ Len(c) \in Nat /\ Len(c) # 0 /\ Len(c) <= Len(files) /\ c \in Seq(DOMAIN files)
         /\ \A k, l \in 1 .. Len(c) : c[k] = c[l] => k = l
         /\ \A k \in 1 .. Len(c) - 1 : /\ files[c[k]].extends # Library!NoName
                                       /\ Library!FileOf(files, files[c[k]].extends) = c[k + 1]
         /\ files[c[Len(c)]].extends = Library!NoName
<1>1. PICK n \in 1 .. Len(files) : c \in [1 .. n -> DOMAIN files] BY DEF Library!Chains
<1>2. Len(files) \in Nat BY FilesOfNames
<1>3. c \in Seq(DOMAIN files) /\ Len(c) = n /\ DOMAIN c = 1 .. n BY <1>1, <1>2
<1>4. files[c[Len(c)]].extends = Library!NoName BY DEF Library!Chains, Library!Last
<1>5. \A k, l \in 1 .. Len(c) : c[k] = c[l] => k = l BY <1>3 DEF Library!Chains
<1>6. \A k \in 1 .. Len(c) - 1 : /\ files[c[k]].extends # Library!NoName
                                  /\ Library!FileOf(files, files[c[k]].extends) = c[k + 1]
  BY DEF Library!Chains
<1> QED BY <1>1, <1>2, <1>3, <1>4, <1>5, <1>6
LEMMA CallsAreOfNames ==
  ASSUME NEW files, Library!IsLibrary(files), NEW i \in Library!Served(files),
         NEW c, InCalls(files, i, c), NEW k \in 1 .. Len(c)
  PROVE  Library!FileOf(files, files[c[k]].name) = c[k]
<1>1. Len(c) \in Nat /\ c[1] = i BY DEF InCalls
<1>2. CASE k = 1 BY <1>1, <1>2, ServedFiles
<1>3. CASE k # 1
  <2> DEFINE l == k - 1
             name == files[c[l]].extends
  <2>1. l \in 1 .. Len(c) - 1 /\ l + 1 = k BY <1>1, <1>3
  <2>2. c[l + 1] = Library!FileOf(files, name)
    <3> HIDE DEF l
    <3> QED BY <2>1 DEF InCalls
  <2>3. c[k] \in DOMAIN files /\ c[k] # 0
    <3>1. DOMAIN files = 1 .. Len(files) BY FilesOfNames
    <3>2. c[k] \in DOMAIN files BY DEF InCalls
    <3> QED BY <3>1, <3>2
  <2>4. c[k] = Library!FileOf(files, name) BY <2>1, <2>2
  <2>5. files[c[k]].name = name
    <3> HIDE DEF name
    <3> QED BY <2>3, <2>4, FilesOfNames
  <2> HIDE DEF name
  <2> QED BY <2>4, <2>5
<1> QED BY <1>2, <1>3

LEMMA ChainsAreCalls ==
  ASSUME NEW files, Library!IsLibrary(files), NEW i \in Library!Served(files),
         NEW c \in Library!Chains(files), c[1] = i
  PROVE  Library!Calls(files, i) = c /\ ~Library!Fails(files, c)
<1> DEFINE e == Library!Calls(files, i)
           m == Len(e)
<1>1. i \in DOMAIN files BY ServedFiles
<1>2. InCalls(files, i, e) /\ (Library!Fails(files, e) \/ files[e[m]].extends = Library!NoName)
  BY <1>1, CallsReturn
<1> HIDE DEF e
<1>3. /\ Len(c) \in Nat /\ Len(c) # 0 /\ c \in Seq(DOMAIN files)
      /\ \A k, l \in 1 .. Len(c) : c[k] = c[l] => k = l
      /\ \A k \in 1 .. Len(c) - 1 : /\ files[c[k]].extends # Library!NoName
                                    /\ Library!FileOf(files, files[c[k]].extends) = c[k + 1]
      /\ files[c[Len(c)]].extends = Library!NoName
  BY ChainsAre
<1>4. /\ m \in Nat /\ m # 0 /\ e \in Seq(DOMAIN files) /\ e[1] = i
      /\ \A k \in 1 .. m - 1 : /\ files[e[k]].extends # Library!NoName
                               /\ Library!FileOf(files, files[e[k]].extends) = e[k + 1]
  <2>1. e \in Seq(DOMAIN files) /\ e[1] = i /\ m # 0 BY <1>2 DEF InCalls
  <2>2. \A k \in 1 .. m - 1 : /\ files[e[k]].extends # Library!NoName
                              /\ Library!FileOf(files, files[e[k]].extends) = e[k + 1]
    BY <1>2 DEF InCalls
  <2>3. m \in Nat BY <2>1
  <2> QED BY <2>1, <2>2, <2>3
<1> HIDE DEF m
<1>5. \A k \in 1 .. m : k <= Len(c) => e[k] = c[k]
  <2> DEFINE Bad == {k \in 1 .. m : k <= Len(c) /\ e[k] # c[k]}
  <2> SUFFICES ASSUME Bad # {} PROVE FALSE OBVIOUS
  <2>1. PICK k \in Bad : \A l \in Bad : k <= l
    <3>1. Bad \in SUBSET Nat BY <1>4
    <3> HIDE DEF Bad
    <3> QED BY <3>1, LeastNatural
  <2>2. k \in 1 .. m /\ k <= Len(c) /\ e[k] # c[k] BY <2>1
  <2>3. k # 1 BY <1>4, <2>2
  <2> DEFINE l == k - 1
  <2>4. l \in 1 .. m /\ l \in 1 .. m - 1 /\ l \in 1 .. Len(c) - 1 /\ ~ k <= l /\ l + 1 = k
        /\ l <= Len(c)
    BY <1>3, <1>4, <2>2, <2>3
  <2>5. e[l] = c[l]
    <3>1. l \notin Bad
      <4> HIDE DEF Bad, l
      <4> QED BY <2>1, <2>4
    <3> QED BY <2>4, <3>1
  <2>6. e[l + 1] = c[l + 1]
    <3> HIDE DEF l
    <3> QED BY <1>3, <1>4, <2>4, <2>5
  <2> QED BY <2>2, <2>4, <2>6
<1>6. m <= Len(c)
  <2> SUFFICES ASSUME Len(c) < m PROVE FALSE BY <1>3, <1>4
  <2> DEFINE n == Len(c)
  <2>1. n \in 1 .. m - 1 /\ n \in 1 .. m /\ n <= n BY <1>3, <1>4
  <2>2. e[n] = c[n] BY <1>5, <2>1
  <2>3. files[e[n]].extends # Library!NoName
    <3> HIDE DEF n
    <3> QED BY <1>4, <2>1
  <2> QED BY <1>3, <2>2, <2>3
<1>7. m \in 1 .. Len(c) /\ m \in 1 .. m /\ e[m] = c[m] BY <1>3, <1>4, <1>5, <1>6
<1>8. ~Library!Fails(files, e)
  <2>1. Library!Last(e) = e[m] BY DEF Library!Last, m
  <2>2. ASSUME NEW k \in 1 .. m - 1, files[e[k]].name = files[e[m]].name PROVE FALSE
    <3>1. k \in 1 .. m /\ k \in 1 .. Len(c) /\ k # m /\ k <= Len(c) BY <1>3, <1>4, <1>6
    <3>2. e[k] = e[m]
      <4>1. Library!FileOf(files, files[e[k]].name) = e[k] BY <1>2, <3>1, CallsAreOfNames DEF m
      <4>2. Library!FileOf(files, files[e[m]].name) = e[m] BY <1>2, <1>7, CallsAreOfNames DEF m
      <4> QED BY <2>2, <4>1, <4>2
    <3>3. c[k] = c[m] BY <1>5, <1>7, <3>1, <3>2
    <3> QED BY <1>3, <1>7, <3>1, <3>3
  <2>3. ASSUME files[e[m]].extends # Library!NoName
        PROVE  /\ Library!FileOf(files, files[e[m]].extends) # 0
               /\ files[e[m]].extends # files[e[m]].name
    <3>1. m \in 1 .. Len(c) - 1
      <4>1. m # Len(c) BY <1>3, <1>7, <2>3
      <4> QED BY <1>3, <1>4, <1>6, <4>1
    <3>2. Library!FileOf(files, files[e[m]].extends) = c[m + 1] BY <1>3, <1>7, <3>1
    <3>3. m + 1 \in 1 .. Len(c) /\ m + 1 # m BY <1>3, <3>1
    <3>4. c[m + 1] \in DOMAIN files /\ c[m + 1] # c[m] BY <1>3, <1>7, <3>3
    <3>5. c[m + 1] # 0
      <4>1. DOMAIN files = 1 .. Len(files) BY FilesOfNames
      <4> QED BY <3>4, <4>1
    <3>6. Library!FileOf(files, files[e[m]].name) = e[m] BY <1>2, <1>7, CallsAreOfNames DEF m
    <3> QED BY <1>7, <3>2, <3>4, <3>5, <3>6
  <2> QED BY <2>1, <2>2, <2>3 DEF Library!Fails, m
<1>9. m = Len(c)
  <2>1. files[c[m]].extends = Library!NoName BY <1>2, <1>7, <1>8
  <2>2. m \notin 1 .. Len(c) - 1 BY <1>3, <2>1
  <2> QED BY <1>3, <1>4, <1>6, <2>2
<1>10. e = c
  <2>1. e = [k \in 1 .. m |-> e[k]] BY <1>4 DEF m
  <2>2. c = [k \in 1 .. Len(c) |-> c[k]] BY <1>3
  <2>3. \A k \in 1 .. m : k <= Len(c) BY <1>3, <1>9
  <2> QED BY <1>5, <1>9, <2>1, <2>2, <2>3
<1> QED BY <1>8, <1>10 DEF e

LEMMA CallsAreChains ==
  ASSUME NEW files, Library!IsLibrary(files), NEW i \in Library!Served(files),
         NEW c, c = Library!Calls(files, i), ~Library!Fails(files, c)
  PROVE  c \in Library!Chains(files) /\ c[1] = i
<1>1. i \in DOMAIN files BY ServedFiles
<1>2. InCalls(files, i, c) /\ files[c[Len(c)]].extends = Library!NoName BY <1>1, CallsReturn
<1>3. Len(c) \in Nat /\ Len(c) # 0 /\ c \in [1 .. Len(c) -> DOMAIN files] /\ c[1] = i
      /\ DOMAIN c = 1 .. Len(c)
  BY <1>2 DEF InCalls
<1>4. Len(c) \in 1 .. Len(files)
  <2>1. Len(c) <= Len(files) BY <1>1, <1>2, CallsAreFew
  <2>2. Len(files) \in Nat BY FilesOfNames
  <2> QED BY <1>3, <2>1, <2>2
<1>5. \A k, l \in 1 .. Len(c) : c[k] = c[l] => k = l
  <2>1. \A k, l \in 1 .. Len(c) : k < l => files[c[k]].name # files[c[l]].name
    BY <1>1, <1>2, NextCallIs
  <2> TAKE k, l \in 1 .. Len(c)
  <2>2. k < l \/ l < k \/ k = l BY <1>3
  <2> QED BY <2>1, <2>2
<1>6. \A k \in 1 .. Len(c) - 1 : /\ files[c[k]].extends # Library!NoName
                                 /\ Library!FileOf(files, files[c[k]].extends) = c[k + 1]
  BY <1>2 DEF InCalls
<1>7. files[Library!Last(c)].extends = Library!NoName BY <1>2 DEF Library!Last
<1> QED BY <1>3, <1>4, <1>5, <1>6, <1>7 DEF Library!Chains
(* What the calls of a chain return.                                       *)
DefinitionFields == {"name", "extends", "core"} \cup Library!Sections

DefinitionValues(files) == {files[i][f] : i \in DOMAIN files, f \in DefinitionFields}

(* What v is of a section from the m-th of a chain on. *)
NearFrom(files, c, m, s, v) ==
  \/ v = Library!LeftOut /\ \A k \in m .. Len(c) : ~Library!Has(files[c[k]], s)
  \/ \E k \in m .. Len(c) : /\ Library!Has(files[c[k]], s) /\ v = files[c[k]][s]
                            /\ \A l \in m .. k - 1 : ~Library!Has(files[c[l]], s)

LEMMA Merging ==
  ASSUME NEW files, Library!IsLibrary(files), NEW V, V = DefinitionValues(files),
         NEW j \in DOMAIN files
  PROVE  /\ files[j] \in [DefinitionFields -> V]
         /\ \A parent \in [DefinitionFields -> V] :
              LET d == Library!MergeExtends(parent, files[j])
              IN  /\ d \in [DefinitionFields -> V]
                  /\ d.name = files[j].name /\ d.extends = files[j].extends /\ d.core = files[j].core
                  /\ \A s \in Library!Sections :
                       d[s] = IF Library!Has(files[j], s) THEN files[j][s] ELSE parent[s]
<1> DEFINE F == DefinitionFields
           e == files[j]
<1>1. e = [f \in F |-> e[f]] BY DEF Library!IsLibrary, DefinitionFields
<1>2. \A f \in F : e[f] \in V BY DEF DefinitionValues
<1>3. e \in [F -> V] /\ DOMAIN e = F
  <2> HIDE DEF e, F
  <2> QED BY <1>1, <1>2
<1>4. "name" \in F /\ "extends" \in F /\ "core" \in F /\ Library!Sections \subseteq F
      /\ "name" \notin Library!Sections /\ "extends" \notin Library!Sections
      /\ "core" \notin Library!Sections
  BY DEF DefinitionFields, Library!Sections, Library!Facets
<1>5. ASSUME NEW parent \in [F -> V]
      PROVE  LET d == Library!MergeExtends(parent, e)
             IN  /\ d \in [F -> V]
                 /\ d.name = e.name /\ d.extends = e.extends /\ d.core = e.core
                 /\ \A s \in Library!Sections :
                      d[s] = IF Library!Has(e, s) THEN e[s] ELSE parent[s]
  <2> DEFINE d == Library!MergeExtends(parent, e)
  <2> HIDE DEF e, F
  <2>1. d = [f \in F |-> IF f \in Library!Sections /\ ~Library!Has(e, f) THEN parent[f] ELSE e[f]]
    BY <1>3 DEF Library!MergeExtends
  <2>2. d \in [F -> V] BY <1>2, <2>1
  <2> HIDE DEF d
  <2>3. d.name = e.name /\ d.extends = e.extends /\ d.core = e.core BY <1>4, <2>1
  <2>4. \A s \in Library!Sections : d[s] = IF Library!Has(e, s) THEN e[s] ELSE parent[s]
    BY <1>4, <2>1
  <2> QED BY <2>2, <2>3, <2>4 DEF d
<1> QED BY <1>3, <1>5

LEMMA ReturnsGoOn ==
  ASSUME NEW files, Library!IsLibrary(files), NEW V, V = DefinitionValues(files),
         NEW c \in Library!Chains(files)
  PROVE  \E h \in [0 .. Len(c) - 1 -> [DefinitionFields -> V]] :
           /\ h[0] = files[c[Len(c)]]
           /\ \A n \in 1 .. Len(c) - 1 : h[n] = Library!MergeExtends(h[n - 1], files[c[Len(c) - n]])
           /\ Library!Returned(files, c) = h[Len(c) - 1]
<1> DEFINE S == [DefinitionFields -> V]
           N == Len(c) - 1
           z == files[c[Len(c)]]
           F == [n \in 1 .. N |-> [d \in S |-> Library!MergeExtends(d, files[c[Len(c) - n]])]]
           Is(h) == h = [n \in 0 .. N |-> IF n = 0 THEN z
                                          ELSE Library!MergeExtends(h[n - 1], files[c[Len(c) - n]])]
           K == CHOOSE h : Is(h)
<1>1. N \in Nat /\ Len(c) \in Nat /\ \A k \in 1 .. Len(c) : c[k] \in DOMAIN files BY ChainsAre
<1>4. ASSUME NEW j \in DOMAIN files
      PROVE  files[j] \in S /\ \A d \in S : Library!MergeExtends(d, files[j]) \in S
  <2>1. files[j] \in S BY Merging
  <2>2. ASSUME NEW d \in S PROVE Library!MergeExtends(d, files[j]) \in S BY Merging
  <2> QED BY <2>1, <2>2
<1>2. z \in S
  <2>1. Len(c) \in 1 .. Len(c) BY <1>1
  <2>2. c[Len(c)] \in DOMAIN files BY <1>1, <2>1
  <2> HIDE DEF S
  <2> QED BY <1>4, <2>2
<1>3. F \in [1 .. N -> [S -> S]]
  <2>1. ASSUME NEW n \in 1 .. N, NEW d \in S
        PROVE  Library!MergeExtends(d, files[c[Len(c) - n]]) \in S
    <3>1. Len(c) - n \in 1 .. Len(c) BY <1>1
    <3>2. c[Len(c) - n] \in DOMAIN files BY <1>1, <3>1
    <3> HIDE DEF S
    <3> QED BY <1>4, <3>2
  <2> HIDE DEF S, N
  <2> QED BY <2>1
<1>5. PICK h : GoesOn(h, N, S, z, F)
  <2> HIDE DEF F, N, S, z
  <2> QED BY <1>1, <1>2, <1>3, RecursionIs
<1>6. h \in [0 .. N -> S] /\ h[0] = z /\ \A n \in 1 .. N : h[n] = F[n][h[n - 1]]
  BY <1>5 DEF GoesOn
<1>7. \A n \in 0 .. N : h[n] = IF n = 0 THEN z
                               ELSE Library!MergeExtends(h[n - 1], files[c[Len(c) - n]])
  <2> HIDE DEF S, z
  <2> TAKE n \in 0 .. N
  <2>1. CASE n = 0 BY <1>6, <2>1
  <2>2. CASE n # 0
    <3>1. n \in 1 .. N /\ n - 1 \in 0 .. N BY <1>1, <2>2
    <3>2. h[n - 1] \in S BY <1>6, <3>1
    <3>3. F[n][h[n - 1]] = Library!MergeExtends(h[n - 1], files[c[Len(c) - n]]) BY <3>1, <3>2
    <3> HIDE DEF F
    <3> QED BY <1>6, <2>2, <3>1, <3>3
  <2> QED BY <2>1, <2>2
<1>8. Is(h)
  <2>1. h = [n \in 0 .. N |-> h[n]] BY <1>6
  <2> HIDE DEF F, N, z, S
  <2> QED BY <1>7, <2>1
<1>9. Is(K)
  <2> HIDE DEF Is
  <2> QED BY <1>8
<1>10. Library!Returned(files, c) = K[N] BY DEF Library!Returned, Library!Last
<1>11. K = h
  <2> HIDE DEF K
  <2> DEFINE Bad == {n \in 0 .. N : K[n] # h[n]}
  <2>1. \A n \in 0 .. N : K[n] = IF n = 0 THEN z
                                 ELSE Library!MergeExtends(K[n - 1], files[c[Len(c) - n]])
    <3> HIDE DEF z, N
    <3> QED BY <1>9
  <2>2. Bad = {}
    <3> SUFFICES ASSUME Bad # {} PROVE FALSE OBVIOUS
    <3>1. PICK n \in Bad : \A m \in Bad : n <= m
      <4>1. Bad \in SUBSET Nat BY <1>1
      <4> HIDE DEF Bad
      <4> QED BY <4>1, LeastNatural
    <3>2. n \in 0 .. N /\ K[n] # h[n] BY <3>1
    <3>3. n # 0 BY <1>7, <2>1, <3>2
    <3>4. n - 1 \in 0 .. N /\ ~ n <= n - 1 BY <1>1, <3>2, <3>3
    <3>5. n - 1 \notin Bad
      <4> HIDE DEF Bad
      <4> QED BY <3>1, <3>4
    <3>6. K[n - 1] = h[n - 1] BY <3>4, <3>5
    <3> HIDE DEF z, N
    <3> QED BY <1>7, <2>1, <3>2, <3>3, <3>6
  <2>3. h = [n \in 0 .. N |-> h[n]] BY <1>6
  <2>4. K = [n \in 0 .. N |-> K[n]]
    <3> HIDE DEF z, N
    <3> QED BY <1>9
  <2> HIDE DEF N
  <2> QED BY <2>2, <2>3, <2>4
<1>12. \A n \in 1 .. N : h[n] = Library!MergeExtends(h[n - 1], files[c[Len(c) - n]])
  <2>1. \A n \in 1 .. N : n \in 0 .. N /\ n # 0 BY <1>1
  <2> HIDE DEF N, z
  <2> QED BY <1>7, <2>1
<1> HIDE DEF K, S, z
<1> QED BY <1>6, <1>10, <1>11, <1>12 DEF S, z
LEMMA ReturnedIs ==
  ASSUME NEW files, Library!IsLibrary(files), NEW c \in Library!Chains(files),
         NEW d, d = Library!Returned(files, c)
  PROVE  /\ DOMAIN d = DefinitionFields
         /\ d.name = files[c[1]].name /\ d.extends = files[c[1]].extends
         /\ d.core = files[c[1]].core
         /\ \A s \in Library!Sections : Library!IsNearest(files, c, s, d[s])
<1> DEFINE V == DefinitionValues(files)
           S == [DefinitionFields -> V]
           N == Len(c) - 1
           Merged(e, m) == /\ e.name = files[c[m]].name /\ e.extends = files[c[m]].extends
                           /\ e.core = files[c[m]].core
                           /\ \A s \in Library!Sections : NearFrom(files, c, m, s, e[s])
<1>1. PICK h \in [0 .. N -> S] :
        /\ h[0] = files[c[Len(c)]]
        /\ \A n \in 1 .. N : h[n] = Library!MergeExtends(h[n - 1], files[c[Len(c) - n]])
        /\ Library!Returned(files, c) = h[N]
  BY ReturnsGoOn
<1>2. Len(c) \in Nat /\ Len(c) # 0 /\ N \in Nat /\ \A k \in 1 .. Len(c) : c[k] \in DOMAIN files
  BY ChainsAre
<1>3. Merged(h[0], Len(c))
  <2> SUFFICES ASSUME NEW s \in Library!Sections
               PROVE  NearFrom(files, c, Len(c), s, files[c[Len(c)]][s])
    BY <1>1
  <2>1. Len(c) \in Len(c) .. Len(c) /\ (\A k \in Len(c) .. Len(c) : k = Len(c))
        /\ (\A l \in Len(c) .. Len(c) - 1 : FALSE)
    BY <1>2
  <2> QED BY <2>1 DEF NearFrom, Library!Has
<1>4. ASSUME NEW n \in 1 .. N, Merged(h[n - 1], Len(c) - (n - 1))
      PROVE  Merged(h[n], Len(c) - n)
  <2> DEFINE m == Len(c) - n
             e == h[n - 1]
             o == h[n]
  <2>1. m \in 1 .. Len(c) /\ m \in Nat /\ Len(c) - (n - 1) = m + 1 /\ n - 1 \in 0 .. N /\ m <= Len(c) - 1
    BY <1>2
  <2>2. c[m] \in DOMAIN files /\ e \in S BY <1>1, <1>2, <2>1
  <2>3. o = Library!MergeExtends(e, files[c[m]]) BY <1>1
  <2>4. Merged(e, m + 1) BY <1>4, <2>1
  <2> HIDE DEF m, e, o
  <2>5. /\ o.name = files[c[m]].name /\ o.extends = files[c[m]].extends /\ o.core = files[c[m]].core
        /\ \A s \in Library!Sections :
             o[s] = IF Library!Has(files[c[m]], s) THEN files[c[m]][s] ELSE e[s]
    BY <2>2, <2>3, Merging
  <2>6. ASSUME NEW s \in Library!Sections PROVE NearFrom(files, c, m, s, o[s])
    <3>1. NearFrom(files, c, m + 1, s, e[s]) BY <2>4
    <3>2. m \in m .. Len(c) /\ (\A k \in m .. Len(c) : k = m \/ k \in m + 1 .. Len(c))
          /\ (\A k \in m + 1 .. Len(c) : k \in m .. Len(c)) /\ (\A l \in m .. m - 1 : FALSE)
          /\ (\A k \in m + 1 .. Len(c) : \A l \in m .. k - 1 : l = m \/ l \in m + 1 .. k - 1)
      BY <1>2, <2>1
    <3>3. CASE Library!Has(files[c[m]], s) BY <2>5, <3>2, <3>3 DEF NearFrom
    <3>4. CASE ~Library!Has(files[c[m]], s)
      <4>1. o[s] = e[s] BY <2>5, <3>4
      <4>2. CASE e[s] = Library!LeftOut /\ \A k \in m + 1 .. Len(c) : ~Library!Has(files[c[k]], s)
        BY <3>2, <3>4, <4>1, <4>2 DEF NearFrom
      <4>3. ASSUME NEW k \in m + 1 .. Len(c), Library!Has(files[c[k]], s), e[s] = files[c[k]][s],
                   \A l \in m + 1 .. k - 1 : ~Library!Has(files[c[l]], s)
            PROVE  NearFrom(files, c, m, s, o[s])
        <5>1. k \in m .. Len(c) /\ \A l \in m .. k - 1 : l = m \/ l \in m + 1 .. k - 1 BY <3>2, <4>3
        <5>2. \A l \in m .. k - 1 : ~Library!Has(files[c[l]], s) BY <3>4, <4>3, <5>1
        <5> QED BY <4>1, <4>3, <5>1, <5>2 DEF NearFrom
      <4> QED BY <3>1, <4>2, <4>3 DEF NearFrom
    <3> QED BY <3>3, <3>4
  <2> QED BY <2>5, <2>6 DEF m, o
<1>5. Merged(h[N], 1)
  <2> DEFINE Bad == {n \in 0 .. N : ~ Merged(h[n], Len(c) - n)}
  <2> HIDE DEF Merged
  <2>1. Bad = {}
    <3> SUFFICES ASSUME Bad # {} PROVE FALSE OBVIOUS
    <3>1. PICK n \in Bad : \A m \in Bad : n <= m
      <4>1. Bad \in SUBSET Nat BY <1>2
      <4> HIDE DEF Bad
      <4> QED BY <4>1, LeastNatural
    <3>2. n \in 0 .. N /\ ~ Merged(h[n], Len(c) - n) BY <3>1
    <3>3. n # 0
      <4>1. Len(c) - 0 = Len(c) BY <1>2
      <4> QED BY <1>3, <3>2, <4>1
    <3>4. n \in 1 .. N /\ n - 1 \in 0 .. N /\ ~ n <= n - 1 BY <1>2, <3>2, <3>3
    <3>5. n - 1 \notin Bad
      <4> HIDE DEF Bad
      <4> QED BY <3>1, <3>4
    <3> QED BY <1>4, <3>2, <3>4, <3>5
  <2>2. N \in 0 .. N /\ Len(c) - N = 1 BY <1>2
  <2>3. N \notin Bad BY <2>1
  <2>4. Merged(h[N], Len(c) - N) BY <2>2, <2>3
  <2> QED BY <2>2, <2>4
<1>6. d \in S /\ d = h[N]
  <2>1. N \in 0 .. N BY <1>2
  <2> HIDE DEF S
  <2> QED BY <1>1, <2>1
<1>7. DOMAIN d = DefinitionFields BY <1>6
<1>8. ASSUME NEW s \in Library!Sections PROVE Library!IsNearest(files, c, s, d[s])
  <2>1. NearFrom(files, c, 1, s, d[s]) BY <1>5, <1>6
  <2>2. DOMAIN c = 1 .. Len(c)
    <3>1. c \in Seq(DOMAIN files) BY ChainsAre
    <3> QED BY <3>1
  <2> QED BY <2>1, <2>2 DEF NearFrom, Library!IsNearest
<1> QED BY <1>5, <1>6, <1>7, <1>8

(* What resolve gives, of a definition whose name is its own.              *)
LEMMA ResolveIs ==
  ASSUME NEW files, Library!IsLibrary(files), NEW i \in Library!Served(files)
  PROVE  /\ Library!Resolve(files, i) = Library!LeftOut
              => \A c \in Library!Chains(files) : c[1] # i
         /\ \A c \in Library!Chains(files) : c[1] = i =>
              /\ Library!Resolve(files, i) # Library!LeftOut
              /\ Library!Resolve(files, i) = Library!Returned(files, c)
         /\ Library!Resolve(files, i) # Library!LeftOut
              => \E c \in Library!Chains(files) : c[1] = i
<1> DEFINE e == Library!Calls(files, i)
<1>1. ASSUME NEW c \in Library!Chains(files), c[1] = i
      PROVE  /\ Library!Resolve(files, i) # Library!LeftOut
             /\ Library!Resolve(files, i) = Library!Returned(files, c)
  <2>1. e = c /\ ~Library!Fails(files, c) BY <1>1, ChainsAreCalls
  <2>2. Library!Resolve(files, i) = Library!Returned(files, c)
    <3> HIDE DEF e
    <3> QED BY <2>1 DEF Library!Resolve, e
  <2> DEFINE d == Library!Returned(files, c)
  <2>3. DOMAIN d = DefinitionFields BY ReturnedIs
  <2>4. "name" \in DOMAIN d BY <2>3 DEF DefinitionFields
  <2>5. "name" \notin DOMAIN Library!LeftOut BY DEF Library!LeftOut
  <2> HIDE DEF d
  <2> QED BY <2>2, <2>4, <2>5 DEF d
<1>2. ASSUME Library!Resolve(files, i) # Library!LeftOut
      PROVE  \E c \in Library!Chains(files) : c[1] = i
  <2>1. ~Library!Fails(files, e) BY <1>2 DEF Library!Resolve
  <2>2. e \in Library!Chains(files) /\ e[1] = i BY <2>1, CallsAreChains
  <2> HIDE DEF e
  <2> QED BY <2>2
<1> QED BY <1>1, <1>2
(* load.go: the extends that do not end are refused, and no others.        *)
LEMMA RefusedAre ==
  ASSUME NEW files, Library!IsLibrary(files)
  PROVE  Library!CyclesAreRefused(files)
<1> SUFFICES ASSUME NEW i \in Library!Served(files)
             PROVE  <<i, "extends">> \in Library!Problems(files)
                      <=> \A c \in Library!Chains(files) : c[1] # i
  BY DEF Library!CyclesAreRefused
<1>1. <<i, "extends">> \in Library!Problems(files)
        <=> Library!Resolve(files, i) = Library!LeftOut
  BY DEF Library!Problems
<1> QED BY <1>1, ResolveIs

(* load.go: of every section what the nearest declares is served, and it   *)
(* is as valid as what is declared.                                        *)
LEMMA ServedIs ==
  ASSUME NEW files, Library!IsLibrary(files), NEW i \in Library!Served(files),
         NEW c \in Library!Chains(files), c[1] = i,
         NEW d, d = Library!Resolve(files, i)
  PROVE  /\ \A s \in Library!Sections : Library!IsNearest(files, c, s, d[s])
         /\ d.name = files[i].name /\ d.extends = files[i].extends
         /\ (\A k \in DOMAIN c : Library!CoreIsValid(files[c[k]])) => Library!CoreIsValid(d)
<1>1. /\ d.name = files[i].name /\ d.extends = files[i].extends /\ d.core = files[i].core
      /\ \A s \in Library!Sections : Library!IsNearest(files, c, s, d[s])
  <2>1. d = Library!Returned(files, c) BY ResolveIs
  <2> QED BY <2>1, ReturnedIs
<1>2. ASSUME \A k \in DOMAIN c : Library!CoreIsValid(files[c[k]]) PROVE Library!CoreIsValid(d)
  <2>1. 1 \in DOMAIN c
    <3>1. Len(c) \in Nat /\ Len(c) # 0 /\ c \in Seq(DOMAIN files) BY ChainsAre
    <3> QED BY <3>1
  <2>2. Library!CoreIsValid(files[i]) BY <1>2, <2>1
  <2>3. d.core BY <1>1, <2>2 DEF Library!CoreIsValid
  <2>4. ASSUME Library!Has(d, "scope"), d.scope.items PROVE Library!Has(d, "plan")
    <3>1. "scope" \in Library!Sections /\ "plan" \in Library!Sections
      BY DEF Library!Sections, Library!Facets
    <3>2. PICK k \in DOMAIN c : Library!Has(files[c[k]], "scope") /\ d["scope"] = files[c[k]]["scope"]
      BY <1>1, <2>4, <3>1 DEF Library!IsNearest, Library!Has
    <3>3. files[c[k]].scope.items BY <2>4, <3>2
    <3>4. Library!Has(files[c[k]], "plan") BY <1>2, <3>2, <3>3 DEF Library!CoreIsValid
    <3>5. Library!IsNearest(files, c, "plan", d["plan"]) BY <1>1, <3>1
    <3> QED BY <3>4, <3>5 DEF Library!IsNearest, Library!Has
  <2> QED BY <2>3, <2>4 DEF Library!CoreIsValid
<1> QED BY <1>1, <1>2

LEMMA NearestAre ==
  ASSUME NEW files, Library!IsLibrary(files)
  PROVE  Library!NearestWins(files)
BY ServedIs DEF Library!NearestWins

(* What is registered is what each name's file gives, when there is no     *)
(* problem.                                                                *)
LEMMA NoProblem ==
  ASSUME NEW files, Library!IsLibrary(files), Library!Problems(files) = {}
  PROVE  /\ \A i \in DOMAIN files : /\ Library!CoreIsValid(files[i])
                                    /\ files[i].name # Library!NoName
                                    /\ i \in Library!Served(files)
         /\ \A i \in Library!Served(files) :
              LET d == Library!Resolve(files, i)
              IN  /\ d # Library!LeftOut /\ Library!RefsAreValid(d)
                  /\ Library!Has(d, "detail") =>
                       \A n \in d.detail.drilldown : Library!FileOf(files, n) # 0
<1>1. ASSUME NEW i \in DOMAIN files
      PROVE  Library!CoreIsValid(files[i]) /\ files[i].name # Library!NoName
  <2>1. <<i, "core">> \notin Library!Problems(files) OBVIOUS
  <2> QED BY <2>1 DEF Library!Problems
<1>2. ASSUME NEW i \in DOMAIN files PROVE i \in Library!Served(files)
  <2>1. <<i, "duplicate">> \notin Library!Problems(files) OBVIOUS
  <2> QED BY <1>1, <2>1 DEF Library!Problems
<1>3. ASSUME NEW i \in Library!Served(files)
      PROVE  Library!Resolve(files, i) # Library!LeftOut
  <2>1. <<i, "extends">> \notin Library!Problems(files) OBVIOUS
  <2> QED BY <2>1 DEF Library!Problems
<1>4. ASSUME NEW i \in Library!Served(files)
      PROVE  Library!RefsAreValid(Library!Resolve(files, i))
  <2>1. <<i, "refs">> \notin Library!Problems(files) OBVIOUS
  <2> QED BY <1>3, <2>1 DEF Library!Problems
<1>5. ASSUME NEW i \in Library!Served(files), Library!Has(Library!Resolve(files, i), "detail"),
             NEW n \in Library!Resolve(files, i).detail.drilldown
      PROVE  Library!FileOf(files, n) # 0
  <2>1. <<i, "drilldown">> \notin Library!Problems(files) OBVIOUS
  <2> QED BY <1>3, <1>5, <2>1 DEF Library!Problems
<1> QED BY <1>1, <1>2, <1>3, <1>4, <1>5
(* What is not declared is inherited as it is served of what is extended.  *)
LEMMA Inherits ==
  ASSUME NEW files, Library!IsLibrary(files), NEW i \in Library!Served(files),
         NEW c \in Library!Chains(files), c[1] = i,
         NEW d, d = Library!Resolve(files, i)
  PROVE  /\ \A s \in Library!Sections : Library!Has(files[i], s) => d[s] = files[i][s]
         /\ files[i].extends # Library!NoName =>
              \A s \in Library!Sections : ~Library!Has(files[i], s) =>
                d[s] = Library!Resolve(files, Library!FileOf(files, files[i].extends))[s]
<1>1. /\ Len(c) \in Nat /\ Len(c) # 0 /\ c \in Seq(DOMAIN files) /\ DOMAIN c = 1 .. Len(c)
      /\ Len(c) <= Len(files) /\ Len(files) \in Nat
      /\ \A k, l \in 1 .. Len(c) : c[k] = c[l] => k = l
      /\ \A k \in 1 .. Len(c) - 1 : /\ files[c[k]].extends # Library!NoName
                                    /\ Library!FileOf(files, files[c[k]].extends) = c[k + 1]
      /\ files[c[Len(c)]].extends = Library!NoName
  <2>1. c \in Seq(DOMAIN files) BY ChainsAre
  <2>2. DOMAIN c = 1 .. Len(c) BY <2>1
  <2>3. Len(files) \in Nat BY FilesOfNames
  <2>4. /\ Len(c) \in Nat /\ Len(c) # 0 /\ Len(c) <= Len(files)
        /\ \A k, l \in 1 .. Len(c) : c[k] = c[l] => k = l
        /\ \A k \in 1 .. Len(c) - 1 : /\ files[c[k]].extends # Library!NoName
                                      /\ Library!FileOf(files, files[c[k]].extends) = c[k + 1]
        /\ files[c[Len(c)]].extends = Library!NoName
    BY ChainsAre
  <2> QED BY <2>1, <2>2, <2>3, <2>4
<1>2. \A s \in Library!Sections : Library!IsNearest(files, c, s, d[s]) BY ServedIs
<1>3. ASSUME NEW s \in Library!Sections, Library!Has(files[i], s) PROVE d[s] = files[i][s]
  <2>1. 1 \in DOMAIN c /\ c[1] = i /\ \A k \in DOMAIN c : k # 1 => 1 \in 1 .. k - 1 BY <1>1
  <2> QED BY <1>2, <1>3, <2>1 DEF Library!IsNearest
<1>4. ASSUME files[i].extends # Library!NoName, NEW s \in Library!Sections,
             ~Library!Has(files[i], s)
      PROVE  d[s] = Library!Resolve(files, Library!FileOf(files, files[i].extends))[s]
  <2> DEFINE j == Library!FileOf(files, files[i].extends)
             t == [k \in 1 .. Len(c) - 1 |-> c[k + 1]]
             p == Library!Resolve(files, j)
  <2>1. Len(c) # 1 BY <1>1, <1>4
  <2>2. Len(c) - 1 \in 1 .. Len(files) /\ 1 \in 1 .. Len(c) - 1 /\ 1 + 1 = 2 /\ Len(c) - 1 \in Nat
    BY <1>1, <2>1
  <2>3. c[2] = j /\ j \in DOMAIN files
    <3>1. 2 \in 1 .. Len(c) BY <1>1, <2>1
    <3>2. Library!FileOf(files, files[c[1]].extends) = c[1 + 1] BY <1>1, <2>2
    <3>3. c[2] \in DOMAIN files BY <1>1, <3>1
    <3> QED BY <3>2, <3>3
  <2>4. t \in Library!Chains(files)
    <3>1. \A k \in 1 .. Len(c) - 1 : /\ k + 1 \in 1 .. Len(c) /\ k \in 1 .. Len(c)
                                     /\ c[k + 1] \in DOMAIN files
      BY <1>1
    <3>2. t \in [1 .. Len(c) - 1 -> DOMAIN files] /\ DOMAIN t = 1 .. Len(c) - 1 BY <3>1
    <3>3. t \in Seq(DOMAIN files) /\ Len(t) = Len(c) - 1
      <4> DEFINE n == Len(c) - 1
      <4>1. n \in Nat /\ t \in [1 .. n -> DOMAIN files] BY <2>2, <3>2
      <4> HIDE DEF t, n
      <4>2. t \in Seq(DOMAIN files) BY <4>1
      <4>3. Len(t) = n BY <4>1
      <4> QED BY <4>2, <4>3 DEF n
    <3>4. \A k, l \in 1 .. Len(c) - 1 : t[k] = t[l] => k = l
      <4> TAKE k, l \in 1 .. Len(c) - 1
      <4>1. c[k + 1] = c[l + 1] => k + 1 = l + 1 BY <1>1, <3>1
      <4> QED BY <1>1, <4>1
    <3>5. \A k \in 1 .. Len(t) - 1 : /\ files[t[k]].extends # Library!NoName
                                     /\ Library!FileOf(files, files[t[k]].extends) = t[k + 1]
      <4> TAKE k \in 1 .. Len(t) - 1
      <4> DEFINE l == k + 1
      <4>1. l \in 1 .. Len(c) - 1 /\ k \in 1 .. Len(c) - 1 /\ k + 1 \in 1 .. Len(c) - 1 BY <1>1, <3>3
      <4>2. t[k] = c[l] /\ t[k + 1] = c[l + 1] BY <4>1
      <4>3. files[c[l]].extends # Library!NoName /\ Library!FileOf(files, files[c[l]].extends) = c[l + 1]
        <5> HIDE DEF l
        <5> QED BY <1>1, <4>1
      <4> HIDE DEF t, l
      <4> QED BY <4>2, <4>3
    <3>6. files[Library!Last(t)].extends = Library!NoName
      <4>1. Len(c) - 1 \in 1 .. Len(c) - 1 /\ (Len(c) - 1) + 1 = Len(c) BY <1>1, <2>2
      <4>2. t[Len(c) - 1] = c[Len(c)] BY <4>1
      <4>3. Library!Last(t) = c[Len(c)] BY <3>3, <4>2 DEF Library!Last
      <4> QED BY <1>1, <4>3
    <3>7. t \in UNION {[1 .. n -> DOMAIN files] : n \in 1 .. Len(files)} BY <2>2, <3>2
    <3> HIDE DEF t
    <3> QED BY <3>2, <3>3, <3>4, <3>5, <3>6, <3>7 DEF Library!Chains
  <2>5. t[1] = j /\ DOMAIN t = 1 .. Len(c) - 1 BY <2>2, <2>3
  <2>6. j \in Library!Served(files)
    <3>1. DOMAIN files = 1 .. Len(files) BY FilesOfNames
    <3>2. j # 0 BY <1>1, <2>3, <3>1
    <3>3. files[j].name = files[i].extends
      <4> DEFINE name == files[i].extends
      <4> HIDE DEF name
      <4>1. j = Library!FileOf(files, name) BY DEF name
      <4>2. files[j].name = name
        <5> HIDE DEF j
        <5> QED BY <3>2, <4>1, FilesOfNames
      <4> QED BY <4>2 DEF name
    <3>4. Library!FileOf(files, files[j].name) = j BY <3>3
    <3> QED BY <2>3, <3>4 DEF Library!Served
  <2> HIDE DEF j
  <2>7. Library!IsNearest(files, t, s, p[s])
    <3> HIDE DEF t
    <3> QED BY <2>4, <2>5, <2>6, ServedIs
  <2>8. Library!IsNearest(files, c, s, d[s]) BY <1>2
  <2>9. /\ \A k \in 1 .. Len(c) - 1 : t[k] = c[k + 1] /\ k + 1 \in DOMAIN c
        /\ \A k \in DOMAIN c : k = 1 \/ (k - 1 \in 1 .. Len(c) - 1 /\ t[k - 1] = c[k])
    <3>1. \A k \in 1 .. Len(c) - 1 : t[k] = c[k + 1] /\ k + 1 \in DOMAIN c BY <1>1
    <3>2. ASSUME NEW k \in DOMAIN c, k # 1
          PROVE  k - 1 \in 1 .. Len(c) - 1 /\ t[k - 1] = c[k]
      <4>1. k - 1 \in 1 .. Len(c) - 1 /\ (k - 1) + 1 = k BY <1>1, <3>2
      <4> QED BY <4>1
    <3> QED BY <3>1, <3>2
  <2> HIDE DEF t
  <2>10. CASE d[s] = Library!LeftOut /\ \A k \in DOMAIN c : ~Library!Has(files[c[k]], s)
    <3>1. \A k \in DOMAIN t : ~Library!Has(files[t[k]], s) BY <2>5, <2>9, <2>10
    <3> QED BY <2>7, <2>10, <3>1 DEF Library!IsNearest, j
  <2>11. ASSUME NEW k \in DOMAIN c, Library!Has(files[c[k]], s), d[s] = files[c[k]][s],
                \A l \in 1 .. k - 1 : ~Library!Has(files[c[l]], s)
         PROVE  d[s] = p[s]
    <3>1. k # 1 BY <1>4, <2>11
    <3> DEFINE m == k - 1
    <3>2. m \in DOMAIN t /\ t[m] = c[k] /\ m + 1 = k /\ m \in Nat BY <1>1, <2>5, <2>9, <3>1
    <3>3. PICK n \in DOMAIN t : /\ Library!Has(files[t[n]], s) /\ p[s] = files[t[n]][s]
                                /\ \A l \in 1 .. n - 1 : ~Library!Has(files[t[l]], s)
      BY <2>7, <2>11, <3>2 DEF Library!IsNearest
    <3>4. ~ m < n
      <4> SUFFICES ASSUME m < n PROVE FALSE OBVIOUS
      <4>1. m \in 1 .. n - 1 BY <1>1, <2>5, <3>2, <3>3
      <4> HIDE DEF m
      <4> QED BY <2>11, <3>2, <3>3, <4>1
    <3>5. ~ n < m
      <4> SUFFICES ASSUME n < m PROVE FALSE OBVIOUS
      <4>1. n + 1 \in 1 .. k - 1 BY <1>1, <2>5, <3>2, <3>3, SMTT(30)
      <4>2. t[n] = c[n + 1] BY <2>5, <2>9, <3>3
      <4>3. ~Library!Has(files[c[n + 1]], s) BY <2>11, <4>1
      <4> QED BY <3>3, <4>2, <4>3
    <3>6. n = m BY <1>1, <2>5, <3>2, <3>3, <3>4, <3>5
    <3> HIDE DEF m
    <3> QED BY <2>11, <3>2, <3>3, <3>6
  <2> QED BY <2>8, <2>10, <2>11 DEF Library!IsNearest, j
<1> QED BY <1>3, <1>4
(* registry.go, instance.go: who could post by a file can post by what is  *)
(* served of it.                                                           *)
LEMMA InstancesAre ==
  ASSUME NEW files, Library!IsLibrary(files)
  PROVE  Library!InstancesStay(files)
<1> SUFFICES ASSUME NEW d \in Library!Registry(files), NEW items \in BOOLEAN, NEW names
             PROVE  LET i == Library!FileOf(files, d.name)
                        Instance(name) == [definition |-> name, names |-> names, items |-> items]
                        parent == Library!Resolve(files, Library!FileOf(files, d.extends))
                    IN  /\ Library!InstanceIsValid(files[i], Instance(d.name))
                             => Library!InstanceIsValid(d, Instance(d.name))
                        /\ d.extends # Library!NoName /\ ~Library!Has(files[i], "data")
                             /\ Library!InstanceIsValid(parent, Instance(d.extends))
                             => Library!InstanceIsValid(d, Instance(d.name))
  BY DEF Library!InstancesStay
<1>1. PICK i \in Library!Served(files) :
        d = Library!Resolve(files, i) /\ d # Library!LeftOut
  <2>1. Library!Problems(files) = {} BY DEF Library!Registry
  <2>2. PICK i \in Library!Served(files) : d = Library!Resolve(files, i)
    BY <2>1 DEF Library!Registry
  <2> QED BY <2>1, <2>2, NoProblem
<1>2. PICK c \in Library!Chains(files) : c[1] = i BY <1>1, ResolveIs
<1>3. d.name = files[i].name /\ d.extends = files[i].extends BY <1>1, <1>2, ServedIs
<1>4. Library!FileOf(files, d.name) = i BY <1>3, ServedFiles
<1>5. "data" \in Library!Sections /\ "plan" \in Library!Sections
  BY DEF Library!Sections, Library!Facets
<1> DEFINE parent == Library!Resolve(files, Library!FileOf(files, d.extends))
           Instance(name) == [definition |-> name, names |-> names, items |-> items]
<1>6. /\ \A s \in Library!Sections : Library!Has(files[i], s) => d[s] = files[i][s]
      /\ d.extends # Library!NoName =>
           \A s \in Library!Sections : ~Library!Has(files[i], s) => d[s] = parent[s]
  BY <1>1, <1>2, <1>3, Inherits
<1> HIDE DEF parent
<1>7. ASSUME Library!InstanceIsValid(files[i], Instance(d.name))
      PROVE  Library!InstanceIsValid(d, Instance(d.name))
  <2>1. names \subseteq Library!Names(files[i]) /\ (items => Library!Has(files[i], "plan"))
    BY <1>7 DEF Library!InstanceIsValid
  <2>2. Library!Names(files[i]) \subseteq Library!Names(d)
    BY <1>5, <1>6 DEF Library!Names, Library!Has
  <2>3. Library!Has(files[i], "plan") => Library!Has(d, "plan") BY <1>5, <1>6 DEF Library!Has
  <2> QED BY <2>1, <2>2, <2>3 DEF Library!InstanceIsValid
<1>8. ASSUME d.extends # Library!NoName, ~Library!Has(files[i], "data"),
             Library!InstanceIsValid(parent, Instance(d.extends))
      PROVE  Library!InstanceIsValid(d, Instance(d.name))
  <2>1. names \subseteq Library!Names(parent) /\ (items => Library!Has(parent, "plan"))
    BY <1>8 DEF Library!InstanceIsValid
  <2>2. d["data"] = parent["data"] BY <1>5, <1>6, <1>8
  <2>3. Library!Names(parent) = Library!Names(d) BY <2>2 DEF Library!Names, Library!Has
  <2>4. Library!Has(parent, "plan") => Library!Has(d, "plan")
    BY <1>5, <1>6, <1>8 DEF Library!Has
  <2> QED BY <2>1, <2>3, <2>4 DEF Library!InstanceIsValid
<1> QED BY <1>4, <1>7, <1>8 DEF parent

(* registry.go: all of the library is served, or nothing.                  *)
LEMMA WholeIs ==
  ASSUME NEW files, Library!IsLibrary(files)
  PROVE  Library!ServedWhole(files)
<1> DEFINE defs == Library!Registry(files)
<1>1. CASE Library!Problems(files) # {}
  <2>1. defs = {} BY <1>1 DEF Library!Registry
  <2> HIDE DEF defs
  <2> QED BY <2>1 DEF Library!ServedWhole, defs
<1>2. CASE Library!Problems(files) = {}
  <2>1. defs = {Library!Resolve(files, i) : i \in Library!Served(files)}
    BY <1>2 DEF Library!Registry
  <2>2. ASSUME NEW i \in Library!Served(files)
        PROVE  LET d == Library!Resolve(files, i)
               IN  /\ d.name = files[i].name /\ Library!CoreIsValid(d) /\ Library!RefsAreValid(d)
                   /\ Library!Has(d, "detail") =>
                        \A n \in d.detail.drilldown : Library!FileOf(files, n) # 0
    <3>1. PICK c \in Library!Chains(files) : c[1] = i BY <1>2, NoProblem, ResolveIs
    <3>2. \A k \in DOMAIN c : Library!CoreIsValid(files[c[k]])
      <4>1. c \in Seq(DOMAIN files) BY ChainsAre
      <4>2. \A k \in DOMAIN c : c[k] \in DOMAIN files BY <4>1
      <4> QED BY <1>2, <4>2, NoProblem
    <3>3. /\ Library!Resolve(files, i).name = files[i].name
          /\ Library!CoreIsValid(Library!Resolve(files, i))
      BY <3>1, <3>2, ServedIs
    <3> QED BY <1>2, <3>3, NoProblem
  <2> HIDE DEF defs
  <2>3. {d.name : d \in defs} = {files[i].name : i \in DOMAIN files}
    <3>1. ASSUME NEW i \in DOMAIN files PROVE files[i].name \in {d.name : d \in defs}
      <4>1. i \in Library!Served(files) BY <1>2, NoProblem
      <4>2. Library!Resolve(files, i) \in defs BY <2>1, <4>1
      <4>3. Library!Resolve(files, i).name = files[i].name BY <2>2, <4>1
      <4> QED BY <4>2, <4>3
    <3>2. ASSUME NEW d \in defs PROVE d.name \in {files[i].name : i \in DOMAIN files}
      <4>1. PICK i \in Library!Served(files) : d = Library!Resolve(files, i) BY <2>1
      <4>2. d.name = files[i].name /\ i \in DOMAIN files BY <2>2, <4>1, ServedFiles
      <4> QED BY <4>2
    <3> QED BY <3>1, <3>2
  <2>4. ASSUME NEW d \in defs, NEW e \in defs, d.name = e.name PROVE d = e
    <3>1. PICK i \in Library!Served(files) : d = Library!Resolve(files, i) BY <2>1
    <3>2. PICK j \in Library!Served(files) : e = Library!Resolve(files, j) BY <2>1
    <3>3. files[i].name = files[j].name BY <2>2, <2>4, <3>1, <3>2
    <3>4. i = j BY <3>3, ServedFiles
    <3> QED BY <3>1, <3>2, <3>4
  <2>5. ASSUME NEW d \in defs
        PROVE  /\ Library!CoreIsValid(d) /\ Library!RefsAreValid(d)
               /\ Library!Has(d, "detail") => d.detail.drilldown \subseteq {e.name : e \in defs}
    <3>1. PICK i \in Library!Served(files) : d = Library!Resolve(files, i) BY <2>1
    <3>2. /\ Library!CoreIsValid(d) /\ Library!RefsAreValid(d)
          /\ Library!Has(d, "detail") => \A n \in d.detail.drilldown : Library!FileOf(files, n) # 0
      BY <2>2, <3>1
    <3>3. ASSUME NEW n, Library!FileOf(files, n) # 0 PROVE n \in {e.name : e \in defs}
      <4>1. Library!FileOf(files, n) \in DOMAIN files /\ files[Library!FileOf(files, n)].name = n
        BY <3>3, FilesOfNames
      <4> QED BY <2>3, <4>1
    <3> QED BY <3>2, <3>3
  <2> QED BY <2>3, <2>4, <2>5 DEF Library!ServedWhole, defs
<1> QED BY <1>1, <1>2

(* What a run of the functions has been asked. *)
Questions ==
  {Unasked} \cup {[of |-> "chart", chart |-> g] : g \in AskedChart}
            \cup {[of |-> "file", file |-> f] : f \in AskedFile}
            \cup {[of |-> "library", files |-> l] : l \in AskedLibrary}

LEMMA WalksAnswer ==
  ASSUME ChartConstants, asked \in Questions
  PROVE  WalksAgree
<1>1. /\ Worker \subseteq Nat /\ IsFiniteSet(Worker) /\ Absent \notin Worker \cup {NoOne}
      /\ AskedChart \subseteq Chart /\ AskedFile \subseteq Seq(Entry)
  BY DEF ChartConstants
<1>2. CASE asked = Unasked BY <1>2 DEF Unasked, WalksAgree
<1>3. ASSUME NEW g \in AskedChart, asked = [of |-> "chart", chart |-> g] PROVE WalksAgree
  <2>1. asked.of = "chart" /\ asked.chart = g /\ g \in Chart BY <1>1, <1>3
  <2>2. ClimbAgrees(g) /\ DescentAgrees(g) /\ AncestorsAgree(g)
    BY <1>1, <2>1, ClimbSaysSo, DescentSaysSo, AncestorsSaySo
  <2>3. ReloadAgrees(g) BY <1>1, <2>1, ReloadSaysSo
  <2>4. GoesToWorkers(g) BY <2>1, MessagesGoToWorkers
  <2>5. EscalationsEnd(g) BY <1>1, <2>1, EscalationsGoUp
  <2> QED BY <2>1, <2>2, <2>3, <2>4, <2>5 DEF WalksAgree
<1>4. ASSUME NEW f \in AskedFile, asked = [of |-> "file", file |-> f] PROVE WalksAgree
  <2>1. asked.of = "file" /\ asked.file = f /\ f \in Seq(Entry) BY <1>1, <1>4
  <2>2. CyclesAreNamed(f) BY <1>1, <2>1, CyclesSaySo
  <2>3. AcceptedLoads(f) BY <1>1, <2>1, LoadSaysSo
  <2> QED BY <2>1, <2>2, <2>3 DEF WalksAgree
<1>5. ASSUME NEW l \in AskedLibrary, asked = [of |-> "library", files |-> l] PROVE WalksAgree
  BY <1>5 DEF WalksAgree
<1> QED BY <1>2, <1>3, <1>4, <1>5 DEF Questions

LEMMA LibraryAnswers ==
  ASSUME LibraryConstants, asked \in Questions
  PROVE  LibraryServes
<1>1. CASE asked.of = "library"
  <2>1. asked.files \in AskedLibrary BY <1>1 DEF Questions, Unasked
  <2>2. Library!IsLibrary(asked.files) BY <2>1 DEF LibraryConstants
  <2> DEFINE files == asked.files
  <2>3. Library!IsLibrary(files) BY <2>2
  <2> HIDE DEF files
  <2>4. /\ Library!CyclesAreRefused(files) /\ Library!NearestWins(files)
        /\ Library!InstancesStay(files) /\ Library!ServedWhole(files)
    BY <2>3, RefusedAre, NearestAre, InstancesAre, WholeIs
  <2> QED BY <2>4 DEF LibraryServes, files
<1> QED BY <1>1 DEF LibraryServes

LEMMA AskedIs == MCSpec => [](asked \in Questions)
<1>1. MCInit => asked \in Questions BY DEF MCInit, Questions
<1>2. asked \in Questions /\ [MCNext]_partVars => (asked \in Questions)'
  <2> SUFFICES ASSUME asked \in Questions, [MCNext]_partVars PROVE asked' \in Questions
    BY DEF Questions
  <2>1. CASE AskStep BY <2>1 DEF AskStep, AskChart, AskFile, AskLibrary, Questions
  <2>2. CASE ~AskStep
    <3>1. UNCHANGED asked
      BY <2>2 DEF MCNext, partVars, Of, GraphStep, ScheduleStep, MailboxStep, FileStep, BucketStep,
                  UpdateStep, PollStep, ReportStep
    <3> QED BY <3>1
  <2> QED BY <2>1, <2>2
<1> QED BY <1>1, <1>2, PTL DEF MCSpec

(* graph.go, server.go, chartfile.go: whatever chart or file they are      *)
(* given, the loops compute what OrgChart says and end exactly when it     *)
(* says so, and what the checks of a file let through is loaded whole.     *)
THEOREM WalksAreTrue == MCSpec => []WalksAgree
<1>1. asked \in Questions => WalksAgree BY PartsAssumption, WalksAnswer
<1> QED BY <1>1, AskedIs, PTL

(* load.go, definition.go, registry.go: of any number of definitions that  *)
(* extend each other in any way, the chains that do not end are refused,   *)
(* the nearest declaration is served, and all of the library is or nothing.*)
THEOREM LibraryIsTrue == MCSpec => []LibraryServes
<1>1. asked \in Questions => LibraryServes BY PartsAssumption, LibraryAnswers
<1> QED BY <1>1, AskedIs, PTL

-----------------------------------------------------------------------------
(* Of a behaviour that is of one of the parts, as the run has them, each   *)
(* of the parts behaves as its own specification says.                     *)
LEMMA RunsAreOfParts ==
  MCSpec => /\ ForestSpec /\ Schedules!Spec /\ Mailboxes!Spec /\ Directory!Spec
            /\ Bucket!Spec /\ Updates!Spec /\ Polls!Spec /\ ReportRows!Spec
<1>1. MCInit => /\ ForestInit /\ Schedules!Init /\ Mailboxes!Init /\ Directory!Init
                /\ Bucket!Init /\ Updates!Init /\ Polls!Init /\ ReportRows!Init
  <2>1. Init => ForestInit
    BY DEF Init, ForestInit, EmptyChart, Chart, Members, Forest, Acyclic, NoDangling
  <2> QED BY <2>1 DEF MCInit
<1>2. [MCNext]_partVars =>
        /\ [ForestNext]_vars /\ [Schedules!NextStep]_(Schedules!vars)
        /\ [Mailboxes!Next]_(Mailboxes!vars) /\ [Directory!Next]_(Directory!vars)
        /\ [Bucket!Next]_(Bucket!vars) /\ [Updates!Next]_(Updates!vars)
        /\ [Polls!Next]_(Polls!vars) /\ [ReportRows!Next]_(ReportRows!vars)
  <2>1. UNCHANGED scheduleVars => UNCHANGED Schedules!vars
    BY DEF scheduleVars, Schedules!vars, Schedules!bounds, Schedules!ghosts
  <2>2. UNCHANGED mailboxVars => UNCHANGED Mailboxes!vars
    BY DEF mailboxVars, Mailboxes!vars, Mailboxes!mailbox, Mailboxes!calls
  <2>3. UNCHANGED fileVars => UNCHANGED Directory!vars BY DEF fileVars, Directory!vars
  <2>4. UNCHANGED bucketVars => UNCHANGED Bucket!vars BY DEF bucketVars, Bucket!vars
  <2>5. UNCHANGED recordVars => UNCHANGED Updates!vars BY DEF recordVars, Updates!vars
  <2>6. UNCHANGED pollVars => UNCHANGED Polls!vars BY DEF pollVars, Polls!vars
  <2>7. UNCHANGED reportVars => UNCHANGED ReportRows!vars BY DEF reportVars, ReportRows!vars
  <2>8. UNCHANGED partVars =>
          UNCHANGED <<vars, scheduleVars, mailboxVars, fileVars, bucketVars, recordVars, pollVars,
                      reportVars>>
    BY DEF partVars
  <2> QED
    BY <2>1, <2>2, <2>3, <2>4, <2>5, <2>6, <2>7, <2>8
       DEF MCNext, AskStep, GraphStep, ScheduleStep, MailboxStep, FileStep, BucketStep, UpdateStep,
           PollStep, ReportStep
<1> QED
  BY <1>1, <1>2, PTL
     DEF MCSpec, ForestSpec, Schedules!Spec, Mailboxes!Spec, Directory!Spec, Bucket!Spec,
         Updates!Spec, Polls!Spec, ReportRows!Spec

(* The specification of the parts keeps what the run checks of them, for   *)
(* every value of the constants.                                           *)
THEOREM PartsHold ==
  MCSpec => /\ [](WalksAgree /\ LibraryServes)
            /\ [](ForestAndLive /\ MailboxKeeps /\ RecordsKeep /\ PictureFollows)
            /\ FiredInTurn /\ StorageKeeps /\ RowsStay
<1>1. Mailboxes!Spec => []MailboxKeeps BY MailboxIsTrue
<1>2. Updates!Spec => []RecordsKeep BY RecordsAreTrue
<1>3. Polls!Spec => []PictureFollows BY PollsAreTrue
<1>4. ForestSpec => []ForestAndLive BY ForestStays
<1>5. Schedules!Spec => FiredInTurn BY SchedulesAreTrue
<1>6. Directory!Spec /\ Bucket!Spec => StorageKeeps BY StorageIsTrue
<1>7. ReportRows!Spec => RowsStay BY RowsAreTrue
<1> QED BY <1>1, <1>2, <1>3, <1>4, <1>5, <1>6, <1>7, WalksAreTrue, LibraryIsTrue, RunsAreOfParts,
         PTL
=============================================================================
