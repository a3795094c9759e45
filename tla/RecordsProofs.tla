--------------------------- MODULE RecordsProofs ---------------------------
(***************************************************************************)
(* Proofs about what the server and the console make of an agent's         *)
(* reports, for any findings, times, amounts, nodes and bounds:            *)
(*   the table of security events is sound and keeps what it must;         *)
(*   a page shows what the agent reported of a task;                       *)
(*   the curves of a node are whole.                                       *)
(***************************************************************************)
EXTENDS ReportRecords, TaskWire, NodeCharts, FoldLemmas

-----------------------------------------------------------------------------
(***************************************************************************)
(* The table of security events and the snapshots that are kept.           *)
(***************************************************************************)

EventRow == [kind : {"found"} \cup Decision, about : Finding \cup Nat, open : BOOLEAN]

\* A decision is about an earlier event that is no decision.
Aimed(table) ==
  \A k \in DOMAIN table : table[k].kind \in Decision =>
      /\ table[k].about \in DOMAIN table /\ table[k].about < k
      /\ table[table[k].about].kind = "found"

SoundTable(table) ==
  /\ table \in Seq(EventRow)
  /\ OneOpenEvent(table) /\ AuditTellsState(table) /\ Aimed(table)

EventsOK == SoundTable(events)

LEMMA DecisionsAreSome ==
  ASSUME NEW table \in Seq(EventRow), NEW i, NEW S \in SUBSET Decisions(table, i)
  PROVE  IsFiniteSet(S) /\ Cardinality(S) \in Nat
<1>1. DOMAIN table = 1..Len(table) /\ Len(table) \in Nat
  OBVIOUS
<1>2. IsFiniteSet(1..Len(table))
  BY <1>1, FS_Interval
<1>3. S \subseteq 1..Len(table)
  BY <1>1 DEF Decisions
<1>4. QED
  BY <1>2, <1>3, FS_Subset, FS_CardinalityType

\* One more decision makes the number of decisions even if it was odd, and odd if even.
LEMMA OneMoreIsNotEven ==
  ASSUME NEW S, IsFiniteSet(S), NEW x, x \notin S
  PROVE  Even(S \cup {x}) <=> ~Even(S)
<1>1. Cardinality(S) \in Nat /\ Cardinality(S \cup {x}) = Cardinality(S) + 1
  BY FS_CardinalityType, FS_AddElement
<1>2. \A c \in Nat : (c + 1) % 2 = 0 <=> c % 2 # 0
  OBVIOUS
<1>3. QED
  BY <1>1, <1>2 DEF Even

\* A finding that is recorded.
LEMMA RecordKeeps ==
  ASSUME NEW table, SoundTable(table), NEW finding \in Finding
  PROVE  SoundTable(Record(table, finding))
<1> DEFINE rec == [kind |-> "found", about |-> finding, open |-> TRUE]
           next == Append(table, rec)
           n == Len(table)
<1>1. CASE findOpenSecurityEvent(table, finding)
  BY <1>1 DEF Record
<1>2. CASE ~findOpenSecurityEvent(table, finding)
  <2>0. table \in Seq(EventRow) /\ OneOpenEvent(table) /\ AuditTellsState(table) /\ Aimed(table)
    BY DEF SoundTable
  <2>1. Record(table, finding) = next
    BY <1>2 DEF Record, createSecurityEvent
  <2>2. rec \in EventRow /\ rec.kind = "found" /\ rec.about = finding /\ rec.open
    BY DEF EventRow
  <2> HIDE DEF rec
  <2>3. /\ next \in Seq(EventRow) /\ n \in Nat
        /\ DOMAIN next = 1..(n + 1) /\ DOMAIN table = 1..n
        /\ next[n + 1] = rec /\ \A i \in 1..n : next[i] = table[i]
    BY <2>0, <2>2
  <2> HIDE DEF next, n
  <2>4. "found" \notin Decision
    BY DEF Decision
  <2>5. \A i : Decisions(next, i) = Decisions(table, i)
    BY <2>2, <2>3, <2>4 DEF Decisions
  <2>6. Decisions(next, n + 1) = {}
    <3> SUFFICES ASSUME NEW k \in Decisions(table, n + 1) PROVE FALSE
      BY <2>5
    <3>1. k \in 1..n /\ table[k].kind \in Decision /\ table[k].about = n + 1
      BY <2>3 DEF Decisions
    <3>2. n + 1 < k
      BY <2>0, <2>3, <3>1 DEF Aimed
    <3>3. QED
      BY <2>3, <3>1, <3>2
  <2>7. OneOpenEvent(next)
    <3> SUFFICES ASSUME NEW i \in 1..(n + 1), NEW j \in 1..(n + 1),
                        next[i].kind = "found", next[i].open,
                        next[j].kind = "found", next[j].open, next[i].about = next[j].about
                 PROVE  i = j
      BY <2>3 DEF OneOpenEvent
    <3>1. \A k \in 1..n : ~(table[k].kind = "found" /\ table[k].open /\ table[k].about = finding)
      BY <1>2, <2>3 DEF findOpenSecurityEvent
    <3>2. CASE i \in 1..n /\ j \in 1..n
      BY <2>0, <2>3, <3>2 DEF OneOpenEvent
    <3>3. CASE i = n + 1 /\ j \in 1..n
      BY <2>2, <2>3, <3>1, <3>3
    <3>4. CASE i \in 1..n /\ j = n + 1
      BY <2>2, <2>3, <3>1, <3>4
    <3>5. QED
      BY <2>3, <3>2, <3>3, <3>4
  <2>8. AuditTellsState(next)
    <3>1. ASSUME NEW i \in 1..n
          PROVE  StoryIsTold(next, i)
      <4>1. \A k \in Decisions(table, i) : next[k] = table[k]
        BY <2>3 DEF Decisions
      <4>2. StoryIsTold(table, i)
        BY <2>0, <2>3 DEF AuditTellsState
      <4>3. QED
        BY <2>3, <2>5, <4>1, <4>2 DEF StoryIsTold
    <3>2. Even({})
      BY FS_EmptySet DEF Even
    <3>3. StoryIsTold(next, n + 1)
      BY <2>2, <2>3, <2>6, <3>2 DEF StoryIsTold
    <3>4. QED
      BY <2>3, <3>1, <3>3 DEF AuditTellsState
  <2>9. Aimed(next)
    <3> SUFFICES ASSUME NEW k \in 1..(n + 1), next[k].kind \in Decision
                 PROVE  /\ next[k].about \in 1..(n + 1) /\ next[k].about < k
                        /\ next[next[k].about].kind = "found"
      BY <2>3 DEF Aimed
    <3>1. k \in 1..n
      BY <2>2, <2>3, <2>4
    <3>2. table[k].about \in 1..n /\ table[k].about < k /\ table[table[k].about].kind = "found"
      BY <2>0, <2>3, <3>1 DEF Aimed
    <3>3. QED
      BY <2>3, <3>1, <3>2
  <2>10. QED
    BY <2>1, <2>3, <2>7, <2>8, <2>9 DEF SoundTable
<1>3. QED
  BY <1>1, <1>2

\* The findings of a report, one after another.
Recordings(it, table, found) ==
  /\ processSecurityCheck(table, found) = it[DOMAIN found]
  /\ it[{}] = table
  /\ \A s \in SUBSET DOMAIN found : s # {} =>
         \E i \in s : it[s] = Record(it[s \ {i}], found[i])

SoundTables == {table \in Seq(EventRow) : SoundTable(table)}

LEMMA RecordingsUnfold ==
  ASSUME NEW table, SoundTable(table), NEW found \in Seq(Finding)
  PROVE  \E it : Recordings(it, table, found)
<1> DEFINE D == DOMAIN found
           Run(it) == it = [s \in SUBSET D |-> IF s = {} THEN table
                              ELSE Record(it[s \ {Max(s)}], found[Max(s)])]
           pick == [s \in SUBSET D |-> Max(s)]
           step == [p \in D \X SoundTables |-> Record(p[2], found[p[1]])]
<1>1. IsFiniteSet(D) /\ D \in SUBSET Int
  <2>1. D = 1..Len(found) /\ Len(found) \in Nat
    OBVIOUS
  <2>2. QED
    BY <2>1, FS_Interval
<1>2. \A s \in SUBSET D : s # {} => Max(s) \in s
  <2> SUFFICES ASSUME NEW s \in SUBSET D, s # {} PROVE Max(s) \in s
    OBVIOUS
  <2>1. IsFiniteSet(s) /\ s \in SUBSET Int
    BY <1>1, FS_Subset
  <2>2. QED
    BY <2>1, MaxIsLargest
<1>3. table \in SoundTables
  BY DEF SoundTables, SoundTable
<1>4. step \in [D \X SoundTables -> SoundTables]
  <2>1. ASSUME NEW i \in D, NEW t \in SoundTables PROVE Record(t, found[i]) \in SoundTables
    <3>1. found[i] \in Finding /\ SoundTable(t)
      BY DEF SoundTables
    <3>2. SoundTable(Record(t, found[i]))
      BY <3>1, RecordKeeps
    <3>3. QED
      BY <3>2 DEF SoundTables, SoundTable
  <2>2. QED
    BY <2>1
<1>5. \E it : Run(it)
  <2>0. \A s \in SUBSET D : s # {} => pick[s] \in s
    BY <1>2
  <2>1. PICK it \in [SUBSET D -> SoundTables] : Folds(it, D, table, pick, step)
    <3> HIDE DEF pick, step, D
    <3>1. QED
      BY <1>1, <1>3, <1>4, <2>0, FoldExists
  <2>2. ASSUME NEW s \in SUBSET D
        PROVE  it[s] = IF s = {} THEN table ELSE Record(it[s \ {Max(s)}], found[Max(s)])
    <3>1. CASE s = {}
      BY <2>1, <3>1 DEF Folds
    <3>2. CASE s # {}
      <4>1. it[s] = step[<<pick[s], it[s \ {pick[s]}]>>]
        <5> HIDE DEF pick, step, D
        <5>1. QED
          BY <2>1, <3>2 DEF Folds
      <4>2. pick[s] = Max(s) /\ Max(s) \in D
        BY <1>2, <3>2
      <4>3. it[s \ {Max(s)}] \in SoundTables
        OBVIOUS
      <4>4. step[<<Max(s), it[s \ {Max(s)}]>>] = Record(it[s \ {Max(s)}], found[Max(s)])
        BY <4>2, <4>3
      <4>5. QED
        BY <3>2, <4>1, <4>2, <4>4
    <3>3. QED
      BY <3>1, <3>2
  <2>3. Run(it)
    BY <2>2
  <2>4. QED
    <3> HIDE DEF Run
    <3>1. QED
      BY <2>3
<1> DEFINE run == CHOOSE it : Run(it)
<1>6. processSecurityCheck(table, found) = run[D]
  BY DEF processSecurityCheck, FoldLeft, MapThenFoldSet
<1>7. Run(run)
  <2> HIDE DEF Run
  <2>1. QED
    BY <1>5
<1> HIDE DEF run
<1>8. run[{}] = table
  BY <1>7
<1>9. ASSUME NEW s \in SUBSET D, s # {}
      PROVE  \E i \in s : run[s] = Record(run[s \ {i}], found[i])
  <2>1. Max(s) \in s /\ run[s] = Record(run[s \ {Max(s)}], found[Max(s)])
    BY <1>2, <1>7, <1>9
  <2>2. QED
    BY <2>1
<1>10. Recordings(run, table, found)
  BY <1>6, <1>8, <1>9 DEF Recordings
<1>11. QED
  BY <1>10

LEMMA SecurityCheckKeeps ==
  ASSUME NEW table, SoundTable(table), NEW found \in Seq(Finding)
  PROVE  SoundTable(processSecurityCheck(table, found))
<1> DEFINE D == DOMAIN found
<1>1. IsFiniteSet(D)
  <2>1. D = 1..Len(found) /\ Len(found) \in Nat
    OBVIOUS
  <2>2. QED
    BY <2>1, FS_Interval
<1>2. PICK it : Recordings(it, table, found)
  BY RecordingsUnfold
<1> DEFINE G == {s \in SUBSET D : SoundTable(it[s])}
<1>3. {} \in G /\ G \in SUBSET SUBSET D
  BY <1>2 DEF Recordings
<1>4. ASSUME NEW s \in SUBSET D, s # {}, \A x \in s : s \ {x} \in G
      PROVE  s \in G
  <2>1. PICK i \in s : it[s] = Record(it[s \ {i}], found[i])
    BY <1>2, <1>4 DEF Recordings
  <2>2. SoundTable(it[s \ {i}])
    BY <1>4
  <2>3. i \in DOMAIN found
    OBVIOUS
  <2>4. found[i] \in Finding
    BY <2>3
  <2>5. QED
    BY <2>1, <2>2, <2>4, RecordKeeps
<1>5. G = SUBSET D
  <2> HIDE DEF G, D
  <2>1. QED
    BY <1>1, <1>3, <1>4, SetOfAllSubsets
<1>6. D \in G
  BY <1>5
<1>7. QED
  BY <1>2, <1>6 DEF Recordings

-----------------------------------------------------------------------------
(* The operator's decisions. *)

\* A decision about an event that is open marks it safe, one about an event that is
\* not opens it, unless another event of the finding is open.
LEMMA DecisionKeeps ==
  ASSUME NEW table, SoundTable(table), NEW i \in DOMAIN table, table[i].kind = "found",
         NEW open \in BOOLEAN, open <=> ~table[i].open,
         open => ~findOpenSecurityEvent(table, table[i].about),
         NEW kind, kind = IF open THEN "unresolve" ELSE "marked_safe"
  PROVE  SoundTable(WithAudit([table EXCEPT ![i].open = open], kind, i))
<1> DEFINE rec == [kind |-> kind, about |-> i, open |-> FALSE]
           changed == [table[i] EXCEPT !.open = open]
           mid == [table EXCEPT ![i] = changed]
           next == Append(mid, rec)
           n == Len(table)
<1>0. table \in Seq(EventRow) /\ OneOpenEvent(table) /\ AuditTellsState(table) /\ Aimed(table)
  BY DEF SoundTable
<1>1. WithAudit([table EXCEPT ![i].open = open], kind, i) = next
  BY DEF WithAudit
<1>2. i \in 1..n /\ n \in Nat /\ DOMAIN table = 1..n /\ table[i] \in EventRow
  BY <1>0
<1>3. kind \in Decision /\ "found" \notin Decision
  BY DEF Decision
<1>4. /\ rec \in EventRow /\ rec.kind = kind /\ rec.about = i /\ rec.open = FALSE
      /\ changed \in EventRow /\ changed.kind = "found" /\ changed.about = table[i].about
      /\ changed.open = open
  BY <1>2, <1>3 DEF EventRow
<1> HIDE DEF rec, changed
<1>5. /\ mid \in Seq(EventRow) /\ Len(mid) = n /\ DOMAIN mid = 1..n
      /\ mid[i] = changed /\ \A j \in 1..n : j # i => mid[j] = table[j]
  BY <1>0, <1>2, <1>4
<1> HIDE DEF mid
<1>6. /\ next \in Seq(EventRow) /\ DOMAIN next = 1..(n + 1)
      /\ next[n + 1] = rec /\ \A j \in 1..n : next[j] = mid[j]
  BY <1>2, <1>4, <1>5
<1> HIDE DEF next, n
<1>7. /\ next[i] = changed /\ next[n + 1] = rec
      /\ \A j \in 1..n : j # i => next[j] = table[j]
      /\ \A j \in 1..n : next[j].kind = table[j].kind /\ next[j].about = table[j].about
  BY <1>2, <1>4, <1>5, <1>6
<1>8. \A j : j # i => Decisions(next, j) = Decisions(table, j)
  BY <1>2, <1>4, <1>6, <1>7 DEF Decisions
<1>9. Decisions(next, i) = Decisions(table, i) \cup {n + 1}
  BY <1>2, <1>3, <1>4, <1>6, <1>7 DEF Decisions
<1>10. \A j : Decisions(table, j) \subseteq 1..n
  BY <1>2 DEF Decisions
<1>11. OneOpenEvent(next)
  <2> SUFFICES ASSUME NEW j \in 1..(n + 1), NEW k \in 1..(n + 1),
                      next[j].kind = "found", next[j].open,
                      next[k].kind = "found", next[k].open, next[j].about = next[k].about
               PROVE  j = k
    BY <1>6 DEF OneOpenEvent
  <2>1. j \in 1..n /\ k \in 1..n
    BY <1>2, <1>4, <1>7
  <2>2. CASE j # i /\ k # i
    BY <1>0, <1>2, <1>7, <2>1, <2>2 DEF OneOpenEvent
  <2>3. CASE j = i /\ k # i
    <3>1. open /\ table[k].kind = "found" /\ table[k].open /\ table[k].about = table[i].about
      BY <1>4, <1>7, <2>1, <2>3
    <3>2. QED
      BY <1>2, <2>1, <3>1 DEF findOpenSecurityEvent
  <2>4. CASE k = i /\ j # i
    <3>1. open /\ table[j].kind = "found" /\ table[j].open /\ table[j].about = table[i].about
      BY <1>4, <1>7, <2>1, <2>4
    <3>2. QED
      BY <1>2, <2>1, <3>1 DEF findOpenSecurityEvent
  <2>5. QED
    BY <2>2, <2>3, <2>4
<1>12. AuditTellsState(next)
  <2>1. ASSUME NEW j \in 1..n, j # i
        PROVE  StoryIsTold(next, j)
    <3>1. \A k \in Decisions(table, j) : next[k].kind = table[k].kind
      BY <1>7, <1>10
    <3>2. StoryIsTold(table, j)
      BY <1>0, <1>2 DEF AuditTellsState
    <3>3. QED
      BY <1>7, <1>8, <2>1, <3>1, <3>2 DEF StoryIsTold
  <2> DEFINE before == Decisions(table, i)
             after == Decisions(next, i)
  <2>2. /\ table[i].open <=> Even(before)
        /\ \A k \in before : table[k].kind = IF Even({m \in before : m < k})
                                              THEN "marked_safe" ELSE "unresolve"
    BY <1>0, <1>2 DEF AuditTellsState, StoryIsTold
  <2>3. after = before \cup {n + 1} /\ before \subseteq 1..n /\ n + 1 \notin before
    BY <1>2, <1>9, <1>10
  <2>4. IsFiniteSet(before)
    BY <1>0, DecisionsAreSome
  <2> HIDE DEF before, after
  <2>5. next[i].open <=> Even(after)
    <3>1. Even(after) <=> ~Even(before)
      BY <2>3, <2>4, OneMoreIsNotEven
    <3>2. QED
      BY <1>4, <1>7, <2>2, <3>1
  <2>6. ASSUME NEW k \in after
        PROVE  next[k].kind = IF Even({m \in after : m < k}) THEN "marked_safe" ELSE "unresolve"
    <3>1. CASE k = n + 1
      <4>1. {m \in after : m < k} = before
        <5>1. \A m \in before : m < n + 1
          BY <1>2, <2>3
        <5>2. ~(n + 1 < n + 1)
          BY <1>2
        <5>3. QED
          BY <2>3, <3>1, <5>1, <5>2
      <4>2. QED
        BY <1>4, <1>7, <2>2, <3>1, <4>1
    <3>2. CASE k \in before
      <4>1. {m \in after : m < k} = {m \in before : m < k}
        BY <1>2, <2>3, <3>2
      <4>2. next[k].kind = table[k].kind
        BY <1>7, <2>3, <3>2
      <4>3. QED
        BY <2>2, <3>2, <4>1, <4>2
    <3>3. QED
      BY <2>3, <3>1, <3>2
  <2>7. next[i].kind = "found"
    BY <1>4, <1>7
  <2>8. next[n + 1].kind # "found" /\ ~next[n + 1].open /\ Decisions(next, n + 1) = {}
    <3>1. Decisions(table, n + 1) = {}
      <4> SUFFICES ASSUME NEW k \in Decisions(table, n + 1) PROVE FALSE
        OBVIOUS
      <4>1. k \in 1..n /\ table[k].kind \in Decision /\ table[k].about = n + 1
        BY <1>2 DEF Decisions
      <4>2. n + 1 < k
        BY <1>0, <1>2, <4>1 DEF Aimed
      <4>3. QED
        BY <1>2, <4>1, <4>2
    <3>2. n + 1 # i
      BY <1>2
    <3>3. QED
      BY <1>3, <1>4, <1>7, <1>8, <3>1, <3>2
  <2>9. StoryIsTold(next, i)
    BY <2>5, <2>6, <2>7 DEF StoryIsTold, after
  <2>10. StoryIsTold(next, n + 1)
    BY <2>8 DEF StoryIsTold
  <2>11. \A j \in 1..(n + 1) : j = i \/ j = n + 1 \/ (j \in 1..n /\ j # i)
    BY <1>2
  <2>12. QED
    BY <1>6, <2>1, <2>9, <2>10, <2>11 DEF AuditTellsState
<1>13. Aimed(next)
  <2> SUFFICES ASSUME NEW k \in 1..(n + 1), next[k].kind \in Decision
               PROVE  /\ next[k].about \in 1..(n + 1) /\ next[k].about < k
                      /\ next[next[k].about].kind = "found"
    BY <1>6 DEF Aimed
  <2>1. CASE k = n + 1
    BY <1>2, <1>4, <1>7, <2>1
  <2>2. CASE k \in 1..n
    <3>1. table[k].kind \in Decision
      BY <1>7, <2>2
    <3>2. table[k].about \in 1..n /\ table[k].about < k /\ table[table[k].about].kind = "found"
      BY <1>0, <1>2, <2>2, <3>1 DEF Aimed
    <3>3. QED
      BY <1>2, <1>7, <2>2, <3>2
  <2>3. QED
    BY <1>2, <2>1, <2>2
<1>14. QED
  BY <1>1, <1>6, <1>11, <1>12, <1>13 DEF SoundTable

LEMMA OperatorKeeps ==
  ASSUME SoundTable(events), Decide
  PROVE  SoundTable(events')
<1>1. PICK i \in DOMAIN events : MarkSafe(i) \/ Unresolve(i)
  BY DEF Decide
<1>2. events \in Seq(EventRow) /\ AuditTellsState(events)
  BY DEF SoundTable
<1>3. events[i].open \in BOOLEAN
  <2>1. events[i] \in EventRow
    BY <1>2
  <2>2. QED
    BY <2>1 DEF EventRow
<1>4. CASE MarkSafe(i)
  <2>1. events[i].open /\ events' = WithAudit([events EXCEPT ![i].open = FALSE], "marked_safe", i)
    BY <1>4 DEF MarkSafe
  <2>2. events[i].kind = "found"
    BY <1>2, <2>1 DEF AuditTellsState, StoryIsTold
  <2>3. QED
    BY <2>1, <2>2, DecisionKeeps
<1>5. CASE Unresolve(i)
  <2>1. /\ ~events[i].open /\ events[i].kind = "found"
        /\ ~findOpenSecurityEvent(events, events[i].about)
        /\ events' = WithAudit([events EXCEPT ![i].open = TRUE], "unresolve", i)
    BY <1>5 DEF Unresolve
  <2>2. QED
    BY <2>1, DecisionKeeps
<1>6. QED
  BY <1>1, <1>4, <1>5

\* EventsAreSound: two open events never stand for one finding, and the audit events of
\* an event tell whether it is open, whatever is reported, decided and cut off by the
\* end of the server (db/security-events.ts, security/pipeline.ts).
THEOREM EventsAlwaysSound == RecordsSpec => []EventsAreSound
<1>1. RecordsInit => EventsOK
  BY DEF EventsOK, RecordsInit, SecurityInit, SoundTable, OneOpenEvent, AuditTellsState, Aimed
<1>2. EventsOK /\ [RecordsNext]_recordsVars => EventsOK'
  <2> SUFFICES ASSUME SoundTable(events), [RecordsNext]_recordsVars PROVE SoundTable(events')
    BY DEF EventsOK
  <2>1. ASSUME NEW found \in Found PROVE found \in Seq(Finding)
    <3>1. PICK n \in 0..MaxRepeats : found \in [1..n -> Finding]
      BY DEF Found
    <3>2. n \in Nat
      BY ReportRecordsAssumption
    <3>3. QED
      BY <3>1, <3>2
  <2>2. ASSUME NEW found \in Found, WriteEvents(found) PROVE SoundTable(events')
    BY <2>1, <2>2, SecurityCheckKeeps DEF WriteEvents
  <2>3. CASE Decide
    BY <2>3, OperatorKeeps
  <2>4. ASSUME NEW found \in Found, ProcessReport(found) PROVE SoundTable(events')
    BY <2>2, <2>4 DEF ProcessReport
  <2>5. ASSUME NEW found \in Found, DieInReport(found) PROVE SoundTable(events')
    BY <2>2, <2>5 DEF DieInReport
  <2>6. CASE events' = events
    BY <2>6
  <2>7. QED
    BY <2>3, <2>4, <2>5, <2>6 DEF RecordsNext, Tick, Evaluate, Restart, recordsVars
<1>3. RecordsSpec => []EventsOK
  BY <1>1, <1>2, PTL DEF RecordsSpec
<1>4. EventsOK => EventsAreSound
  BY DEF EventsOK, SoundTable, EventsAreSound
<1>5. QED
  BY <1>3, <1>4, PTL


-----------------------------------------------------------------------------
(* The snapshots and the history. *)

GoodSnapshots(table) == IsFiniteSet(table) /\ \A rec \in table : rec.timestamp \in Int

LEMMA TierRowsAreFinite ==
  ASSUME NEW table, GoodSnapshots(table), NEW tier
  PROVE  IsFiniteSet(Rows(table, tier)) /\ Cardinality(Rows(table, tier)) \in Nat
BY FS_Subset, FS_CardinalityType DEF Rows, GoodSnapshots

\* A snapshot of one tier is added, and the other tier stays as it is.
Saved(before, tier, after) ==
  /\ GoodSnapshots(after)
  /\ \A other \in Tier : Rows(before, other) \subseteq Rows(after, other)
  /\ \A other \in Tier \ {tier} : Rows(after, other) = Rows(before, other)
  /\ Cardinality(Rows(after, tier)) <= Cardinality(Rows(before, tier)) + 1

LEMMA SavingAdds ==
  ASSUME NEW table, GoodSnapshots(table), NEW id, NEW tier \in Tier, NEW timestamp \in Int
  PROVE  Saved(table, tier, saveSnapshot(table, id, tier, timestamp))
<1> DEFINE rec == [id |-> id, tier |-> tier, timestamp |-> timestamp]
           next == saveSnapshot(table, id, tier, timestamp)
<1>1. next = table \cup {rec} /\ rec.tier = tier /\ rec.timestamp = timestamp
  BY DEF saveSnapshot
<1> HIDE DEF rec, next
<1>2. GoodSnapshots(next)
  BY <1>1, FS_AddElement DEF GoodSnapshots
<1>3. \A other \in Tier : Rows(table, other) \subseteq Rows(next, other)
  BY <1>1 DEF Rows
<1>4. \A other \in Tier \ {tier} : Rows(next, other) = Rows(table, other)
  BY <1>1 DEF Rows
<1>5. Rows(next, tier) = Rows(table, tier) \cup {rec}
  BY <1>1 DEF Rows
<1>6. IsFiniteSet(Rows(table, tier)) /\ Cardinality(Rows(table, tier)) \in Nat
  BY TierRowsAreFinite
<1>7. Cardinality(Rows(table, tier) \cup {rec}) <= Cardinality(Rows(table, tier)) + 1
  <2> DEFINE R == Rows(table, tier)
             c == Cardinality(R)
  <2> HIDE DEF R
  <2>1. Cardinality(R \cup {rec}) = IF rec \in R THEN c ELSE c + 1
    BY <1>6, FS_AddElement DEF R
  <2>2. c \in Nat
    BY <1>6 DEF R
  <2> HIDE DEF c
  <2>3. Cardinality(R \cup {rec}) <= c + 1
    BY <2>1, <2>2
  <2>4. QED
    BY <2>3 DEF R, c
<1>8. QED
  BY <1>2, <1>3, <1>4, <1>5, <1>7 DEF Saved, next

\* Trimming leaves no more than are to be kept, all that is archived, and for each
\* recent row one that is not older.
LEMMA TrimmingKeeps ==
  ASSUME NEW table, GoodSnapshots(table), NEW trimmed \in deleteOldRecentSnapshots(table)
  PROVE  /\ GoodSnapshots(trimmed)
         /\ Cardinality(Rows(trimmed, "recent")) <= KeepCount
         /\ Rows(trimmed, "archive") = Rows(table, "archive")
         /\ \A rec \in Rows(table, "recent") :
               \E later \in Rows(trimmed, "recent") : later.timestamp >= rec.timestamp
<1> DEFINE young == Rows(table, "recent")
<1>1. PICK kept \in SUBSET young :
         Kept(young, kept) /\ trimmed = Rows(table, "archive") \cup kept
  BY DEF deleteOldRecentSnapshots
<1>2. Rows(trimmed, "recent") = kept /\ Rows(trimmed, "archive") = Rows(table, "archive")
  BY <1>1 DEF Rows
<1>3. trimmed \subseteq table
  BY <1>1 DEF Rows
<1>4. GoodSnapshots(trimmed)
  BY <1>3, FS_Subset DEF GoodSnapshots
<1>5. IsFiniteSet(young) /\ Cardinality(young) \in Nat
  BY TierRowsAreFinite
<1>6. KeepCount \in Nat /\ KeepCount >= 1
  BY SnapshotsAssumption
<1>7. Cardinality(kept) <= KeepCount
  BY <1>1, <1>5, <1>6 DEF Kept
<1>8. ASSUME NEW rec \in young
      PROVE  \E later \in kept : later.timestamp >= rec.timestamp
  <2>1. rec.timestamp \in Int
    BY DEF Rows, GoodSnapshots
  <2>2. CASE rec \in kept
    BY <2>1, <2>2
  <2>3. CASE rec \notin kept
    <3>1. Cardinality(young) # 0
      BY <1>5, FS_EmptySet
    <3>2. Cardinality(kept) # 0
      BY <1>1, <1>5, <1>6, <3>1 DEF Kept
    <3>3. kept # {}
      BY <3>2, FS_EmptySet
    <3>4. PICK later \in kept : TRUE
      BY <3>3
    <3>5. later.timestamp >= rec.timestamp
      BY <1>1, <2>3, <3>4 DEF Kept
    <3>6. QED
      BY <3>5
  <2>4. QED
    BY <2>2, <2>3
<1>9. QED
  BY <1>2, <1>4, <1>7, <1>8

\* From one table of snapshots to the next, of which one more recent row may have
\* been left than there may be after the trimming.
Trimmed(before, after, more) ==
  /\ GoodSnapshots(after)
  /\ Rows(before, "archive") \subseteq Rows(after, "archive")
  /\ \A rec \in Rows(before, "recent") :
        \E later \in Rows(after, "recent") : later.timestamp >= rec.timestamp
  /\ \/ Cardinality(Rows(after, "recent")) <= KeepCount
     \/ Cardinality(Rows(after, "recent")) <= Cardinality(Rows(before, "recent")) + more

LEMMA SameSnapshots ==
  ASSUME NEW table, GoodSnapshots(table)
  PROVE  Trimmed(table, table, 0)
<1>1. \A rec \in Rows(table, "recent") : rec.timestamp \in Int
  BY DEF Rows, GoodSnapshots
<1>2. Cardinality(Rows(table, "recent")) \in Nat
  BY TierRowsAreFinite
<1>3. QED
  BY <1>1, <1>2 DEF Trimmed

LEMMA WriteSnapshotsKeeps ==
  ASSUME GoodSnapshots(snapshots), NEW timestamp \in Int, NEW time \in Int,
         WriteSnapshots(timestamp, time)
  PROVE  Trimmed(snapshots, snapshots', 0)
<1>1. "recent" \in Tier /\ "archive" \in Tier \ {"recent"} /\ "recent" \in Tier \ {"archive"}
  BY DEF Tier
<1>2. PICK saved, trimmed :
        /\ IF shouldWrite("recent", time)
           THEN (\E id : saved = saveSnapshot(snapshots, id, "recent", timestamp))
                /\ trimmed \in deleteOldRecentSnapshots(saved)
           ELSE saved = snapshots /\ trimmed = saved
        /\ \/ snapshots' = trimmed
           \/ \E id : snapshots' = saveSnapshot(trimmed, id, "archive", timestamp)
  BY DEF WriteSnapshots
<1>3. Trimmed(snapshots, trimmed, 0)
  <2>1. CASE shouldWrite("recent", time)
    <3>1. PICK id : saved = saveSnapshot(snapshots, id, "recent", timestamp)
      BY <1>2, <2>1
    <3>2. /\ GoodSnapshots(saved) /\ Rows(snapshots, "recent") \subseteq Rows(saved, "recent")
          /\ Rows(saved, "archive") = Rows(snapshots, "archive")
      <4>1. /\ GoodSnapshots(saved)
            /\ \A other \in Tier : Rows(snapshots, other) \subseteq Rows(saved, other)
            /\ \A other \in Tier \ {"recent"} : Rows(saved, other) = Rows(snapshots, other)
        <5>1. Saved(snapshots, "recent", saveSnapshot(snapshots, id, "recent", timestamp))
          BY <1>1, SavingAdds
        <5>2. Saved(snapshots, "recent", saved)
          BY <3>1, <5>1
        <5>3. QED
          BY <5>2 DEF Saved
      <4>2. QED
        BY <1>1, <4>1
    <3>3. QED
      BY <1>2, <2>1, <3>2, TrimmingKeeps DEF Trimmed
  <2>2. CASE ~shouldWrite("recent", time)
    BY <1>2, <2>2, SameSnapshots
  <2>3. QED
    BY <2>1, <2>2
<1>4. CASE snapshots' = trimmed
  BY <1>3, <1>4
<1>5. ASSUME NEW id, snapshots' = saveSnapshot(trimmed, id, "archive", timestamp)
      PROVE  Trimmed(snapshots, snapshots', 0)
  <2>1. /\ GoodSnapshots(snapshots')
        /\ Rows(trimmed, "archive") \subseteq Rows(snapshots', "archive")
        /\ Rows(snapshots', "recent") = Rows(trimmed, "recent")
    BY <1>1, <1>3, <1>5, SavingAdds DEF Trimmed, Saved
  <2>2. QED
    BY <1>3, <2>1 DEF Trimmed
<1>6. QED
  BY <1>2, <1>4, <1>5

LEMMA WriteSnapshotTornKeeps ==
  ASSUME GoodSnapshots(snapshots), NEW timestamp \in Int, NEW time \in Int,
         WriteSnapshotTorn(timestamp, time)
  PROVE  Trimmed(snapshots, snapshots', 1)
<1>1. "recent" \in Tier /\ "archive" \in Tier \ {"recent"}
  BY DEF Tier
<1>2. snapshots' = saveSnapshot(snapshots, lastId + 1, "recent", timestamp)
  BY DEF WriteSnapshotTorn
<1>3. /\ GoodSnapshots(snapshots') /\ Rows(snapshots, "recent") \subseteq Rows(snapshots', "recent")
      /\ Rows(snapshots', "archive") = Rows(snapshots, "archive")
      /\ Cardinality(Rows(snapshots', "recent")) <= Cardinality(Rows(snapshots, "recent")) + 1
  <2>1. /\ GoodSnapshots(snapshots')
        /\ \A other \in Tier : Rows(snapshots, other) \subseteq Rows(snapshots', other)
        /\ \A other \in Tier \ {"recent"} : Rows(snapshots', other) = Rows(snapshots, other)
        /\ Cardinality(Rows(snapshots', "recent")) <= Cardinality(Rows(snapshots, "recent")) + 1
    <3>1. Saved(snapshots, "recent", saveSnapshot(snapshots, lastId + 1, "recent", timestamp))
      BY <1>1, SavingAdds
    <3>2. Saved(snapshots, "recent", snapshots')
      BY <1>2, <3>1
    <3>3. QED
      BY <3>2 DEF Saved
  <2>2. QED
    BY <1>1, <2>1
<1>4. \A rec \in Rows(snapshots, "recent") : rec.timestamp \in Int
  BY DEF Rows, GoodSnapshots
<1>5. QED
  BY <1>3, <1>4 DEF Trimmed

-----------------------------------------------------------------------------
(* Buckets. *)

\* A bucket begins no later than what is in it, and a coarse one no later than the
\* fine one of the same evaluation.
LEMMA FloorIsBefore ==
  ASSUME NEW t \in Int, NEW s \in Nat \ {0}
  PROVE  /\ floorToBucket(t, s) \in Int /\ floorToBucket(t, s) <= t
         /\ \A m \in Int : m * s <= t => m * s <= floorToBucket(t, s)
<1> DEFINE q == t \div s
           r == t % s
<1>1. q \in Int /\ r \in 0..(s - 1) /\ t = s * q + r
  OBVIOUS
<1>2. floorToBucket(t, s) = q * s
  BY DEF floorToBucket
<1> HIDE DEF q, r
<1>3. q * s \in Int /\ q * s <= t /\ t < q * s + s
  BY <1>1
<1>4. ASSUME NEW m \in Int, m * s <= t, ~(m * s <= q * s) PROVE FALSE
  <2>1. m > q
    BY <1>1, <1>4
  <2>2. m >= q + 1
    BY <1>1, <2>1
  <2>3. m * s >= (q + 1) * s
    BY <1>1, <2>2
  <2>4. (q + 1) * s = q * s + s
    BY <1>1
  <2>5. QED
    BY <1>3, <1>4, <2>3, <2>4
<1>5. QED
  BY <1>2, <1>3, <1>4

LEMMA CoarseIsBefore ==
  ASSUME NEW t \in Int
  PROVE  /\ floorToBucket(t, ArchiveSeconds) \in Int /\ floorToBucket(t, WindowSeconds) \in Int
         /\ floorToBucket(t, WindowSeconds) <= t
         /\ floorToBucket(t, ArchiveSeconds) <= floorToBucket(t, WindowSeconds)
<1>1. WindowSeconds \in Nat \ {0} /\ ArchiveSeconds \in Nat \ {0}
      /\ ArchiveSeconds % WindowSeconds = 0
  BY ScheduleHistoryAssumption
<1> DEFINE k == ArchiveSeconds \div WindowSeconds
           q == t \div ArchiveSeconds
<1>2. k \in Int /\ ArchiveSeconds = k * WindowSeconds
  BY <1>1
<1>3. q \in Int /\ floorToBucket(t, ArchiveSeconds) = q * ArchiveSeconds
  BY <1>1 DEF floorToBucket
<1> HIDE DEF k, q
<1>4. q * ArchiveSeconds = (q * k) * WindowSeconds /\ q * k \in Int
  BY <1>1, <1>2, <1>3
<1>5. q * ArchiveSeconds <= t /\ q * ArchiveSeconds \in Int
  BY <1>1, <1>3, FloorIsBefore
<1>6. /\ floorToBucket(t, WindowSeconds) \in Int /\ floorToBucket(t, WindowSeconds) <= t
      /\ \A m \in Int : m * WindowSeconds <= t =>
           m * WindowSeconds <= floorToBucket(t, WindowSeconds)
  BY <1>1, FloorIsBefore
<1>7. (q * k) * WindowSeconds <= floorToBucket(t, WindowSeconds)
  BY <1>4, <1>5, <1>6
<1>8. QED
  BY <1>3, <1>4, <1>5, <1>6, <1>7

-----------------------------------------------------------------------------
(* The history. *)

HasRow(table, tier, origin, seconds) ==
  \E rec \in table : /\ rec.tier = tier /\ rec.source = origin
                     /\ rec.start = floorToBucket(origin, seconds)

\* What was told last is in a coarse row, and in a fine one unless that is too old.
Told(table, origin, time) ==
  /\ HasRow(table, "archive", origin, ArchiveSeconds)
  /\ \/ HasRow(table, "window", origin, WindowSeconds)
     \/ floorToBucket(origin, WindowSeconds) < time - WindowRetentionSeconds

LEMMA UpsertTells ==
  ASSUME NEW origin \in Int, NEW reportTime \in Int, NEW time \in Int, reportTime <= time
  PROVE  Told(upsertTaskScheduleSnapshot(schedule, origin, reportTime), origin, time)
<1> DEFINE archived == upsertScheduleSnapshot(schedule, "archive", origin)
           both == IF Fresh(origin, reportTime)
                   THEN upsertScheduleSnapshot(archived, "window", origin) ELSE archived
           next == upsertTaskScheduleSnapshot(schedule, origin, reportTime)
           coarse == [tier |-> "archive", start |-> floorToBucket(origin, ArchiveSeconds),
                      source |-> origin]
           fine == [tier |-> "window", start |-> floorToBucket(origin, WindowSeconds),
                    source |-> origin]
           oldest == reportTime - WindowRetentionSeconds
<1>1. next = {rec \in both : ~(rec.tier = "window" /\ rec.start < oldest)}
  BY DEF upsertTaskScheduleSnapshot
<1>2. coarse \in archived
  BY DEF upsertScheduleSnapshot, Bucket
<1>3. \A rec \in archived : rec.tier = "archive" =>
         rec \in upsertScheduleSnapshot(archived, "window", origin)
  BY DEF upsertScheduleSnapshot
<1>4. fine \in upsertScheduleSnapshot(archived, "window", origin)
  BY DEF upsertScheduleSnapshot, Bucket
<1>5. /\ coarse.tier = "archive" /\ coarse.source = origin
      /\ coarse.start = floorToBucket(origin, ArchiveSeconds)
      /\ fine.tier = "window" /\ fine.source = origin
      /\ fine.start = floorToBucket(origin, WindowSeconds)
  OBVIOUS
<1> HIDE DEF archived, next, coarse, fine
<1>6. coarse \in next
  BY <1>1, <1>2, <1>3, <1>5
<1>7. HasRow(next, "archive", origin, ArchiveSeconds)
  BY <1>5, <1>6 DEF HasRow
<1>8. WindowRetentionSeconds \in Nat
  BY ScheduleHistoryAssumption
<1>9. floorToBucket(origin, WindowSeconds) \in Int /\ floorToBucket(origin, WindowSeconds) <= origin
  BY CoarseIsBefore
<1>10. CASE Fresh(origin, reportTime)
  <2>1. fine \in both
    BY <1>4, <1>10
  <2>2. CASE fine.start < oldest
    BY <1>5, <1>7, <1>8, <1>9, <2>2, next = next DEF Told, next
  <2>3. CASE ~(fine.start < oldest)
    <3>1. fine \in next
      BY <1>1, <2>1, <2>3
    <3>2. HasRow(next, "window", origin, WindowSeconds)
      BY <1>5, <3>1 DEF HasRow
    <3>3. QED
      BY <1>7, <3>2 DEF Told, next
  <2>4. QED
    BY <2>2, <2>3
<1>11. CASE ~Fresh(origin, reportTime)
  <2>1. origin < oldest
    BY <1>8, <1>11 DEF Fresh
  <2>2. floorToBucket(origin, WindowSeconds) < time - WindowRetentionSeconds
    BY <1>8, <1>9, <2>1
  <2>3. QED
    BY <1>7, <2>2 DEF Told, next
<1>12. QED
  BY <1>10, <1>11

\* What is told is shown, by one of its two rows.
LEMMA ToldIsShown ==
  ASSUME NEW origin \in Int, NEW time \in Int, Told(schedule, origin, time)
  PROVE  \E rec \in getTaskScheduleHistory(time) : rec.source = origin
<1> DEFINE cutoff == time - WindowRetentionSeconds
<1>1. cutoff \in Int
  BY ScheduleHistoryAssumption
<1>2. getTaskScheduleHistory(time) =
        {rec \in schedule : IF rec.tier = "window" THEN rec.start >= cutoff ELSE rec.start < cutoff}
  BY DEF getTaskScheduleHistory
<1>3. /\ floorToBucket(origin, ArchiveSeconds) \in Int
      /\ floorToBucket(origin, WindowSeconds) \in Int
      /\ floorToBucket(origin, ArchiveSeconds) <= floorToBucket(origin, WindowSeconds)
  BY CoarseIsBefore
<1>4. CASE floorToBucket(origin, WindowSeconds) < cutoff
  <2>1. PICK rec \in schedule : /\ rec.tier = "archive" /\ rec.source = origin
                                /\ rec.start = floorToBucket(origin, ArchiveSeconds)
    BY DEF Told, HasRow
  <2>2. rec.start < cutoff
    BY <1>1, <1>3, <1>4, <2>1
  <2> HIDE DEF cutoff
  <2>3. QED
    BY <1>2, <2>1, <2>2
<1>5. CASE ~(floorToBucket(origin, WindowSeconds) < cutoff)
  <2>1. PICK rec \in schedule : /\ rec.tier = "window" /\ rec.source = origin
                                /\ rec.start = floorToBucket(origin, WindowSeconds)
    BY <1>5 DEF Told, HasRow
  <2>2. rec.start >= cutoff
    BY <1>1, <1>3, <1>5, <2>1
  <2> HIDE DEF cutoff
  <2>3. QED
    BY <1>2, <2>1, <2>2
<1>6. QED
  BY <1>4, <1>5

-----------------------------------------------------------------------------
(* The steps. *)

RecordsOK ==
  /\ GoodSnapshots(snapshots)
  /\ Cardinality(Rows(snapshots, "recent")) <= KeepCount + restarts
  /\ now \in Int /\ behind \in Nat /\ restarts \in Nat
  /\ evaluated \in Int /\ received \in Int
  /\ received # Never => Told(schedule, received, now)

LEMMA RecordsInitOK ==
  ASSUME Behinds \subseteq Nat, RecordsInit
  PROVE  RecordsOK
<1>1. GoodSnapshots({}) /\ Rows({}, "recent") = {}
  BY FS_EmptySet DEF GoodSnapshots, Rows
<1>2. Cardinality({}) = 0
  BY FS_EmptySet
<1>3. KeepCount \in Nat
  BY SnapshotsAssumption
<1>4. QED
  BY <1>1, <1>2, <1>3 DEF RecordsInit, SnapshotsInit, RecordsOK, Never

\* A step of the snapshots that leaves few enough of them.
LEMMA TrimmedStep ==
  ASSUME RecordsOK, NEW more \in {0, 1}, Trimmed(snapshots, snapshots', more),
         restarts' \in Nat, restarts' >= restarts + more
  PROVE  GoodSnapshots(snapshots') /\ TrimmingIsRight
<1>1. GoodSnapshots(snapshots) /\ GoodSnapshots(snapshots')
  BY DEF RecordsOK, Trimmed
<1>2. /\ Cardinality(Rows(snapshots, "recent")) \in Nat
      /\ Cardinality(Rows(snapshots', "recent")) \in Nat
  BY <1>1, TierRowsAreFinite
<1>3. KeepCount \in Nat
  BY SnapshotsAssumption
<1>4. Cardinality(Rows(snapshots', "recent")) <= KeepCount + restarts'
  BY <1>2, <1>3 DEF Trimmed, RecordsOK
<1>5. QED
  BY <1>1, <1>4 DEF Trimmed, TrimmingIsRight

\* A step that writes no history.
LEMMA SameHistory ==
  ASSUME RecordsOK, UNCHANGED <<schedule, received>>, now' \in Int, now' >= now
  PROVE  received' # Never => Told(schedule', received', now')
<1>1. received \in Int /\ now \in Int /\ WindowRetentionSeconds \in Nat
  BY ScheduleHistoryAssumption DEF RecordsOK
<1>2. floorToBucket(received, WindowSeconds) \in Int
  BY <1>1, CoarseIsBefore
<1>3. QED
  BY <1>1, <1>2 DEF RecordsOK, Told

LEMMA WriteScheduleTells ==
  ASSUME RecordsOK, WriteSchedule, UNCHANGED now
  PROVE  received' \in Int /\ (received' # Never => Told(schedule', received', now'))
<1>1. received' = evaluated /\ evaluated \in Int /\ now \in Int /\ agentTime \in Int
      /\ agentTime <= now
  BY DEF WriteSchedule, RecordsOK, agentTime
<1>2. ASSUME evaluated # Never
      PROVE  schedule' = upsertTaskScheduleSnapshot(schedule, evaluated, agentTime)
  BY <1>2 DEF WriteSchedule
<1>3. QED
  BY <1>1, <1>2, UpsertTells

LEMMA RecordsStepKeeps ==
  ASSUME RecordsOK, [RecordsNext]_recordsVars
  PROVE  RecordsOK' /\ TrimmingIsRight
<1> DEFINE Goal == RecordsOK' /\ TrimmingIsRight
<1>0. /\ GoodSnapshots(snapshots) /\ now \in Int /\ behind \in Nat /\ restarts \in Nat
      /\ evaluated \in Int /\ received \in Int /\ agentTime \in Int /\ Never \in Int
  BY DEF RecordsOK, agentTime, Never
<1>1. ASSUME NEW more \in {0, 1}, Trimmed(snapshots, snapshots', more),
             restarts' \in Nat, restarts' >= restarts + more,
             now' \in Int, behind' = behind, evaluated' \in Int, received' \in Int,
             received' # Never => Told(schedule', received', now')
      PROVE  Goal
  <2>1. GoodSnapshots(snapshots') /\ TrimmingIsRight
    BY <1>1, TrimmedStep
  <2>2. QED
    BY <1>0, <1>1, <2>1 DEF RecordsOK, TrimmingIsRight
<1>2. ASSUME snapshots' = snapshots, schedule' = schedule, behind' = behind,
             received' = received, restarts' \in Nat, restarts' >= restarts,
             now' \in Int, now' >= now, evaluated' \in Int
      PROVE  Goal
  <2>1. Trimmed(snapshots, snapshots', 0)
    BY <1>0, <1>2, SameSnapshots
  <2>2. received' # Never => Told(schedule', received', now')
    BY <1>2, SameHistory
  <2>3. received' \in Int /\ restarts' >= restarts + 0
    BY <1>0, <1>2
  <2> HIDE DEF Goal
  <2>4. QED
    BY <1>1, <1>2, <2>1, <2>2, <2>3
<1>3. ASSUME Tick \/ Evaluate \/ Restart \/ Decide \/ UNCHANGED recordsVars PROVE Goal
  <2>1. /\ snapshots' = snapshots /\ schedule' = schedule /\ behind' = behind
        /\ received' = received /\ restarts' \in Nat /\ restarts' >= restarts
        /\ now' \in Int /\ now' >= now /\ evaluated' \in Int
    BY <1>0, <1>3 DEF Tick, Evaluate, Restart, Decide, recordsVars
  <2> HIDE DEF Goal
  <2>2. QED
    BY <1>2, <2>1
<1>4. ASSUME NEW found \in Found, ProcessReport(found) PROVE Goal
  <2>1. /\ WriteSchedule
        /\ WriteSnapshots(agentTime, now)
        /\ UNCHANGED <<now, behind, evaluated, restarts>>
    BY <1>4 DEF ProcessReport
  <2>2. received' \in Int /\ (received' # Never => Told(schedule', received', now'))
    BY <2>1, WriteScheduleTells
  <2>3. Trimmed(snapshots, snapshots', 0)
    BY <1>0, <2>1, WriteSnapshotsKeeps
  <2>4. restarts' \in Nat /\ restarts' >= restarts + 0 /\ now' \in Int /\ evaluated' \in Int
    BY <1>0, <2>1
  <2> HIDE DEF Goal
  <2>5. QED
    BY <1>1, <2>1, <2>2, <2>3, <2>4
<1>5. ASSUME NEW found \in Found, DieInReport(found) PROVE Goal
  <2>1. UNCHANGED <<now, behind, evaluated>> /\ restarts' = restarts + 1
    BY <1>5 DEF DieInReport
  <2>2. restarts' \in Nat /\ restarts' >= restarts + 1 /\ now' \in Int /\ evaluated' \in Int
        /\ restarts' >= restarts + 0
    BY <1>0, <2>1
  <2>3. CASE WriteScheduleTorn /\ UNCHANGED snapshots
    <3>1. Trimmed(snapshots, snapshots', 0)
      BY <1>0, <2>3, SameSnapshots
    <3>2. received' = Never
      BY <2>3 DEF WriteScheduleTorn
    <3> HIDE DEF Goal
    <3>3. QED
      BY <1>0, <1>1, <2>1, <2>2, <3>1, <3>2
  <2>4. CASE WriteSchedule /\ UNCHANGED snapshots
    <3>1. Trimmed(snapshots, snapshots', 0)
      BY <1>0, <2>4, SameSnapshots
    <3>2. received' \in Int /\ (received' # Never => Told(schedule', received', now'))
      BY <2>1, <2>4, WriteScheduleTells
    <3> HIDE DEF Goal
    <3>3. QED
      BY <1>1, <2>1, <2>2, <3>1, <3>2
  <2>5. CASE WriteSchedule /\ WriteSnapshotTorn(agentTime, now)
    <3>1. Trimmed(snapshots, snapshots', 1)
      BY <1>0, <2>5, WriteSnapshotTornKeeps
    <3>2. received' \in Int /\ (received' # Never => Told(schedule', received', now'))
      BY <2>1, <2>5, WriteScheduleTells
    <3> HIDE DEF Goal
    <3>3. QED
      BY <1>1, <2>1, <2>2, <3>1, <3>2
  <2>6. QED
    BY <1>5, <2>3, <2>4, <2>5 DEF DieInReport
<1>6. QED
  BY <1>3, <1>4, <1>5 DEF RecordsNext

\* RetentionIsRight: trimming keeps to its bounds and takes nothing archived, and the latest
\* evaluation that was told is shown (db/snapshots.ts, db/tasks.ts), for every pace,
\* number of snapshots to keep, size of the buckets and number of deaths of the server,
\* as long as the clock of the agent is not ahead of the server's.
THEOREM RetentionAlwaysRight ==
  ASSUME Behinds \subseteq Nat
  PROVE  RecordsSpec => RetentionIsRight
<1>1. RecordsInit => RecordsOK
  BY RecordsInitOK
<1>2. RecordsOK /\ [RecordsNext]_recordsVars => RecordsOK'
  BY RecordsStepKeeps
<1>3. RecordsOK => LatestEvaluationIsShown
  BY ToldIsShown DEF RecordsOK, LatestEvaluationIsShown
<1>4. RecordsOK /\ RecordsOK' /\ [RecordsNext]_recordsVars =>
        [TrimmingIsRight /\ LatestEvaluationIsShown']_recordsVars
  <2>1. RecordsOK' => LatestEvaluationIsShown'
    BY <1>3, PTL
  <2>2. QED
    BY <2>1, RecordsStepKeeps
<1>5. RecordsSpec => []RecordsOK
  BY <1>1, <1>2, PTL DEF RecordsSpec
<1>6. QED
  BY <1>4, <1>5, PTL DEF RecordsSpec, RetentionIsRight

-----------------------------------------------------------------------------
(***************************************************************************)
(* What a page shows of a task.                                            *)
(***************************************************************************)

Amount == Mb \cup {none}
JobShape ==
  [status : {"none", "queued", "running", "ended"}, mode : {"shared", "exclusive_auto"},
   requested : Amount, require : Nat, assigned : {none, {0}},
   peak : {none, NoCard} \cup {FromCard(x) : x \in Mb},
   reclaimed : {none} \cup {FromCard(x) : x \in Amount}, done : BOOLEAN,
   history : {<<>>} \cup {<<e>> : e \in Evaluation}, code : {none, 0, 1}]

\* A task asks for an amount if it shares a card, and for none if it does not, as it
\* did whenever it was evaluated.
JobOK(j) ==
  /\ j \in JobShape
  /\ IF j.mode = "shared" THEN j.requested = j.require ELSE j.requested = none /\ j.require = 0
  /\ \A i \in DOMAIN j.history : j.history[i].need = j.requested

\* The tasks a server may know, the one it knows of a job, and how it stores it.
TaskShape ==
  [status : {"none", "queued", "running", "ended"}, mode : {"shared", "exclusive_auto"},
   requested : Amount, require : Nat, assigned : {none, {0}},
   peak : {none} \cup {FromCard(x) : x \in Mb},
   reclaimed : {none} \cup {FromCard(x) : x \in Amount}, done : BOOLEAN,
   history : {<<>>} \cup {History(<<e>>, spelling) : e \in Evaluation}, code : {none, 0, 1}]
Known(j) == [j EXCEPT !.peak = IF @ = NoCard THEN none ELSE @,
                      !.history = History(@, spelling)]
Stored(t) == [t EXCEPT !.assigned = TextOrNull(@), !.peak = TextOrNull(@),
                       !.reclaimed = TextOrNull(@), !.done = IF @ THEN 1 ELSE 0,
                       !.history = IF Len(@) > 0 THEN Text(@) ELSE none]

\* The row and the event are those of the task that was reported last, which has
\* not changed what it asks for.
WireOK ==
  /\ JobOK(job) /\ spelling \in Spelling
  /\ source = {} => row = {} /\ told = {}
  /\ \A j \in source :
        /\ JobOK(j) /\ job.status # "none"
        /\ job.mode = j.mode /\ job.requested = j.requested /\ job.require = j.require
        /\ row = {Stored(Known(j))} /\ told \subseteq {Known(j)}
  /\ \A i, j \in source : i = j

LEMMA CardsDiffer ==
  /\ \A x \in Amount : FromCard(x) # NoCard /\ FromCard(x) # none /\ FromCard(x)[0] = x
  /\ \A x \in Mb : FromCard(x) # FromCard(none) /\ x # none
  /\ NoCard # none
<1>1. \A x : FromCard(x)[0] = x /\ DOMAIN FromCard(x) = {0} /\ DOMAIN NoCard = {}
  BY DEF FromCard, NoCard
<1>2. NoCard # none /\ \A x \in Amount : FromCard(x) # none
  BY TaskWireAssumption DEF Amount
<1>3. \A x \in Mb : x # none
  BY TaskWireAssumption
<1>4. \A x \in Amount : FromCard(x) # NoCard
  BY <1>1
<1>5. ASSUME NEW x \in Mb PROVE FromCard(x) # FromCard(none)
  <2>1. FromCard(x)[0] = x /\ FromCard(none)[0] = none /\ x # none
    BY <1>1, <1>3
  <2>2. QED
    BY <2>1
<1>6. QED
  BY <1>1, <1>2, <1>3, <1>4, <1>5

LEMMA TextsRead ==
  /\ \A x : Text(x).json = x
  /\ \A x \in Amount : Text(FromCard(x)) # none
  /\ Text(NoCard) # none /\ Text({0}) # none
<1>1. \A x : Text(x).json = x
  BY DEF Text
<1>2. \A x \in Amount : Text(FromCard(x)) # none
  BY TaskWireAssumption DEF Amount
<1>3. Text(NoCard) # none /\ Text({0}) # none
  BY TaskWireAssumption
<1>4. QED
  BY <1>1, <1>2, <1>3

\* A history on the wire is as long as it was.
LEMMA HistoryIs ==
  /\ \A s : History(<<>>, s) = <<>>
  /\ \A e, s : History(<<e>>, s) = <<Entry(e, s)>>
  /\ \A e \in Evaluation, s \in Spelling : /\ History(<<e>>, s) # none
                                          /\ Text(History(<<e>>, s)) # none
<1>1. ASSUME NEW s PROVE History(<<>>, s) = <<>>
  <2>1. DOMAIN <<>> = {}
    OBVIOUS
  <2>2. QED
    BY <2>1 DEF History
<1>2. ASSUME NEW e, NEW s PROVE History(<<e>>, s) = <<Entry(e, s)>>
  <2> DEFINE n == Entry(e, s)
  <2>1. DOMAIN <<e>> = {1} /\ <<e>>[1] = e
    OBVIOUS
  <2>2. History(<<e>>, s) = [i \in {1} |-> n]
    BY <2>1 DEF History
  <2> HIDE DEF n
  <2>3. <<n>> = [i \in {1} |-> n]
    OBVIOUS
  <2>4. QED
    BY <2>2, <2>3 DEF n
<1>3. QED
  BY <1>1, <1>2, TaskWireAssumption

\* The report changes an empty map of peaks into none and writes the history as the
\* wire has it, and nothing else.
LEMMA WireReportKeeps ==
  ASSUME NEW j, JobOK(j)
  PROVE  normalizeTaskInfo(Wire(j)) = Known(j)
<1> DEFINE w == Wire(j)
           h == History(j.history, spelling)
<1>1. j \in JobShape
  BY DEF JobOK
<1>2. w = [j EXCEPT !.requested = [s \in spelling |-> j.requested], !.history = h]
  BY DEF Wire
<1> HIDE DEF h
<1>3. /\ w.mode = j.mode /\ w.require = j.require /\ w.requested = [s \in spelling |-> j.requested]
      /\ w.peak = j.peak /\ w.reclaimed = j.reclaimed
  BY <1>1, <1>2 DEF JobShape
<1> HIDE DEF w
<1>4. normalizeRequestedVramMb(w) = j.requested
  <2>1. CASE "Mb" \in spelling
    BY <1>3, <2>1 DEF normalizeRequestedVramMb
  <2>2. CASE "Mb" \notin spelling /\ "MB" \in spelling
    BY <1>3, <2>2 DEF normalizeRequestedVramMb
  <2>3. CASE "Mb" \notin spelling /\ "MB" \notin spelling
    <3>1. j.mode \in {"shared", "exclusive_auto"}
      BY <1>1 DEF JobShape
    <3>2. QED
      BY <1>3, <2>3, <3>1 DEF normalizeRequestedVramMb, JobOK
  <2>4. QED
    BY <2>1, <2>2, <2>3
<1>5. normalizeNumberMap(j.peak) = IF j.peak = NoCard THEN none ELSE j.peak
  <2>1. j.peak \in {none, NoCard} \/ \E x \in Mb : j.peak = FromCard(x)
    BY <1>1 DEF JobShape
  <2>2. QED
    BY <2>1, CardsDiffer DEF normalizeNumberMap
<1>6. normalizeNullableNumberMap(j.reclaimed) = j.reclaimed
  <2>1. j.reclaimed = none \/ \E x \in Amount : j.reclaimed = FromCard(x)
    BY <1>1 DEF JobShape
  <2>2. QED
    BY <2>1, CardsDiffer DEF normalizeNullableNumberMap
<1>7. normalizeTaskInfo(w) = [w EXCEPT !.requested = j.requested,
                                !.peak = IF j.peak = NoCard THEN none ELSE j.peak,
                                !.reclaimed = j.reclaimed]
  BY <1>3, <1>4, <1>5, <1>6 DEF normalizeTaskInfo
<1> DEFINE p == IF j.peak = NoCard THEN none ELSE j.peak
<1> HIDE DEF p
<1>8. [[j EXCEPT !.requested = [s \in spelling |-> j.requested], !.history = h]
          EXCEPT !.requested = j.requested, !.peak = p, !.reclaimed = j.reclaimed]
        = [j EXCEPT !.peak = p, !.history = h]
  BY <1>1 DEF JobShape
<1>9. QED
  BY <1>2, <1>7, <1>8 DEF p, h, w, Known


-----------------------------------------------------------------------------
(* What the clients get of it. *)

\* A known task differs from the job in the map of peaks and the history alone.
LEMMA KnownIs ==
  ASSUME NEW j, JobOK(j), spelling \in Spelling
  PROVE  /\ Known(j) \in TaskShape
         /\ Known(j).status = j.status /\ Known(j).mode = j.mode /\ Known(j).code = j.code
         /\ Known(j).requested = j.requested /\ Known(j).require = j.require
         /\ Known(j).assigned = j.assigned /\ Known(j).reclaimed = j.reclaimed
         /\ Known(j).done = j.done
         /\ Known(j).peak = IF j.peak = NoCard THEN none ELSE j.peak
         /\ Known(j).history = History(j.history, spelling)
<1> DEFINE p == IF j.peak = NoCard THEN none ELSE j.peak
           h == History(j.history, spelling)
<1>1. p \in {none} \cup {FromCard(x) : x \in Mb}
  BY CardsDiffer DEF JobOK, JobShape
<1>2. h \in {<<>>} \cup {History(<<e>>, spelling) : e \in Evaluation}
  <2>1. j.history = <<>> \/ \E e \in Evaluation : j.history = <<e>>
    BY DEF JobOK, JobShape
  <2>2. QED
    BY <2>1, HistoryIs
<1>3. Known(j) = [j EXCEPT !.peak = p, !.history = h]
  BY DEF Known
<1> HIDE DEF p, h
<1>4. Known(j) \in TaskShape
  BY <1>1, <1>2, <1>3 DEF JobOK, JobShape, TaskShape
<1>5. /\ Known(j).status = j.status /\ Known(j).mode = j.mode /\ Known(j).code = j.code
      /\ Known(j).requested = j.requested /\ Known(j).require = j.require
      /\ Known(j).assigned = j.assigned /\ Known(j).reclaimed = j.reclaimed
      /\ Known(j).done = j.done /\ Known(j).peak = p /\ Known(j).history = h
  BY <1>3 DEF JobOK, JobShape
<1>6. QED
  BY <1>4, <1>5 DEF p, h

\* The table gives back every field, and of the history what the route has of it.
LEMMA TableKeeps ==
  ASSUME NEW t \in TaskShape, spelling \in Spelling
  PROVE  /\ OneTask(Stored(t)) = t
         /\ \A place : \E h : ListedTask(Stored(t), place) = [t EXCEPT !.history = h]
         /\ PersonTask(Stored(t)) = [t EXCEPT !.history = IF @ = <<>> THEN none ELSE @]
<1> DEFINE a == TextOrNull(t.assigned)
           p == TextOrNull(t.peak)
           c == TextOrNull(t.reclaimed)
           d == IF t.done THEN 1 ELSE 0
           h == IF Len(t.history) > 0 THEN Text(t.history) ELSE none
           r == [t EXCEPT !.assigned = a, !.peak = p, !.reclaimed = c, !.done = d, !.history = h]
           m == [r EXCEPT !.peak = t.peak, !.reclaimed = t.reclaimed, !.done = t.done]
<1>1. Stored(t) = r
  BY DEF Stored
<1>2. parseNumberMap(p) = t.peak
  <2>1. t.peak = none \/ \E x \in Mb : t.peak = FromCard(x)
    BY DEF TaskShape
  <2>2. CASE t.peak = none
    BY <2>2 DEF parseNumberMap, TextOrNull
  <2>3. ASSUME NEW x \in Mb, t.peak = FromCard(x) PROVE parseNumberMap(p) = t.peak
    <3>1. FromCard(x) # none /\ FromCard(x) # NoCard /\ FromCard(x) # FromCard(none) /\ Text(FromCard(x)) # none
      BY CardsDiffer, TextsRead DEF Amount
    <3>2. p = Text(FromCard(x)) /\ Text(FromCard(x)).json = FromCard(x)
      BY <2>3, <3>1, TextsRead DEF TextOrNull
    <3>3. QED
      BY <2>3, <3>1, <3>2 DEF parseNumberMap, normalizeNumberMap
  <2>4. QED
    BY <2>1, <2>2, <2>3
<1>3. parseNullableNumberMap(c) = t.reclaimed
  <2>1. t.reclaimed = none \/ \E x \in Amount : t.reclaimed = FromCard(x)
    BY DEF TaskShape
  <2>2. CASE t.reclaimed = none
    BY <2>2 DEF parseNullableNumberMap, TextOrNull
  <2>3. ASSUME NEW x \in Amount, t.reclaimed = FromCard(x)
        PROVE  parseNullableNumberMap(c) = t.reclaimed
    <3>1. FromCard(x) # none /\ FromCard(x) # NoCard /\ Text(FromCard(x)) # none
      BY CardsDiffer, TextsRead
    <3>2. c = Text(FromCard(x)) /\ Text(FromCard(x)).json = FromCard(x)
      BY <2>3, <3>1, TextsRead DEF TextOrNull
    <3>3. QED
      BY <2>3, <3>1, <3>2 DEF parseNullableNumberMap, normalizeNullableNumberMap
  <2>4. QED
    BY <2>1, <2>2, <2>3
<1>4. Parsed(a) = t.assigned
  <2>1. t.assigned \in {none, {0}}
    BY DEF TaskShape
  <2>2. QED
    BY <2>1, TaskWireAssumption, TextsRead DEF Parsed, TextOrNull
<1>5. /\ (IF h = none THEN <<>> ELSE h.json) = t.history /\ t.history # none
      /\ Parsed(h) = IF t.history = <<>> THEN none ELSE t.history
  <2>1. t.history = <<>> \/ \E e \in Evaluation : t.history = History(<<e>>, spelling)
    BY DEF TaskShape
  <2>2. CASE t.history = <<>>
    BY <2>2, TaskWireAssumption DEF Parsed
  <2>3. ASSUME NEW e \in Evaluation, t.history = History(<<e>>, spelling)
        PROVE  /\ (IF h = none THEN <<>> ELSE h.json) = t.history /\ t.history # none
               /\ Parsed(h) = IF t.history = <<>> THEN none ELSE t.history
    <3>1. Len(t.history) = 1 /\ t.history # <<>>
      BY <2>3, HistoryIs
    <3>2. t.history # none /\ Text(t.history) # none /\ Text(t.history).json = t.history
      BY <2>3, HistoryIs, TextsRead
    <3>3. h = Text(t.history)
      BY <3>1
    <3>4. QED
      BY <3>1, <3>2, <3>3 DEF Parsed
  <2>4. QED
    BY <2>1, <2>2, <2>3
<1>6. (d # 0) = t.done
  <2>1. t.done \in BOOLEAN
    BY DEF TaskShape
  <2>2. QED
    BY <2>1
<1> HIDE DEF a, p, c, d, h
<1>7. /\ r.peak = p /\ r.reclaimed = c /\ r.done = d /\ r.history = h /\ r.assigned = a
  BY DEF TaskShape
<1> HIDE DEF r
<1>8. mapTaskRow(r) = m
  BY <1>2, <1>3, <1>6, <1>7 DEF mapTaskRow
<1>9. m.assigned = a /\ m.history = h
  BY <1>7 DEF r, TaskShape
<1>10. ASSUME NEW o
       PROVE [m EXCEPT !.assigned = t.assigned, !.history = o] = [t EXCEPT !.history = o]
  BY DEF r, TaskShape
<1> HIDE DEF m
<1>11. \A place : \E o : ListedTask(r, place) = [t EXCEPT !.history = o]
  <2> TAKE place
  <2> DEFINE o == IF place # none THEN place ELSE Parsed(m.history)
  <2>1. ListedTask(r, place) = [m EXCEPT !.assigned = t.assigned, !.history = o]
    BY <1>4, <1>8, <1>9 DEF ListedTask, toApiTask
  <2> HIDE DEF o
  <2>2. QED
    BY <1>10, <2>1
<1>12. OneTask(r) = t
  <2>1. StoredHistory(r) = t.history /\ t.history # none
    BY <1>5, <1>7 DEF StoredHistory
  <2>2. OneTask(r) = [m EXCEPT !.assigned = t.assigned, !.history = t.history]
    BY <1>4, <1>8, <1>9, <2>1 DEF OneTask, toApiTask
  <2>3. [t EXCEPT !.history = t.history] = t
    BY DEF TaskShape
  <2>4. QED
    BY <1>10, <2>2, <2>3
<1>13. PersonTask(r) = [t EXCEPT !.history = IF @ = <<>> THEN none ELSE @]
  <2> DEFINE o == IF t.history = <<>> THEN none ELSE t.history
  <2>1. Parsed(m.history) = o
    BY <1>5, <1>9
  <2> HIDE DEF o
  <2>2. PersonTask(r) = [m EXCEPT !.assigned = t.assigned, !.history = o]
    BY <1>4, <1>8, <1>9, <2>1 DEF PersonTask, toApiTask
  <2>3. QED
    BY <1>10, <2>2 DEF o
<1>14. QED
  BY <1>1, <1>11, <1>12, <1>13

\* A known task is shown as the job is, whatever history it comes with.
LEMMA KnownIsShown ==
  ASSUME NEW j, JobOK(j), spelling \in Spelling, NEW h
  PROVE  LET t == [Known(j) EXCEPT !.history = h]
         IN  Same(t, j) /\ t.mode = j.mode /\ t.require = j.require /\ t.history = h
<1> DEFINE p == IF j.peak = NoCard THEN none ELSE j.peak
           t == [Known(j) EXCEPT !.history = h]
<1>1. /\ t.requested = j.requested /\ t.require = j.require /\ t.mode = j.mode
      /\ t.status = j.status /\ t.assigned = j.assigned /\ t.code = j.code /\ t.done = j.done
      /\ t.reclaimed = j.reclaimed /\ t.peak = p /\ t.history = h
  <2> DEFINE k == Known(j)
  <2>1. /\ k.status = j.status /\ k.mode = j.mode /\ k.code = j.code
        /\ k.requested = j.requested /\ k.require = j.require
        /\ k.assigned = j.assigned /\ k.reclaimed = j.reclaimed
        /\ k.done = j.done /\ k.peak = p
    BY KnownIs
  <2>2. k \in TaskShape
    BY KnownIs
  <2> HIDE DEF p, k
  <2>3. [k EXCEPT !.history = h] = t
    BY DEF k
  <2> HIDE DEF t
  <2>4. /\ t.status = k.status /\ t.mode = k.mode /\ t.code = k.code
        /\ t.requested = k.requested /\ t.require = k.require
        /\ t.assigned = k.assigned /\ t.reclaimed = k.reclaimed
        /\ t.done = k.done /\ t.peak = k.peak /\ t.history = h
    BY <2>2, <2>3 DEF TaskShape
  <2>5. QED
    BY <2>1, <2>4
<1> HIDE DEF t
<1>2. formatPerGpuVramMap(t.peak) = formatPerGpuVramMap(j.peak)
  BY <1>1 DEF formatPerGpuVramMap
<1>3. formatAutoReclaimStatus(t) = formatAutoReclaimStatus(j)
  BY <1>1 DEF formatAutoReclaimStatus
<1>4. /\ formatTaskRequestedVram(t) = formatTaskRequestedVram(j)
      /\ formatRequestedResources(t) = formatRequestedResources(j)
  BY <1>1 DEF formatTaskRequestedVram, formatRequestedResources
<1>5. TaskDetail(t) = TaskDetail(j)
  BY <1>1, <1>2, <1>3, <1>4 DEF TaskDetail
<1>6. PersonTaskDetail(t) = PersonTaskDetail(j)
  BY <1>1, <1>2, <1>3, <1>4 DEF PersonTaskDetail, isTaskCancelable
<1>7. QED
  BY <1>1, <1>5, <1>6 DEF Same, t

\* The card of an evaluation tells it.
LEMMA CardIsTold ==
  ASSUME NEW e \in Evaluation, NEW spelt \in Spelling, NEW t, t.require \in Nat,
         t.mode \in {"shared", "exclusive_auto"},
         IF t.mode = "shared" THEN e.need = t.require ELSE e.need = none /\ t.require = 0
  PROVE  CardTells(ScheduleHistoryCard(Entry(e, spelt), t), e)
<1> DEFINE entry == Entry(e, spelt)
           need == getRequestedVramMb(entry, t)
           selected == parseGpuIdList(entry.detail, "selected")
           eligible == parseGpuIdList(entry.detail, "eligible_now")
           sustained == parseGpuIdList(entry.detail, "sustained_common")
           State(g) == resolveGpuDecisionState(g, selected, eligible, sustained,
                                               entry.free[g] >= need)
           card == ScheduleHistoryCard(entry, t)
<1>1. /\ e.result \in {"scheduled", "blocked", "insufficient"} /\ e.need \in Mb \cup {none}
      /\ e.selected \subseteq e.eligible /\ e.eligible \subseteq Device
      /\ e.result # "scheduled" => e.selected = {}
      /\ e.need # none => \A g \in e.eligible : e.free[g] >= e.need
      /\ e.free \in [Device -> Mb]
  BY DEF Evaluation
<1>2. /\ entry.result = e.result /\ entry.detail = DetailOf(e) /\ entry.free = e.free
      /\ entry.requested = [s \in spelt |-> e.need]
      /\ entry.eligibleNowCount = Cardinality(e.eligible)
      /\ entry.selectedGpuCount = Cardinality(e.selected)
  BY DEF Entry
<1>3. selected = e.selected /\ eligible = e.eligible /\ sustained \in {{}, e.eligible}
  <2> HIDE DEF entry
  <2>1. CASE e.result = "scheduled"
    BY <1>2, <2>1 DEF DetailOf, parseGpuIdList
  <2>2. CASE e.result = "blocked"
    BY <1>1, <1>2, <2>2 DEF DetailOf, parseGpuIdList
  <2>3. CASE e.result = "insufficient"
    BY <1>1, <1>2, <2>3 DEF DetailOf, parseGpuIdList
  <2>4. QED
    BY <1>1, <2>1, <2>2, <2>3
<1>4. need = t.require
  <2>1. none \notin Nat
    BY TaskWireAssumption
  <2> HIDE DEF entry
  <2>2. QED
    BY <1>2, <2>1 DEF getRequestedVramMb
<1>5. /\ card.result = formatScheduleResult(e.result)
      /\ card.need = IF t.mode = "exclusive_auto" THEN "exclusive" ELSE need
      /\ card.now = Cardinality(e.eligible) /\ card.selected = Cardinality(e.selected)
      /\ card.free = e.free /\ card.state = [g \in Device |-> State(g)]
  <2>1. DOMAIN entry.free = Device
    BY <1>1, <1>2
  <2> HIDE DEF entry
  <2>2. QED
    BY <1>2, <2>1 DEF ScheduleHistoryCard
<1> HIDE DEF card, need, entry, selected, eligible, sustained
<1>6. ASSUME NEW g \in Device
      PROVE  /\ State(g) = "selected" <=> g \in e.selected
             /\ State(g) \in {"eligible now and for long", "eligible"}
                   <=> g \in e.eligible \ e.selected
             /\ State(g) = "too little memory" => ~(e.free[g] >= need)
  <2>1. entry.free[g] = e.free[g]
    BY <1>2
  <2>2. CASE g \in e.selected
    BY <1>3, <2>2 DEF resolveGpuDecisionState
  <2>3. CASE g \in e.eligible \ e.selected
    BY <1>3, <2>3 DEF resolveGpuDecisionState
  <2>4. CASE g \notin e.eligible
    <3>1. g \notin selected /\ g \notin eligible /\ g \notin sustained
      BY <1>1, <1>3, <2>4
    <3>2. CASE e.free[g] >= need
      <4>1. State(g) = "not chosen"
        BY <2>1, <3>1, <3>2 DEF resolveGpuDecisionState
      <4>2. QED
        BY <1>1, <2>4, <4>1
    <3>3. CASE ~(e.free[g] >= need)
      <4>1. State(g) = "too little memory"
        BY <2>1, <3>1, <3>3 DEF resolveGpuDecisionState
      <4>2. QED
        BY <1>1, <2>4, <3>3, <4>1
    <3>4. QED
      BY <3>2, <3>3
  <2>5. QED
    BY <2>2, <2>3, <2>4
<1> HIDE DEF State
<1> DEFINE chosen == {g \in Device : card.state[g] = "selected"}
           fit == {g \in Device : card.state[g] \in {"eligible now and for long", "eligible"}}
<1>7. \A g \in Device : card.state[g] = State(g)
  BY <1>5
<1>8. chosen = e.selected /\ fit = e.eligible \ e.selected
  BY <1>1, <1>6, <1>7
<1>9. chosen \cup fit = e.eligible
  BY <1>1, <1>8
<1>10. ASSUME NEW g \in Device, card.state[g] = "too little memory"
       PROVE  e.need # none /\ e.free[g] < e.need
  <2>1. ~(e.free[g] >= need) /\ e.free[g] \in Nat /\ need \in Nat
    BY <1>1, <1>4, <1>6, <1>7, <1>10, TaskWireAssumption
  <2>2. need # 0
    BY <2>1
  <2>3. t.mode = "shared" /\ e.need = need
    BY <1>4, <2>2
  <2>4. QED
    BY <2>1, <2>3, TaskWireAssumption
<1>11. card.result = e.result
  BY <1>1, <1>5 DEF formatScheduleResult
<1>12. IF e.need = none THEN card.need = "exclusive" ELSE card.need = e.need
  <2>1. CASE t.mode = "shared"
    <3>1. card.need = t.require /\ e.need = t.require /\ t.require # none
      BY <1>4, <1>5, <2>1, TaskWireAssumption
    <3>2. QED
      BY <3>1
  <2>2. CASE t.mode = "exclusive_auto"
    BY <1>5, <2>2
  <2>3. QED
    BY <2>1, <2>2
<1>13. QED
  <2>1. /\ card.free = e.free /\ card.selected = Cardinality(chosen)
        /\ card.now = Cardinality(chosen \cup fit)
    BY <1>5, <1>8, <1>9
  <2> HIDE DEF chosen, fit
  <2>2. /\ card.result = e.result /\ card.free = e.free
        /\ IF e.need = none THEN card.need = "exclusive" ELSE card.need = e.need
        /\ chosen = e.selected /\ card.selected = Cardinality(chosen)
        /\ fit = e.eligible \ e.selected /\ card.now = Cardinality(chosen \cup fit)
        /\ \A g \in Device : card.state[g] = "too little memory" =>
                               e.need # none /\ e.free[g] < e.need
    BY <1>8, <1>10, <1>11, <1>12, <2>1
  <2>3. QED
    BY <2>2 DEF CardTells, chosen, fit, card, entry

\* And so is its history, if it comes with it.
LEMMA HistoryIsTold ==
  ASSUME NEW j, JobOK(j), spelling \in Spelling, NEW t, t.mode = j.mode, t.require = j.require,
         t.history = History(j.history, spelling)
  PROVE  HistoryTells(t, j)
<1>1. /\ j.mode \in {"shared", "exclusive_auto"} /\ j.require \in Nat
      /\ j.history = <<>> \/ \E e \in Evaluation : j.history = <<e>>
  BY DEF JobOK, JobShape
<1>2. CASE j.history = <<>>
  <2>1. t.history = <<>> /\ DOMAIN <<>> = {}
    BY <1>2, HistoryIs
  <2>2. QED
    BY <1>2, <2>1 DEF HistoryTells
<1>3. ASSUME NEW e \in Evaluation, j.history = <<e>>
      PROVE  HistoryTells(t, j)
  <2>1. t.history = <<Entry(e, spelling)>>
    BY <1>3, HistoryIs
  <2>2. /\ Len(t.history) = 1 /\ Len(j.history) = 1 /\ DOMAIN j.history = {1}
        /\ t.history[1] = Entry(e, spelling) /\ j.history[1] = e
    BY <1>3, <2>1
  <2>3. e.need = j.requested
    BY <2>2 DEF JobOK
  <2>4. IF t.mode = "shared" THEN e.need = t.require ELSE e.need = none /\ t.require = 0
    BY <2>3 DEF JobOK
  <2>5. CardTells(ScheduleHistoryCard(Entry(e, spelling), t), e)
    BY <1>1, <2>4, CardIsTold
  <2>6. QED
    BY <2>2, <2>5 DEF HistoryTells
<1>4. QED
  BY <1>1, <1>2, <1>3

LEMMA WireOKShows == WireOK => TaskIsShownAsReported
<1> SUFFICES ASSUME WireOK, NEW j \in source
             PROVE  /\ \A r \in row : /\ Same(OneTask(r), j) /\ HistoryTells(OneTask(r), j)
                                      /\ \A place \in Place : Same(ListedTask(r, place), j)
                                      /\ Same(PersonTask(r), j)
                                      /\ IF PersonTask(r).history = none THEN j.history = <<>>
                                         ELSE HistoryTells(PersonTask(r), j)
                    /\ \A t \in told : Same(t, j) /\ HistoryTells(t, j)
  BY DEF TaskIsShownAsReported
<1> DEFINE k == Known(j)
           h == History(j.history, spelling)
           o == IF h = <<>> THEN none ELSE h
           m == [k EXCEPT !.history = o]
<1>1. JobOK(j) /\ row = {Stored(k)} /\ told \subseteq {k} /\ spelling \in Spelling
  BY DEF WireOK
<1>2. k \in TaskShape /\ k.history = h
  BY <1>1, KnownIs
<1>3. [k EXCEPT !.history = h] = k
  BY <1>2 DEF TaskShape
<1>4. Same(k, j) /\ k.mode = j.mode /\ k.require = j.require
  BY <1>1, <1>3, KnownIsShown
<1>5. HistoryTells(k, j)
  BY <1>1, <1>2, <1>4, HistoryIsTold
<1>6. OneTask(Stored(k)) = k
  BY <1>1, <1>2, TableKeeps
<1>7. \A place : Same(ListedTask(Stored(k), place), j)
  <2> TAKE place
  <2>1. PICK i : ListedTask(Stored(k), place) = [k EXCEPT !.history = i]
    BY <1>1, <1>2, TableKeeps
  <2>2. QED
    BY <1>1, <2>1, KnownIsShown
<1>8. PersonTask(Stored(k)) = m
  BY <1>1, <1>2, TableKeeps
<1>9. Same(m, j) /\ m.mode = j.mode /\ m.require = j.require /\ m.history = o
  <2> HIDE DEF o
  <2>1. QED
    BY <1>1, KnownIsShown
<1>10. CASE h = <<>>
  <2>1. j.history = <<>>
    <3>1. j.history = <<>> \/ \E e \in Evaluation : j.history = <<e>>
      BY <1>1 DEF JobOK, JobShape
    <3>2. QED
      <4>1. \A e : History(<<e>>, spelling) # <<>>
        BY HistoryIs
      <4>2. QED
        BY <1>10, <3>1, <4>1
  <2>2. m.history = none
    BY <1>9, <1>10
  <2> HIDE DEF k, m
  <2>3. QED
    BY <1>1, <1>4, <1>5, <1>6, <1>7, <1>8, <1>9, <2>1, <2>2
<1>11. CASE h # <<>>
  <2>1. m.history = h
    BY <1>9, <1>11
  <2>2. HistoryTells(m, j)
    BY <1>1, <1>9, <2>1, HistoryIsTold
  <2>3. h # none
    <3>1. j.history = <<>> \/ \E e \in Evaluation : j.history = <<e>>
      BY <1>1 DEF JobOK, JobShape
    <3>2. QED
      BY <1>1, <1>11, <3>1, HistoryIs
  <2> HIDE DEF k, m, h
  <2>4. QED
    BY <1>1, <1>4, <1>5, <1>6, <1>7, <1>8, <1>9, <2>1, <2>2, <2>3
<1>12. QED
  BY <1>10, <1>11

-----------------------------------------------------------------------------
(* The steps. *)

LEMMA WireInitOK == WireInit => WireOK
<1> SUFFICES ASSUME WireInit PROVE WireOK
  OBVIOUS
<1>1. /\ NoJob \in JobShape /\ NoJob.mode = "shared" /\ NoJob.requested = NoJob.require
      /\ NoJob.history = <<>>
  BY TaskWireAssumption DEF NoJob, JobShape, Amount
<1>2. DOMAIN <<>> = {}
  OBVIOUS
<1>3. JobOK(NoJob)
  BY <1>1, <1>2 DEF JobOK
<1>4. QED
  BY <1>3 DEF WireInit, WireOK

\* A step of the node keeps what the task asks for.
LEMMA NodeStepKeeps ==
  ASSUME WireOK, NEW j, JobIs(j), JobOK(j), j.status # "none",
         \/ job.status = "none"
         \/ j.mode = job.mode /\ j.requested = job.requested /\ j.require = job.require
  PROVE  WireOK'
<1>1. job' = j /\ row' = row /\ told' = told /\ source' = source /\ spelling' = spelling
  BY DEF JobIs
<1>2. \A i : Known(i)' = Known(i)
  BY <1>1 DEF Known
<1>3. QED
  BY <1>1, <1>2 DEF WireOK

LEMMA NodeKeeps ==
  ASSUME WireOK,
         \/ \E mode \in {"shared", "exclusive_auto"}, mb \in Mb : Submitted(mode, mb)
         \/ \E e \in Evaluation : Evaluated(e)
         \/ Launched
         \/ \E mb \in Mb : Observed(mb)
         \/ \E near \in BOOLEAN : Reclaimed(near)
         \/ \E code \in {none, 0, 1} : TaskEnds(code)
  PROVE  WireOK'
<1>1. JobOK(job) /\ job \in JobShape
  BY DEF WireOK, JobOK
<1>2. ASSUME NEW mode \in {"shared", "exclusive_auto"}, NEW mb \in Mb, Submitted(mode, mb)
      PROVE  WireOK'
  <2> DEFINE x == IF mode = "shared" THEN mb ELSE none
             y == IF mode = "shared" THEN mb ELSE 0
             j == [NoJob EXCEPT !.status = "queued", !.mode = mode, !.requested = x, !.require = y]
  <2>1. job.status = "none" /\ JobIs(j)
    BY <1>2 DEF Submitted
  <2>2. /\ x \in Amount /\ y \in Nat
        /\ IF mode = "shared" THEN x = y ELSE x = none /\ y = 0
    BY TaskWireAssumption DEF Amount
  <2> HIDE DEF x, y
  <2>3. /\ j \in JobShape /\ j.status # "none" /\ j.mode = mode
        /\ j.requested = x /\ j.require = y /\ j.history = <<>>
    BY <2>2 DEF NoJob, JobShape
  <2>4. JobOK(j)
    <3>1. DOMAIN <<>> = {}
      OBVIOUS
    <3> HIDE DEF j
    <3>2. QED
      BY <2>2, <2>3, <3>1 DEF JobOK
  <2> HIDE DEF j
  <2>5. QED
    BY <2>1, <2>3, <2>4, NodeStepKeeps
<1>3. ASSUME NEW e \in Evaluation, Evaluated(e) PROVE WireOK'
  <2> DEFINE h == <<e>>
             j == [job EXCEPT !.history = h]
  <2>1. job.status = "queued" /\ JobIs(j) /\ e.need = job.requested
    BY <1>3 DEF Evaluated
  <2>2. h \in {<<x>> : x \in Evaluation} /\ \A i \in DOMAIN h : h[i].need = job.requested
    BY <2>1
  <2> HIDE DEF h
  <2>3. /\ JobOK(j) /\ j.status = job.status
        /\ j.mode = job.mode /\ j.requested = job.requested /\ j.require = job.require
    BY <1>1, <2>2 DEF JobOK, JobShape
  <2> HIDE DEF j
  <2>4. QED
    BY <2>1, <2>3, NodeStepKeeps
<1>4. ASSUME Launched PROVE WireOK'
  <2> DEFINE j == [job EXCEPT !.status = "running", !.assigned = {0}]
  <2>1. JobIs(j)
    BY <1>4 DEF Launched
  <2>2. /\ JobOK(j) /\ j.status # "none"
        /\ j.mode = job.mode /\ j.requested = job.requested /\ j.require = job.require
    BY <1>1 DEF JobOK, JobShape
  <2> HIDE DEF j
  <2>3. QED
    BY <2>1, <2>2, NodeStepKeeps
<1>5. ASSUME NEW mb \in Mb, Observed(mb) PROVE WireOK'
  <2> DEFINE before == IF job.peak \in {none, NoCard} THEN 0 ELSE job.peak[0]
             p == IF mb > before THEN FromCard(mb) ELSE IF job.peak = none THEN NoCard ELSE job.peak
             j == [job EXCEPT !.peak = p]
  <2>1. job.status = "running" /\ JobIs(j)
    BY <1>5 DEF Observed, Observing
  <2>2. p \in {none, NoCard} \cup {FromCard(x) : x \in Mb}
    BY <1>1 DEF JobShape
  <2> HIDE DEF p
  <2>3. /\ JobOK(j) /\ j.status = job.status
        /\ j.mode = job.mode /\ j.requested = job.requested /\ j.require = job.require
    BY <1>1, <2>2 DEF JobOK, JobShape
  <2> HIDE DEF j
  <2>4. QED
    BY <2>1, <2>3, NodeStepKeeps
<1>6. ASSUME NEW near \in BOOLEAN, Reclaimed(near) PROVE WireOK'
  <2> DEFINE c == FromCard(IF near \/ job.peak = NoCard THEN none ELSE job.peak[0])
             j == [job EXCEPT !.done = TRUE, !.reclaimed = c]
  <2>1. job.status = "running" /\ JobIs(j) /\ job.peak # none
    BY <1>6 DEF Reclaimed, Observing
  <2>2. c \in {none} \cup {FromCard(x) : x \in Amount}
    <3>1. job.peak = NoCard \/ \E x \in Mb : job.peak = FromCard(x)
      BY <1>1, <2>1 DEF JobShape
    <3>2. ASSUME NEW x \in Mb, job.peak = FromCard(x) PROVE job.peak[0] = x
      BY <3>2, CardsDiffer DEF Amount
    <3>3. QED
      BY <3>1, <3>2 DEF Amount
  <2> HIDE DEF c
  <2>3. /\ JobOK(j) /\ j.status = job.status
        /\ j.mode = job.mode /\ j.requested = job.requested /\ j.require = job.require
    BY <1>1, <2>2 DEF JobOK, JobShape
  <2> HIDE DEF j
  <2>4. QED
    BY <2>1, <2>3, NodeStepKeeps
<1>7. ASSUME NEW code \in {none, 0, 1}, TaskEnds(code) PROVE WireOK'
  <2> DEFINE j == [job EXCEPT !.status = "ended", !.code = code]
  <2>1. JobIs(j)
    BY <1>7 DEF TaskEnds
  <2>2. /\ JobOK(j) /\ j.status # "none"
        /\ j.mode = job.mode /\ j.requested = job.requested /\ j.require = job.require
    BY <1>1 DEF JobOK, JobShape
  <2> HIDE DEF j
  <2>3. QED
    BY <2>1, <2>2, NodeStepKeeps
<1>8. QED
  BY <1>2, <1>3, <1>4, <1>5, <1>6, <1>7

\* A report replaces the row: what is not written again is what it was.
LEMMA ReportedKeeps ==
  ASSUME WireOK, Reported
  PROVE  WireOK'
<1> DEFINE t == Known(job)
           values == Stored(t)
<1>1. /\ JobOK(job) /\ job' = job /\ source' = {job} /\ job.status # "none"
      /\ spelling' = spelling /\ spelling \in Spelling
  BY DEF WireOK, Reported
<1>2. normalizeTaskInfo(Wire(job)) = t
  BY <1>1, WireReportKeeps
<1>3. told' \subseteq {t} /\ upsertTask(t)
  BY <1>2 DEF Reported
<1>4. row' = IF row = {} THEN {values} ELSE {[values EXCEPT !.require = r.require] : r \in row}
  BY <1>3 DEF upsertTask, Stored
<1>5. t \in TaskShape /\ t.require = job.require
  BY <1>1, KnownIs
<1>6. ASSUME NEW r \in row PROVE [values EXCEPT !.require = r.require] = values
  <2>1. PICK j \in source : TRUE
    BY DEF WireOK
  <2>2. JobOK(j) /\ r = Stored(Known(j)) /\ j.require = job.require
    BY <2>1 DEF WireOK
  <2>3. r.require = j.require
    <3>1. Known(j) \in TaskShape /\ Known(j).require = j.require
      BY <1>1, <2>2, KnownIs
    <3>2. Stored(Known(j)).require = Known(j).require
      BY <3>1 DEF Stored, TaskShape
    <3>3. QED
      BY <2>2, <3>1, <3>2
  <2>4. values.require = job.require
    BY <1>5 DEF Stored, TaskShape
  <2> HIDE DEF t
  <2>5. [values EXCEPT !.require = values.require] = values
    BY <1>5 DEF Stored, TaskShape
  <2>6. QED
    BY <2>2, <2>3, <2>4, <2>5
<1> HIDE DEF t, values
<1>7. row' = {values}
  BY <1>4, <1>6
<1>8. \A i : Known(i)' = Known(i)
  BY <1>1 DEF Known
<1>9. QED
  BY <1>1, <1>3, <1>7, <1>8 DEF WireOK, t, values

\* TaskIsShownAsReported: every way a page gets a task shows what the agent reported,
\* null apart from 0 (state/task.py, agent/report, node/tasks.ts, web vram.ts).
THEOREM TasksAlwaysShownAsReported == WireSpec => []TaskIsShownAsReported
<1>1. WireOK /\ [WireNext]_wireVars => WireOK'
  <2>1. ASSUME WireOK, WireNext PROVE WireOK'
    BY <2>1, NodeKeeps, ReportedKeeps DEF WireNext
  <2>2. ASSUME WireOK, UNCHANGED wireVars PROVE WireOK'
    <3>1. \A i : Known(i)' = Known(i)
      BY <2>2 DEF Known, wireVars
    <3>2. QED
      BY <2>2, <3>1 DEF WireOK, wireVars
  <2>3. QED
    BY <2>1, <2>2
<1>2. WireSpec => []WireOK
  BY <1>1, WireInitOK, PTL DEF WireSpec
<1>3. QED
  BY <1>2, WireOKShows, PTL

-----------------------------------------------------------------------------
(***************************************************************************)
(* The curves of a node.                                                   *)
(***************************************************************************)

Report == [of : Node, at : Nat, card : BOOLEAN]
Point == [report : Report, place : Nat]
\* A curve has at most one point for a time.
Curve(c) ==
  /\ c \in SUBSET Point /\ IsFiniteSet(c)
  /\ \A p, q \in c : p.report.at = q.report.at => p = q
\* One report for a time.
RowsOnce(t) ==
  /\ t \in SUBSET Report /\ IsFiniteSet(t)
  /\ \A r, s \in t : r.at = s.at => r = s
Request ==
  [of : Node, late : BOOLEAN, asked : Nat, served : BOOLEAN, rows : SUBSET Report]
ChartPage ==
  [node : SUBSET Node, host : SUBSET Point, card : SUBSET Point, seeds : SUBSET Request,
   seen : SUBSET Report, lost : SUBSET Report, overtaken : SUBSET Report, mixed : BOOLEAN]

\* A table of reports, and those of them that are on their way.
TableFits(table, wire) ==
  /\ table \in [Node -> SUBSET Report]
  /\ \A n \in Node : RowsOnce(table[n]) /\ \A r \in table[n] : r.of = n
  /\ wire \in SUBSET Report
  /\ \A r \in wire : /\ r \in table[r.of]
                     /\ \A x \in table[r.of] : x.at > r.at => x \in wire

\* Of two points in the wrong order one was overtaken or lost, or the later one is
\* still to come and later than all that came.
Fine(c, curve, wire) ==
  \A p, q \in curve :
     /\ p.report.of \in c.node /\ q.report.of \in c.node
     /\ p.report.at < q.report.at /\ ~(p.place < q.place)
     => \/ p.report \in c.overtaken
        \/ q.report \in c.lost \cup c.overtaken
        \/ q.report \in wire /\ \A s \in c.seen : s.at < q.report.at

Requested(c, table, instant) ==
  \A q \in c.seeds :
     /\ q.rows \subseteq table[q.of] /\ q.asked <= instant
     /\ ~q.late => q.of \in c.node

PageFits(c, table, wire, instant) ==
  /\ c \in ChartPage
  /\ \A m, n \in c.node : m = n
  /\ Curve(c.host) /\ Curve(c.card)
  /\ Requested(c, table, instant)
  /\ \A s \in c.seen : s.of \in c.node /\ s \in table[s.of]
  /\ \A s \in c.seen, x \in wire : x.of \in c.node /\ x.at < s.at => x \in c.overtaken
  /\ \A p \in c.host \cup c.card : p.report \in table[p.report.of]
  /\ Fine(c, c.host, wire) /\ Fine(c, c.card, wire)
  /\ \A s \in c.seen : s.at > instant - Window => s \in Drawn(c.host)
  /\ client = "web" =>
       \A s \in c.seen : /\ s.at > instant - Window
                         /\ \A x \in c.seen : x.at >= s.at => x.card
                         /\ \A x \in c.overtaken : x.card
                         => s \in Drawn(c.card)
  /\ ~c.mixed => \A r \in Drawn(c.host) \cup Drawn(c.card) : r.of \in c.node

\* The latest reports of the nodes are reports they made.
OverviewFits(got, table) ==
  got \in [Node -> SUBSET Report] /\ \A n \in Node : got[n] \subseteq table[n]

ChartInv ==
  /\ client \in {"web", "phone"} /\ clock \in Nat
  /\ liveWire \in Seq(Report)
  /\ \A i, j \in DOMAIN liveWire :
       i < j /\ liveWire[i].of = liveWire[j].of => liveWire[i].at < liveWire[j].at
  /\ TableFits(recent, OnTheWay)
  /\ \A n \in Node : \A r \in recent[n] : r.at <= clock
  /\ OverviewFits(newest, recent)
  /\ \A got \in overviews : OverviewFits(got, recent)
  /\ PageFits(charts, recent, OnTheWay, clock)

-----------------------------------------------------------------------------
(* Curves. *)

\* A report is put behind what is kept.
LEMMA AppendIs ==
  ASSUME NEW c, Curve(c), NEW r \in Report
  PROVE  LET a == appendChartPoint(c, r)
             kept == {p \in c : p.report.at > r.at - Window /\ p.report.at # r.at}
         IN  /\ Curve(a)
             /\ \E n \in Nat : /\ a = kept \cup {[report |-> r, place |-> n]}
                               /\ \A p \in kept : p.place < n
<1> DEFINE kept == {p \in c : p.report.at > r.at - Window /\ p.report.at # r.at}
           places == {r.at} \cup {p.place + 1 : p \in kept}
           n == Max(places)
<1>1. kept \in SUBSET Point /\ IsFiniteSet(kept)
  BY FS_Subset DEF Curve
<1>2. places \in SUBSET Nat /\ places # {}
  BY <1>1 DEF Point, Report
<1>3. IsFiniteSet(places)
  <2>1. IsFiniteSet({p.place + 1 : p \in kept})
    <3> DEFINE f == [p \in kept |-> p.place + 1]
    <3>1. f \in Surjection(kept, {p.place + 1 : p \in kept})
      BY DEF Surjection
    <3>2. QED
      BY <1>1, <3>1, FS_Surjection
  <2>2. QED
    BY <2>1, FS_Singleton, FS_Union
<1>4. n \in places /\ \A x \in places : n >= x
  <2> HIDE DEF places
  <2>1. places \in SUBSET Int
    BY <1>2
  <2>2. QED
    BY <1>2, <1>3, <2>1, MaxIsLargest
<1>5. n \in Nat /\ \A p \in kept : p.place < n
  <2>1. \A p \in kept : p.place \in Nat /\ p.place + 1 \in places
    BY <1>1 DEF Point
  <2> HIDE DEF places, n, kept
  <2>2. n \in Nat /\ \A x \in places : x \in Nat
    BY <1>2, <1>4
  <2>3. QED
    BY <1>4, <2>1, <2>2
<1>6. appendChartPoint(c, r) = kept \cup {[report |-> r, place |-> n]}
  BY DEF appendChartPoint
<1>7. Curve(kept \cup {[report |-> r, place |-> n]})
  <2>1. IsFiniteSet(kept \cup {[report |-> r, place |-> n]})
    BY <1>1, FS_Singleton, FS_Union
  <2> HIDE DEF n
  <2>2. QED
    BY <1>1, <1>5, <2>1 DEF Curve, Point, Report
<1> HIDE DEF kept, n
<1>8. QED
  BY <1>5, <1>6, <1>7 DEF kept

\* What is sorted by time is a curve.
LEMMA InTimeIs ==
  ASSUME NEW t, RowsOnce(t)
  PROVE  /\ Curve(InTime(t)) /\ Drawn(InTime(t)) = t
         /\ \A p \in InTime(t) : p.place = p.report.at
<1>1. IsFiniteSet(InTime(t))
  <2> DEFINE f == [r \in t |-> [report |-> r, place |-> r.at]]
  <2>1. f \in Surjection(t, InTime(t))
    BY DEF Surjection, InTime
  <2>2. QED
    BY <2>1, FS_Surjection DEF RowsOnce
<1>2. InTime(t) \in SUBSET Point
  BY DEF InTime, RowsOnce, Point, Report
<1>3. \A p \in InTime(t) : p.report \in t /\ p = [report |-> p.report, place |-> p.report.at]
  BY DEF InTime
<1>4. Drawn(InTime(t)) = t
  <2>1. \A r \in t : [report |-> r, place |-> r.at] \in InTime(t)
    BY DEF InTime
  <2>2. \A r \in t : [report |-> r, place |-> r.at].report = r
    OBVIOUS
  <2>3. QED
    BY <1>3, <2>1, <2>2 DEF Drawn
<1>5. Curve(InTime(t))
  BY <1>1, <1>2, <1>3 DEF RowsOnce, Curve
<1>6. QED
  BY <1>3, <1>4, <1>5

\* A merge keeps what was drawn after the cutoff and sorts it, or changes nothing.
LEMMA MergeIs ==
  ASSUME NEW c, Curve(c), NEW t, RowsOnce(t), NEW cutoff
  PROVE  LET m == mergeChartPoints(c, t, cutoff)
         IN  /\ Curve(m) /\ Drawn(m) \subseteq Drawn(c) \cup t
             /\ \A r \in Drawn(c) : r.at > cutoff => r \in Drawn(m)
             /\ m = c \/ \A p \in m : p.place = p.report.at
<1> DEFINE times == {r.at : r \in Drawn(c)}
           all == Drawn(c) \cup {r \in t : r.at \notin times}
           late == {r \in all : r.at > cutoff}
<1>1. CASE t = {}
  BY <1>1 DEF mergeChartPoints
<1>2. CASE t # {}
  <2>1. mergeChartPoints(c, t, cutoff) = InTime(late)
    BY <1>2 DEF mergeChartPoints
  <2>2. Drawn(c) \in SUBSET Report /\ IsFiniteSet(Drawn(c))
    <3> DEFINE f == [p \in c |-> p.report]
    <3>1. f \in Surjection(c, Drawn(c))
      BY DEF Surjection, Drawn
    <3>2. IsFiniteSet(Drawn(c))
      BY <3>1, FS_Surjection DEF Curve
    <3>3. QED
      BY <3>2 DEF Drawn, Curve, Point
  <2>3. IsFiniteSet(late)
    <3>1. IsFiniteSet(Drawn(c) \cup t)
      BY <2>2, FS_Union DEF RowsOnce
    <3>2. QED
      BY <3>1, FS_Subset
  <2>4. \A r, s \in Drawn(c) : r.at = s.at => r = s
    BY DEF Drawn, Curve
  <2>5. RowsOnce(late)
    BY <2>2, <2>3, <2>4 DEF RowsOnce
  <2>6. late \subseteq Drawn(c) \cup t /\ \A r \in Drawn(c) : r.at > cutoff => r \in late
    OBVIOUS
  <2> HIDE DEF late
  <2>7. QED
    BY <2>1, <2>5, <2>6, InTimeIs
<1>3. QED
  BY <1>1, <1>2

\* A part of the rows of a node are rows.
LEMMA PartIsRows ==
  ASSUME NEW t, RowsOnce(t), NEW u \in SUBSET t
  PROVE  RowsOnce(u)
BY FS_Subset DEF RowsOnce

-----------------------------------------------------------------------------
(* The page. *)

\* What a curve draws are rows.
LEMMA DrawnIsRows ==
  ASSUME NEW c, Curve(c)
  PROVE  RowsOnce(Drawn(c))
<1> DEFINE f == [p \in c |-> p.report]
<1>1. f \in Surjection(c, Drawn(c))
  BY DEF Surjection, Drawn
<1>2. IsFiniteSet(Drawn(c))
  BY <1>1, FS_Surjection DEF Curve
<1>3. QED
  BY <1>2 DEF Drawn, Curve, RowsOnce, Point

\* A page from its fields.
PageOf(node, host, card, seeds, seen, lost, overtaken, mixed) ==
  [node |-> node, host |-> host, card |-> card, seeds |-> seeds, seen |-> seen,
   lost |-> lost, overtaken |-> overtaken, mixed |-> mixed]

\* A page with other curves.
LEMMA OtherCurves ==
  ASSUME NEW c, c \in ChartPage, NEW h, NEW d, NEW s
  PROVE  [c EXCEPT !.host = h, !.card = d, !.seen = s]
         = PageOf(c.node, h, d, c.seeds, s, c.lost, c.overtaken, c.mixed)
<1> DEFINE names == {"node", "host", "card", "seeds", "seen", "lost", "overtaken", "mixed"}
           one == [c EXCEPT !.host = h]
           two == [one EXCEPT !.card = d]
<1>1. DOMAIN c = names /\ c = [x \in names |-> c[x]]
  BY DEF ChartPage
<1>2. two = [x \in names |-> IF x = "card" THEN d ELSE IF x = "host" THEN h ELSE c[x]]
  <2>1. one = [x \in names |-> IF x = "host" THEN h ELSE c[x]]
    BY <1>1
  <2> HIDE DEF one
  <2>2. two = [x \in names |-> IF x = "card" THEN d ELSE one[x]]
    BY <2>1
  <2>3. QED
    BY <2>1, <2>2
<1>3. QED
  <2>1. [c EXCEPT !.host = h, !.card = d, !.seen = s]
        = [x \in names |-> IF x = "seen" THEN s ELSE two[x]]
    BY <1>2
  <2> HIDE DEF two
  <2>2. QED
    BY <1>2, <2>1 DEF PageOf

\* A page with other requests, other losses or others that were overtaken.
LEMMA OtherRequests ==
  ASSUME NEW c, c \in ChartPage, NEW g
  PROVE  /\ [c EXCEPT !.seeds = g]
              = PageOf(c.node, c.host, c.card, g, c.seen, c.lost, c.overtaken, c.mixed)
         /\ [c EXCEPT !.lost = g]
              = PageOf(c.node, c.host, c.card, c.seeds, c.seen, g, c.overtaken, c.mixed)
         /\ [c EXCEPT !.overtaken = g]
              = PageOf(c.node, c.host, c.card, c.seeds, c.seen, c.lost, g, c.mixed)
         /\ [c EXCEPT !.seeds = g, !.host = {}, !.card = {}, !.seen = {}]
              = PageOf(c.node, {}, {}, g, {}, c.lost, c.overtaken, c.mixed)
<1> DEFINE names == {"node", "host", "card", "seeds", "seen", "lost", "overtaken", "mixed"}
           other == [c EXCEPT !.seeds = g]
           second == [other EXCEPT !.host = {}]
           third == [second EXCEPT !.card = {}]
<1>1. DOMAIN c = names /\ c = [x \in names |-> c[x]]
  BY DEF ChartPage
<1>2. other = [x \in names |-> IF x = "seeds" THEN g ELSE c[x]]
  BY <1>1
<1>3. [c EXCEPT !.lost = g] = [x \in names |-> IF x = "lost" THEN g ELSE c[x]]
  BY <1>1
<1>4. [c EXCEPT !.seeds = g, !.host = {}, !.card = {}, !.seen = {}]
      = PageOf(c.node, {}, {}, g, {}, c.lost, c.overtaken, c.mixed)
  <2>1. second = [x \in names |-> IF x = "host" THEN {} ELSE other[x]]
    BY <1>2
  <2>2. third = [x \in names |-> IF x = "card" THEN {} ELSE second[x]]
    BY <2>1
  <2>3. [c EXCEPT !.seeds = g, !.host = {}, !.card = {}, !.seen = {}]
        = [x \in names |-> IF x = "seen" THEN {} ELSE third[x]]
    BY <2>2
  <2> HIDE DEF other, second, third
  <2>4. QED
    BY <1>2, <2>1, <2>2, <2>3 DEF PageOf
<1>5. other = PageOf(c.node, c.host, c.card, g, c.seen, c.lost, c.overtaken, c.mixed)
  <2> HIDE DEF other
  <2>1. QED
    BY <1>2 DEF PageOf
<1>6. [c EXCEPT !.lost = g]
      = PageOf(c.node, c.host, c.card, c.seeds, c.seen, g, c.overtaken, c.mixed)
  BY <1>3 DEF PageOf
<1>7. [c EXCEPT !.overtaken = g]
      = PageOf(c.node, c.host, c.card, c.seeds, c.seen, c.lost, g, c.mixed)
  <2>1. [c EXCEPT !.overtaken = g] = [x \in names |-> IF x = "overtaken" THEN g ELSE c[x]]
    BY <1>1
  <2>2. QED
    BY <2>1 DEF PageOf
<1>8. QED
  BY <1>4, <1>5, <1>6, <1>7

\* The curve of a card that has taken a report.
CardTaken(curve, r) ==
  IF ~r.card THEN {}
  ELSE IF client = "phone"
  THEN mergeChartPoints(appendChartPoint(curve, r), Drawn(curve), r.at - Window)
  ELSE appendChartPoint(curve, r)

\* The fields of a page that has taken a report.
LEMMA TakenIs ==
  ASSUME NEW c \in ChartPage, NEW r
  PROVE  Taken(c, r)
         = PageOf(c.node, appendChartPoint(c.host, r), CardTaken(c.card, r), c.seeds,
                  {s \in c.seen : s.at > r.at - Window} \cup {r}, c.lost, c.overtaken, c.mixed)
<1> DEFINE h == appendChartPoint(c.host, r)
           d == CardTaken(c.card, r)
           s == {x \in c.seen : x.at > r.at - Window} \cup {r}
<1>1. Taken(c, r) = [c EXCEPT !.host = h, !.card = d, !.seen = s]
  BY DEF Taken, CardTaken
<1> HIDE DEF h, d, s
<1>2. Taken(c, r) = PageOf(c.node, h, d, c.seeds, s, c.lost, c.overtaken, c.mixed)
  BY <1>1, OtherCurves
<1>3. QED
  BY <1>2 DEF h, d, s

\* What is true of a curve that a report was put behind.
Behind(after, before, r) ==
  /\ Curve(after)
  /\ \A p \in after : \/ p \in before /\ p.report.at # r.at
                      \/ p.report = r /\ \A q \in after : q.report.at < r.at => q.place < p.place
  /\ \A s \in Drawn(before) : s.at > r.at - Window /\ s.at # r.at => s \in Drawn(after)
  /\ r \in Drawn(after)

\* Putting a report behind does that.
LEMMA AppendIsBehind ==
  ASSUME NEW c, Curve(c), NEW r \in Report
  PROVE  Behind(appendChartPoint(c, r), c, r)
<1> DEFINE kept == {p \in c : p.report.at > r.at - Window /\ p.report.at # r.at}
<1>1. PICK n \in Nat : /\ appendChartPoint(c, r) = kept \cup {[report |-> r, place |-> n]}
                       /\ \A p \in kept : p.place < n
  BY AppendIs
<1>2. Curve(appendChartPoint(c, r))
  BY AppendIs
<1>3. \A p \in kept : p \in c /\ p.report.at # r.at /\ p.place < n
  BY <1>1
<1>4. \A p \in c : p.report.at > r.at - Window /\ p.report.at # r.at => p \in kept
  OBVIOUS
<1> DEFINE new == [report |-> r, place |-> n]
<1>5. new.report = r /\ new.place = n
  OBVIOUS
<1>6. r.at \in Nat
  BY DEF Report
<1> HIDE DEF kept, new
<1>7. \A q \in kept \cup {new} : q.report.at < r.at => q.place < new.place
  BY <1>3, <1>5, <1>6
<1>8. appendChartPoint(c, r) = kept \cup {new}
  BY <1>1 DEF new
<1>9. QED
  BY <1>2, <1>3, <1>4, <1>5, <1>7, <1>8 DEF Behind, Drawn

\* A page that puts a report behind a curve, of which it may have been on its way.
TakesBehind(c, d, before, after, wire, rest, r) ==
  /\ c \in ChartPage /\ Curve(before) /\ r \in Report
  /\ Behind(after, before, r) /\ Fine(c, before, wire) /\ wire \subseteq rest \cup {r}
  /\ d.node = c.node /\ d.lost = c.lost /\ d.overtaken = c.overtaken
  /\ d.seen \subseteq c.seen \cup {r} /\ c.node = {r.of}
  /\ \A x \in wire : x.of = r.of /\ x # r /\ x.at <= r.at => x \in c.overtaken
  /\ \A p \in before :
       p.report.of = r.of /\ p.report.at > r.at =>
         \/ r \in c.overtaken
         \/ p.report \in rest /\ \A s \in c.seen : s.at < p.report.at

\* A report can be put behind if the later ones that are drawn are still to come,
\* or if it was overtaken.
LEMMA BehindIsFine ==
  ASSUME NEW c, NEW d, NEW before, NEW after, NEW wire, NEW rest, NEW r,
         TakesBehind(c, d, before, after, wire, rest, r)
  PROVE  Fine(d, after, rest)
<1> USE DEF TakesBehind
<1> SUFFICES ASSUME NEW p \in after, NEW q \in after,
                    p.report.of \in c.node, q.report.of \in c.node,
                    p.report.at < q.report.at, ~(p.place < q.place),
                    p.report \notin c.overtaken, q.report \notin c.lost \cup c.overtaken
             PROVE  q.report \in rest /\ \A s \in d.seen : s.at < q.report.at
  BY DEF Fine
<1>1. p.report \in Report /\ q.report \in Report /\ p.report.at \in Nat /\ q.report.at \in Nat
      /\ r.at \in Nat
  BY DEF Behind, Curve, Point, Report
<1>2. q.report # r
  <2> SUFFICES ASSUME q.report = r PROVE FALSE
    OBVIOUS
  <2>1. p.report.at < r.at
    OBVIOUS
  <2>2. \A x \in after : x.report = r => p.place < x.place
    BY <2>1, <1>1 DEF Behind
  <2>3. QED
    BY <2>2
<1>3. q \in before
  BY <1>2 DEF Behind
<1>4. CASE p.report = r
  <2>1. q.report \in rest /\ \A s \in c.seen : s.at < q.report.at
    BY <1>1, <1>3, <1>4
  <2>2. QED
    BY <1>4, <2>1
<1>5. CASE p.report # r
  <2>1. p \in before
    BY <1>5 DEF Behind
  <2>2. q.report \in wire /\ \A s \in c.seen : s.at < q.report.at
    BY <1>3, <2>1 DEF Fine
  <2>3. r.at < q.report.at
    BY <1>1, <1>2, <2>2
  <2>4. QED
    BY <1>2, <2>2, <2>3
<1>6. QED
  BY <1>4, <1>5

\* A curve in the order of time is fine.
LEMMA InTimeIsFine ==
  ASSUME NEW c, NEW curve, \A p \in curve : p.place = p.report.at, NEW wire
  PROVE  Fine(c, curve, wire)
BY DEF Fine


\* The curve of a card draws no more than it drew and the report.
LEMMA CardTakenIs ==
  ASSUME NEW c, Curve(c), NEW r \in Report
  PROVE  LET k == CardTaken(c, r)
         IN  /\ Curve(k) /\ Drawn(k) \subseteq Drawn(c) \cup {r}
             /\ k = {} \/ k = appendChartPoint(c, r) \/ \A p \in k : p.place = p.report.at
<1> DEFINE a == appendChartPoint(c, r)
           m == mergeChartPoints(a, Drawn(c), r.at - Window)
<1>1. Curve(a) /\ Drawn(a) \subseteq Drawn(c) \cup {r}
  <2>1. Behind(a, c, r)
    BY AppendIsBehind
  <2> HIDE DEF a
  <2>2. QED
    BY <2>1 DEF Behind, Drawn
<1>2. RowsOnce(Drawn(c))
  BY DrawnIsRows
<1>3. /\ Curve(m) /\ Drawn(m) \subseteq Drawn(a) \cup Drawn(c)
      /\ m = a \/ \A p \in m : p.place = p.report.at
  <2> HIDE DEF a
  <2>1. QED
    BY <1>1, <1>2, MergeIs
<1>4. Curve({}) /\ Drawn({}) = {}
  BY FS_EmptySet DEF Curve, Drawn
<1>5. CardTaken(c, r) = IF ~r.card THEN {} ELSE IF client = "phone" THEN m ELSE a
  BY DEF CardTaken
<1> HIDE DEF a, m
<1>6. QED
  BY <1>1, <1>3, <1>4, <1>5 DEF a

\* A page that takes a report of its node still fits.
LEMMA TakenFits ==
  ASSUME NEW c, NEW table, NEW wire, NEW instant \in Nat,
         PageFits(c, table, wire, instant), TableFits(table, wire),
         NEW n \in Node, c.node = {n}, NEW r \in table[n], r.at <= instant,
         NEW rest \in SUBSET wire, wire \subseteq rest \cup {r},
         \A x \in wire : x.of = n /\ x # r /\ x.at <= r.at => x \in c.overtaken,
         \A s \in c.seen : s.at > r.at /\ s.at > instant - Window => r \in c.overtaken,
         \A p \in c.host \cup c.card :
            p.report.of = n /\ p.report.at > r.at =>
              \/ r \in c.overtaken
              \/ p.report \in rest /\ \A s \in c.seen : s.at < p.report.at
  PROVE  PageFits(Taken(c, r), table, rest, instant)
<1> DEFINE t == Taken(c, r)
           h == appendChartPoint(c.host, r)
           k == CardTaken(c.card, r)
           u == {s \in c.seen : s.at > r.at - Window} \cup {r}
<1>1. r \in Report /\ r.of = n /\ r.at \in Nat /\ Window \in Nat
  BY ChartAssumption DEF TableFits, Report, RowsOnce
<1>2. c \in ChartPage /\ Curve(c.host) /\ Curve(c.card)
  BY DEF PageFits
<1>3. Behind(h, c.host, r)
  BY <1>1, <1>2, AppendIsBehind
<1>4. Curve(h) /\ Drawn(h) \subseteq Drawn(c.host) \cup {r}
  <2> HIDE DEF h
  <2>1. QED
    BY <1>3 DEF Behind, Drawn
<1>5. /\ Curve(k) /\ Drawn(k) \subseteq Drawn(c.card) \cup {r}
      /\ k = {} \/ k = appendChartPoint(c.card, r) \/ \A p \in k : p.place = p.report.at
  BY <1>1, <1>2, CardTakenIs
<1>6. t = PageOf(c.node, h, k, c.seeds, u, c.lost, c.overtaken, c.mixed)
  BY <1>2, TakenIs
<1>7. u \in SUBSET Report /\ u \subseteq c.seen \cup {r}
  BY <1>1, <1>2 DEF ChartPage
<1> HIDE DEF t, h, k, u
<1>8. t.node = c.node /\ t.host = h /\ t.card = k /\ t.seeds = c.seeds /\ t.seen = u
      /\ t.lost = c.lost /\ t.overtaken = c.overtaken /\ t.mixed = c.mixed
  BY <1>6 DEF PageOf
<1>9. t \in ChartPage
  BY <1>2, <1>4, <1>5, <1>6, <1>7 DEF ChartPage, Curve, PageOf
<1> DEFINE comes(p) == \/ r \in c.overtaken
                       \/ p.report \in rest /\ \A s \in c.seen : s.at < p.report.at
<1>10. Fine(c, c.host, wire) /\ Fine(c, c.card, wire)
  BY DEF PageFits
<1>11. /\ t.seen \subseteq c.seen \cup {r} /\ c.node = {r.of}
       /\ \A x \in wire : x.of = r.of /\ x # r /\ x.at <= r.at => x \in c.overtaken
       /\ \A p \in c.host : p.report.of = r.of /\ p.report.at > r.at => comes(p)
       /\ \A p \in c.card : p.report.of = r.of /\ p.report.at > r.at => comes(p)
  BY <1>1, <1>7, <1>8
<1>12. Fine(t, h, rest)
  <2>1. TakesBehind(c, t, c.host, h, wire, rest, r)
    BY <1>1, <1>2, <1>3, <1>8, <1>10, <1>11 DEF TakesBehind
  <2>2. QED
    BY <2>1, BehindIsFine
<1>13. Fine(t, k, rest)
  <2>1. CASE k = {}
    BY <2>1 DEF Fine
  <2>2. CASE k = appendChartPoint(c.card, r)
    <3>1. Behind(k, c.card, r)
      BY <1>1, <1>2, <2>2, AppendIsBehind
    <3>2. TakesBehind(c, t, c.card, k, wire, rest, r)
      BY <1>1, <1>2, <1>8, <1>10, <1>11, <3>1 DEF TakesBehind
    <3>3. QED
      BY <3>2, BehindIsFine
  <2>3. CASE \A p \in k : p.place = p.report.at
    BY <2>3, InTimeIsFine
  <2>4. QED
    BY <1>5, <2>1, <2>2, <2>3
<1>14. Requested(t, table, instant)
  BY <1>8 DEF PageFits, Requested
<1>15. \A s \in u : s.of \in c.node /\ s \in table[s.of]
  BY <1>1, <1>7 DEF PageFits
<1>16. \A s \in u, x \in rest : x.of \in c.node /\ x.at < s.at => x \in c.overtaken
  <2> SUFFICES ASSUME NEW s \in u, NEW x \in rest, x.of \in c.node, x.at < s.at
               PROVE  x \in c.overtaken
    OBVIOUS
  <2>1. CASE s \in c.seen
    BY <2>1 DEF PageFits
  <2>2. CASE s = r
    <3>1. x \in wire /\ x.at \in Nat /\ x.of = n
      BY DEF TableFits, Report
    <3>2. x # r /\ x.at <= r.at
      BY <2>2, <3>1, <1>1
    <3>3. QED
      BY <3>1, <3>2
  <2>3. QED
    BY <1>7, <2>1, <2>2
<1>17. \A p \in h \cup k : p.report \in table[p.report.of]
  <2>1. \A s \in Drawn(c.host) \cup Drawn(c.card) : s \in table[s.of]
    BY DEF PageFits, Drawn
  <2>2. \A p \in h \cup k : p.report \in Drawn(h) \cup Drawn(k)
    BY DEF Drawn
  <2>3. QED
    BY <1>1, <1>4, <1>5, <2>1, <2>2
<1>18. \A s \in u : s = r \/ (s \in c.seen /\ s.at > r.at - Window /\ s.at # r.at)
  <2>1. RowsOnce(table[n]) /\ \A s \in u : s \in table[n]
    BY <1>15 DEF TableFits
  <2>2. QED
    BY <2>1 DEF u, RowsOnce
<1>19. \A s \in u : s.at \in Nat
  BY <1>7 DEF Report
<1>20. \A s \in u : s.at > instant - Window => s \in Drawn(h)
  <2> SUFFICES ASSUME NEW s \in u, s.at > instant - Window, s # r PROVE s \in Drawn(h)
    BY <1>3 DEF Behind
  <2>1. s \in c.seen /\ s.at > r.at - Window /\ s.at # r.at
    BY <1>1, <1>18, <1>19
  <2>2. s \in Drawn(c.host)
    BY <2>1 DEF PageFits
  <2>3. QED
    BY <1>3, <2>1, <2>2 DEF Behind
<1>21. client = "web" =>
         \A s \in u : /\ s.at > instant - Window
                      /\ \A x \in u : x.at >= s.at => x.card
                      /\ \A x \in c.overtaken : x.card
                      => s \in Drawn(k)
  <2> SUFFICES ASSUME client = "web", NEW s \in u, s.at > instant - Window,
                      \A x \in u : x.at >= s.at => x.card,
                      \A x \in c.overtaken : x.card
               PROVE  s \in Drawn(k)
    OBVIOUS
  <2>1. r.card
    <3>1. CASE s.at <= r.at
      <4>1. r \in u
        BY DEF u
      <4>2. r.at >= s.at
        BY <3>1, <1>1, <1>19
      <4>3. QED
        BY <4>1, <4>2
    <3>2. CASE s.at > r.at
      <4>1. s # r /\ s \in c.seen
        BY <3>2, <1>1, <1>18
      <4>2. r \in c.overtaken
        BY <3>2, <4>1
      <4>3. QED
        BY <4>2
    <3>3. QED
      BY <3>1, <3>2, <1>1, <1>19
  <2>2. k = appendChartPoint(c.card, r)
    BY <2>1 DEF k, CardTaken
  <2>3. Behind(k, c.card, r)
    BY <1>1, <1>2, <2>2, AppendIsBehind
  <2>4. CASE s = r
    BY <2>3, <2>4 DEF Behind
  <2>5. CASE s # r
    <3>1. s \in c.seen /\ s.at > r.at - Window /\ s.at # r.at
      BY <1>1, <1>18, <1>19, <2>5
    <3>2. \A x \in c.seen : x.at \in Nat
      BY <1>2 DEF ChartPage, Report
    <3>3. \A x \in c.seen : x.at >= s.at => x \in u
      BY <1>1, <1>19, <3>1, <3>2 DEF u
    <3>4. s \in Drawn(c.card)
      BY <3>1, <3>3 DEF PageFits
    <3>5. QED
      BY <2>3, <3>1, <3>4 DEF Behind
  <2>6. QED
    BY <2>4, <2>5
<1>22. ~c.mixed => \A s \in Drawn(h) \cup Drawn(k) : s.of \in c.node
  BY <1>1, <1>4, <1>5 DEF PageFits
<1>23. \A m, o \in t.node : m = o
  BY <1>8
<1>24. QED
  BY <1>4, <1>5, <1>8, <1>9, <1>12, <1>13, <1>14, <1>15, <1>16, <1>17, <1>20, <1>21,
     <1>22, <1>23 DEF PageFits, t


\* A page of which more was overtaken still fits.
LEMMA OvertakenFits ==
  ASSUME NEW c, NEW table, NEW wire, NEW instant, PageFits(c, table, wire, instant),
         NEW more \in SUBSET Report
  PROVE  LET d == [c EXCEPT !.overtaken = c.overtaken \cup more]
         IN  /\ PageFits(d, table, wire, instant)
             /\ d = PageOf(c.node, c.host, c.card, c.seeds, c.seen, c.lost,
                           c.overtaken \cup more, c.mixed)
<1> DEFINE g == c.overtaken \cup more
           d == [c EXCEPT !.overtaken = g]
<1>1. c \in ChartPage
  BY DEF PageFits
<1>2. g \in SUBSET Report
  BY <1>1 DEF ChartPage
<1>3. c.overtaken \subseteq g
  OBVIOUS
<1> HIDE DEF g
<1>4. d = PageOf(c.node, c.host, c.card, c.seeds, c.seen, c.lost, g, c.mixed)
  BY <1>1, OtherRequests
<1> HIDE DEF d
<1>5. d.node = c.node /\ d.host = c.host /\ d.card = c.card /\ d.seeds = c.seeds
      /\ d.seen = c.seen /\ d.lost = c.lost /\ d.overtaken = g /\ d.mixed = c.mixed
  BY <1>4 DEF PageOf
<1>6. d \in ChartPage
  BY <1>1, <1>2, <1>4 DEF ChartPage, PageOf
<1>7. Fine(d, d.host, wire) /\ Fine(d, d.card, wire)
  BY <1>3, <1>5 DEF PageFits, Fine
<1>8. Requested(d, table, instant)
  BY <1>5 DEF PageFits, Requested
<1>9. PageFits(d, table, wire, instant)
  BY <1>3, <1>5, <1>6, <1>7, <1>8 DEF PageFits
<1>10. QED
  BY <1>4, <1>9 DEF d, g

\* A page that takes the latest report of its node, if there is one, still fits.
LEMMA TakenIfAnyFits ==
  ASSUME ChartInv, NEW c, PageFits(c, recent, OnTheWay, clock),
         NEW n \in Node, c.node = {n}, NEW reports \in SUBSET recent[n]
  PROVE  PageFits(TakenIfAny(c, reports), recent, OnTheWay, clock)
<1> DEFINE r == CHOOSE one \in reports : TRUE
           older == {s \in OnTheWay : s.of = r.of /\ s.at < r.at}
           itself == {s \in {r} : \E t \in Drawn(c.host \cup c.card) : t.at > s.at}
           d == [c EXCEPT !.overtaken = c.overtaken \cup (older \cup itself)]
<1>1. CASE reports = {}
  BY <1>1 DEF TakenIfAny
<1>2. CASE reports # {}
  <2>1. r \in reports
    BY <1>2
  <2>2. TakenIfAny(c, reports) = Taken(d, r)
    <3>1. c.overtaken \cup (older \cup itself) = c.overtaken \cup older \cup itself
      OBVIOUS
    <3>2. QED
      BY <1>2, <3>1 DEF TakenIfAny
  <2> HIDE DEF r
  <2>3. clock \in Nat /\ TableFits(recent, OnTheWay) /\ RowsOnce(recent[n])
    BY DEF ChartInv, TableFits
  <2>4. r \in recent[n] /\ r \in Report /\ r.of = n /\ r.at \in Nat /\ r.at <= clock
    BY <2>1, <2>3 DEF ChartInv, TableFits, Report
  <2>5. OnTheWay \in SUBSET Report /\ \A x \in OnTheWay : x \in recent[x.of]
    BY <2>3 DEF TableFits
  <2>6. older \cup itself \in SUBSET Report
    BY <2>4, <2>5
  <2>7. \A x \in OnTheWay : x.of = n /\ x # r /\ x.at <= r.at => x \in older
    BY <2>3, <2>4, <2>5 DEF RowsOnce, Report
  <2>8. \A p \in c.host \cup c.card : p.report.at > r.at => r \in itself
    <3>1. \A p \in c.host \cup c.card : p.report \in Drawn(c.host \cup c.card)
      BY DEF Drawn
    <3>2. QED
      BY <3>1
  <2> HIDE DEF older, itself
  <2>9. PageFits(d, recent, OnTheWay, clock)
        /\ d = PageOf(c.node, c.host, c.card, c.seeds, c.seen, c.lost,
                      c.overtaken \cup (older \cup itself), c.mixed)
    BY <2>6, OvertakenFits
  <2> HIDE DEF d
  <2>10. d.node = {n} /\ d.host = c.host /\ d.card = c.card /\ d.seen = c.seen
         /\ d.overtaken = c.overtaken \cup (older \cup itself)
    BY <2>9 DEF PageOf
  <2>11. \A s \in d.seen : s.at > r.at /\ s.at > clock - Window => r \in d.overtaken
    <3> SUFFICES ASSUME NEW s \in c.seen, s.at > r.at, s.at > clock - Window
                 PROVE  r \in itself
      BY <2>10
    <3>1. s \in Drawn(c.host)
      BY DEF PageFits
    <3>2. PICK p \in c.host : s = p.report
      BY <3>1 DEF Drawn
    <3>3. QED
      BY <2>8, <3>2
  <2>12. \A p \in d.host \cup d.card : p.report.at > r.at => r \in d.overtaken
    BY <2>8, <2>10
  <2>13. \A x \in OnTheWay : x.of = n /\ x # r /\ x.at <= r.at => x \in d.overtaken
    BY <2>7, <2>10
  <2>14. PageFits(Taken(d, r), recent, OnTheWay, clock)
    <3> DEFINE wire == OnTheWay
    <3>1. wire \in SUBSET wire /\ wire \subseteq wire \cup {r}
      OBVIOUS
    <3>2. \A p \in d.host \cup d.card : p.report.of = n /\ p.report.at > r.at =>
            \/ r \in d.overtaken
            \/ p.report \in wire /\ \A s \in d.seen : s.at < p.report.at
      BY <2>12
    <3>3. \A x \in wire : x.of = n /\ x # r /\ x.at <= r.at => x \in d.overtaken
      BY <2>13
    <3>4. PageFits(d, recent, wire, clock) /\ TableFits(recent, wire) /\ d.node = {n}
      BY <2>3, <2>9, <2>10
    <3> HIDE DEF wire
    <3>5. PageFits(Taken(d, r), recent, wire, clock)
      BY <2>3, <2>4, <2>11, <3>1, <3>2, <3>3, <3>4, TakenFits
    <3>6. QED
      BY <3>5 DEF wire
  <2>15. QED
    BY <2>2, <2>14
<1>3. QED
  BY <1>1, <1>2

\* A page with other requests of the table still fits.
LEMMA RequestsFit ==
  ASSUME NEW c, NEW table, NEW wire, NEW instant, PageFits(c, table, wire, instant),
         NEW g \in SUBSET Request,
         \A q \in g : /\ q.rows \subseteq table[q.of] /\ q.asked <= instant
                      /\ ~q.late => q.of \in c.node
  PROVE  LET d == [c EXCEPT !.seeds = g]
         IN  PageFits(d, table, wire, instant) /\ d.node = c.node
<1> DEFINE d == [c EXCEPT !.seeds = g]
<1>1. c \in ChartPage
  BY DEF PageFits
<1>2. d = PageOf(c.node, c.host, c.card, g, c.seen, c.lost, c.overtaken, c.mixed)
  BY <1>1, OtherRequests
<1> HIDE DEF d
<1>3. d.node = c.node /\ d.host = c.host /\ d.card = c.card /\ d.seeds = g /\ d.seen = c.seen
      /\ d.lost = c.lost /\ d.overtaken = c.overtaken /\ d.mixed = c.mixed
  BY <1>2 DEF PageOf
<1>4. d \in ChartPage
  BY <1>1, <1>2 DEF ChartPage, PageOf
<1>5. Fine(d, d.host, wire) /\ Fine(d, d.card, wire)
  BY <1>3 DEF PageFits, Fine
<1>6. Requested(d, table, instant)
  BY <1>3 DEF Requested
<1>7. PageFits(d, table, wire, instant)
  BY <1>3, <1>4, <1>5, <1>6 DEF PageFits
<1>8. QED
  BY <1>3, <1>7 DEF d

\* So does one that is a request shorter.
LEMMA FewerRequests ==
  ASSUME NEW c, NEW table, NEW wire, NEW instant, PageFits(c, table, wire, instant), NEW q
  PROVE  LET d == [c EXCEPT !.seeds = @ \ {q}]
         IN  PageFits(d, table, wire, instant) /\ d.node = c.node
<1> DEFINE g == c.seeds \ {q}
<1>1. g \in SUBSET Request
  BY DEF PageFits, ChartPage
<1>2. \A x \in g : /\ x.rows \subseteq table[x.of] /\ x.asked <= instant
                   /\ ~x.late => x.of \in c.node
  BY DEF PageFits, Requested
<1> HIDE DEF g
<1>3. LET d == [c EXCEPT !.seeds = g]
      IN  PageFits(d, table, wire, instant) /\ d.node = c.node
  BY <1>1, <1>2, RequestsFit
<1>4. QED
  BY <1>3 DEF g

\* A merge with rows of the table.
LEMMA MergedFits ==
  ASSUME NEW c, NEW curve, Curve(curve), NEW t, RowsOnce(t), NEW cutoff, NEW wire,
         Fine(c, curve, wire)
  PROVE  LET m == mergeChartPoints(curve, t, cutoff)
         IN  /\ Curve(m) /\ Drawn(m) \subseteq Drawn(curve) \cup t
             /\ \A r \in Drawn(curve) : r.at > cutoff => r \in Drawn(m)
             /\ Fine(c, m, wire)
<1> DEFINE m == mergeChartPoints(curve, t, cutoff)
<1>1. /\ Curve(m) /\ Drawn(m) \subseteq Drawn(curve) \cup t
      /\ \A r \in Drawn(curve) : r.at > cutoff => r \in Drawn(m)
      /\ m = curve \/ \A p \in m : p.place = p.report.at
  BY MergeIs
<1> HIDE DEF m
<1>2. Fine(c, m, wire)
  <2>1. CASE m = curve
    BY <2>1
  <2>2. CASE \A p \in m : p.place = p.report.at
    BY <2>2, InTimeIsFine
  <2>3. QED
    BY <1>1, <2>1, <2>2
<1>3. QED
  BY <1>1, <1>2 DEF m

\* A page that takes an answer still fits.
LEMMA SeededFits ==
  ASSUME NEW c, NEW table, NEW wire, clock \in Nat, PageFits(c, table, wire, clock),
         TableFits(table, wire), NEW q \in Request, q.rows \subseteq table[q.of],
         q.asked <= clock, ~q.late => q.of \in c.node
  PROVE  PageFits(Seeded(c, q), table, wire, clock)
<1> DEFINE cutoff == IF client = "phone" THEN q.asked - Window ELSE clock - Window
           rows == Seed(q, q.rows)
           cards == Seed(q, {r \in q.rows : r.card})
           h == mergeChartPoints(c.host, rows, cutoff)
           both == mergeChartPoints(c.card, cards, cutoff)
           k == IF client = "phone" THEN InTime(cards) ELSE both
           late == c.mixed \/ q.late
           d == Seeded(c, q)
<1>1. q.of \in Node /\ q.asked \in Nat /\ q.late \in BOOLEAN /\ Window \in Nat
  BY ChartAssumption DEF Request
<1>2. c \in ChartPage /\ Curve(c.host) /\ Curve(c.card)
      /\ Fine(c, c.host, wire) /\ Fine(c, c.card, wire)
  BY DEF PageFits
<1>3. RowsOnce(table[q.of]) /\ \A r \in table[q.of] : r.of = q.of /\ r.at \in Nat
  BY <1>1 DEF TableFits, Report, RowsOnce
<1>4. rows \subseteq q.rows /\ cards \subseteq q.rows
  BY DEF Seed
<1>5. RowsOnce(rows) /\ RowsOnce(cards)
  BY <1>3, <1>4, PartIsRows
<1>6. \A s \in c.seen : s.at \in Nat
  BY <1>2 DEF ChartPage, Report
<1>7. \A s \in c.seen : s.at > clock - Window => s.at > cutoff
  BY <1>1, <1>6
<1> HIDE DEF cutoff, rows, cards
<1>8. /\ Curve(h) /\ Drawn(h) \subseteq Drawn(c.host) \cup rows
      /\ \A r \in Drawn(c.host) : r.at > cutoff => r \in Drawn(h)
      /\ Fine(c, h, wire)
  BY <1>2, <1>5, MergedFits
<1>9. /\ Curve(both) /\ Drawn(both) \subseteq Drawn(c.card) \cup cards
      /\ \A r \in Drawn(c.card) : r.at > cutoff => r \in Drawn(both)
      /\ Fine(c, both, wire)
  BY <1>2, <1>5, MergedFits
<1>10. Curve(InTime(cards)) /\ Drawn(InTime(cards)) = cards /\ Fine(c, InTime(cards), wire)
  BY <1>5, InTimeIs, InTimeIsFine
<1> HIDE DEF both
<1>11. /\ Curve(k) /\ Drawn(k) \subseteq Drawn(c.card) \cup cards /\ Fine(c, k, wire)
       /\ client = "web" => \A r \in Drawn(c.card) : r.at > cutoff => r \in Drawn(k)
  BY <1>9, <1>10
<1>12. d = [c EXCEPT !.host = h, !.card = k, !.mixed = late]
  BY DEF Seeded, cutoff, rows, cards, both
<1> HIDE DEF h, k, d, late
<1>13. late \in BOOLEAN
  BY <1>1, <1>2 DEF late, ChartPage
<1>14. d.node = c.node /\ d.host = h /\ d.card = k /\ d.seeds = c.seeds /\ d.seen = c.seen
       /\ d.lost = c.lost /\ d.overtaken = c.overtaken /\ d.mixed = late
  <2>1. DOMAIN c = {"node", "host", "card", "seeds", "seen", "lost", "overtaken", "mixed"}
    BY <1>2 DEF ChartPage
  <2>2. QED
    BY <1>12, <2>1
<1>15. h \in SUBSET Point /\ k \in SUBSET Point
  BY <1>8, <1>11 DEF Curve
<1>16. d \in ChartPage
  BY <1>2, <1>12, <1>13, <1>15 DEF ChartPage
<1>17. Fine(d, h, wire) /\ Fine(d, k, wire)
  BY <1>8, <1>11, <1>14 DEF Fine
<1>18. Requested(d, table, clock)
  BY <1>14 DEF PageFits, Requested
<1>19. \A p \in h \cup k : p.report \in table[p.report.of]
  <2>1. \A s \in Drawn(c.host) \cup Drawn(c.card) : s \in table[s.of]
    BY DEF PageFits, Drawn
  <2>2. \A s \in rows \cup cards : s \in table[s.of]
    BY <1>3, <1>4
  <2>3. \A p \in h \cup k : p.report \in Drawn(h) \cup Drawn(k)
    BY DEF Drawn
  <2>4. QED
    BY <1>8, <1>11, <2>1, <2>2, <2>3
<1>20. \A s \in c.seen : s.at > clock - Window => s \in Drawn(h)
  BY <1>7, <1>8 DEF PageFits
<1>21. client = "web" =>
         \A s \in c.seen : /\ s.at > clock - Window
                           /\ \A x \in c.seen : x.at >= s.at => x.card
                           /\ \A x \in c.overtaken : x.card
                           => s \in Drawn(k)
  BY <1>7, <1>11 DEF PageFits
<1>22. ~late => \A s \in Drawn(h) \cup Drawn(k) : s.of \in c.node
  <2> SUFFICES ASSUME ~late PROVE \A s \in Drawn(h) \cup Drawn(k) : s.of \in c.node
    OBVIOUS
  <2>1. ~c.mixed /\ q.of \in c.node
    BY DEF late
  <2>2. \A s \in Drawn(c.host) \cup Drawn(c.card) : s.of \in c.node
    BY <2>1 DEF PageFits
  <2>3. \A s \in rows \cup cards : s.of \in c.node
    BY <1>3, <1>4, <2>1
  <2>4. QED
    BY <1>8, <1>11, <2>2, <2>3
<1>23. PageFits(d, table, wire, clock)
  BY <1>8, <1>11, <1>14, <1>16, <1>17, <1>18, <1>19, <1>20, <1>21, <1>22 DEF PageFits
<1>24. QED
  BY <1>23 DEF d

\* Time passes.
LEMMA LaterFits ==
  ASSUME NEW c, NEW table, NEW wire, NEW instant \in Nat, PageFits(c, table, wire, instant)
  PROVE  PageFits(c, table, wire, instant + 1)
<1> DEFINE next == instant + 1
<1>1. \A s \in c.seen : s.at \in Nat /\ (s.at > next - Window => s.at > instant - Window)
  BY ChartAssumption DEF PageFits, ChartPage, Report
<1> HIDE DEF next
<1>2. Requested(c, table, next)
  <2>1. \A q \in c.seeds : q.asked \in Nat
    BY DEF PageFits, ChartPage, Request
  <2>2. QED
    BY <2>1 DEF PageFits, Requested, next
<1>3. \A s \in c.seen : s.at > next - Window => s \in Drawn(c.host)
  BY <1>1 DEF PageFits
<1>4. client = "web" =>
        \A s \in c.seen : /\ s.at > next - Window
                          /\ \A x \in c.seen : x.at >= s.at => x.card
                          /\ \A x \in c.overtaken : x.card
                          => s \in Drawn(c.card)
  BY <1>1 DEF PageFits
<1>5. PageFits(c, table, wire, next)
  BY <1>2, <1>3, <1>4 DEF PageFits
<1>6. QED
  BY <1>5 DEF next

\* A report is stored and sent.
LEMMA StoredFits ==
  ASSUME NEW c, NEW table, NEW wire, NEW instant \in Nat, PageFits(c, table, wire, instant),
         TableFits(table, wire), NEW r \in Report, r.at = instant,
         \A x \in table[r.of] : x.at < instant
  PROVE  LET bigger == [table EXCEPT ![r.of] = @ \cup {r}]
         IN  TableFits(bigger, wire \cup {r}) /\ PageFits(c, bigger, wire \cup {r}, instant)
<1> DEFINE bigger == [table EXCEPT ![r.of] = @ \cup {r}]
<1>1. r.of \in Node /\ table \in [Node -> SUBSET Report]
  BY DEF TableFits, Report
<1>2. /\ bigger \in [Node -> SUBSET Report] /\ bigger[r.of] = table[r.of] \cup {r}
      /\ \A n \in Node : /\ table[n] \subseteq bigger[n]
                         /\ n # r.of => bigger[n] = table[n]
  BY <1>1
<1> HIDE DEF bigger
<1>3. RowsOnce(table[r.of] \cup {r})
  <2>1. IsFiniteSet(table[r.of] \cup {r})
    BY <1>1, FS_Singleton, FS_Union DEF TableFits, RowsOnce
  <2>2. QED
    BY <1>1, <2>1 DEF TableFits, RowsOnce
<1>4. \A n \in Node : RowsOnce(bigger[n]) /\ \A x \in bigger[n] : x.of = n
  BY <1>1, <1>2, <1>3 DEF TableFits
<1>5. \A y \in wire \cup {r} : /\ y \in bigger[y.of]
                               /\ \A x \in bigger[y.of] : x.at > y.at => x \in wire \cup {r}
  <2>1. \A y \in wire : y.of \in Node /\ y \in table[y.of]
    BY DEF TableFits, Report
  <2>2. \A x \in bigger[r.of] : ~(x.at > r.at)
    BY <1>1, <1>2 DEF Report
  <2>3. QED
    BY <1>1, <1>2, <2>1, <2>2 DEF TableFits
<1>6. TableFits(bigger, wire \cup {r})
  BY <1>2, <1>4, <1>5 DEF TableFits
<1>7. c \in ChartPage /\ c.node \in SUBSET Node
  BY DEF PageFits, ChartPage
<1>8. Requested(c, bigger, instant)
  BY <1>2, <1>7 DEF PageFits, Requested, ChartPage, Request
<1>9. \A s \in c.seen : s.of \in Node /\ s \in table[s.of] /\ s \in bigger[s.of]
  BY <1>2, <1>7 DEF PageFits
<1>10. \A m, n \in c.node : m = n
  BY DEF PageFits
<1>11. \A s \in c.seen, x \in wire \cup {r} :
         x.of \in c.node /\ x.at < s.at => x \in c.overtaken
  <2>1. \A s \in c.seen : r.of \in c.node => s.at < r.at
    BY <1>9, <1>10 DEF PageFits
  <2>2. r.at \in Nat /\ \A s \in c.seen : s.at \in Nat
    BY <1>7 DEF ChartPage, Report
  <2>3. QED
    BY <2>1, <2>2 DEF PageFits
<1>12. \A p \in c.host \cup c.card : p.report \in bigger[p.report.of]
  <2>1. \A p \in c.host \cup c.card : p.report.of \in Node
    BY <1>7 DEF ChartPage, Point, Report
  <2>2. QED
    BY <1>2, <2>1 DEF PageFits
<1>13. Fine(c, c.host, wire \cup {r}) /\ Fine(c, c.card, wire \cup {r})
  BY DEF PageFits, Fine
<1>14. PageFits(c, bigger, wire \cup {r}, instant)
  BY <1>8, <1>9, <1>11, <1>12, <1>13 DEF PageFits
<1>15. QED
  BY <1>6, <1>14 DEF bigger


\* The page of a node that is shown fits, whatever was asked for before.
LEMMA ShownFits ==
  ASSUME ChartInv, NEW c \in ChartPage, NEW n \in Node,
         \A q \in c.seeds : q.rows \subseteq recent[q.of] /\ q.asked <= clock
  PROVE  PageFits(Shown(c, n), recent, OnTheWay, clock)
<1> DEFINE asked == [of |-> n, late |-> FALSE, asked |-> clock, served |-> FALSE, rows |-> {}]
           late == {[q EXCEPT !.late = TRUE] : q \in c.seeds}
           g == late \cup {asked}
           fresh == Reset(c, n)
           next == [fresh EXCEPT !.seeds = g]
<1>1. clock \in Nat /\ TableFits(recent, OnTheWay)
  BY DEF ChartInv
<1>2. \A q \in late : q \in Request /\ q.rows \subseteq recent[q.of] /\ q.asked <= clock /\ q.late
  <2> SUFFICES ASSUME NEW q \in c.seeds
               PROVE  LET x == [q EXCEPT !.late = TRUE]
                      IN  /\ x \in Request /\ x.rows \subseteq recent[x.of]
                          /\ x.asked <= clock /\ x.late
    OBVIOUS
  <2>1. q \in Request
    BY DEF ChartPage
  <2>2. QED
    BY <2>1 DEF Request
<1>3. asked \in Request /\ asked.rows = {} /\ asked.asked = clock /\ asked.of = n
  BY <1>1 DEF Request
<1>4. /\ fresh \in ChartPage /\ fresh.node = {n} /\ fresh.host = {} /\ fresh.card = {}
      /\ fresh.seeds = c.seeds /\ fresh.seen = {} /\ fresh.lost = {}
      /\ fresh.overtaken = {} /\ ~fresh.mixed
  BY DEF Reset, NoCharts, ChartPage
<1> HIDE DEF fresh, g
<1>5. Shown(c, n) = TakenIfAny(next, newest[n])
  BY <1>4 DEF Shown, fresh, g, late, asked
<1>6. next.node = {n} /\ next.host = {} /\ next.card = {} /\ next.seeds = g
      /\ next.seen = {} /\ next.lost = {} /\ next.overtaken = {} /\ ~next.mixed
  BY <1>4 DEF ChartPage
<1> HIDE DEF asked, late
<1>7. next \in ChartPage
  <2>1. g \in SUBSET Request
    BY <1>2, <1>3 DEF g
  <2>2. QED
    BY <1>4, <2>1 DEF ChartPage
<1> HIDE DEF next
<1>8. Requested(next, recent, clock)
  BY <1>1, <1>2, <1>3, <1>6 DEF Requested, g
<1>9. Curve({}) /\ Drawn({}) = {}
  BY FS_EmptySet DEF Curve, Drawn
<1>10. PageFits(next, recent, OnTheWay, clock)
  BY <1>6, <1>7, <1>8, <1>9 DEF PageFits, Fine
<1>11. newest[n] \in SUBSET recent[n]
  BY DEF ChartInv, OverviewFits
<1>12. PageFits(TakenIfAny(next, newest[n]), recent, OnTheWay, clock)
  BY <1>6, <1>10, <1>11, TakenIfAnyFits
<1>13. QED
  BY <1>5, <1>12

-----------------------------------------------------------------------------
(* The steps. *)

\* A chart page that is closed fits.
LEMMA NoChartsFits ==
  ASSUME NEW table, NEW wire, NEW instant
  PROVE  PageFits(NoCharts, table, wire, instant) /\ NoCharts \in ChartPage /\ NoCharts.seeds = {}
<1>1. Curve({}) /\ Drawn({}) = {}
  BY FS_EmptySet DEF Curve, Drawn
<1>2. NoCharts \in ChartPage
  BY DEF NoCharts, ChartPage
<1>3. NoCharts.node = {} /\ NoCharts.host = {} /\ NoCharts.card = {} /\ NoCharts.seeds = {}
      /\ NoCharts.seen = {} /\ NoCharts.lost = {} /\ NoCharts.overtaken = {}
  BY DEF NoCharts
<1>4. QED
  BY <1>1, <1>2, <1>3 DEF PageFits, Fine, Requested

\* The wire is a set of reports.
LEMMA WireIs ==
  ASSUME ChartInv
  PROVE  OnTheWay \in SUBSET Report /\ \A x \in OnTheWay : x \in recent[x.of] /\ x.of \in Node
BY DEF ChartInv, TableFits, Report

\* The invariant holds at first.
LEMMA ChartInitInv ==
  ChartInit => ChartInv
<1> SUFFICES ASSUME ChartInit PROVE ChartInv
  OBVIOUS
<1> USE DEF ChartInit
<1>1. OnTheWay = {}
  BY DEF OnTheWay
<1>2. TableFits(recent, OnTheWay)
  BY <1>1, FS_EmptySet DEF TableFits, RowsOnce
<1>3. PageFits(charts, recent, OnTheWay, clock)
  BY NoChartsFits
<1>4. OverviewFits(newest, recent)
  BY DEF OverviewFits
<1>5. QED
  BY <1>1, <1>2, <1>3, <1>4 DEF ChartInv

\* Steps that change the page and what is known of the latest reports.
LEMMA LatestStepInv ==
  ASSUME ChartInv, UNCHANGED <<client, clock, recent, liveWire>>,
         OverviewFits(newest', recent), \A got \in overviews' : OverviewFits(got, recent),
         PageFits(charts', recent, OnTheWay, clock)
  PROVE  ChartInv'
<1>1. OnTheWay' = OnTheWay
  BY DEF OnTheWay
<1>2. PageFits(charts, recent, OnTheWay, clock)'
  BY <1>1 DEF PageFits, Requested, Fine
<1>3. TableFits(recent, OnTheWay)'
  BY <1>1 DEF ChartInv, TableFits
<1>4. OverviewFits(newest, recent)' /\ \A got \in overviews' : OverviewFits(got, recent')
  BY DEF OverviewFits
<1>5. QED
  BY <1>1, <1>2, <1>3, <1>4 DEF ChartInv, OverviewFits

\* Steps that change the page only.
LEMMA PageStepInv ==
  ASSUME ChartInv, UNCHANGED <<client, clock, recent, liveWire, overviews, newest>>,
         PageFits(charts', recent, OnTheWay, clock)
  PROVE  ChartInv'
<1>1. OverviewFits(newest', recent) /\ \A got \in overviews' : OverviewFits(got, recent)
  BY DEF ChartInv
<1>2. QED
  BY <1>1, LatestStepInv

\* Time passes.
LEMMA LaterInv ==
  ASSUME ChartInv, Later
  PROVE  ChartInv'
<1>1. OnTheWay' = OnTheWay /\ clock' = clock + 1 /\ clock' \in Nat
  BY DEF Later, OnTheWay, ChartInv
<1>2. PageFits(charts, recent, OnTheWay, clock + 1)
  BY LaterFits DEF ChartInv
<1>3. PageFits(charts, recent, OnTheWay, clock)'
  <2>1. charts' = charts /\ recent' = recent /\ client' = client
    BY DEF Later
  <2>2. QED
    BY <1>1, <1>2, <2>1 DEF PageFits, Requested, Fine
<1>4. TableFits(recent, OnTheWay)'
  BY <1>1 DEF ChartInv, TableFits, Later
<1>5. \A n \in Node : \A r \in recent[n] : r.at <= clock'
  BY <1>1 DEF ChartInv, TableFits, Report
<1>6. QED
  BY <1>1, <1>3, <1>4, <1>5 DEF ChartInv, Later, OverviewFits

\* A report is stored and sent.
LEMMA ReportComesInv ==
  ASSUME ChartInv, NEW n \in Node, NEW card \in BOOLEAN, ReportComes(n, card)
  PROVE  ChartInv'
<1> DEFINE r == [of |-> n, at |-> clock, card |-> card]
<1>1. clock \in Nat /\ TableFits(recent, OnTheWay) /\ liveWire \in Seq(Report)
  BY DEF ChartInv
<1>2. r \in Report /\ r.of = n /\ r.at = clock
  BY <1>1 DEF Report
<1> HIDE DEF r
<1>3. /\ recent' = [recent EXCEPT ![n] = @ \cup {r}] /\ liveWire' = Append(liveWire, r)
      /\ \A x \in recent[n] : x.at < clock
      /\ UNCHANGED <<client, clock, overviews, newest, charts>>
  BY DEF ReportComes, r
<1>4. /\ DOMAIN liveWire = 1..Len(liveWire) /\ Len(liveWire) \in Nat
      /\ DOMAIN liveWire' = 1..(Len(liveWire) + 1)
      /\ \A i \in 1..Len(liveWire) : liveWire'[i] = liveWire[i]
      /\ liveWire'[Len(liveWire) + 1] = r
      /\ liveWire' \in Seq(Report)
  BY <1>1, <1>2, <1>3
<1>5. OnTheWay' = OnTheWay \cup {r}
  BY <1>4 DEF OnTheWay
<1>6. TableFits(recent', OnTheWay') /\ PageFits(charts, recent', OnTheWay', clock)
  BY <1>1, <1>2, <1>3, <1>5, StoredFits DEF ChartInv
<1>7. TableFits(recent, OnTheWay)'
  BY <1>6 DEF TableFits
<1>8. PageFits(charts, recent, OnTheWay, clock)'
  BY <1>3, <1>6 DEF PageFits, Requested, Fine
<1>9. /\ recent' \in [Node -> SUBSET Report]
      /\ \A m \in Node : recent[m] \subseteq recent'[m]
      /\ \A m \in Node : \A x \in recent'[m] : x \in recent[m] \/ x = r
  BY <1>1, <1>2, <1>3 DEF TableFits
<1>10. \A m \in Node : \A x \in recent'[m] : x.at <= clock'
  BY <1>1, <1>2, <1>3, <1>9 DEF ChartInv
<1>11. \A x \in OnTheWay : x.of = n => x.at < clock
  BY <1>1, <1>3 DEF TableFits
<1>12. \A i, j \in DOMAIN liveWire' :
         i < j /\ liveWire'[i].of = liveWire'[j].of => liveWire'[i].at < liveWire'[j].at
  <2> SUFFICES ASSUME NEW i \in DOMAIN liveWire', NEW j \in DOMAIN liveWire', i < j,
                      liveWire'[i].of = liveWire'[j].of
               PROVE  liveWire'[i].at < liveWire'[j].at
    OBVIOUS
  <2>1. i \in DOMAIN liveWire /\ liveWire'[i] = liveWire[i]
    BY <1>4
  <2>2. CASE j = Len(liveWire) + 1
    <3>1. liveWire[i] \in OnTheWay
      BY <2>1 DEF OnTheWay
    <3>2. QED
      BY <1>2, <1>4, <1>11, <2>1, <2>2, <3>1
  <2>3. CASE j # Len(liveWire) + 1
    <3>1. j \in DOMAIN liveWire /\ liveWire'[j] = liveWire[j]
      BY <1>4, <2>3
    <3>2. QED
      BY <2>1, <3>1 DEF ChartInv
  <2>4. QED
    BY <2>2, <2>3
<1>13. \A got : OverviewFits(got, recent) => OverviewFits(got, recent')
  BY <1>9 DEF OverviewFits
<1>14. OverviewFits(newest, recent)' /\ \A got \in overviews' : OverviewFits(got, recent')
  <2>1. OverviewFits(newest, recent') /\ \A got \in overviews : OverviewFits(got, recent')
    BY <1>13 DEF ChartInv
  <2>2. QED
    BY <1>3, <2>1 DEF OverviewFits
<1>15. QED
  BY <1>3, <1>4, <1>7, <1>8, <1>10, <1>12, <1>14 DEF ChartInv, OverviewFits

\* A report arrives.
LEMMA LiveReportInv ==
  ASSUME ChartInv, LiveReport
  PROVE  ChartInv'
<1> DEFINE r == Head(liveWire)
           rest == OnTheWay \ {r}
<1>1. clock \in Nat /\ TableFits(recent, OnTheWay) /\ liveWire \in Seq(Report) /\ liveWire # <<>>
  BY DEF ChartInv, LiveReport
<1>2. /\ r = liveWire[1] /\ DOMAIN liveWire = 1..Len(liveWire) /\ Len(liveWire) \in Nat \ {0}
      /\ liveWire' = Tail(liveWire) /\ DOMAIN liveWire' = 1..(Len(liveWire) - 1)
      /\ \A i \in DOMAIN liveWire' : i + 1 \in DOMAIN liveWire /\ liveWire'[i] = liveWire[i + 1]
      /\ liveWire' \in Seq(Report)
  BY <1>1 DEF LiveReport
<1>3. /\ newest' = [newest EXCEPT ![r.of] = {r}]
      /\ charts' = IF charts.node = {r.of} THEN Taken(charts, r) ELSE charts
      /\ UNCHANGED <<client, clock, recent, overviews>>
  BY DEF LiveReport
<1> HIDE DEF r
<1>4. r \in OnTheWay /\ r \in Report /\ r.of \in Node /\ r \in recent[r.of]
  <2>1. r \in OnTheWay
    BY <1>2 DEF OnTheWay
  <2>2. QED
    BY <2>1, WireIs
<1>5. \A i \in DOMAIN liveWire : i > 1 /\ liveWire[i].of = r.of => r.at < liveWire[i].at
  BY <1>2 DEF ChartInv
<1>6. \A i \in DOMAIN liveWire : liveWire[i] \in Report
  BY <1>1
<1>7. OnTheWay' = rest
  <2>1. \A i \in DOMAIN liveWire' : liveWire'[i] \in OnTheWay /\ liveWire'[i] # r
    <3> SUFFICES ASSUME NEW i \in DOMAIN liveWire'
                 PROVE  liveWire'[i] \in OnTheWay /\ liveWire'[i] # r
      OBVIOUS
    <3>1. i + 1 \in DOMAIN liveWire /\ i + 1 > 1 /\ liveWire'[i] = liveWire[i + 1]
      BY <1>2
    <3>2. liveWire[i + 1] # r
      BY <1>4, <1>5, <3>1 DEF Report
    <3>3. QED
      BY <3>1, <3>2 DEF OnTheWay
  <2>2. \A x \in rest : \E i \in DOMAIN liveWire' : x = liveWire'[i]
    <3> SUFFICES ASSUME NEW x \in rest PROVE \E i \in DOMAIN liveWire' : x = liveWire'[i]
      OBVIOUS
    <3>1. PICK j \in DOMAIN liveWire : x = liveWire[j]
      BY DEF OnTheWay
    <3>2. j # 1
      BY <1>2, <3>1
    <3>3. j - 1 \in DOMAIN liveWire' /\ (j - 1) + 1 = j
      BY <1>2, <3>2
    <3>4. QED
      BY <1>2, <3>1, <3>3
  <2>3. QED
    BY <2>1, <2>2 DEF OnTheWay
<1>8. \A x \in rest : x.of = r.of => r.at < x.at
  <2> SUFFICES ASSUME NEW x \in rest, x.of = r.of PROVE r.at < x.at
    OBVIOUS
  <2>1. PICK j \in DOMAIN liveWire : x = liveWire[j]
    BY DEF OnTheWay
  <2>2. j > 1
    BY <1>2, <2>1
  <2>3. QED
    BY <1>5, <2>1, <2>2
<1>9. \A x \in rest : x \in recent[x.of] /\ x \in OnTheWay /\ x.at \in Nat
  BY WireIs DEF Report
<1>10. TableFits(recent, rest)
  <2> SUFFICES ASSUME NEW y \in rest, NEW x \in recent[y.of], x.at > y.at PROVE x \in rest
    BY <1>1, <1>9 DEF TableFits
  <2>1. x \in OnTheWay /\ x.of = y.of /\ x.at \in Nat
    BY <1>1, <1>9, WireIs DEF TableFits, Report
  <2>2. x # r
    BY <1>4, <1>8, <1>9, <2>1 DEF Report
  <2>3. QED
    BY <2>1, <2>2
<1>11. PageFits(charts', recent, rest, clock)
  <2>1. CASE charts.node = {r.of}
    <3>1. \A x \in OnTheWay : x.of = r.of /\ x # r => r.at < x.at
      BY <1>8
    <3>2. \A x \in OnTheWay : x.of = r.of /\ x # r /\ x.at <= r.at => x \in charts.overtaken
      BY <1>4, <3>1, WireIs DEF Report
    <3>3. \A s \in charts.seen : s.at > r.at => r \in charts.overtaken
      BY <1>4, <2>1 DEF ChartInv, PageFits
    <3>4. \A p \in charts.host \cup charts.card :
            p.report.of = r.of /\ p.report.at > r.at =>
              \/ r \in charts.overtaken
              \/ p.report \in rest /\ \A s \in charts.seen : s.at < p.report.at
      <4> SUFFICES ASSUME NEW p \in charts.host \cup charts.card, p.report.of = r.of,
                          p.report.at > r.at, r \notin charts.overtaken
                   PROVE  p.report \in rest /\ \A s \in charts.seen : s.at < p.report.at
        OBVIOUS
      <4>1. p.report \in recent[r.of]
        BY DEF ChartInv, PageFits
      <4>2. p.report \in OnTheWay /\ p.report \in Report
        BY <1>1, <1>4, <4>1 DEF TableFits
      <4>3. p.report # r
        BY <1>4 DEF Report
      <4>4. \A s \in charts.seen : s \in Report /\ ~(s.at > r.at)
        BY <3>3 DEF ChartInv, PageFits, ChartPage
      <4>5. QED
        BY <1>4, <4>2, <4>3, <4>4 DEF Report
    <3>5. PageFits(Taken(charts, r), recent, rest, clock)
      <4>1. PageFits(charts, recent, OnTheWay, clock) /\ r.at <= clock
        BY <1>4 DEF ChartInv
      <4>2. rest \in SUBSET OnTheWay /\ OnTheWay \subseteq rest \cup {r}
        OBVIOUS
      <4> HIDE DEF rest
      <4>3. QED
        BY <1>1, <1>4, <2>1, <3>2, <3>3, <3>4, <4>1, <4>2, TakenFits
    <3>6. QED
      BY <1>3, <2>1, <3>5
  <2>2. CASE charts.node # {r.of}
    <3>1. r.of \notin charts.node
      BY <2>2 DEF ChartInv, PageFits
    <3>2. charts' = charts
      BY <1>3, <2>2
    <3>3. Fine(charts, charts.host, rest) /\ Fine(charts, charts.card, rest)
      BY <3>1 DEF ChartInv, PageFits, Fine
    <3>4. QED
      BY <3>2, <3>3 DEF ChartInv, PageFits
  <2>3. QED
    BY <2>1, <2>2
<1> HIDE DEF rest
<1>12. PageFits(charts, recent, OnTheWay, clock)'
  BY <1>3, <1>7, <1>11 DEF PageFits, Requested, Fine
<1>13. TableFits(recent, OnTheWay)'
  BY <1>3, <1>7, <1>10 DEF TableFits
<1>14. \A i, j \in DOMAIN liveWire' :
         i < j /\ liveWire'[i].of = liveWire'[j].of => liveWire'[i].at < liveWire'[j].at
  <2> SUFFICES ASSUME NEW i \in DOMAIN liveWire', NEW j \in DOMAIN liveWire', i < j,
                      liveWire'[i].of = liveWire'[j].of
               PROVE  liveWire'[i].at < liveWire'[j].at
    OBVIOUS
  <2>1. i + 1 \in DOMAIN liveWire /\ j + 1 \in DOMAIN liveWire /\ i + 1 < j + 1
        /\ liveWire'[i] = liveWire[i + 1] /\ liveWire'[j] = liveWire[j + 1]
    BY <1>2
  <2>2. QED
    BY <2>1 DEF ChartInv
<1>15. OverviewFits(newest, recent)'
  <2>1. /\ newest' \in [Node -> SUBSET Report] /\ newest'[r.of] = {r}
        /\ \A n \in Node : n # r.of => newest'[n] = newest[n]
    BY <1>3, <1>4 DEF ChartInv, OverviewFits
  <2>2. \A n \in Node : newest'[n] \subseteq recent[n]
    BY <1>4, <2>1 DEF ChartInv, OverviewFits
  <2>3. QED
    BY <1>3, <2>1, <2>2 DEF OverviewFits
<1>16. \A got \in overviews' : OverviewFits(got, recent')
  BY <1>3 DEF ChartInv
<1>17. QED
  BY <1>2, <1>3, <1>7, <1>12, <1>13, <1>14, <1>15, <1>16 DEF ChartInv, OverviewFits

\* The socket breaks.
LEMMA SocketBreaksInv ==
  ASSUME ChartInv, SocketBreaks
  PROVE  ChartInv'
<1> DEFINE gone == charts.lost \cup {r \in OnTheWay : r.of \in charts.node}
           d == [charts EXCEPT !.lost = gone]
<1>1. charts' = d
  BY DEF SocketBreaks, OnTheWay
<1>2. charts \in ChartPage
  BY DEF ChartInv, PageFits
<1>3. d = PageOf(charts.node, charts.host, charts.card, charts.seeds, charts.seen, gone,
                 charts.overtaken, charts.mixed)
  BY <1>2, OtherRequests
<1>4. gone \in SUBSET Report
  BY <1>2, WireIs DEF ChartPage
<1> HIDE DEF d, gone
<1>5. d.node = charts.node /\ d.host = charts.host /\ d.card = charts.card
      /\ d.seeds = charts.seeds /\ d.seen = charts.seen /\ d.lost = gone
      /\ d.overtaken = charts.overtaken /\ d.mixed = charts.mixed
  BY <1>3 DEF PageOf
<1>6. d \in ChartPage
  BY <1>2, <1>3, <1>4 DEF ChartPage, PageOf
<1>7. OnTheWay' = {}
  BY DEF SocketBreaks, OnTheWay
<1>8. Fine(d, d.host, {}) /\ Fine(d, d.card, {})
  BY <1>5 DEF ChartInv, PageFits, Fine, gone
<1>9. Requested(d, recent, clock)
  BY <1>5 DEF ChartInv, PageFits, Requested
<1>10. PageFits(d, recent, {}, clock)
  BY <1>5, <1>6, <1>8, <1>9 DEF ChartInv, PageFits
<1>11. PageFits(charts, recent, OnTheWay, clock)'
  BY <1>1, <1>7, <1>10 DEF PageFits, Requested, Fine, SocketBreaks
<1>12. TableFits(recent, OnTheWay)'
  BY <1>7 DEF ChartInv, TableFits, SocketBreaks
<1>13. QED
  BY <1>7, <1>11, <1>12 DEF ChartInv, SocketBreaks, OverviewFits

\* The latest reports are asked for, come or do not come.
LEMMA OverviewInv ==
  ASSUME ChartInv,
         OverviewServed \/ \E got \in overviews : OverviewArrives(got) \/ OverviewFails(got)
  PROVE  ChartInv'
<1>1. OverviewFits(newest, recent) /\ (\A got \in overviews : OverviewFits(got, recent))
      /\ PageFits(charts, recent, OnTheWay, clock) /\ TableFits(recent, OnTheWay)
  BY DEF ChartInv
<1>2. CASE OverviewServed
  <2> DEFINE served == [n \in Node |-> {r \in recent[n] : \A s \in recent[n] : s.at <= r.at}]
  <2>1. OverviewFits(served, recent)
    BY <1>1 DEF OverviewFits, TableFits
  <2>2. overviews' = overviews \cup {served}
    BY <1>2 DEF OverviewServed
  <2> HIDE DEF served
  <2>3. QED
    BY <1>1, <1>2, <2>1, <2>2, LatestStepInv DEF OverviewServed
<1>3. ASSUME NEW got \in overviews, OverviewArrives(got) PROVE ChartInv'
  <2> DEFINE reports == UNION {got[n] : n \in charts.node}
  <2>1. charts' = TakenIfAny(charts, reports) /\ newest' = got /\ overviews' \subseteq overviews
    BY <1>3 DEF OverviewArrives
  <2>2. charts.node \in SUBSET Node /\ \A m, n \in charts.node : m = n
    BY <1>1 DEF PageFits, ChartPage
  <2>3. CASE charts.node = {}
    <3>1. reports = {}
      BY <2>3
    <3>2. charts' = charts
      BY <2>1, <3>1 DEF TakenIfAny
    <3>3. QED
      BY <1>1, <1>3, <2>1, <3>2, LatestStepInv DEF OverviewArrives
  <2>4. ASSUME NEW n \in charts.node PROVE ChartInv'
    <3>1. n \in Node /\ charts.node = {n}
      BY <2>2
    <3>2. reports = got[n]
      BY <3>1
    <3>3. got[n] \in SUBSET recent[n]
      BY <1>1, <3>1 DEF OverviewFits
    <3>4. PageFits(charts', recent, OnTheWay, clock)
      BY <1>1, <2>1, <3>1, <3>2, <3>3, TakenIfAnyFits
    <3>5. QED
      BY <1>1, <1>3, <2>1, <3>4, LatestStepInv DEF OverviewArrives
  <2>5. QED
    BY <2>3, <2>4
<1>4. ASSUME NEW got \in overviews, OverviewFails(got) PROVE ChartInv'
  <2>1. OverviewFits([n \in Node |-> {}], recent)
    BY DEF OverviewFits
  <2>2. QED
    BY <1>1, <1>4, <2>1, LatestStepInv DEF OverviewFails
<1>5. QED
  BY <1>2, <1>3, <1>4

\* A node is opened, left, or exchanged for another.
LEMMA ShownInv ==
  ASSUME ChartInv, NEW n \in Node, OpenNode(n) \/ JumpTo(n) \/ LeaveNode
  PROVE  ChartInv'
<1>1. CASE OpenNode(n)
  <2>1. PageFits(charts', recent, OnTheWay, clock)
    BY <1>1, NoChartsFits, ShownFits DEF OpenNode
  <2>2. QED
    BY <1>1, <2>1, PageStepInv DEF OpenNode
<1>2. CASE JumpTo(n)
  <2>1. PageFits(charts', recent, OnTheWay, clock)
    BY <1>2, ShownFits DEF JumpTo, ChartInv, PageFits, Requested
  <2>2. QED
    BY <1>2, <2>1, PageStepInv DEF JumpTo
<1>3. CASE LeaveNode
  BY <1>3, NoChartsFits, PageStepInv DEF LeaveNode
<1>4. QED
  BY <1>1, <1>2, <1>3

\* A request is served, answered or fails.
LEMMA SeedInv ==
  ASSUME ChartInv, NEW q \in charts.seeds, SeedServed(q) \/ SeedArrives(q) \/ SeedFails(q)
  PROVE  ChartInv'
<1>1. charts \in ChartPage /\ PageFits(charts, recent, OnTheWay, clock) /\ clock \in Nat
      /\ TableFits(recent, OnTheWay)
  BY DEF ChartInv, PageFits
<1>2. q \in Request /\ q.rows \subseteq recent[q.of] /\ q.asked <= clock
      /\ (~q.late => q.of \in charts.node)
  BY <1>1 DEF ChartPage, PageFits, Requested
<1> DEFINE d == [charts EXCEPT !.seeds = @ \ {q}]
<1>3. PageFits(d, recent, OnTheWay, clock) /\ d.node = charts.node
  BY <1>1, FewerRequests
<1>4. CASE SeedServed(q)
  <2> DEFINE x == [q EXCEPT !.served = TRUE,
                            !.rows = {r \in recent[q.of] :
                                        r.at \in q.asked - Window .. q.asked}]
             g == (charts.seeds \ {q}) \cup {x}
  <2>1. x \in Request /\ x.rows \subseteq recent[x.of] /\ x.asked <= clock
        /\ (~x.late => x.of \in charts.node)
    BY <1>1, <1>2 DEF Request, TableFits
  <2>2. charts' = [charts EXCEPT !.seeds = g]
    BY <1>4 DEF SeedServed
  <2> HIDE DEF x
  <2>3. g \in SUBSET Request
    BY <1>1, <2>1 DEF ChartPage
  <2>4. \A y \in g : /\ y.rows \subseteq recent[y.of] /\ y.asked <= clock
                     /\ ~y.late => y.of \in charts.node
    BY <1>1, <2>1 DEF PageFits, Requested
  <2> HIDE DEF g
  <2>5. PageFits(charts', recent, OnTheWay, clock)
    BY <1>1, <2>2, <2>3, <2>4, RequestsFit
  <2>6. QED
    BY <1>4, <2>5, PageStepInv DEF SeedServed
<1>5. CASE SeedArrives(q)
  <2>1. charts' = Seeded(d, q)
    BY <1>5 DEF SeedArrives
  <2> HIDE DEF d
  <2>2. PageFits(charts', recent, OnTheWay, clock)
    BY <1>1, <1>2, <1>3, <2>1, SeededFits
  <2>3. QED
    BY <1>5, <2>2, PageStepInv DEF SeedArrives
<1>6. CASE SeedFails(q) /\ client = "web"
  <2>1. charts' = d
    BY <1>6 DEF SeedFails
  <2> HIDE DEF d
  <2>2. QED
    BY <1>3, <1>6, <2>1, PageStepInv DEF SeedFails
<1>7. CASE SeedFails(q) /\ client # "web"
  <2> DEFINE g == charts.seeds \ {q}
             e == [charts EXCEPT !.seeds = g, !.host = {}, !.card = {}, !.seen = {}]
  <2>1. charts' = e
    BY <1>7 DEF SeedFails
  <2>2. e = PageOf(charts.node, {}, {}, g, {}, charts.lost, charts.overtaken,
                 charts.mixed)
    BY <1>1, OtherRequests
  <2>3. g \in SUBSET Request
    BY <1>1 DEF ChartPage
  <2>4. \A y \in g : /\ y.rows \subseteq recent[y.of] /\ y.asked <= clock
                     /\ ~y.late => y.of \in charts.node
    BY <1>1 DEF PageFits, Requested
  <2> HIDE DEF g, e
  <2>5. e.node = charts.node /\ e.host = {} /\ e.card = {} /\ e.seeds = g /\ e.seen = {}
        /\ e.lost = charts.lost /\ e.overtaken = charts.overtaken /\ e.mixed = charts.mixed
    BY <2>2 DEF PageOf
  <2>6. e \in ChartPage
    BY <1>1, <2>2, <2>3 DEF ChartPage, PageOf
  <2>7. Curve({}) /\ Drawn({}) = {}
    BY FS_EmptySet DEF Curve, Drawn
  <2>8. Requested(e, recent, clock)
    BY <2>4, <2>5 DEF Requested
  <2>9. PageFits(e, recent, OnTheWay, clock)
    BY <1>1, <2>5, <2>6, <2>7, <2>8 DEF PageFits, Fine
  <2>10. QED
    BY <1>7, <2>1, <2>9, PageStepInv DEF SeedFails
<1>8. QED
  BY <1>4, <1>5, <1>6, <1>7

\* Every step keeps the invariant.
LEMMA ChartStepInv ==
  ChartInv /\ [ChartNext]_chartVars => ChartInv'
<1> SUFFICES ASSUME ChartInv, [ChartNext]_chartVars PROVE ChartInv'
  OBVIOUS
<1>1. CASE Later
  BY <1>1, LaterInv
<1>2. CASE LiveReport
  BY <1>2, LiveReportInv
<1>3. CASE SocketBreaks
  BY <1>3, SocketBreaksInv
<1>4. CASE LeaveNode
  <2>1. PageFits(charts', recent, OnTheWay, clock)
    BY <1>4, NoChartsFits DEF LeaveNode
  <2>2. QED
    BY <1>4, <2>1, PageStepInv DEF LeaveNode
<1>5. CASE \E n \in Node : OpenNode(n) \/ JumpTo(n) \/ (\E card \in BOOLEAN : ReportComes(n, card))
  BY <1>5, ShownInv, ReportComesInv
<1>6. CASE \E q \in charts.seeds : SeedServed(q) \/ SeedArrives(q) \/ SeedFails(q)
  BY <1>6, SeedInv
<1>7. CASE UNCHANGED chartVars
  <2>1. PageFits(charts', recent, OnTheWay, clock)
    BY <1>7 DEF chartVars, ChartInv
  <2>2. QED
    BY <1>7, <2>1, PageStepInv DEF chartVars
<1>8. CASE OverviewServed \/ \E got \in overviews : OverviewArrives(got) \/ OverviewFails(got)
  BY <1>8, OverviewInv
<1>9. QED
  BY <1>1, <1>2, <1>3, <1>4, <1>5, <1>6, <1>7, <1>8 DEF ChartNext

\* The invariant says that the curves are whole.
LEMMA ChartInvIsWhole ==
  ChartInv => ChartsAreWhole
<1> SUFFICES ASSUME ChartInv PROVE ChartsAreWhole
  OBVIOUS
<1>1. PageFits(charts, recent, OnTheWay, clock) /\ charts \in ChartPage
  BY DEF ChartInv, PageFits
<1>2. ASSUME NEW curve, Curve(curve), Fine(charts, curve, OnTheWay) PROVE InOrder(curve)
  <2> SUFFICES ASSUME NEW p \in curve, NEW q \in curve,
                      p.report.of \in charts.node, q.report.of \in charts.node,
                      p.report \notin charts.lost \cup charts.overtaken,
                      q.report \notin charts.lost \cup charts.overtaken,
                      NEW s \in charts.seen, p.report.at <= s.at,
                      NEW t \in charts.seen, q.report.at <= t.at
               PROVE  p.place < q.place <=> p.report.at < q.report.at
    BY DEF InOrder
  <2>1. p.report.at \in Nat /\ q.report.at \in Nat /\ p.place \in Nat /\ q.place \in Nat
        /\ s.at \in Nat /\ t.at \in Nat
    BY <1>1, <1>2 DEF Curve, Point, Report, ChartPage
  <2>2. ~(s.at < p.report.at) /\ ~(t.at < q.report.at)
    BY <2>1
  <2>3. CASE p.report.at < q.report.at
    BY <1>2, <2>2, <2>3 DEF Fine
  <2>4. CASE q.report.at < p.report.at
    <3>1. q.place < p.place
      BY <1>2, <2>2, <2>4 DEF Fine
    <3>2. QED
      BY <2>1, <2>4, <3>1
  <2>5. CASE p.report.at = q.report.at
    <3>1. p = q
      BY <1>2, <2>5 DEF Curve
    <3>2. QED
      BY <2>1, <3>1
  <2>6. QED
    BY <2>1, <2>3, <2>4, <2>5
<1>3. InOrder(charts.host) /\ InOrder(charts.card)
  BY <1>1, <1>2 DEF PageFits
<1>4. InWindow(charts.seen) \subseteq Drawn(charts.host)
  BY <1>1 DEF PageFits, InWindow
<1>5. client = "web" /\ (\A r \in charts.seen \cup charts.overtaken : r.card) =>
        InWindow(charts.seen) \subseteq Drawn(charts.card)
  BY <1>1 DEF PageFits, InWindow
<1>6. ~charts.mixed => \A r \in Drawn(charts.host) \cup Drawn(charts.card) : r.of \in charts.node
  BY <1>1 DEF PageFits
<1>7. QED
  BY <1>3, <1>4, <1>5, <1>6 DEF ChartsAreWhole

\* In whatever order reports and answers come, no curve of a node's page lacks a
\* report of the last ten minutes that the page has taken, none goes back in time
\* but at a report that the socket has lost or that was overtaken where the latest
\* reports were answered, and none shows another node unless an answer came for it
\* (useRealtimeMetrics, useMetrics, chart.ts).
THEOREM ChartsAlwaysWhole == ChartSpec => []ChartsAreWhole
<1>1. ChartSpec => []ChartInv
  <2>1. ChartInit => ChartInv
    BY ChartInitInv
  <2>2. ChartInv /\ [ChartNext]_chartVars => ChartInv'
    BY ChartStepInv
  <2>3. QED
    BY <2>1, <2>2, PTL DEF ChartSpec
<1>2. ChartInv => ChartsAreWhole
  BY ChartInvIsWhole
<1>3. QED
  BY <1>1, <1>2, PTL
=============================================================================
