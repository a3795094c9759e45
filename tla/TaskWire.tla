------------------------------ MODULE TaskWire ------------------------------
(***************************************************************************)
(* A task's fields on their way from the agent to a page: to_task_info and *)
(* _serialize on the node, parseUnifiedReport on the server, the table of  *)
(* tasks, the ways a client gets them: with an event of the socket, in a   *)
(* list of tasks, as one task; and the pages of the web console and of the *)
(* mobile application that show one task.                                  *)
(*                                                                         *)
(* Every step has its own form of "nothing": a missing key, null, an empty *)
(* map, an empty column.  Left out are the fields that are passed on and   *)
(* shown as they are.  A task has one card and its history one evaluation. *)
(***************************************************************************)
EXTENDS Integers, Sequences, FiniteSets

CONSTANTS Mb,           \* amounts of memory, 0 among them
          none,         \* null; on a page, a dash
          Device,       \* the cards of the node
          Place         \* the places of a list, 0, 1 and so on: no nulls

VARIABLES
  job,      \* the task on the node
  spelling, \* the spellings of requestedVramMb that its agent sends
  row,      \* the row of the table: a set with at most one
  told,     \* the task of the last event, likewise
  source    \* history: the job that row was made from, likewise

wireVars == <<job, spelling, row, told, source>>

\* A map from the card.
NoCard == [g \in {} |-> none]
FromCard(x) == [g \in {0} |-> x]

\* A column of text is nothing or the text of a value.
Text(x) == [json |-> x]

(***************************************************************************)
(* Evaluations: why a task was, or was not, given cards.  need is none for *)
(* a task that needs cards of its own.                                     *)
(***************************************************************************)
Evaluation ==
  {e \in [result : {"scheduled", "blocked", "insufficient"}, need : Mb \cup {none},
          selected : SUBSET Device, eligible : SUBSET Device, free : [Device -> Mb]] :
     /\ e.selected \subseteq e.eligible
     /\ e.result # "scheduled" => e.selected = {}
     /\ e.need # none => \A g \in e.eligible : e.free[g] >= e.need}

\* _format_schedule_detail
DetailOf(e) ==
  [key \in CASE e.result = "scheduled"    -> {"selected", "eligible_now"}
             [] e.result = "blocked"      -> {"eligible_now"}
             [] e.result = "insufficient" -> {"eligible_now", "sustained_common"}
     |-> IF key = "selected" THEN e.selected ELSE e.eligible]

\* _build_schedule_gpu_snapshot, as the wire has it in a spelling (see Wire).
Entry(e, spelt) ==
  [result |-> e.result, detail |-> DetailOf(e), requested |-> [s \in spelt |-> e.need],
   free |-> e.free, eligibleNowCount |-> Cardinality(e.eligible),
   eligibleSustainedCount |-> Cardinality(e.eligible),
   selectedGpuCount |-> Cardinality(e.selected)]
History(evaluations, spelt) == [i \in DOMAIN evaluations |-> Entry(evaluations[i], spelt)]
Spelling == {{"MB"}, {"Mb"}, {}}

\* null is none of the values that are passed on, nor a text.
ASSUME TaskWireAssumption ==
  /\ Mb \subseteq Nat /\ 0 \in Mb /\ none \notin Nat
  /\ none # {0} /\ none # Text({0}) /\ none # <<>>
  /\ none # NoCard /\ none # Text(NoCard)
  /\ \A x \in Mb \cup {none} : none # FromCard(x) /\ none # Text(FromCard(x))
  /\ IsFiniteSet(Device)
  /\ \A e \in Evaluation, spelt \in Spelling :
        none # History(<<e>>, spelt) /\ none # Text(History(<<e>>, spelt))

(***************************************************************************)
(* The node.                                                               *)
(***************************************************************************)
NoJob ==
  [status |-> "none", mode |-> "shared", requested |-> 0, require |-> 0, assigned |-> none,
   peak |-> none, reclaimed |-> none, done |-> FALSE, history |-> <<>>, code |-> none]

JobIs(j) == job' = j /\ UNCHANGED <<spelling, row, told, source>>

\* _normalize_vram_spec.
Submitted(mode, mb) ==
  /\ job.status = "none"
  /\ JobIs([NoJob EXCEPT !.status = "queued", !.mode = mode,
              !.requested = IF mode = "shared" THEN mb ELSE none,
              !.require = IF mode = "shared" THEN mb ELSE 0])
Evaluated(e) ==
  /\ job.status = "queued" /\ job.history = <<>> /\ e.need = job.requested
  /\ JobIs([job EXCEPT !.history = <<e>>])
Launched ==
  /\ job.status = "queued" /\ JobIs([job EXCEPT !.status = "running", !.assigned = {0}])

\* _update_auto_vram_reclaim: a peak, once the card shows one.
Observing == job.status = "running" /\ job.mode = "exclusive_auto" /\ ~job.done
Observed(mb) ==
  /\ Observing
  /\ LET before == IF job.peak \in {none, NoCard} THEN 0 ELSE job.peak[0]
     IN  JobIs([job EXCEPT !.peak = IF mb > before THEN FromCard(mb)
                                    ELSE IF @ = none THEN NoCard ELSE @])
\* _finish_auto_vram_reclaim: without a peak, or with one near the size of the
\* card, the task keeps the card for itself; else it keeps some more than the
\* peak, which is told by the peak here.
Reclaimed(near) ==
  /\ Observing /\ job.peak # none
  /\ JobIs([job EXCEPT !.done = TRUE,
              !.reclaimed = FromCard(IF near \/ job.peak = NoCard THEN none ELSE job.peak[0])])

TaskEnds(code) ==
  /\ job.status \in {"queued", "running"}
  /\ JobIs([job EXCEPT !.status = "ended", !.code = code])

(***************************************************************************)
(* The report.                                                             *)
(***************************************************************************)
\* _serialize: a name that ends in _mb, or a key in Mb, ends in MB, which is the
\* spelling "MB"; the protocol also knows "Mb", and agents that do not send it.
Wire(j) == [j EXCEPT !.requested = [s \in spelling |-> @], !.history = History(@, spelling)]

\* Mutant: null is taken for a missing key.
RequestedUnlessNull(w) ==
  IF "MB" \in DOMAIN w.requested /\ w.requested["MB"] # none THEN w.requested["MB"] ELSE w.require

normalizeRequestedVramMb(w) ==
  IF "Mb" \in DOMAIN w.requested THEN w.requested["Mb"]
  ELSE IF "MB" \in DOMAIN w.requested THEN w.requested["MB"]
  ELSE IF w.mode = "exclusive_auto" THEN none
  ELSE w.require

\* Numbers only; an empty map is null.
normalizeNumberMap(x)         == IF x = none \/ x \in {NoCard, FromCard(none)} THEN none ELSE x
normalizeNullableNumberMap(x) == IF x \in {none, NoCard} THEN none ELSE x

normalizeTaskInfo(w) ==
  [w EXCEPT !.requested = normalizeRequestedVramMb(w),
            !.peak = normalizeNumberMap(@), !.reclaimed = normalizeNullableNumberMap(@)]

(***************************************************************************)
(* The table.                                                              *)
(***************************************************************************)
TextOrNull(x) == IF x = none THEN none ELSE Text(x)

\* What a task was submitted with is not written again.
upsertTask(t) ==
  LET values == [t EXCEPT !.assigned = TextOrNull(@), !.peak = TextOrNull(@),
                          !.reclaimed = TextOrNull(@), !.done = IF @ THEN 1 ELSE 0,
                          !.history = IF Len(@) > 0 THEN Text(@) ELSE none]
  IN  row' = IF row = {} THEN {values} ELSE {[values EXCEPT !.require = r.require] : r \in row}

parseNumberMap(c)         == IF c = none THEN none ELSE normalizeNumberMap(c.json)
parseNullableNumberMap(c) == IF c = none THEN none ELSE normalizeNullableNumberMap(c.json)

mapTaskRow(r) ==
  [r EXCEPT !.peak = parseNumberMap(@), !.reclaimed = parseNullableNumberMap(@), !.done = @ # 0]

(***************************************************************************)
(* What the clients get.                                                   *)
(***************************************************************************)
Parsed(c) == IF c = none THEN none ELSE c.json

\* override is none, or is taken for the history.
toApiTask(t, override) ==
  [t EXCEPT !.assigned = Parsed(@),
            !.history = IF override # none THEN override ELSE Parsed(@)]

\* getTaskScheduleHistory: parseScheduleHistory, or the rows of ScheduleHistory.
StoredHistory(t) == IF t.history = none THEN <<>> ELSE t.history.json

OneTask(r) == toApiTask(mapTaskRow(r), StoredHistory(r))

\* The list is mapped by toApiTask, which is handed the place as well; that of a
\* person's tasks is mapped by a function that takes nothing else.
ListedTask(r, place) == toApiTask(mapTaskRow(r), place)
PersonTask(r)        == toApiTask(mapTaskRow(r), none)

(***************************************************************************)
(* The pages of one task.                                                  *)
(***************************************************************************)
\* vram.ts
formatTaskRequestedVram(t) ==
  IF t.mode = "exclusive_auto" THEN "exclusive" ELSE IF t.requested = none THEN 0 ELSE t.requested
formatPerGpuVramMap(m)    == IF m \in {none, NoCard} THEN none ELSE m[0]
formatPerGpuReclaimMap(m) ==
  IF m \in {none, NoCard} \/ m[0] = none THEN "keeps the card" ELSE m[0]
formatAutoReclaimStatus(t) ==
  IF t.mode # "exclusive_auto" THEN "does not apply"
  ELSE IF ~t.done THEN "observing" ELSE formatPerGpuReclaimMap(t.reclaimed)

TaskDetail(t) ==
  [status |-> t.status, requested |-> formatTaskRequestedVram(t), mode |-> t.mode,
   peak |-> formatPerGpuVramMap(t.peak), reclaim |-> formatAutoReclaimStatus(t),
   reserved |-> formatPerGpuReclaimMap(t.reclaimed), exitCode |-> t.code, cards |-> t.assigned,
   cancel |-> IF t.status \in {"queued", "running"} THEN "button" ELSE "no button"]

\* The mobile application asks for the memory, and for the cards, in its own way.
formatRequestedResources(t) ==
  LET requested == IF t.requested # none THEN t.requested
                   ELSE IF t.mode = "exclusive_auto" THEN none ELSE t.require
  IN  IF t.mode = "exclusive_auto" THEN "exclusive" ELSE requested
formatGpuList(cards) == IF cards \in {none, {}} THEN none ELSE cards
isTaskCancelable(t)  == t.status = "queued" \/ t.status = "running"

PersonTaskDetail(t) ==
  [status |-> t.status, requested |-> formatRequestedResources(t), mode |-> t.mode,
   peak |-> formatPerGpuVramMap(t.peak), reclaim |-> formatAutoReclaimStatus(t),
   exitCode |-> t.code, cards |-> formatGpuList(t.assigned),
   cancel |-> IF isTaskCancelable(t) THEN "button" ELSE "no button"]

\* An evaluation on the page of the console.
parseGpuIdList(detail, key) == IF key \in DOMAIN detail THEN detail[key] ELSE {}

formatScheduleResult(result) ==
  IF result \in {"scheduled", "blocked"} THEN result ELSE "insufficient"

resolveGpuDecisionState(g, selected, eligible, sustained, meetsThreshold) ==
  IF g \in selected THEN "selected"
  ELSE IF g \in eligible \cap sustained THEN "eligible now and for long"
  ELSE IF g \in eligible THEN "eligible"
  ELSE IF g \in sustained THEN "eligible for long"
  ELSE IF meetsThreshold THEN "not chosen" ELSE "too little memory"

\* A missing number is that of the task.
getRequestedVramMb(entry, t) ==
  IF "Mb" \in DOMAIN entry.requested /\ entry.requested["Mb"] # none
  THEN entry.requested["Mb"] ELSE t.require

ScheduleHistoryCard(entry, t) ==
  LET need == getRequestedVramMb(entry, t)
  IN  [result |-> formatScheduleResult(entry.result),
       need |-> IF t.mode = "exclusive_auto" THEN "exclusive" ELSE need,
       now |-> entry.eligibleNowCount, sustained |-> entry.eligibleSustainedCount,
       selected |-> entry.selectedGpuCount, free |-> entry.free,
       state |-> [g \in DOMAIN entry.free |->
                    resolveGpuDecisionState(g, parseGpuIdList(entry.detail, "selected"),
                      parseGpuIdList(entry.detail, "eligible_now"),
                      parseGpuIdList(entry.detail, "sustained_common"), entry.free[g] >= need)]]

(***************************************************************************)
(* Reports.                                                                *)
(***************************************************************************)
\* The event is sent if the status has changed, or the task has ended.
Reported ==
  /\ job.status # "none"
  /\ LET t == normalizeTaskInfo(Wire(job))
     IN  /\ upsertTask(t)
         /\ told' = IF t.status = "ended" \/ \A r \in row : r.status # t.status THEN {t} ELSE {}
  /\ source' = {job}
  /\ UNCHANGED <<job, spelling>>

WireInit ==
  /\ job = NoJob /\ row = {} /\ told = {} /\ source = {}
  /\ spelling \in Spelling

WireNext ==
  \/ \E mode \in {"shared", "exclusive_auto"}, mb \in Mb : Submitted(mode, mb)
  \/ \E e \in Evaluation : Evaluated(e)
  \/ Launched \/ Reported
  \/ \E mb \in Mb : Observed(mb)
  \/ \E near \in BOOLEAN : Reclaimed(near)
  \/ \E code \in {none, 0, 1} : TaskEnds(code)

WireSpec == WireInit /\ [][WireNext]_wireVars

(***************************************************************************)
(* Properties.                                                             *)
(***************************************************************************)
\* An empty map says as much as none, and the pages say as much as the task.
Same(t, j) ==
  /\ t.requested = j.requested /\ t.require = j.require /\ t.mode = j.mode
  /\ t.status = j.status /\ t.assigned = j.assigned /\ t.code = j.code /\ t.done = j.done
  /\ t.peak = (IF j.peak = NoCard THEN none ELSE j.peak) /\ t.reclaimed = j.reclaimed
  /\ TaskDetail(t) = TaskDetail(j) /\ PersonTaskDetail(t) = PersonTaskDetail(j)

\* The card of an evaluation tells which cards were selected, which of the others
\* would have done, and says of no card that it had too little memory if it had
\* enough; its numbers are those of the cards below them.
CardTells(card, e) ==
  LET selected == {g \in Device : card.state[g] = "selected"}
      fit      == {g \in Device : card.state[g] \in {"eligible now and for long", "eligible"}}
  IN  /\ card.result = e.result /\ card.free = e.free
      /\ IF e.need = none THEN card.need = "exclusive" ELSE card.need = e.need
      /\ selected = e.selected /\ card.selected = Cardinality(selected)
      /\ fit = e.eligible \ e.selected /\ card.now = Cardinality(selected \cup fit)
      /\ \A g \in Device : card.state[g] = "too little memory" =>
                             e.need # none /\ e.free[g] < e.need

HistoryTells(t, j) ==
  /\ Len(t.history) = Len(j.history)
  /\ \A i \in DOMAIN j.history :
        CardTells(ScheduleHistoryCard(t.history[i], t), j.history[i])

\* Whichever way a page gets a task, and however its agent spells the memory it
\* asks for, it shows what the agent reported: null is not 0, no card is kept
\* that was given back, an exit code 0 is not lost, and every evaluation is told
\* as it was made.
TaskIsShownAsReported ==
  \A j \in source :
    /\ \A r \in row : /\ Same(OneTask(r), j) /\ HistoryTells(OneTask(r), j)
                      /\ \A place \in Place : Same(ListedTask(r, place), j)
                      /\ Same(PersonTask(r), j)
                      /\ IF PersonTask(r).history = none THEN j.history = <<>>
                         ELSE HistoryTells(PersonTask(r), j)
    /\ \A t \in told : Same(t, j) /\ HistoryTells(t, j)

\* A listed task has a list of evaluations or null (common/src/types.ts:93).
HistoryIsAListOrNull ==
  \A r \in row, place \in Place :
    ListedTask(r, place).history \in {none, StoredHistory(r)}
=============================================================================
