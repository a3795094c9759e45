---------------------------- MODULE SecurityEvents ----------------------------
(***************************************************************************)
(* The table of security events of one server (db/security-events.ts): the *)
(* findings of a report (security/analyzer.ts, security/pipeline.ts) become*)
(* events, which an operator marks as safe and opens again, and each of    *)
(* these decisions becomes an event of its own.                            *)
(*                                                                         *)
(* A finding stands for its event type and fingerprint: two processes with *)
(* the same command and user are the same finding.  An event's id is its   *)
(* place in the table, from which nothing is ever deleted.                 *)
(***************************************************************************)
EXTENDS Integers, Sequences, FiniteSets, SequencesExt

CONSTANTS
    Finding,     \* a kind of event and a fingerprint
    MaxEvents    \* bound on the operator's decisions: none in a table this long

VARIABLE events

Decision == {"marked_safe", "unresolve"}

SecurityInit == events = <<>>

-----------------------------------------------------------------------------
(* Detection. *)

findOpenSecurityEvent(table, finding) ==
    \E i \in DOMAIN table :
        /\ table[i].kind = "found" /\ table[i].about = finding
        /\ table[i].open

createSecurityEvent(table, kind, about) ==
    Append(table, [kind |-> kind, about |-> about, open |-> TRUE])

\* A finding that an open event stands for already adds nothing.  (The server has
\* a unique index over the open events: a second one would raise.)
Record(table, finding) ==
    IF findOpenSecurityEvent(table, finding) THEN table
    ELSE createSecurityEvent(table, "found", finding)

\* The table after the findings of a report, in the order of its processes.
processSecurityCheck(table, found) == FoldLeft(Record, table, found)

-----------------------------------------------------------------------------
(* The operator: each decision is one transaction. *)

\* The audit event is created open and closed at once.
WithAudit(table, kind, i) ==
    Append(table, [kind |-> kind, about |-> i, open |-> FALSE])

\* Marking what is resolved already, an audit event among them, changes nothing.
\* (Marking an id that is not in the table is an error that changes nothing.)
MarkSafe(i) ==
    /\ i \in DOMAIN events /\ events[i].open
    /\ Len(events) < MaxEvents
    /\ events' = WithAudit([events EXCEPT ![i].open = FALSE], "marked_safe", i)

\* Mutant: an event is opened again beside a newer one of the same finding.
UnresolveAlways(i) ==
    /\ i \in DOMAIN events
    /\ events[i].kind = "found" /\ ~events[i].open
    /\ Len(events) < MaxEvents
    /\ events' = WithAudit([events EXCEPT ![i].open = TRUE], "unresolve", i)

\* Refused for an audit event, an open one, and while the finding has an open event.
Unresolve(i) ==
    /\ i \in DOMAIN events
    /\ events[i].kind = "found" /\ ~events[i].open
    /\ ~findOpenSecurityEvent(events, events[i].about)
    /\ Len(events) < MaxEvents
    /\ events' = WithAudit([events EXCEPT ![i].open = TRUE], "unresolve", i)

-----------------------------------------------------------------------------
(* Properties. *)

\* Two open events never stand for one finding, however often it is reported,
\* marked safe and opened again: findOpenSecurityEvent before each insertion and
\* before opening again keeps every statement clear of the unique index.
OneOpenEvent(table) ==
    \A i, j \in DOMAIN table :
        /\ table[i].kind = "found" /\ table[i].open
        /\ table[j].kind = "found" /\ table[j].open
        /\ table[i].about = table[j].about
        => i = j

\* The places of the decisions recorded about event i.
Decisions(table, i) ==
    {k \in DOMAIN table : table[k].kind \in Decision /\ table[k].about = i}

Even(S) == Cardinality(S) % 2 = 0

\* The audit events tell the whole story of an event: decisions alternate, starting
\* with marked_safe, and their number says whether the event is open.  None is
\* about an audit event, which is never open.
StoryIsTold(table, i) ==
    LET decisions == Decisions(table, i)
    IN IF table[i].kind = "found"
       THEN /\ table[i].open <=> Even(decisions)
            /\ \A k \in decisions :
                   table[k].kind = IF Even({j \in decisions : j < k})
                                   THEN "marked_safe" ELSE "unresolve"
       ELSE ~table[i].open /\ decisions = {}

AuditTellsState(table) == \A i \in DOMAIN table : StoryIsTold(table, i)

\* What the page of security events may rely on: both.
EventsAreSound == OneOpenEvent(events) /\ AuditTellsState(events)
=============================================================================
