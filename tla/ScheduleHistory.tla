---------------------------- MODULE ScheduleHistory ----------------------------
(***************************************************************************)
(* The scheduling history of one task as the server keeps it               *)
(* (db/tasks.ts): of each report the latest evaluation, at a fine grain    *)
(* for a while and at a coarse one for ever; the reader puts the two       *)
(* together at a cutoff.                                                   *)
(*                                                                         *)
(* The constants keep the code's order: a window bucket (5 s) divides an   *)
(* archive bucket (15 min), and the window is kept longer than a bucket.   *)
(***************************************************************************)
EXTENDS Integers, FiniteSets

CONSTANTS
    WindowSeconds,            \* WINDOW_SECONDS
    WindowRetentionSeconds,   \* WINDOW_RETENTION_SECONDS
    ArchiveSeconds            \* ARCHIVE_SECONDS

ASSUME ScheduleHistoryAssumption ==
    /\ WindowSeconds \in Nat \ {0}
    /\ WindowRetentionSeconds \in Nat \ {0}
    /\ ArchiveSeconds \in Nat \ {0}
    /\ ArchiveSeconds % WindowSeconds = 0

Bucket == [window |-> WindowSeconds, archive |-> ArchiveSeconds]

VARIABLE schedule   \* rows: tier, start of the bucket, timestamp of the evaluation

ScheduleInit == schedule = {}

floorToBucket(timestamp, seconds) == (timestamp \div seconds) * seconds

\* ON CONFLICT (task_id, tier, bucket_start) DO UPDATE
upsertScheduleSnapshot(table, tier, source) ==
    LET start == floorToBucket(source, Bucket[tier])
    IN {row \in table : ~(row.tier = tier /\ row.start = start)}
       \cup {[tier |-> tier, start |-> start, source |-> source]}

Fresh(source, reportTime) == source >= reportTime - WindowRetentionSeconds

\* Mutant: the archive gets what is too old for the window.
UpsertOneTier(table, source, reportTime) ==
    LET both == upsertScheduleSnapshot(table,
                    IF Fresh(source, reportTime) THEN "window" ELSE "archive", source)
    IN {row \in both : ~(row.tier = "window" /\ row.start < reportTime - WindowRetentionSeconds)}

\* The table after a report of time reportTime whose latest evaluation is source.
upsertTaskScheduleSnapshot(table, source, reportTime) ==
    LET archived == upsertScheduleSnapshot(table, "archive", source)
        both == IF Fresh(source, reportTime)
                THEN upsertScheduleSnapshot(archived, "window", source) ELSE archived
    IN {row \in both : ~(row.tier = "window" /\ row.start < reportTime - WindowRetentionSeconds)}

\* The rows that getTaskScheduleHistory shows at time now.
getTaskScheduleHistory(now) ==
    LET cutoff == now - WindowRetentionSeconds
    IN {row \in schedule : IF row.tier = "window" THEN row.start >= cutoff
                                                  ELSE row.start < cutoff}
=============================================================================
