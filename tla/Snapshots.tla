------------------------------- MODULE Snapshots -------------------------------
(***************************************************************************)
(* The metric snapshots of one server: written at two paces that are kept  *)
(* in memory (ingest/snapshot-scheduler.ts), the recent ones trimmed after *)
(* each write and the archived ones kept for ever (db/snapshots.ts).       *)
(***************************************************************************)
EXTENDS Integers, FiniteSets

CONSTANTS
    RecentInterval,    \* snapshotRecentIntervalSeconds
    ArchiveInterval,   \* snapshotArchiveIntervalSeconds
    KeepCount          \* snapshotRecentKeepCount

ASSUME SnapshotsAssumption ==
    /\ RecentInterval \in 1..1000 /\ ArchiveInterval \in 1..1000
    /\ KeepCount \in Nat \ {0}

Tier == {"recent", "archive"}
Interval == [recent |-> RecentInterval, archive |-> ArchiveInterval]

VARIABLES
    snapshots,   \* rows: id, tier, and the timestamp of the report
    lastId,      \* AUTOINCREMENT
    lastAt       \* when each tier was last written, Never if not since the start

\* Long before the clock starts, as time 0 is in the code.
Never == -1000

SnapshotsInit ==
    /\ snapshots = {} /\ lastId = 0
    /\ lastAt = [tier \in Tier |-> Never]

Rows(table, tier) == {row \in table : row.tier = tier}

shouldWrite(tier, now) == now - lastAt[tier] >= Interval[tier]

\* What deleteOldRecentSnapshots leaves of the recent rows: KeepCount rows of the
\* latest timestamps (any of them if two have the same), or all if there are fewer.
Kept(recent, kept) ==
    /\ kept \subseteq recent
    /\ Cardinality(kept) = IF Cardinality(recent) < KeepCount
                           THEN Cardinality(recent) ELSE KeepCount
    /\ \A k \in kept : \A row \in recent \ kept : k.timestamp >= row.timestamp

\* The tables that trimming may leave.
deleteOldRecentSnapshots(table) ==
    LET recent == Rows(table, "recent")
    IN {Rows(table, "archive") \cup kept : kept \in {k \in SUBSET recent : Kept(recent, k)}}

saveSnapshot(table, id, tier, timestamp) ==
    table \cup {[id |-> id, tier |-> tier, timestamp |-> timestamp]}

\* Step 6 of processReport.
WriteSnapshots(timestamp, now) ==
    LET recent == shouldWrite("recent", now)
        archive == shouldWrite("archive", now)
        id == [tier \in Tier |-> IF tier = "archive" /\ recent THEN lastId + 2 ELSE lastId + 1]
        saved == IF recent THEN saveSnapshot(snapshots, id["recent"], "recent", timestamp)
                           ELSE snapshots
    IN /\ \E trimmed \in IF recent THEN deleteOldRecentSnapshots(saved) ELSE {saved} :
             snapshots' = IF archive
                          THEN saveSnapshot(trimmed, id["archive"], "archive", timestamp)
                          ELSE trimmed
       /\ lastId' = lastId + Cardinality({tier \in Tier : shouldWrite(tier, now)})
       /\ lastAt' = [tier \in Tier |-> IF shouldWrite(tier, now) THEN now ELSE lastAt[tier]]

\* The server dies between saving a recent snapshot and trimming.
WriteSnapshotTorn(timestamp, now) ==
    /\ shouldWrite("recent", now)
    /\ snapshots' = saveSnapshot(snapshots, lastId + 1, "recent", timestamp)
    /\ lastId' = lastId + 1

=============================================================================
