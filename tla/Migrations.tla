----------------------------- MODULE Migrations -----------------------------
(***************************************************************************)
(* daemon/db.py: what happens to the database before the daemon serves.    *)
(* Every start snapshots the file if the newest snapshot is old, then runs *)
(* the numbered scripts that are not yet in the table _migration.  Each    *)
(* script is one transaction of its own; its record is another.            *)
(*                                                                         *)
(* Migrations are the numbers of the scripts of migrations/.  The script   *)
(* Rebuild copies the table session, drops it and renames the copy (004);  *)
(* every other script adds a table or a column.  The database is in WAL    *)
(* mode: a commit reaches the main file when the last connection closes.   *)
(* One daemon runs at a time.                                              *)
(***************************************************************************)
EXTENDS Naturals, Sequences, FiniteSets

CONSTANTS
    N,           \* number of scripts the newest release ships
    Rebuild,     \* the script that rebuilds the table session
    MaxBackups,  \* snapshots kept
    StaleAfter,  \* BACKUP_STALE_AFTER_SECONDS in ticks
    MaxTime,     \* bound: ticks
    MaxRows,     \* bound: rows users write
    MaxFaults    \* bound: crashes and failing calls

ASSUME MigrationsAssumption ==
    /\ N \in Nat /\ Rebuild \in 2 .. N /\ MaxBackups \in Nat \ {0}
    /\ StaleAfter \in Nat \ {0} /\ MaxTime \in Nat /\ MaxRows \in Nat /\ MaxFaults \in Nat

Scripts == 1 .. N
Rows    == 1 .. MaxRows

\* What the database holds: the scripts whose changes are in the schema, the
\* rows of _migration, and the users' rows in session and in session_new.
Db == [schema : SUBSET Scripts, recorded : SUBSET Scripts,
       session : SUBSET Rows, copy : SUBSET Rows, tables : SUBSET {"session", "session_new"}]
NoDb == [schema |-> {}, recorded |-> {}, session |-> {}, copy |-> {}, tables |-> {}]

VARIABLES
    exists,   \* the file exists
    db,       \* what the file and its WAL hold: every committed transaction
    file,     \* what the main file holds
    mtime,    \* when the main file was last written
    backups,  \* the snapshots beside it, in the order of their names
    phase,    \* where the start is
    pending,  \* the scripts this start has left to run
    tx,       \* the database as the open transaction sees it
    stmt,     \* statements of the script that have run
    shipped,  \* scripts the installed release ships
    now, faults,
    since,    \* history: when each row was written
    stranded, \* history: rows a crash left in the WAL, in no snapshot since
    gap,      \* history: a script committed and its record did not
    failing   \* history: a call failed in this start for a reason of its own

fileVars  == <<exists, file, mtime>>
startVars == <<pending, tx, stmt>>
outside   == <<shipped, now, since>>
ghosts    == <<stranded, gap, failing>>
vars == <<db, fileVars, backups, phase, startVars, outside, faults, ghosts>>

Backup == [taken : Nat, mtime : Nat, whole : BOOLEAN, rows : SUBSET Rows]

TypeOK ==
    /\ exists \in BOOLEAN
    /\ db \in Db /\ file \in Db /\ tx \in Db
    /\ mtime \in Nat /\ now \in Nat /\ faults \in Nat /\ stmt \in Nat
    /\ backups \in Seq(Backup)
    /\ phase \in {"down", "backup", "copying", "pruning", "open", "script", "record",
                  "serving", "failed"}
    /\ pending \subseteq Scripts /\ shipped \in Scripts
    /\ since \in Seq(Nat) /\ Len(since) <= MaxRows /\ stranded \subseteq Rows
    /\ gap \in BOOLEAN /\ failing \in BOOLEAN

Wrote == 1 .. Len(since)

\* A fresh install of some release.
Init ==
    /\ exists = FALSE /\ db = NoDb /\ file = NoDb /\ mtime = 0
    /\ backups = <<>>
    /\ phase = "down" /\ pending = {} /\ tx = NoDb /\ stmt = 0
    /\ shipped \in Scripts /\ now = 0 /\ faults = 0
    /\ since = <<>> /\ stranded = {} /\ gap = FALSE /\ failing = FALSE

Fault == faults < MaxFaults /\ faults' = faults + 1

\* The last connection closes: the WAL is written back to the main file.
Close ==
    /\ file' = db
    /\ mtime' = IF file = db THEN mtime ELSE now
    /\ UNCHANGED exists

(***************************************************************************)
(* _backup_if_stale.                                                       *)
(***************************************************************************)
Start ==
    /\ phase \in {"down", "failed"}
    /\ phase' = IF exists THEN "backup" ELSE "open"
    /\ failing' = FALSE
    /\ UNCHANGED <<db, fileVars, backups, startVars, outside, faults, stranded, gap>>

\* The age is that of the newest name, by its modification time.
Recent == backups # <<>> /\ now < backups[Len(backups)].mtime + StaleAfter

SkipBackup ==
    /\ phase = "backup" /\ Recent
    /\ phase' = "open"
    /\ UNCHANGED <<db, fileVars, backups, startVars, outside, faults, ghosts>>

\* copy2 creates the snapshot, fills it, and gives it the mtime of the source.
BeginCopy ==
    /\ phase = "backup" /\ ~Recent
    /\ backups' = Append(backups, [taken |-> now, mtime |-> now, whole |-> FALSE, rows |-> {}])
    /\ phase' = "copying"
    /\ UNCHANGED <<db, fileVars, startVars, outside, faults, ghosts>>

Filled(m) == [backups EXCEPT ![Len(backups)] =
                [@ EXCEPT !.mtime = m, !.whole = TRUE, !.rows = file.session]]
EndCopy ==
    /\ phase = "copying"
    /\ backups' = Filled(mtime)
    /\ phase' = "pruning"
    /\ stranded' = stranded \ file.session
    /\ UNCHANGED <<db, fileVars, startVars, outside, faults, gap, failing>>

\* All but the newest MaxBackups are unlinked, one by one.
Unlinked_Newest(b) == SubSeq(b, 1, Len(b) - 1)
Unlinked(b) == Tail(b)
Unlink ==
    /\ phase = "pruning" /\ Len(backups) > MaxBackups
    /\ backups' = Unlinked(backups)
    /\ UNCHANGED <<db, fileVars, phase, startVars, outside, faults, ghosts>>

EndBackup ==
    /\ phase = "pruning" /\ Len(backups) <= MaxBackups
    /\ phase' = "open"
    /\ UNCHANGED <<db, fileVars, backups, startVars, outside, faults, ghosts>>

\* A call raises (the disk is full, a file may not be read or removed) and the
\* start fails: the snapshot is not there, is torn, is whole but newer than the
\* file it copies, or older ones stay beside it.
SnapshotFails ==
    /\ phase \in {"backup", "copying", "pruning"} /\ Fault
    /\ phase = "pruning" => Len(backups) > MaxBackups
    /\ phase' = "failed" /\ failing' = TRUE
    /\ \/ UNCHANGED <<backups, stranded>>
       \/ /\ phase = "copying" /\ backups' = Filled(now)
          /\ stranded' = stranded \ file.session
    /\ UNCHANGED <<db, fileVars, startVars, outside, gap>>

(***************************************************************************)
(* apply_migrations_sync and _apply_one.                                   *)
(***************************************************************************)
Open ==
    /\ phase = "open"
    /\ exists' = TRUE /\ mtime' = IF exists THEN mtime ELSE now
    /\ pending' = (1 .. shipped) \ db.recorded
    /\ tx' = db /\ stmt' = 0
    /\ phase' = "script"
    /\ UNCHANGED <<db, file, backups, outside, faults, ghosts>>

\* The file cannot be opened, set up or read; it may be there by then, and the
\* connection may be closed.
OpenFails ==
    /\ phase = "open" /\ Fault
    /\ phase' = "failed" /\ failing' = TRUE
    /\ \/ UNCHANGED fileVars
       \/ exists' = TRUE /\ mtime' = now /\ file' = db
    /\ UNCHANGED <<db, backups, startVars, outside, stranded, gap>>

Current == CHOOSE m \in pending : \A k \in pending : m <= k

Script(m) == IF m = Rebuild THEN <<"copy", "drop", "rename">> ELSE <<"change">>
Running   == phase = "script" /\ pending # {} /\ stmt < Len(Script(Current))
Statement == Script(Current)[stmt + 1]

\* A table or a column is added once; INSERT and DROP need their table.
CanRun ==
    CASE Statement = "change" -> Current \notin tx.schema
      [] Statement = "copy"   -> "session" \in tx.tables /\ "session_new" \notin tx.tables
      [] Statement = "drop"   -> "session" \in tx.tables
      [] Statement = "rename" -> "session" \notin tx.tables

Effect ==
    CASE Statement = "change" ->
           [tx EXCEPT !.schema = @ \cup {Current},
                      !.tables = IF Current = 1 THEN @ \cup {"session"} ELSE @]
      [] Statement = "copy"   -> [tx EXCEPT !.copy = tx.session, !.tables = @ \cup {"session_new"}]
      [] Statement = "drop"   -> [tx EXCEPT !.session = {}, !.tables = @ \ {"session"}]
      [] Statement = "rename" -> [tx EXCEPT !.session = tx.copy, !.copy = {},
                                            !.tables = {"session"},
                                            !.schema = @ \cup {Current}]

RunStatement ==
    /\ Running /\ CanRun
    /\ tx' = Effect /\ stmt' = stmt + 1
    /\ UNCHANGED <<db, fileVars, backups, phase, pending, outside, faults, ghosts>>

\* What the database is left with when a transaction does not commit.
Undone_Autocommit == tx
Undone == db

\* The script fails: it is rolled back, the connection closes and the error
\* ends the start.
Refused_Ignored == "record"
Refused == "failed"
FailStatement ==
    /\ Running
    /\ \/ ~CanRun /\ UNCHANGED <<faults, failing>>
       \/ Fault /\ failing' = TRUE
    /\ phase' = Refused
    /\ db' = Undone
    /\ Close
    /\ UNCHANGED <<backups, startVars, outside, stranded, gap>>

Commit ==
    /\ phase = "script" /\ pending # {} /\ stmt = Len(Script(Current))
    /\ db' = tx
    /\ phase' = "record"
    /\ UNCHANGED <<fileVars, backups, startVars, outside, faults, ghosts>>

Recorded_NotCommitted == db.recorded
Recorded == db.recorded \cup {Current}
Record ==
    /\ phase = "record"
    /\ db' = [db EXCEPT !.recorded = Recorded]
    /\ tx' = db' /\ stmt' = 0
    /\ pending' = pending \ {Current}
    /\ phase' = "script"
    /\ UNCHANGED <<fileVars, backups, outside, faults, ghosts>>

RecordFails ==
    /\ phase = "record" /\ Fault
    /\ phase' = "failed" /\ gap' = TRUE /\ failing' = TRUE
    /\ Close
    /\ UNCHANGED <<db, backups, startVars, outside, stranded>>

Ready ==
    /\ phase = "script" /\ pending = {}
    /\ phase' = "serving"
    /\ Close
    /\ UNCHANGED <<db, backups, startVars, outside, faults, ghosts>>

(***************************************************************************)
(* The daemon at work, its end, and the world around it.                   *)
(***************************************************************************)
Write ==
    /\ phase = "serving" /\ Len(since) < MaxRows
    /\ since' = Append(since, now)
    /\ db' = [db EXCEPT !.session = @ \cup {Len(since) + 1}]
    /\ UNCHANGED <<fileVars, backups, phase, startVars, shipped, now, faults, ghosts>>

Checkpoint ==
    /\ phase = "serving" /\ file # db
    /\ Close
    /\ UNCHANGED <<db, backups, phase, startVars, outside, faults, ghosts>>

Stop ==
    /\ phase = "serving" /\ file = db
    /\ phase' = "down"
    /\ UNCHANGED <<db, fileVars, backups, startVars, outside, faults, ghosts>>

Crash ==
    /\ phase \notin {"down", "failed"} /\ Fault
    /\ phase' = "down"
    /\ db' = IF phase = "script" THEN Undone ELSE db
    /\ tx' = NoDb /\ pending' = {} /\ stmt' = 0
    /\ stranded' = stranded \cup (db.session \ file.session)
    /\ gap' = (gap \/ phase = "record")
    /\ UNCHANGED <<fileVars, backups, outside, failing>>

Upgrade ==
    /\ phase \in {"down", "failed"} /\ shipped < N
    /\ shipped' = shipped + 1
    /\ UNCHANGED <<db, fileVars, backups, phase, startVars, now, since, faults, ghosts>>

\* A start takes no time at the scale of a day.
Tick ==
    /\ phase \in {"down", "failed", "serving"} /\ now < MaxTime
    /\ now' = now + 1
    /\ UNCHANGED <<db, fileVars, backups, phase, startVars, shipped, since, faults, ghosts>>

Next ==
    \/ Start \/ SkipBackup \/ BeginCopy \/ EndCopy \/ Unlink \/ EndBackup \/ SnapshotFails
    \/ Open \/ OpenFails
    \/ RunStatement \/ FailStatement \/ Commit \/ Record \/ RecordFails \/ Ready
    \/ Write \/ Checkpoint \/ Stop \/ Crash \/ Upgrade \/ Tick

Spec == Init /\ [][Next]_vars

(***************************************************************************)
(* Properties.                                                             *)
(***************************************************************************)
\* Whatever a start is killed in the middle of, and however often a script is
\* run again, every row a user wrote is in the table session.
RowsKept == phase \in {"down", "failed", "serving"} => db.session = Wrote

\* The daemon serves only on the schema its release was written for: no
\* script was skipped, none ran without its record.
SchemaReady == phase = "serving" =>
    db.recorded = 1 .. shipped /\ db.schema = 1 .. shipped

\* A start refuses only because a call failed in it for a reason of its own (a
\* statement, the snapshot, opening the file), and then the database is as the
\* scripts recorded in it left it and the next start can go on from there; or
\* because some start was cut between a script and its record.  Apart from that,
\* a script is never met by what an earlier run left.
RefusedOnlyAfterGap == phase = "failed" =>
    gap \/ (failing /\ db.schema = db.recorded)

\* Before a script touches the tables, a snapshot less than a day old holds
\* every row older than a day, apart from rows a crash left in the WAL when it
\* was taken, and from a snapshot that a crash or a failing copy tore.
Fresh(b) == now < b.taken + StaleAfter
SnapshotFirst == phase = "script" /\ stmt > 0 =>
    \A r \in Wrote \ stranded : since[r] + StaleAfter <= now =>
        \E i \in 1 .. Len(backups) :
            Fresh(backups[i]) /\ (backups[i].whole => r \in backups[i].rows)

(***************************************************************************)
(* What the comments say and the code does not do.                         *)
(***************************************************************************)
\* "applied ... exactly once each": a start is not refused by its own scripts
\* once its calls themselves work.
StartsAgain == phase = "failed" => failing

\* "Snapshot the DB file before migrating, at most once per 24h."
OnceADay == \A i \in 2 .. Len(backups) :
    backups[i].whole => backups[i - 1].taken + StaleAfter <= backups[i].taken

\* Every row of more than a day is in a fresh snapshot before a script runs.
SnapshotHasAll == phase = "script" /\ stmt > 0 =>
    \A r \in Wrote : since[r] + StaleAfter <= now =>
        \E i \in 1 .. Len(backups) : Fresh(backups[i]) /\ r \in backups[i].rows
=============================================================================
