------------------------- MODULE Migrations_proofs -------------------------
(***************************************************************************)
(* What holds of every start of the daemon, for any number of scripts.     *)
(*                                                                         *)
(* The argument: the scripts recorded are a prefix 1 .. k of those shipped, *)
(* and the schema has that prefix or one script more, the one whose record *)
(* is still to come or was lost; so the next script to run is always k + 1 *)
(* and meets its own traces only in the second case.  Between statements   *)
(* the open transaction is a known step of the rebuild away from the       *)
(* committed database, which a start never leaves without the users' rows. *)
(***************************************************************************)
EXTENDS Migrations, TLAPS

\* The table session as committed: it has every row and no half-made copy.
Whole == /\ db.copy = {} /\ db.session = Wrote
         /\ db.tables = IF 1 \in db.schema THEN {"session"} ELSE {}

\* k scripts are recorded.
Prefix(k) ==
    /\ db.recorded = 1 .. k
    /\ \/ db.schema = 1 .. k /\ phase # "record"
       \/ db.schema = 1 .. (k + 1) /\ k < shipped /\ (gap \/ phase = "record")
    /\ phase \in {"script", "record"} => pending = (k + 1) .. shipped
    /\ phase = "serving" => k = shipped

Ordered == \E k \in 0 .. shipped : Prefix(k)

\* The open transaction after stmt statements of the current script.
InTx ==
    \/ stmt = 0 /\ tx = db
    \/ /\ pending # {} /\ Script(Current) = <<"change">> /\ stmt = 1
       /\ tx = [db EXCEPT !.schema = @ \cup {Current},
                          !.tables = IF Current = 1 THEN @ \cup {"session"} ELSE @]
    \/ /\ pending # {} /\ Current = Rebuild /\ stmt = 1
       /\ tx = [db EXCEPT !.copy = Wrote, !.tables = {"session", "session_new"}]
    \/ /\ pending # {} /\ Current = Rebuild /\ stmt = 2
       /\ tx = [db EXCEPT !.session = {}, !.copy = Wrote, !.tables = {"session_new"}]
    \/ /\ pending # {} /\ Current = Rebuild /\ stmt = 3
       /\ tx = [db EXCEPT !.schema = @ \cup {Current}]

Reason == phase = "failed" => failing \/ gap

IInv == TypeOK /\ Whole /\ Ordered /\ (phase = "script" => InTx) /\ Reason

\* The initial states satisfy the invariant.
LEMMA InitHolds == Init => IInv
<1> SUFFICES ASSUME Init PROVE IInv
  OBVIOUS
<1>1. TypeOK
  <2>1. NoDb \in Db
    BY DEF NoDb, Db
  <2>2. <<>> \in Seq(Backup) /\ <<>> \in Seq(Nat) /\ Len(<<>>) = 0
    OBVIOUS
  <2>3. since \in Seq(Nat) /\ Len(since) <= MaxRows /\ backups \in Seq(Backup)
    BY <2>2, MigrationsAssumption DEF Init
  <2>4. db \in Db /\ file \in Db /\ tx \in Db
    BY <2>1 DEF Init
  <2>5. QED
    BY <2>3, <2>4 DEF Init, TypeOK
<1>2. shipped \in Nat /\ db.recorded = 1 .. 0 /\ db.schema = 1 .. 0
  BY MigrationsAssumption DEF Init, NoDb, Scripts
<1>3. Ordered
  <2>1. Prefix(0)
    BY <1>2 DEF Init, Prefix
  <2>2. QED
    BY <1>2, <2>1 DEF Ordered
<1>4. QED
  BY <1>1, <1>3 DEF Init, IInv, Whole, Wrote, Reason, NoDb

(***************************************************************************)
(* Lemmas on the helpers.                                                  *)
(***************************************************************************)
\* The next script of a start is the least one it has left.
LEMMA NextScript ==
  ASSUME NEW k \in Nat, NEW n \in Nat, k < n, pending = (k + 1) .. n
  PROVE  Current = k + 1
BY DEF Current

\* The scripts that are left name the current one among the shipped.
LEMMA CurrentIsPending ==
  ASSUME TypeOK, pending # {}, NEW k \in 0 .. shipped, pending = (k + 1) .. shipped
  PROVE  k < shipped /\ Current = k + 1 /\ Current \in Scripts /\ k \in Nat /\ shipped \in Nat
<1>1. shipped \in Nat /\ shipped <= N /\ N \in Nat
  BY MigrationsAssumption DEF TypeOK, Scripts
<1>2. k < shipped
  BY <1>1
<1> QED
  BY <1>1, <1>2, NextScript DEF Scripts

\* The statements of a script.
LEMMA ScriptFacts ==
  ASSUME NEW m
  PROVE  /\ m # Rebuild => /\ Script(m) = <<"change">> /\ Len(Script(m)) = 1
                           /\ Script(m)[1] = "change"
         /\ m = Rebuild => /\ Len(Script(m)) = 3
                           /\ Script(m)[1] = "copy" /\ Script(m)[2] = "drop"
                           /\ Script(m)[3] = "rename" /\ Script(m) # <<"change">>
BY DEF Script

\* Which statement comes next.
LEMMA StatementFacts ==
  ASSUME Running, stmt \in Nat
  PROVE  \/ Current # Rebuild /\ stmt = 0 /\ Statement = "change"
         \/ Current = Rebuild /\ stmt = 0 /\ Statement = "copy"
         \/ Current = Rebuild /\ stmt = 1 /\ Statement = "drop"
         \/ Current = Rebuild /\ stmt = 2 /\ Statement = "rename"
<1>1. stmt < Len(Script(Current))
  BY DEF Running
<1>2. CASE Current # Rebuild
  <2>1. Len(Script(Current)) = 1 /\ Script(Current)[1] = "change"
    BY <1>2, ScriptFacts
  <2>2. stmt = 0
    BY <1>1, <2>1
  <2>3. QED
    BY <1>2, <2>1, <2>2 DEF Statement
<1>3. CASE Current = Rebuild
  <2>1. /\ Len(Script(Current)) = 3
        /\ Script(Current)[1] = "copy" /\ Script(Current)[2] = "drop"
        /\ Script(Current)[3] = "rename"
    BY <1>3, ScriptFacts
  <2>2. stmt = 0 \/ stmt = 1 \/ stmt = 2
    BY <1>1, <2>1
  <2>3. QED
    BY <1>3, <2>1, <2>2 DEF Statement
<1> QED
  BY <1>2, <1>3

\* A statement leaves a database of the same shape.
LEMMA EffectType ==
  ASSUME TypeOK, Running, CanRun, Current \in Scripts
  PROVE  Effect \in Db
<1>1. tx \in Db /\ stmt \in Nat
  BY DEF TypeOK
<1>2. Statement \in {"change", "copy", "drop", "rename"}
  BY <1>1, StatementFacts
<1>3. CASE Statement = "change"
  BY <1>1, <1>3 DEF Effect, Db
<1>4. CASE Statement = "copy"
  <2>1. Effect = [tx EXCEPT !.copy = tx.session, !.tables = @ \cup {"session_new"}]
    BY <1>4 DEF Effect
  <2>2. /\ tx.session \in SUBSET Rows
        /\ tx.tables \cup {"session_new"} \in SUBSET {"session", "session_new"}
    BY <1>1 DEF Db
  <2>3. [tx EXCEPT !.copy = tx.session] \in Db
    BY <1>1, <2>2 DEF Db
  <2>4. QED
    BY <2>1, <2>2, <2>3 DEF Db
<1>5. CASE Statement = "drop"
  BY <1>1, <1>5 DEF Effect, Db
<1>6. CASE Statement = "rename"
  BY <1>1, <1>6 DEF Effect, Db
<1> QED
  BY <1>2, <1>3, <1>4, <1>5, <1>6

\* The snapshots left when the oldest is unlinked are snapshots.
LEMMA UnlinkedType ==
  ASSUME NEW b \in Seq(Backup), Len(b) > MaxBackups
  PROVE  Unlinked(b) \in Seq(Backup)
<1>1. b # <<>>
  BY MigrationsAssumption
<1>2. QED
  BY <1>1 DEF Unlinked

\* Replacing an element of a sequence.
LEMMA ExceptInSeq ==
  ASSUME NEW S, NEW s \in Seq(S), NEW i, NEW e \in S
  PROVE  [s EXCEPT ![i] = e] \in Seq(S)
<1>1. s \in [1 .. Len(s) -> S] /\ Len(s) \in Nat
  OBVIOUS
<1>2. [s EXCEPT ![i] = e] \in [1 .. Len(s) -> S]
  BY <1>1
<1>3. QED
  BY <1>1, <1>2

\* A filled snapshot is a snapshot.
LEMMA FilledType ==
  ASSUME TypeOK, NEW m \in Nat
  PROVE  Filled(m) \in Seq(Backup)
<1> DEFINE last == [backups[Len(backups)] EXCEPT !.mtime = m, !.whole = TRUE,
                                                 !.rows = file.session]
<1>1. file.session \subseteq Rows /\ backups \in Seq(Backup)
  BY DEF TypeOK, Db
<1>2. Filled(m) = [backups EXCEPT ![Len(backups)] = last]
  BY DEF Filled
<1>3. CASE backups = <<>>
  <2>1. [backups EXCEPT ![Len(backups)] = last] = <<>>
    BY <1>3
  <2>2. QED
    BY <1>1, <1>2, <1>3, <2>1
<1>4. CASE backups # <<>>
  <2>1. backups[Len(backups)] \in Backup
    BY <1>1, <1>4
  <2>2. last \in Backup
    BY <1>1, <2>1 DEF Backup
  <2> HIDE DEF last
  <2>3. QED
    BY <1>1, <1>2, <2>2, ExceptInSeq
<1>5. QED
  BY <1>3, <1>4

\* Closing leaves the file as the database.
LEMMA CloseType ==
  ASSUME TypeOK, Close, db' \in Db, now \in Nat
  PROVE  file' \in Db /\ mtime' \in Nat /\ exists' = exists
BY DEF Close, TypeOK

\* What the invariant says where scripts are left to run.
LEMMA Facts ==
  ASSUME IInv
  PROVE  /\ shipped \in Nat /\ shipped <= N /\ N \in Nat /\ stmt \in Nat /\ now \in Nat
         /\ \E k \in 0 .. shipped : k \in Nat /\ Prefix(k)
         /\ phase \in {"script", "record"} /\ pending # {} => Current \in Scripts
<1>1. shipped \in Nat /\ shipped <= N /\ N \in Nat /\ stmt \in Nat /\ now \in Nat
  BY MigrationsAssumption DEF IInv, TypeOK, Scripts
<1>2. PICK k \in 0 .. shipped : Prefix(k)
  BY DEF IInv, Ordered
<1>3. k \in Nat
  BY <1>1
<1>4. phase \in {"script", "record"} /\ pending # {} => Current \in Scripts
  BY <1>2, CurrentIsPending DEF IInv, Prefix
<1> QED
  BY <1>1, <1>2, <1>3, <1>4

(***************************************************************************)
(* Types.                                                                  *)
(***************************************************************************)

\* Every step keeps the types.
LEMMA TypeStep == ASSUME IInv, [Next]_vars PROVE TypeOK'
<1> USE MigrationsAssumption
<1>0. TypeOK
  BY DEF IInv
<1>1. CASE Start
  BY <1>0, <1>1 DEF TypeOK, Start, fileVars, startVars, outside
<1>2. CASE SkipBackup
  BY <1>0, <1>2 DEF TypeOK, SkipBackup, fileVars, startVars, outside, ghosts
<1>3. CASE BeginCopy
  <2>1. [taken |-> now, mtime |-> now, whole |-> FALSE, rows |-> {}] \in Backup
    BY <1>0 DEF TypeOK, Backup
  <2>2. backups' \in Seq(Backup)
    BY <1>0, <1>3, <2>1 DEF TypeOK, BeginCopy
  <2>3. QED
    BY <1>0, <1>3, <2>2 DEF TypeOK, BeginCopy, fileVars, startVars, outside, ghosts
<1>4. CASE EndCopy
  <2>1. backups' \in Seq(Backup) /\ stranded' \subseteq Rows
    BY <1>0, <1>4, FilledType DEF TypeOK, EndCopy
  <2>2. QED
    BY <1>0, <1>4, <2>1 DEF TypeOK, EndCopy, fileVars, startVars, outside
<1>5. CASE Open
  <2>1. pending' \subseteq Scripts /\ mtime' \in Nat
    BY <1>0, <1>5 DEF TypeOK, Open, Scripts
  <2>2. QED
    BY <1>0, <1>5, <2>1 DEF TypeOK, Open, outside, ghosts
<1>19. CASE Unlink
  <2>1. backups' \in Seq(Backup)
    BY <1>0, <1>19, UnlinkedType DEF TypeOK, Unlink
  <2>2. QED
    BY <1>0, <1>19, <2>1 DEF TypeOK, Unlink, fileVars, startVars, outside, ghosts
<1>20. CASE EndBackup
  BY <1>0, <1>20 DEF TypeOK, EndBackup, fileVars, startVars, outside, ghosts
<1>21. CASE SnapshotFails
  <2>1. backups' \in Seq(Backup) /\ stranded' \subseteq Rows
    BY <1>0, <1>21, FilledType DEF TypeOK, SnapshotFails
  <2>2. faults' \in Nat
    BY <1>0, <1>21 DEF TypeOK, SnapshotFails, Fault
  <2>3. QED
    BY <1>0, <1>21, <2>1, <2>2 DEF TypeOK, SnapshotFails, fileVars, startVars, outside
<1>22. CASE OpenFails
  <2>1. exists' \in BOOLEAN /\ mtime' \in Nat /\ file' \in Db
    BY <1>0, <1>22 DEF TypeOK, OpenFails, fileVars
  <2>2. faults' \in Nat
    BY <1>0, <1>22 DEF TypeOK, OpenFails, Fault
  <2>3. QED
    BY <1>0, <1>22, <2>1, <2>2 DEF TypeOK, OpenFails, startVars, outside
<1>6. CASE RunStatement
  <2>1. tx' \in Db
    BY <1>0, <1>6, Facts, EffectType DEF RunStatement, Running
  <2>2. QED
    BY <1>0, <1>6, <2>1 DEF TypeOK, RunStatement, fileVars, outside, ghosts
<1>7. CASE FailStatement
  <2>1. db' \in Db /\ Close
    BY <1>0, <1>7 DEF TypeOK, FailStatement, Undone
  <2>2. file' \in Db /\ mtime' \in Nat /\ exists' = exists
    BY <1>0, <2>1, CloseType DEF TypeOK
  <2>3. faults' \in Nat /\ failing' \in BOOLEAN
    <3>1. UNCHANGED <<faults, failing>> \/ (faults' = faults + 1 /\ failing' = TRUE)
      BY <1>7 DEF FailStatement, Fault
    <3>2. faults \in Nat /\ failing \in BOOLEAN
      BY <1>0 DEF TypeOK
    <3>3. faults' \in Nat
      BY <3>1, <3>2
    <3>4. failing' \in BOOLEAN
      BY <3>1, <3>2, Zenon
    <3>5. QED
      BY <3>3, <3>4
  <2>4. /\ phase' = "failed"
        /\ UNCHANGED <<backups, pending, tx, stmt, shipped, now, since, stranded, gap>>
    BY <1>7 DEF FailStatement, Refused, startVars, outside
  <2>5. QED
    BY <1>0, <2>1, <2>2, <2>3, <2>4 DEF TypeOK
<1>8. CASE Commit
  BY <1>0, <1>8 DEF TypeOK, Commit, fileVars, startVars, outside, ghosts
<1>9. CASE Record
  <2>1. Current \in Scripts \/ pending = {}
    BY <1>9, Facts DEF Record
  <2>2. db' \in Db
    <3>1. db.recorded \cup {Current} \in SUBSET Scripts \/ pending = {}
      BY <1>0, <2>1 DEF TypeOK, Db
    <3>2. pending # {}
      <4>1. PICK k \in 0 .. shipped : k \in Nat /\ Prefix(k)
        BY Facts
      <4>2. shipped \in Nat /\ k < shipped /\ pending = (k + 1) .. shipped
        BY <1>9, <4>1, Facts DEF Record, Prefix
      <4>3. shipped \in pending
        BY <4>1, <4>2
      <4>4. QED
        BY <4>3
    <3>3. QED
      BY <1>0, <1>9, <3>1, <3>2 DEF TypeOK, Record, Recorded, Db
  <2>3. QED
    BY <1>0, <1>9, <2>2 DEF TypeOK, Record, fileVars, outside, ghosts
<1>10. CASE RecordFails
  <2>1. file' \in Db /\ mtime' \in Nat /\ exists' = exists
    BY <1>0, <1>10, CloseType DEF TypeOK, RecordFails
  <2>2. faults' \in Nat
    BY <1>0, <1>10 DEF TypeOK, RecordFails, Fault
  <2>3. QED
    BY <1>0, <1>10, <2>1, <2>2 DEF TypeOK, RecordFails, startVars, outside
<1>11. CASE Ready
  <2>1. file' \in Db /\ mtime' \in Nat /\ exists' = exists
    BY <1>0, <1>11, CloseType DEF TypeOK, Ready
  <2>2. QED
    BY <1>0, <1>11, <2>1 DEF TypeOK, Ready, startVars, outside, ghosts
<1>12. CASE Write
  <2>1. Len(since) + 1 \in Rows /\ Len(since) \in Nat
    BY <1>0, <1>12 DEF TypeOK, Write, Rows
  <2>2. db' \in Db
    BY <1>0, <1>12, <2>1 DEF TypeOK, Write, Db
  <2>3. since' \in Seq(Nat) /\ Len(since') <= MaxRows
    BY <1>0, <1>12, <2>1 DEF TypeOK, Write
  <2>4. QED
    BY <1>0, <1>12, <2>2, <2>3 DEF TypeOK, Write, fileVars, startVars, ghosts
<1>13. CASE Checkpoint
  <2>1. file' \in Db /\ mtime' \in Nat /\ exists' = exists
    BY <1>0, <1>13, CloseType DEF TypeOK, Checkpoint
  <2>2. QED
    BY <1>0, <1>13, <2>1 DEF TypeOK, Checkpoint, startVars, outside, ghosts
<1>14. CASE Stop
  BY <1>0, <1>14 DEF TypeOK, Stop, fileVars, startVars, outside, ghosts
<1>15. CASE Crash
  <2>1. db' = db
    BY <1>15 DEF Crash, Undone
  <2>2. db.session \subseteq Rows /\ NoDb \in Db
    BY <1>0 DEF TypeOK, Db, NoDb
  <2>3. faults' \in Nat /\ gap' \in BOOLEAN /\ stranded' \subseteq Rows
    BY <1>0, <1>15, <2>2 DEF TypeOK, Crash, Fault
  <2>4. QED
    BY <1>0, <1>15, <2>1, <2>2, <2>3 DEF TypeOK, Crash, fileVars, outside
<1>16. CASE Upgrade
  <2>1. shipped' \in Scripts
    BY <1>0, <1>16 DEF TypeOK, Upgrade, Scripts
  <2>2. QED
    BY <1>0, <1>16, <2>1 DEF TypeOK, Upgrade, fileVars, startVars, ghosts
<1>17. CASE Tick
  BY <1>0, <1>17 DEF TypeOK, Tick, fileVars, startVars, ghosts
<1>18. CASE UNCHANGED vars
  BY <1>0, <1>18 DEF TypeOK, vars, fileVars, startVars, outside, ghosts
<1> QED
  BY <1>1, <1>2, <1>3, <1>4, <1>5, <1>6, <1>7, <1>8, <1>9, <1>10, <1>11, <1>12, <1>13,
     <1>14, <1>15, <1>16, <1>17, <1>18, <1>19, <1>20, <1>21, <1>22 DEF Next

(***************************************************************************)
(* What is committed.                                                      *)
(***************************************************************************)
\* Inside a start, the next script follows the recorded ones, and the table
\* session is there once the first script has run.
LEMMA NextAfterPrefix ==
  ASSUME IInv, phase \in {"script", "record"}, pending # {}
  PROVE  \E k \in 0 .. shipped :
           /\ Prefix(k) /\ k \in Nat /\ k < shipped /\ Current = k + 1
           /\ Current \in Scripts /\ shipped \in Nat /\ pending = (k + 1) .. shipped
<1>1. PICK k \in 0 .. shipped : k \in Nat /\ Prefix(k)
  BY Facts
<1>2. pending = (k + 1) .. shipped
  BY <1>1 DEF Prefix
<1>3. k < shipped /\ Current = k + 1 /\ Current \in Scripts /\ shipped \in Nat
  BY <1>2, CurrentIsPending DEF IInv
<1>4. QED
  BY <1>1, <1>2, <1>3

\* When the rebuild is the next script, the table it copies exists.
LEMMA RebuildHasTable ==
  ASSUME IInv, phase = "script", pending # {}, Current = Rebuild
  PROVE  1 \in db.schema /\ db.tables = {"session"} /\ Rebuild # 1
<1>1. PICK k \in 0 .. shipped : Prefix(k) /\ k \in Nat /\ Current = k + 1
  BY NextAfterPrefix
<1>2. k >= 1 /\ Rebuild # 1
  BY <1>1, MigrationsAssumption
<1>3. 1 \in db.schema
  BY <1>1, <1>2 DEF Prefix
<1>4. QED
  BY <1>2, <1>3 DEF IInv, Whole

\* What the transaction holds when a script is complete.
LEMMA CommitFacts ==
  ASSUME IInv, Commit
  PROVE  /\ pending # {} /\ phase = "script"
         /\ tx = [db EXCEPT !.schema = @ \cup {Current},
                            !.tables = IF Current = 1 THEN @ \cup {"session"} ELSE @]
<1>1. InTx /\ phase = "script" /\ pending # {} /\ stmt = Len(Script(Current)) /\ db \in Db
  BY DEF IInv, TypeOK, Commit
<1>2. CASE Current # Rebuild
  <2>1. stmt = 1
    BY <1>1, <1>2, ScriptFacts
  <2>2. QED
    BY <1>1, <1>2, <2>1 DEF InTx
<1>3. CASE Current = Rebuild
  <2>1. stmt = 3 /\ Script(Current) # <<"change">> /\ Current # 1
    BY <1>1, <1>3, ScriptFacts, RebuildHasTable
  <2>2. tx = [db EXCEPT !.schema = @ \cup {Current}]
    BY <1>1, <2>1 DEF InTx
  <2>3. QED
    BY <1>1, <2>1, <2>2 DEF Db
<1>4. QED
  BY <1>2, <1>3

\* No step commits a database without the users' rows.
LEMMA WholeStep == ASSUME IInv, [Next]_vars PROVE Whole'
<1>0. Whole /\ TypeOK
  BY DEF IInv
<1>1. CASE Commit
  <2>1. /\ tx = [db EXCEPT !.schema = @ \cup {Current},
                           !.tables = IF Current = 1 THEN @ \cup {"session"} ELSE @]
        /\ db' = tx /\ since' = since /\ db \in Db
    BY <1>0, <1>1, CommitFacts DEF Commit, outside, TypeOK
  <2>2. /\ db'.copy = db.copy /\ db'.session = db.session
        /\ db'.schema = db.schema \cup {Current}
        /\ db'.tables = IF Current = 1 THEN db.tables \cup {"session"} ELSE db.tables
    BY <2>1 DEF Db
  <2>3. db'.tables = IF 1 \in db'.schema THEN {"session"} ELSE {}
    BY <1>0, <2>2 DEF Whole
  <2>4. QED
    BY <1>0, <2>1, <2>2, <2>3 DEF Whole, Wrote
<1>2. CASE Record
  <2>1. db' = [db EXCEPT !.recorded = Recorded] /\ since' = since /\ db \in Db
    BY <1>0, <1>2 DEF Record, outside, TypeOK
  <2>2. /\ db'.copy = db.copy /\ db'.session = db.session
        /\ db'.schema = db.schema /\ db'.tables = db.tables
    BY <2>1 DEF Db
  <2>3. QED
    BY <1>0, <2>1, <2>2 DEF Whole, Wrote
<1>3. CASE Write
  <2>1. /\ db' = [db EXCEPT !.session = @ \cup {Len(since) + 1}] /\ db \in Db
        /\ since' = Append(since, now) /\ since \in Seq(Nat)
    BY <1>0, <1>3 DEF Write, TypeOK
  <2>2. /\ db'.copy = db.copy /\ db'.session = db.session \cup {Len(since) + 1}
        /\ db'.schema = db.schema /\ db'.tables = db.tables
    BY <2>1 DEF Db
  <2>3. Len(since') = Len(since) + 1 /\ Len(since) \in Nat
    BY <2>1
  <2>4. Wrote' = Wrote \cup {Len(since) + 1}
    BY <2>3 DEF Wrote
  <2>5. QED
    BY <1>0, <2>2, <2>4 DEF Whole
<1>4. CASE FailStatement
  BY <1>0, <1>4 DEF FailStatement, Undone, outside, Whole, Wrote
<1>5. CASE Crash
  BY <1>0, <1>5 DEF Crash, Undone, outside, Whole, Wrote
<1>6. CASE db' = db /\ since' = since
  BY <1>0, <1>6 DEF Whole, Wrote
<1>7. CASE \/ Start \/ SkipBackup \/ BeginCopy \/ EndCopy \/ Unlink \/ EndBackup
           \/ SnapshotFails \/ Open \/ OpenFails \/ RunStatement
           \/ RecordFails \/ Ready \/ Checkpoint \/ Stop \/ Upgrade \/ Tick \/ UNCHANGED vars
  BY <1>6, <1>7 DEF Start, SkipBackup, BeginCopy, EndCopy, Unlink, EndBackup, SnapshotFails,
     Open, OpenFails, RunStatement, RecordFails, Ready, Checkpoint, Stop, Upgrade, Tick, vars,
     outside
<1> QED
  BY <1>1, <1>2, <1>3, <1>4, <1>5, <1>7 DEF Next

(***************************************************************************)
(* Which scripts are recorded.                                             *)
(***************************************************************************)
\* A step that leaves the database, the release and the scripts left to run
\* alone keeps the prefix, wherever it goes that no script is running.
LEMMA PrefixKept ==
  ASSUME IInv, NEW k \in 0 .. shipped, Prefix(k), k \in Nat, shipped \in Nat,
         db' = db, shipped' \in Nat, shipped <= shipped',
         gap' = (gap \/ phase = "record"),
         phase' \in {"down", "backup", "copying", "pruning", "open", "failed"}
  PROVE  Ordered'
<1>1. k \in 0 .. shipped'
  OBVIOUS
<1>2. gap /\ gap \in BOOLEAN => gap'
  OBVIOUS
<1>3. phase = "record" => gap'
  OBVIOUS
<1>4. gap \in BOOLEAN
  BY DEF IInv, TypeOK
<1>5. k < shipped => k < shipped'
  OBVIOUS
<1>6. \/ db'.schema = 1 .. k /\ phase' # "record"
      \/ db'.schema = 1 .. (k + 1) /\ k < shipped' /\ gap'
  BY <1>2, <1>3, <1>4, <1>5 DEF Prefix
<1>7. Prefix(k)'
  BY <1>6 DEF Prefix
<1>8. QED
  BY <1>1, <1>7 DEF Ordered

\* Every step keeps the records a prefix of the scripts.
LEMMA OrderedStep == ASSUME IInv, [Next]_vars PROVE Ordered'
<1>0. TypeOK /\ shipped \in Nat /\ gap \in BOOLEAN /\ db \in Db
  BY Facts DEF IInv, TypeOK
<1>a. PICK k \in 0 .. shipped : k \in Nat /\ Prefix(k)
  BY Facts
<1>1. CASE \/ Start /\ phase' # "open"
           \/ SkipBackup \/ BeginCopy \/ EndCopy \/ Unlink \/ EndBackup \/ SnapshotFails
           \/ OpenFails \/ Stop
  <2>1. /\ db' = db /\ shipped' = shipped /\ gap' = gap /\ phase # "record"
        /\ phase' \in {"down", "backup", "copying", "pruning", "open", "failed"}
    BY <1>1 DEF Start, SkipBackup, BeginCopy, EndCopy, Unlink, EndBackup, SnapshotFails,
       OpenFails, Stop, outside, ghosts
  <2>2. gap' = (gap \/ phase = "record")
    BY <1>0, <2>1, Zenon
  <2>3. QED
    BY <1>0, <1>a, <2>1, <2>2, PrefixKept
<1>2. CASE Start /\ phase' = "open"
  <2>1. db' = db /\ shipped' = shipped /\ gap' = gap /\ phase # "record"
    BY <1>2 DEF Start, outside
  <2>2. gap' = (gap \/ phase = "record")
    BY <1>0, <2>1, Zenon
  <2>3. QED
    BY <1>0, <1>2, <1>a, <2>1, <2>2, PrefixKept
<1>3. CASE Open
  <2>1. /\ db' = db /\ shipped' = shipped /\ gap' = gap /\ phase = "open" /\ phase' = "script"
        /\ pending' = (1 .. shipped) \ db.recorded
    BY <1>3 DEF Open, outside, ghosts
  <2>2. pending' = (k + 1) .. shipped
    BY <1>0, <1>a, <2>1 DEF Prefix
  <2>3. Prefix(k)'
    BY <1>a, <2>1, <2>2 DEF Prefix
  <2>4. QED
    BY <1>a, <2>1, <2>3 DEF Ordered
<1>4. CASE FailStatement
  <2>1. db' = db /\ shipped' = shipped /\ gap' = gap /\ phase # "record" /\ phase' = "failed"
    BY <1>4 DEF FailStatement, Running, Undone, Refused, outside
  <2>2. gap' = (gap \/ phase = "record")
    BY <1>0, <2>1, Zenon
  <2>3. QED
    BY <1>0, <1>a, <2>1, <2>2, PrefixKept
<1>5. CASE Commit
  <2>1. /\ db' = [db EXCEPT !.schema = @ \cup {Current},
                            !.tables = IF Current = 1 THEN @ \cup {"session"} ELSE @]
        /\ pending # {} /\ phase = "script" /\ phase' = "record"
        /\ shipped' = shipped /\ pending' = pending /\ gap' = gap
    BY <1>5, CommitFacts DEF Commit, startVars, outside, ghosts
  <2>2. db'.schema = db.schema \cup {Current} /\ db'.recorded = db.recorded
    BY <1>0, <2>1 DEF Db
  <2>3. PICK j \in 0 .. shipped : /\ Prefix(j) /\ j \in Nat /\ j < shipped /\ Current = j + 1
                                  /\ pending = (j + 1) .. shipped
    BY <2>1, NextAfterPrefix
  <2>4. db'.schema = 1 .. (j + 1)
    BY <2>2, <2>3 DEF Prefix
  <2>5. Prefix(j)'
    BY <2>1, <2>2, <2>3, <2>4 DEF Prefix
  <2>6. QED
    BY <2>1, <2>3, <2>5 DEF Ordered
<1>6. CASE Record
  <2>1. /\ db' = [db EXCEPT !.recorded = db.recorded \cup {Current}]
        /\ phase = "record" /\ phase' = "script" /\ pending' = pending \ {Current}
        /\ shipped' = shipped /\ gap' = gap
    BY <1>6 DEF Record, Recorded, outside, ghosts
  <2>2. db'.schema = db.schema /\ db'.recorded = db.recorded \cup {Current}
    BY <1>0, <2>1 DEF Db
  <2>3. k < shipped /\ pending = (k + 1) .. shipped /\ db.schema = 1 .. (k + 1)
    BY <1>a, <2>1 DEF Prefix
  <2>4. Current = k + 1
    BY <1>0, <1>a, <2>3, NextScript
  <2>5. /\ k + 1 \in 0 .. shipped' /\ db'.recorded = 1 .. (k + 1)
        /\ pending' = ((k + 1) + 1) .. shipped'
    BY <1>0, <1>a, <2>1, <2>2, <2>3, <2>4 DEF Prefix
  <2>6. Prefix(k + 1)'
    BY <2>1, <2>2, <2>3, <2>5 DEF Prefix
  <2>7. QED
    BY <2>5, <2>6 DEF Ordered
<1>7. CASE RecordFails
  <2>1. db' = db /\ shipped' = shipped /\ gap' = TRUE /\ phase = "record" /\ phase' = "failed"
    BY <1>7 DEF RecordFails, outside
  <2>2. gap' = (gap \/ phase = "record")
    BY <1>0, <2>1, Zenon
  <2>3. QED
    BY <1>0, <1>a, <2>1, <2>2, PrefixKept
<1>8. CASE Ready
  <2>1. /\ db' = db /\ shipped' = shipped /\ gap' = gap /\ phase = "script"
        /\ phase' = "serving" /\ pending = {}
    BY <1>8 DEF Ready, outside, ghosts
  <2>2. pending = (k + 1) .. shipped
    BY <1>a, <2>1 DEF Prefix
  <2>3. k = shipped
    BY <1>0, <1>a, <2>1, <2>2
  <2>4. Prefix(k)'
    BY <1>a, <2>1, <2>3 DEF Prefix
  <2>5. QED
    BY <1>a, <2>1, <2>4 DEF Ordered
<1>9. CASE Write
  <2>1. /\ db' = [db EXCEPT !.session = @ \cup {Len(since) + 1}]
        /\ shipped' = shipped /\ gap' = gap /\ phase = "serving" /\ phase' = phase
    BY <1>9 DEF Write, ghosts
  <2>2. db'.schema = db.schema /\ db'.recorded = db.recorded
    BY <1>0, <2>1 DEF Db
  <2>3. Prefix(k)'
    BY <1>a, <2>1, <2>2 DEF Prefix
  <2>4. QED
    BY <1>a, <2>1, <2>3 DEF Ordered
<1>10. CASE Crash
  <2>1. db' = db /\ shipped' = shipped /\ phase' = "down" /\ gap' = (gap \/ phase = "record")
    BY <1>10 DEF Crash, Undone, outside
  <2>2. QED
    BY <1>0, <1>a, <2>1, PrefixKept
<1>11. CASE Upgrade
  <2>1. /\ db' = db /\ shipped' = shipped + 1 /\ gap' = gap /\ phase # "record"
        /\ phase' \in {"down", "failed"}
    BY <1>11 DEF Upgrade, ghosts
  <2>2. gap' = (gap \/ phase = "record")
    BY <1>0, <2>1, Zenon
  <2>3. QED
    BY <1>0, <1>a, <2>1, <2>2, PrefixKept
<1>12. CASE UNCHANGED <<db, shipped, phase, gap, pending>>
  <2>1. Prefix(k)'
    BY <1>12, <1>a DEF Prefix
  <2>2. QED
    BY <1>12, <1>a, <2>1 DEF Ordered
<1>13. CASE RunStatement \/ Checkpoint \/ Tick \/ UNCHANGED vars
  BY <1>12, <1>13 DEF RunStatement, Checkpoint, Tick, vars, startVars, outside, ghosts
<1> QED
  BY <1>1, <1>2, <1>3, <1>4, <1>5, <1>6, <1>7, <1>8, <1>9, <1>10, <1>11, <1>13 DEF Next

(***************************************************************************)
(* The open transaction.                                                   *)
(***************************************************************************)
\* Each statement of a script does what the script needs next.
LEMMA InTxRun == ASSUME IInv, RunStatement PROVE InTx'
<1>0. /\ InTx /\ Whole /\ db \in Db /\ tx \in Db /\ stmt \in Nat /\ Running
      /\ phase = "script" /\ pending # {}
  BY DEF IInv, TypeOK, RunStatement, Running
<1>1. /\ tx' = Effect /\ stmt' = stmt + 1 /\ db' = db /\ pending' = pending /\ since' = since
      /\ CanRun
  BY DEF RunStatement, outside
<1>2. Current' = Current /\ Wrote' = Wrote
  BY <1>1 DEF Current, Wrote
<1>3. CASE Current # Rebuild /\ stmt = 0 /\ Statement = "change"
  <2>1. tx = db
    BY <1>0, <1>3 DEF InTx
  <2>2. tx' = [db EXCEPT !.schema = @ \cup {Current},
                         !.tables = IF Current = 1 THEN @ \cup {"session"} ELSE @]
    BY <1>1, <1>3, <2>1 DEF Effect
  <2>3. Script(Current) = <<"change">> /\ stmt' = 1
    BY <1>1, <1>3, ScriptFacts
  <2>4. QED
    BY <1>0, <1>1, <1>2, <2>2, <2>3 DEF InTx, Script
<1>4. CASE Current = Rebuild /\ stmt = 0 /\ Statement = "copy"
  <2>1. tx = db /\ db.tables = {"session"} /\ db.session = Wrote
    BY <1>0, <1>4, RebuildHasTable DEF InTx, Whole
  <2>2. tx' = [db EXCEPT !.copy = Wrote, !.tables = {"session", "session_new"}]
    <3>1. tx' = [db EXCEPT !.copy = db.session, !.tables = @ \cup {"session_new"}]
      BY <1>1, <1>4, <2>1 DEF Effect
    <3>2. db.tables \cup {"session_new"} = {"session", "session_new"}
      BY <2>1
    <3>3. QED
      BY <1>0, <2>1, <3>1, <3>2 DEF Db
  <2>3. QED
    BY <1>0, <1>1, <1>2, <1>4, <2>2 DEF InTx
<1>5. CASE Current = Rebuild /\ stmt = 1 /\ Statement = "drop"
  <2>1. tx = [db EXCEPT !.copy = Wrote, !.tables = {"session", "session_new"}]
    BY <1>0, <1>5, ScriptFacts DEF InTx
  <2>2. tx' = [tx EXCEPT !.session = {}, !.tables = @ \ {"session"}]
    BY <1>1, <1>5 DEF Effect
  <2>3. tx.tables \ {"session"} = {"session_new"}
    BY <1>0, <2>1 DEF Db
  <2>4. tx' = [db EXCEPT !.session = {}, !.copy = Wrote, !.tables = {"session_new"}]
    BY <1>0, <2>1, <2>2, <2>3 DEF Db
  <2>5. QED
    BY <1>0, <1>1, <1>2, <1>5, <2>4 DEF InTx
<1>6. CASE Current = Rebuild /\ stmt = 2 /\ Statement = "rename"
  <2>1. tx = [db EXCEPT !.session = {}, !.copy = Wrote, !.tables = {"session_new"}]
    BY <1>0, <1>6, ScriptFacts DEF InTx
  <2>2. tx' = [tx EXCEPT !.session = tx.copy, !.copy = {}, !.tables = {"session"},
                         !.schema = @ \cup {Current}]
    BY <1>1, <1>6 DEF Effect
  <2>3. db.tables = {"session"} /\ db.session = Wrote /\ db.copy = {}
    BY <1>0, <1>6, RebuildHasTable DEF Whole
  <2>4. tx.copy = Wrote /\ tx.schema = db.schema /\ tx.recorded = db.recorded
    BY <1>0, <2>1 DEF Db
  <2>5. /\ tx'.session = db.session /\ tx'.copy = db.copy /\ tx'.tables = db.tables
        /\ tx'.schema = db.schema \cup {Current} /\ tx'.recorded = db.recorded
    BY <1>0, <2>2, <2>3, <2>4 DEF Db
  <2>6. tx' = [db EXCEPT !.schema = @ \cup {Current}]
    <3> DEFINE done == [db EXCEPT !.schema = @ \cup {Current}]
    <3>1. Current \in Scripts
      BY <1>0, NextAfterPrefix
    <3>2. done \in Db /\ tx' \in Db
      BY <1>0, <2>2, <3>1 DEF Db
    <3>3. /\ tx'.session = done.session /\ tx'.copy = done.copy /\ tx'.tables = done.tables
          /\ tx'.schema = done.schema /\ tx'.recorded = done.recorded
      BY <1>0, <2>5 DEF Db
    <3> HIDE DEF done
    <3>4. tx' = done
      BY <3>2, <3>3 DEF Db
    <3>5. QED
      BY <3>4 DEF done
  <2>7. QED
    BY <1>0, <1>1, <1>2, <1>6, <2>6 DEF InTx
<1> QED
  BY <1>0, <1>3, <1>4, <1>5, <1>6, StatementFacts

\* Wherever a script runs, the transaction is where its statements leave it.
LEMMA InTxStep == ASSUME IInv, [Next]_vars PROVE phase' = "script" => InTx'
<1> SUFFICES ASSUME phase' = "script" PROVE InTx'
  OBVIOUS
<1>1. CASE Open
  BY <1>1 DEF Open, InTx
<1>2. CASE RunStatement
  BY <1>2, InTxRun
<1>3. CASE Record
  BY <1>3 DEF Record, InTx
<1>4. CASE UNCHANGED vars
  BY <1>4 DEF IInv, InTx, vars, startVars, outside, Current, Wrote
<1>5. ~(\/ Start \/ SkipBackup \/ BeginCopy \/ EndCopy \/ Unlink \/ EndBackup
        \/ SnapshotFails \/ OpenFails \/ FailStatement \/ Commit
        \/ RecordFails \/ Ready \/ Write \/ Checkpoint \/ Stop \/ Crash \/ Upgrade \/ Tick)
  BY DEF Start, SkipBackup, BeginCopy, EndCopy, Unlink, EndBackup, SnapshotFails, OpenFails,
     FailStatement, Refused, Commit, RecordFails, Ready, Write, Checkpoint, Stop, Crash,
     Upgrade, Tick
<1> QED
  BY <1>1, <1>2, <1>3, <1>4, <1>5 DEF Next

(***************************************************************************)
(* Why a start refuses.                                                    *)
(***************************************************************************)
\* The statements of the rebuild always find their tables, and any other
\* script fails by itself only where its own change is already there.
LEMMA OnlyAfterGap == ASSUME IInv, Running, ~CanRun PROVE gap
<1>0. /\ InTx /\ Whole /\ db \in Db /\ tx \in Db /\ stmt \in Nat
      /\ phase = "script" /\ pending # {}
  BY DEF IInv, TypeOK, Running
<1>1. CASE Current # Rebuild /\ stmt = 0 /\ Statement = "change"
  <2>1. tx = db
    BY <1>0, <1>1 DEF InTx
  <2>2. Current \in db.schema
    BY <1>1, <2>1 DEF CanRun
  <2>3. PICK k \in 0 .. shipped : Prefix(k) /\ k \in Nat /\ Current = k + 1
    BY <1>0, NextAfterPrefix
  <2>4. db.schema # 1 .. k
    BY <2>2, <2>3
  <2>5. QED
    BY <1>0, <2>3, <2>4 DEF Prefix
<1>2. CASE Current = Rebuild /\ stmt = 0 /\ Statement = "copy"
  <2>1. tx.tables = {"session"}
    BY <1>0, <1>2, RebuildHasTable DEF InTx
  <2>2. QED
    BY <1>2, <2>1 DEF CanRun
<1>3. CASE Current = Rebuild /\ stmt = 1 /\ Statement = "drop"
  <2>1. tx = [db EXCEPT !.copy = Wrote, !.tables = {"session", "session_new"}]
    BY <1>0, <1>3, ScriptFacts DEF InTx
  <2>2. tx.tables = {"session", "session_new"}
    BY <1>0, <2>1 DEF Db
  <2>3. QED
    BY <1>3, <2>2 DEF CanRun
<1>4. CASE Current = Rebuild /\ stmt = 2 /\ Statement = "rename"
  <2>1. tx = [db EXCEPT !.session = {}, !.copy = Wrote, !.tables = {"session_new"}]
    BY <1>0, <1>4, ScriptFacts DEF InTx
  <2>2. tx.tables = {"session_new"}
    BY <1>0, <2>1 DEF Db
  <2>3. QED
    BY <1>4, <2>2 DEF CanRun
<1> QED
  BY <1>0, <1>1, <1>2, <1>3, <1>4, StatementFacts

\* Every refusal has its reason.
LEMMA ReasonStep == ASSUME IInv, [Next]_vars PROVE Reason'
<1>0. Reason
  BY DEF IInv
<1>1. CASE FailStatement
  <2>1. CASE ~CanRun
    BY <1>1, <2>1, OnlyAfterGap DEF FailStatement, Reason
  <2>2. CASE CanRun
    BY <1>1, <2>2 DEF FailStatement, Reason
  <2>3. QED
    BY <2>1, <2>2
<1>2. CASE RecordFails \/ SnapshotFails \/ OpenFails
  BY <1>2 DEF RecordFails, SnapshotFails, OpenFails, Reason
<1>3. CASE UNCHANGED <<phase, gap, failing>>
  BY <1>0, <1>3 DEF Reason
<1>4. CASE Upgrade \/ Tick \/ UNCHANGED vars
  BY <1>3, <1>4 DEF Upgrade, Tick, vars, ghosts
<1>5. CASE phase' # "failed"
  BY <1>5 DEF Reason
<1>6. CASE \/ Start \/ SkipBackup \/ BeginCopy \/ EndCopy \/ Unlink \/ EndBackup \/ Open
           \/ RunStatement \/ Commit \/ Record \/ Ready \/ Write \/ Checkpoint \/ Stop \/ Crash
  BY <1>5, <1>6 DEF Start, SkipBackup, BeginCopy, EndCopy, Unlink, EndBackup, Open, RunStatement,
     Running, Commit, Record, Ready, Write, Checkpoint, Stop, Crash
<1> QED
  BY <1>1, <1>2, <1>4, <1>6 DEF Next

(***************************************************************************)
(* The theorems.                                                           *)
(***************************************************************************)

\* The invariant holds of every behaviour.
THEOREM Inductive == Spec => []IInv
<1>1. IInv /\ [Next]_vars => IInv'
  BY TypeStep, WholeStep, OrderedStep, InTxStep, ReasonStep DEF IInv
<1>2. QED
  BY InitHolds, <1>1, PTL DEF Spec

\* The variables keep their types, whatever is killed or refused.
THEOREM TypeCorrect == Spec => []TypeOK
<1>1. IInv => TypeOK
  BY DEF IInv
<1>2. QED
  BY Inductive, <1>1, PTL

\* No migration loses a row: outside a start, the table session holds exactly
\* what users wrote, although the rebuild drops it on the way.
THEOREM RowsAreKept == Spec => []RowsKept
<1>1. IInv => RowsKept
  BY DEF IInv, Whole, RowsKept
<1>2. QED
  BY Inductive, <1>1, PTL

\* A daemon that serves has recorded and applied exactly the scripts its
\* release ships.
THEOREM ServesOnItsSchema == Spec => []SchemaReady
<1>1. IInv => SchemaReady
  <2> SUFFICES ASSUME IInv, phase = "serving"
               PROVE  db.recorded = 1 .. shipped /\ db.schema = 1 .. shipped
    BY DEF SchemaReady
  <2>1. PICK k \in 0 .. shipped : k \in Nat /\ Prefix(k)
    BY Facts
  <2>2. k = shipped /\ shipped \in Nat /\ db.recorded = 1 .. k
    BY <2>1, Facts DEF Prefix
  <2>3. db.schema = 1 .. k
    BY <2>1, <2>2 DEF Prefix
  <2>4. QED
    BY <2>2, <2>3
<1>2. QED
  BY Inductive, <1>1, PTL

\* A start that refuses met a failing call and left the schema its records
\* speak of, or met a script whose record an earlier start did not live to write.
THEOREM RefusesOnlyAfterGap == Spec => []RefusedOnlyAfterGap
<1>1. IInv => RefusedOnlyAfterGap
  <2> SUFFICES ASSUME IInv, phase = "failed", ~gap
               PROVE  failing /\ db.schema = db.recorded
    BY DEF RefusedOnlyAfterGap
  <2>1. PICK k \in 0 .. shipped : k \in Nat /\ Prefix(k)
    BY Facts
  <2>2. failing
    BY DEF IInv, Reason
  <2>3. db.schema = db.recorded
    BY <2>1 DEF Prefix
  <2>4. QED
    BY <2>2, <2>3
<1>2. QED
  BY Inductive, <1>1, PTL

(***************************************************************************)
(* Snapshots.  Only the newest one matters: it was taken after every row   *)
(* it can be asked for, unless a crash kept that row out of the main file. *)
(***************************************************************************)
Last == backups[Len(backups)]

Times == mtime <= now /\ \A r \in Wrote : since[r] <= now

\* Whatever is not serving has closed the file or lost what it had not closed.
InFile == phase # "serving" => Wrote \ stranded \subseteq file.session

Made == (Wrote # {} => exists) /\ (phase \in {"script", "record", "serving"} => exists)

LastTaken ==
    /\ backups # <<>> => Last.mtime <= Last.taken /\ Last.taken <= now
    /\ phase = "copying" => backups # <<>> /\ Last.taken = now /\ ~Last.whole

LastGood == backups # <<>> /\ Last.whole =>
    \A r \in Wrote \ stranded : since[r] < Last.taken => r \in Last.rows

Snap == phase \in {"pruning", "open", "script", "record"} =>
    \A r \in Wrote \ stranded : since[r] + StaleAfter <= now =>
        backups # <<>> /\ Fresh(Last) /\ (Last.whole => r \in Last.rows)

SInv == Times /\ InFile /\ Made /\ LastTaken /\ LastGood /\ Snap

\* A fresh install needs no snapshot.
LEMMA SnapInit == Init => SInv
<1> SUFFICES ASSUME Init PROVE SInv
  OBVIOUS
<1>1. Len(<<>>) = 0 /\ 1 .. 0 = {}
  OBVIOUS
<1>2. Wrote = {}
  BY <1>1 DEF Init, Wrote
<1>3. QED
  BY <1>2 DEF Init, SInv, Times, InFile, Made, LastTaken, LastGood, Snap

\* Unlinking the oldest snapshot keeps the newest.
LEMMA UnlinkFacts ==
  ASSUME IInv, Unlink
  PROVE  backups # <<>> /\ backups' # <<>> /\ Last' = Last
<1>1. backups \in Seq(Backup) /\ Len(backups) > 1 /\ backups' = Tail(backups)
  BY MigrationsAssumption DEF IInv, TypeOK, Unlink, Unlinked
<1>2. Len(backups') = Len(backups) - 1 /\ Len(backups) \in Nat
  BY <1>1
<1>3. backups'[Len(backups')] = backups[Len(backups)]
  BY <1>1, <1>2
<1>4. backups # <<>> /\ backups' # <<>>
  BY <1>1, <1>2
<1>5. QED
  BY <1>3, <1>4 DEF Last

\* The newest snapshot once it is filled.
LEMMA FilledFacts ==
  ASSUME IInv, backups # <<>>, NEW m \in Nat, backups' = Filled(m)
  PROVE  /\ backups' # <<>> /\ Last'.taken = Last.taken /\ Last'.mtime = m
         /\ Last'.whole = TRUE /\ Last'.rows = file.session
<1>0. TypeOK /\ backups \in Seq(Backup)
  BY DEF IInv, TypeOK
<1> DEFINE new == [Last EXCEPT !.mtime = m, !.whole = TRUE, !.rows = file.session]
<1> DEFINE filled == [backups EXCEPT ![Len(backups)] = new]
<1>1. Last \in Backup /\ Len(backups) \in 1 .. Len(backups)
  BY <1>0 DEF Last
<1>2. /\ new \in Backup /\ new.taken = Last.taken /\ new.mtime = m
      /\ new.whole = TRUE /\ new.rows = file.session
  BY <1>0, <1>1 DEF TypeOK, Db, Backup
<1>3. backups' = filled
  BY DEF Filled, Last
<1> HIDE DEF new
<1>4. filled \in Seq(Backup)
  BY <1>0, <1>2, ExceptInSeq
<1>5. Len(filled) = Len(backups) /\ filled # <<>> /\ filled[Len(filled)] = new
  BY <1>0, <1>1
<1> HIDE DEF filled
<1>6. backups' # <<>> /\ Last' = new
  BY <1>3, <1>4, <1>5 DEF Last
<1>7. QED
  BY <1>2, <1>6

\* The newest snapshot once the copy has begun.
LEMMA BeginFacts ==
  ASSUME IInv, BeginCopy
  PROVE  backups' # <<>> /\ Last'.taken = now /\ Last'.mtime = now /\ Last'.whole = FALSE
<1> DEFINE new == [taken |-> now, mtime |-> now, whole |-> FALSE, rows |-> {}]
<1>1. backups \in Seq(Backup) /\ backups' = Append(backups, new)
  BY DEF IInv, TypeOK, BeginCopy
<1>2. backups' # <<>> /\ backups'[Len(backups')] = new
  BY <1>1
<1>3. QED
  BY <1>2 DEF Last

\* A snapshot that fails leaves the newest one as it was, or whole and new.
LEMMA FailFacts ==
  ASSUME IInv, SnapshotFails, LastTaken
  PROVE  \/ UNCHANGED <<backups, stranded>>
         \/ /\ backups # <<>> /\ backups' # <<>> /\ Last'.taken = now /\ Last'.mtime = now
            /\ Last.taken = now /\ Last'.rows = file.session
            /\ stranded' = stranded \ file.session
<1>1. \/ UNCHANGED <<backups, stranded>>
      \/ /\ phase = "copying" /\ backups' = Filled(now)
         /\ stranded' = stranded \ file.session
  BY DEF SnapshotFails
<1>2. now \in Nat
  BY DEF IInv, TypeOK
<1>3. QED
  BY <1>1, <1>2, FilledFacts DEF LastTaken

\* A row is in the table and was written at a time.
LEMMA RowFacts ==
  ASSUME IInv
  PROVE  /\ db.session = Wrote /\ Len(since) \in Nat
         /\ \A r \in Wrote : since[r] \in Nat
         /\ now \in Nat /\ mtime \in Nat
         /\ backups # <<>> => Last \in Backup
BY DEF IInv, Whole, TypeOK, Wrote, Last

\* A new row is the last one, written now.
LEMMA WriteFacts ==
  ASSUME IInv, Write
  PROVE  /\ Wrote' = Wrote \cup {Len(since) + 1}
         /\ \A r \in Wrote : since'[r] = since[r]
         /\ since'[Len(since) + 1] = now
<1>1. since \in Seq(Nat) /\ since' = Append(since, now) /\ now \in Nat
  BY DEF IInv, TypeOK, Write
<1>2. Len(since') = Len(since) + 1 /\ Len(since) \in Nat
  BY <1>1
<1>3. QED
  BY <1>1, <1>2 DEF Wrote

\* The steps that leave snapshots, rows and time alone.
Quiet == \/ Start \/ SkipBackup \/ EndBackup \/ Open \/ OpenFails \/ RunStatement
         \/ FailStatement \/ Commit \/ Record \/ RecordFails \/ Ready \/ Checkpoint
         \/ Stop \/ Upgrade \/ UNCHANGED vars

\* What those steps leave alone.
LEMMA QuietFacts ==
  ASSUME Quiet
  PROVE  UNCHANGED <<backups, now, since, stranded>>
BY DEF Quiet, Start, SkipBackup, EndBackup, Open, OpenFails, RunStatement, FailStatement, Commit,
   Record, RecordFails, Ready, Checkpoint, Stop, Upgrade, vars, outside, ghosts

\* Nothing is written in the future.
LEMMA TimesStep == ASSUME IInv, SInv, [Next]_vars PROVE Times'
<1>0. Times /\ mtime \in Nat /\ now \in Nat
  BY RowFacts DEF SInv
<1>1. CASE UNCHANGED <<since, now>> /\ mtime' \in {mtime, now}
  BY <1>0, <1>1 DEF Times, Wrote
<1>2. CASE Tick
  <2>1. since' = since /\ now' = now + 1 /\ mtime' = mtime
    BY <1>2 DEF Tick, fileVars
  <2>2. QED
    BY <1>0, <2>1, RowFacts DEF Times, Wrote
<1>3. CASE Write
  <2>1. now' = now /\ mtime' = mtime
    BY <1>3 DEF Write, fileVars
  <2>2. QED
    BY <1>0, <1>3, <2>1, WriteFacts DEF Times
<1>4. CASE Quiet
  <2>1. mtime' \in {mtime, now}
    BY <1>4 DEF Quiet, Start, SkipBackup, EndBackup, Open, OpenFails, RunStatement,
       FailStatement, Commit, Record, RecordFails, Ready, Checkpoint, Stop, Upgrade, vars,
       fileVars, Close
  <2>2. QED
    BY <1>1, <1>4, <2>1, QuietFacts
<1>5. CASE BeginCopy \/ EndCopy \/ Unlink \/ SnapshotFails \/ Crash
  BY <1>1, <1>5 DEF BeginCopy, EndCopy, Unlink, SnapshotFails, Crash, fileVars, outside
<1> QED
  BY <1>2, <1>3, <1>4, <1>5 DEF Next, Quiet

\* Every step keeps the rows in the main file while the daemon is not serving.
LEMMA InFileStep == ASSUME IInv, SInv, [Next]_vars PROVE InFile'
<1>0. InFile /\ db.session = Wrote
  BY RowFacts DEF SInv
<1>1. CASE UNCHANGED <<file, since, stranded>> /\ phase # "serving"
  BY <1>0, <1>1 DEF InFile, Wrote
<1>2. CASE file' = db /\ UNCHANGED <<since, stranded>>
  BY <1>0, <1>2 DEF InFile, Wrote
<1>3. CASE phase' = "serving"
  BY <1>3 DEF InFile
<1>4. CASE Stop
  <2>1. UNCHANGED <<file, since, stranded>> /\ file = db
    BY <1>4 DEF Stop, fileVars, outside, ghosts
  <2>2. QED
    BY <1>2, <2>1
<1>5. CASE Crash
  <2>1. /\ stranded' = stranded \cup (db.session \ file.session)
        /\ since' = since /\ file' = file
    BY <1>5 DEF Crash, fileVars, outside
  <2>2. QED
    BY <1>0, <2>1 DEF InFile, Wrote
<1>6. CASE EndCopy \/ SnapshotFails
  <2>1. /\ phase # "serving" /\ stranded' \in {stranded, stranded \ file.session}
        /\ since' = since /\ file' = file
    BY <1>6 DEF EndCopy, SnapshotFails, fileVars, outside
  <2>2. QED
    BY <1>0, <2>1 DEF InFile, Wrote
<1>7. CASE FailStatement \/ RecordFails
  BY <1>2, <1>7 DEF FailStatement, Undone, RecordFails, Close, outside
<1>8. CASE \/ Start \/ SkipBackup \/ BeginCopy \/ Unlink \/ EndBackup \/ Open \/ RunStatement
           \/ Commit \/ Record \/ Upgrade
  BY <1>1, <1>8 DEF Start, SkipBackup, BeginCopy, Unlink, EndBackup, Open, RunStatement,
     Running, Commit, Record, Upgrade, fileVars, outside, ghosts
<1>11. CASE OpenFails
  <2>1. phase # "serving" /\ UNCHANGED <<since, stranded>> /\ (file' = file \/ file' = db)
    BY <1>11 DEF OpenFails, fileVars, outside
  <2>2. QED
    BY <1>1, <1>2, <2>1
<1>9. CASE Ready \/ Write \/ Checkpoint
  BY <1>3, <1>9 DEF Ready, Write, Checkpoint
<1>10. CASE Tick \/ UNCHANGED vars
  <2>1. UNCHANGED <<file, since, stranded, phase>>
    BY <1>10 DEF Tick, vars, fileVars, outside, ghosts
  <2>2. QED
    BY <1>0, <2>1 DEF InFile, Wrote
<1> QED
  BY <1>4, <1>5, <1>6, <1>7, <1>8, <1>9, <1>10, <1>11 DEF Next

\* Rows are only ever in a file that exists.
LEMMA MadeStep == ASSUME IInv, SInv, [Next]_vars PROVE Made'
<1>0. Made
  BY DEF SInv
<1>1. CASE Open
  BY <1>1 DEF Open, Made
<1>2. CASE Write
  BY <1>0, <1>2 DEF Write, Made, fileVars
<1>3. CASE /\ UNCHANGED <<exists, since>>
           /\ \/ phase' \notin {"script", "record", "serving"}
              \/ phase \in {"script", "record", "serving"}
  BY <1>0, <1>3 DEF Made, Wrote
<1>4. CASE \/ Start \/ SkipBackup \/ BeginCopy \/ EndCopy \/ Unlink \/ EndBackup
           \/ SnapshotFails \/ Stop \/ Crash \/ Upgrade \/ Tick
  BY <1>3, <1>4 DEF Start, SkipBackup, BeginCopy, EndCopy, Unlink, EndBackup, SnapshotFails,
     Stop, Crash, Upgrade, Tick, fileVars, outside
<1>7. CASE OpenFails
  <2>1. since' = since /\ exists' \in {exists, TRUE} /\ phase' = "failed"
    BY <1>7 DEF OpenFails, fileVars, outside
  <2>2. QED
    BY <1>0, <2>1 DEF Made, Wrote
<1>5. CASE \/ RunStatement \/ FailStatement \/ Commit \/ Record \/ RecordFails \/ Ready
           \/ Checkpoint
  BY <1>3, <1>5 DEF RunStatement, Running, FailStatement, Commit, Record, RecordFails, Ready,
     Checkpoint, Close, fileVars, outside
<1>6. CASE UNCHANGED vars
  BY <1>0, <1>6 DEF Made, Wrote, vars, fileVars, outside
<1> QED
  BY <1>1, <1>2, <1>4, <1>5, <1>6, <1>7 DEF Next

\* The newest snapshot stays as old as its file says.
LEMMA LastTakenStep == ASSUME IInv, SInv, [Next]_vars PROVE LastTaken'
<1>0. /\ LastTaken /\ mtime <= now /\ mtime \in Nat /\ now \in Nat
      /\ backups # <<>> => Last \in Backup
  BY RowFacts DEF SInv, Times
<1>1. CASE UNCHANGED <<backups, now>> /\ phase' # "copying"
  BY <1>0, <1>1 DEF LastTaken, Last
<1>2. CASE BeginCopy
  <2>1. now' = now
    BY <1>2 DEF BeginCopy, outside
  <2>2. backups' # <<>> /\ Last'.taken = now /\ Last'.mtime = now /\ Last'.whole = FALSE
    BY <1>2, BeginFacts
  <2>3. ~Last'.whole
    BY <2>2, Zenon
  <2>4. Last'.mtime <= Last'.taken /\ Last'.taken <= now'
    BY <1>0, <2>1, <2>2
  <2>5. QED
    BY <2>1, <2>2, <2>3, <2>4 DEF LastTaken
<1>3. CASE EndCopy
  <2>1. now' = now /\ phase = "copying" /\ phase' = "pruning" /\ backups' = Filled(mtime)
    BY <1>3 DEF EndCopy, outside
  <2>2. backups # <<>> /\ Last.taken = now
    BY <1>0, <2>1 DEF LastTaken
  <2>3. backups' # <<>> /\ Last'.taken = Last.taken /\ Last'.mtime = mtime
    BY <1>0, <2>1, <2>2, FilledFacts
  <2>4. QED
    BY <1>0, <2>1, <2>2, <2>3 DEF LastTaken
<1>4. CASE Tick
  <2>1. backups' = backups /\ now' = now + 1 /\ phase' = phase /\ phase # "copying"
    BY <1>4 DEF Tick
  <2>2. Last' = Last
    BY <2>1 DEF Last
  <2>3. backups # <<>> => Last.mtime \in Nat /\ Last.taken \in Nat
    BY <1>0 DEF Backup
  <2>4. QED
    BY <1>0, <2>1, <2>2, <2>3 DEF LastTaken
<1>5. CASE Quiet /\ ~UNCHANGED vars
  <2>1. phase' # "copying"
    BY <1>5 DEF Quiet, Start, SkipBackup, EndBackup, Open, OpenFails, RunStatement, Running,
       FailStatement, Refused, Commit, Record, RecordFails, Ready, Checkpoint, Stop, Upgrade
  <2>2. QED
    BY <1>1, <1>5, <2>1, QuietFacts
<1>6. CASE Write \/ Crash
  BY <1>1, <1>6 DEF Write, Crash, outside
<1>7. CASE UNCHANGED vars
  BY <1>0, <1>7 DEF LastTaken, Last, vars, outside
<1>8. CASE Unlink
  <2>1. now' = now /\ phase' = phase /\ phase # "copying"
    BY <1>8 DEF Unlink, outside
  <2>2. QED
    BY <1>0, <1>8, <2>1, UnlinkFacts DEF LastTaken
<1>9. CASE SnapshotFails
  <2>1. now' = now /\ phase' = "failed"
    BY <1>9 DEF SnapshotFails, outside
  <2>2. CASE backups' = backups
    BY <1>1, <2>1, <2>2
  <2>3. CASE backups' # <<>> /\ Last'.taken = now /\ Last'.mtime = now
    BY <1>0, <2>1, <2>3 DEF LastTaken
  <2>4. QED
    BY <1>0, <1>9, <2>2, <2>3, FailFacts
<1> QED
  BY <1>2, <1>3, <1>4, <1>5, <1>6, <1>7, <1>8, <1>9 DEF Next, Quiet

\* The newest snapshot, if whole, keeps the rows older than itself.
LEMMA LastGoodStep == ASSUME IInv, SInv, [Next]_vars PROVE LastGood'
<1>0. /\ LastGood /\ LastTaken /\ InFile /\ now \in Nat
      /\ backups # <<>> => Last \in Backup
  BY RowFacts DEF SInv
<1>1. CASE UNCHANGED <<backups, since>> /\ stranded \subseteq stranded'
  <2>1. Last' = Last /\ Wrote' = Wrote
    BY <1>1 DEF Last, Wrote
  <2>2. QED
    BY <1>0, <1>1, <2>1 DEF LastGood
<1>2. CASE BeginCopy
  BY <1>2, BeginFacts DEF LastGood
<1>3. CASE /\ stranded' = stranded \ file.session /\ since' = since /\ phase # "serving"
           /\ Last'.rows = file.session
  <2>1. Wrote' = Wrote /\ Wrote \ stranded \subseteq file.session
    BY <1>0, <1>3 DEF Wrote, InFile
  <2>2. QED
    BY <1>3, <2>1 DEF LastGood
<1>8. CASE EndCopy
  <2>1. /\ phase = "copying" /\ stranded' = stranded \ file.session /\ since' = since
        /\ backups # <<>> /\ backups' = Filled(mtime) /\ mtime \in Nat
    BY <1>0, <1>8, RowFacts DEF EndCopy, outside, LastTaken
  <2>2. Last'.rows = file.session
    BY <2>1, FilledFacts
  <2>3. QED
    BY <1>3, <2>1, <2>2
<1>9. CASE Unlink
  <2>1. since' = since /\ stranded' = stranded /\ backups # <<>> /\ Last' = Last
    BY <1>9, UnlinkFacts DEF Unlink, outside, ghosts
  <2>2. Wrote' = Wrote
    BY <2>1 DEF Wrote
  <2>3. QED
    BY <1>0, <2>1, <2>2 DEF LastGood
<1>10. CASE SnapshotFails
  <2>1. since' = since /\ phase # "serving"
    BY <1>10 DEF SnapshotFails, outside
  <2>2. CASE UNCHANGED <<backups, stranded>>
    BY <1>1, <2>1, <2>2
  <2>3. CASE Last'.rows = file.session /\ stranded' = stranded \ file.session
    BY <1>3, <2>1, <2>3
  <2>4. QED
    BY <1>0, <1>10, <2>2, <2>3, FailFacts
<1>4. CASE Write
  <2>1. backups' = backups /\ stranded' = stranded
    BY <1>4 DEF Write, ghosts
  <2>2. Last' = Last
    BY <2>1 DEF Last
  <2>3. SUFFICES ASSUME backups # <<>>, Last.whole, NEW r \in Wrote', r \notin stranded,
                        since'[r] < Last.taken
                 PROVE  r \in Last.rows
    BY <2>1, <2>2 DEF LastGood
  <2>4. Last.taken <= now /\ Last.taken \in Nat
    BY <1>0, <2>3 DEF LastTaken, Backup
  <2>5. r \in Wrote /\ since'[r] = since[r]
    BY <1>0, <1>4, <2>3, <2>4, WriteFacts
  <2>6. QED
    BY <1>0, <2>3, <2>5 DEF LastGood
<1>5. CASE Crash
  BY <1>1, <1>5 DEF Crash, outside
<1>6. CASE Quiet
  BY <1>1, <1>6, QuietFacts
<1>7. CASE Tick
  BY <1>1, <1>7 DEF Tick, ghosts
<1> QED
  BY <1>2, <1>4, <1>5, <1>6, <1>7, <1>8, <1>9, <1>10 DEF Next, Quiet

\* A start that reaches its scripts has its snapshot.
LEMMA SnapStep == ASSUME IInv, SInv, [Next]_vars PROVE Snap'
<1> USE MigrationsAssumption
<1>0. /\ Snap /\ LastGood /\ LastTaken /\ InFile /\ Made /\ now \in Nat
      /\ backups # <<>> => Last \in Backup
  BY RowFacts DEF SInv
<1>1. CASE phase' \notin {"pruning", "open", "script", "record"}
  BY <1>1 DEF Snap
<1>2. CASE /\ UNCHANGED <<backups, since, now, stranded>>
           /\ phase \in {"pruning", "open", "script", "record"}
  <2>1. Last' = Last /\ Wrote' = Wrote /\ \A b : Fresh(b)' = Fresh(b)
    BY <1>2 DEF Last, Wrote, Fresh
  <2>2. QED
    BY <1>0, <1>2, <2>1 DEF Snap, Fresh
<1>3. CASE Start
  <2>1. since' = since /\ stranded' = stranded
    BY <1>3 DEF Start, outside
  <2>2. CASE exists
    BY <1>1, <1>3, <2>2 DEF Start
  <2>3. CASE ~exists
    <3>1. Wrote' = {}
      BY <1>0, <2>1, <2>3 DEF Made, Wrote
    <3>2. QED
      BY <3>1 DEF Snap
  <2>4. QED
    BY <2>2, <2>3
<1>4. CASE SkipBackup
  <2>1. /\ backups # <<>> /\ now < Last.mtime + StaleAfter
        /\ UNCHANGED <<backups, since, now, stranded>>
    BY <1>4 DEF SkipBackup, Recent, Last, outside, ghosts
  <2>2. /\ Last.mtime <= Last.taken /\ Last.taken \in Nat /\ Last.mtime \in Nat
        /\ StaleAfter \in Nat
    BY <1>0, <2>1 DEF LastTaken, Backup
  <2>3. Fresh(Last)
    BY <1>0, <2>1, <2>2 DEF Fresh
  <2>4. ASSUME NEW r \in Wrote \ stranded, since[r] + StaleAfter <= now, Last.whole
        PROVE  r \in Last.rows
    <3>1. since[r] \in Nat
      BY RowFacts
    <3>2. since[r] < Last.taken
      BY <1>0, <2>1, <2>2, <2>4, <3>1
    <3>3. QED
      BY <1>0, <2>1, <2>4, <3>2 DEF LastGood
  <2>5. Last' = Last /\ Wrote' = Wrote /\ Fresh(Last)' = Fresh(Last)
    BY <2>1 DEF Last, Wrote, Fresh
  <2>6. QED
    BY <2>1, <2>3, <2>4, <2>5 DEF Snap
<1>5. CASE EndCopy
  <2>1. /\ phase = "copying" /\ stranded' = stranded \ file.session
        /\ UNCHANGED <<since, now>> /\ backups' = Filled(mtime) /\ mtime \in Nat
    BY <1>5, RowFacts DEF EndCopy, outside
  <2>2. backups # <<>> /\ Last.taken = now
    BY <1>0, <2>1 DEF LastTaken
  <2>3. backups' # <<>> /\ Last'.taken = now /\ Last'.rows = file.session
    BY <2>1, <2>2, FilledFacts
  <2>4. Fresh(Last)'
    BY <1>0, <2>1, <2>3 DEF Fresh
  <2>5. Wrote' \ stranded' \subseteq file.session
    BY <1>0, <2>1 DEF InFile, Wrote
  <2>6. QED
    BY <2>3, <2>4, <2>5 DEF Snap
<1>6. CASE EndBackup \/ Open \/ RunStatement \/ Commit \/ Record
  BY <1>2, <1>6, QuietFacts DEF Quiet, EndBackup, Open, RunStatement, Running, Commit, Record
<1>7. CASE \/ BeginCopy \/ SnapshotFails \/ OpenFails \/ FailStatement \/ RecordFails \/ Ready
           \/ Write \/ Checkpoint \/ Stop \/ Crash \/ Upgrade \/ Tick
  BY <1>1, <1>7 DEF BeginCopy, SnapshotFails, OpenFails, FailStatement, Refused, RecordFails,
     Ready, Write, Checkpoint, Stop, Crash, Upgrade, Tick
<1>9. CASE Unlink
  <2>1. UNCHANGED <<since, now, stranded>> /\ phase = "pruning"
    BY <1>9 DEF Unlink, outside, ghosts
  <2>2. backups # <<>> /\ backups' # <<>> /\ Last' = Last /\ Wrote' = Wrote
    BY <1>9, <2>1, UnlinkFacts DEF Wrote
  <2>3. Fresh(Last)' = Fresh(Last)
    BY <2>1, <2>2 DEF Fresh
  <2>4. QED
    BY <1>0, <2>1, <2>2, <2>3 DEF Snap
<1>8. CASE UNCHANGED vars
  BY <1>1, <1>2, <1>8, QuietFacts DEF Quiet, vars
<1> QED
  BY <1>3, <1>4, <1>5, <1>6, <1>7, <1>8, <1>9 DEF Next

\* Before a script touches the tables, a snapshot less than a day old has every
\* row older than a day: it was taken in this start, or recently enough.
THEOREM SnapshotsComeFirst == Spec => []SnapshotFirst
<1>1. SInv /\ IInv /\ [Next]_vars => SInv'
  BY TimesStep, InFileStep, MadeStep, LastTakenStep, LastGoodStep, SnapStep DEF SInv
<1>2. SInv /\ IInv => SnapshotFirst
  <2> SUFFICES ASSUME SInv, IInv, phase = "script",
                      NEW r \in Wrote \ stranded, since[r] + StaleAfter <= now
               PROVE  \E i \in 1 .. Len(backups) :
                        Fresh(backups[i]) /\ (backups[i].whole => r \in backups[i].rows)
    BY DEF SnapshotFirst
  <2>1. backups # <<>> /\ Fresh(Last) /\ (Last.whole => r \in Last.rows)
    BY DEF SInv, Snap
  <2>2. Len(backups) \in 1 .. Len(backups)
    BY <2>1 DEF IInv, TypeOK
  <2>3. QED
    BY <2>1, <2>2 DEF Last
<1>3. QED
  BY Inductive, SnapInit, <1>1, <1>2, PTL DEF Spec
=============================================================================
