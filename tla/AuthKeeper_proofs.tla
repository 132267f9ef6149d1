-------------------------- MODULE AuthKeeper_proofs --------------------------
(***************************************************************************)
(* What AuthKeeper promises, for any number of writes of the token file,   *)
(* faults and doublings of the backoff.                                    *)
(***************************************************************************)
EXTENDS AuthKeeper, TLAPS

\* Tokens are issued in order, and each new one is a write of the file.
IssueOrder == file.token <= file.stamp + 1 /\ held.token <= file.token

\* Between two runs of a proxy there is none; the one that is being ended was
\* told to stop, and so was the one an ended keeper leaves.
ProcessOwned ==
    /\ pc \in {"new", "spawn", "rest"} => ~Running
    /\ pc \in {"term", "ended"} /\ Running => signalled

\* What the keeper remembers of a refresh restart while it is under way.
RestartKnown ==
    /\ pc \in {"await", "watch"} => why = "exited"
    /\ pc = "watch" => renewing = 0 /\ held # NoFile
    /\ pc # "ended" /\ renewing # 0 => renewing = held.token

\* A token that was restarted for is an old one, or the keeper knows that it
\* was restarted for.
TriedKnown ==
    pc # "ended" => \A t \in tried :
        /\ t <= held.token
        /\ t = held.token => \/ t = futile
                             \/ t = renewing
                             \/ pc = "term" /\ why = "refresh"

IInv == TypeOK /\ IssueOrder /\ OneProxy /\ ProcessOwned /\ RestartKnown /\ TriedKnown

\* The files the daemon and the keeper know of.
LEMMA FileFacts ==
  /\ NoFile.token = 0 /\ NoFile.stamp = 0
  /\ \A f \in File : f.token \in Tokens /\ f.stamp \in Stamps
  /\ \A f \in File \union {NoFile} : f.token \in Nat /\ f.stamp \in Nat
BY KeeperAssumption DEF File, NoFile, Tokens, Stamps

\* The initial states satisfy the invariant.
LEMMA InitHolds == Init => IInv
<1> SUFFICES ASSUME Init PROVE IInv
  OBVIOUS
<1>1. file \in File \union {NoFile} /\ file.token <= file.stamp + 1 /\ 0 <= file.token
  BY KeeperAssumption DEF Init, File, NoFile, Tokens, Stamps
<1>2. lapsed \subseteq Stamps /\ tried \subseteq Tokens
  BY KeeperAssumption DEF Init, Stamps
<1>3. held = NoFile /\ futile \in Tokens \union {0} /\ renewing \in Tokens \union {0}
  BY DEF Init
<1>4. backoff \in 0 .. MaxBackoff /\ faults \in 0 .. MaxFaults
  BY KeeperAssumption DEF Init
<1>5. TypeOK
  BY <1>1, <1>2, <1>3, <1>4 DEF Init, TypeOK
<1>6. QED
  BY <1>1, <1>3, <1>5, FileFacts
  DEF Init, IInv, IssueOrder, OneProxy, ProcessOwned, RestartKnown, TriedKnown, Running

(***************************************************************************)
(* Types.                                                                  *)
(***************************************************************************)
\* The count of faults keeps its bound.
LEMMA FaultTypes == ASSUME TypeOK, Fault PROVE faults' \in 0 .. MaxFaults
BY KeeperAssumption DEF TypeOK, Fault

\* Leaving the try block changes these variables only.
LEMMA LeaveTypes ==
  ASSUME TypeOK, NEW reason \in {"exited", "refresh"}, Leave(reason)
  PROVE  /\ pc' = "term" /\ why' = reason /\ live' \in BOOLEAN /\ signalled' \in BOOLEAN
         /\ closing' = closing /\ backoff' = backoff /\ proxy' = proxy /\ stray' = stray
<1>1. Running => signalled' = TRUE
  BY Zenon DEF Leave
<1>2. ~Running => signalled' = FALSE
  BY DEF Leave
<1> QED
  BY <1>1, <1>2 DEF Leave, TypeOK

\* A poll keeps the types.
LEMMA SuperviseTypes ==
  ASSUME TypeOK, NEW read \in File \union {NoFile}, read # NoFile, Supervise(read),
         faults' \in 0 .. MaxFaults
  PROVE  TypeOK'
<1>1. futile' \in Tokens \union {0}
  BY FileFacts DEF Supervise, Unmark, TypeOK
<1>2. CASE Leave("refresh") /\ tried' = tried \union {held'.token}
  BY <1>1, <1>2, LeaveTypes, FileFacts DEF Supervise, TypeOK, fileVars
<1>3. CASE UNCHANGED <<pc, why, closing, live, backoff, procVars, tried>>
  BY <1>1, <1>3 DEF Supervise, TypeOK, fileVars, procVars
<1> QED
  BY <1>2, <1>3 DEF Supervise

\* What a poll reads is a file.
LEMMA RereadTypes ==
  ASSUME TypeOK, held # NoFile
  PROVE  Reread \in File \union {NoFile} /\ Reread # NoFile
BY DEF TypeOK, Reread

\* What follows a terminated proxy is typed.
LEMMA TerminatedTypes ==
  ASSUME TypeOK, RestartKnown, pc = "term", Terminated
  PROVE  /\ pc' \in {"rest", "ended"} /\ UNCHANGED <<why, closing, backoff>>
         /\ held' \in File \union {NoFile} /\ live' \in BOOLEAN
         /\ futile' \in Tokens \union {0} /\ renewing' \in Tokens \union {0}
BY FileFacts DEF TypeOK, Terminated, Renewing, Clear

\* Every step keeps the types.
LEMMA TypeStep == IInv /\ [Next]_vars => TypeOK'
<1> SUFFICES ASSUME IInv, [Next]_vars PROVE TypeOK'
  OBVIOUS
<1> USE KeeperAssumption, FileFacts DEF IInv, TypeOK, taskVars, tokenVars, procVars, fileVars
<1>1. CASE Start
  BY <1>1 DEF Start
<1>2. CASE Spawn
  BY <1>2 DEF Spawn, Running
<1>3. CASE SpawnFails
  BY <1>3, LeaveTypes, FaultTypes DEF SpawnFails
<1>4. CASE Authenticated
  BY <1>4 DEF Authenticated, Judge, Lapsed
<1>5. CASE ExitedEarly
  BY <1>5, LeaveTypes DEF ExitedEarly
<1>6. CASE Poll
  <2>1. held # NoFile
    BY <1>6 DEF Poll, Supervise, RestartKnown
  <2> QED
    BY <1>6, <2>1, SuperviseTypes, RereadTypes DEF Poll
<1>7. CASE PollUnreadable
  <2>1. held # NoFile
    BY <1>7 DEF PollUnreadable, Supervise, RestartKnown
  <2> QED
    BY <1>7, <2>1, SuperviseTypes, FaultTypes DEF PollUnreadable
<1>8. CASE Exited
  BY <1>8, LeaveTypes DEF Exited
<1>9. CASE ReadRaises
  BY <1>9, LeaveTypes, FaultTypes DEF ReadRaises
<1>10. CASE Reaped
  BY <1>10, TerminatedTypes DEF Reaped
<1>11. CASE Escalate
  BY <1>11, TerminatedTypes DEF Escalate, Killed
<1>12. CASE Wake
  BY <1>12 DEF Wake, Doubled
<1>13. CASE Close
  <2>1. CancelTry => signalled' \in BOOLEAN
    <3>1. CancelTry /\ Running => signalled' = TRUE
      BY <1>13, Zenon DEF Close
    <3>2. CancelTry /\ ~Running => signalled' = FALSE
      BY <1>13 DEF Close
    <3> QED
      BY <3>1, <3>2
  <2>2. signalled' \in BOOLEAN
    BY <1>13, <2>1 DEF Close
  <2> QED
    BY <1>13, <2>2 DEF Close, CancelTry, Clear
<1>14. CASE ProxyExits
  BY <1>14, FaultTypes DEF ProxyExits
<1>15. CASE ProxyConnects
  BY <1>15 DEF ProxyConnects
<1>16. CASE ProxyWrites
  <2>1. PICK t \in {file.token, file.token + 1} \ {0} :
             file' = [token |-> t, stamp |-> file.stamp + 1]
    BY <1>16 DEF ProxyWrites
  <2>2. t \in Tokens /\ file.stamp + 1 \in Stamps
    BY <1>16, <2>1 DEF ProxyWrites, IssueOrder, Tokens, Stamps
  <2>3. file' \in File
    BY <2>1, <2>2 DEF File
  <2> QED
    BY <1>16, <2>3 DEF ProxyWrites
<1>17. CASE TimePasses
  <2>1. \A s \in 0 .. file.stamp : s \in Stamps
    BY DEF Stamps, File
  <2>2. lapsed' \subseteq Stamps
    BY <1>17, <2>1 DEF TimePasses
  <2> QED
    BY <1>17, <2>2 DEF TimePasses
<1>18. CASE UNCHANGED vars
  BY <1>18 DEF vars
<1> QED
  BY <1>1, <1>2, <1>3, <1>4, <1>5, <1>6, <1>7, <1>8, <1>9,
     <1>10, <1>11, <1>12, <1>13, <1>14, <1>15, <1>16, <1>17, <1>18 DEF Next, Task, Environment, Done

\* A poll restarts only for a token that was not restarted for.
LEMMA SuperviseTried ==
  ASSUME IInv, NEW read \in File \union {NoFile}, held.token <= read.token, Supervise(read)
  PROVE  /\ TriedKnown'
         /\ Leave("refresh") => held'.token \notin tried
<1> USE FileFacts
<1>1. held' = read /\ pc = "watch" /\ renewing = 0 /\ renewing' = 0 /\ futile' = Unmark /\ why = "exited"
  BY DEF Supervise, IInv, RestartKnown
<1>2. ASSUME NEW t \in tried
      PROVE  t <= read.token /\ (t = read.token => t = futile')
  <2>1. t <= held.token /\ t \in Nat /\ t # 0
    BY <1>1 DEF IInv, TypeOK, TriedKnown, Tokens
  <2>2. t <= read.token
    BY <2>1 DEF IInv, TypeOK
  <2>3. ASSUME t = read.token PROVE t = futile'
    <3>1. t = held.token
      BY <2>1, <2>3 DEF IInv, TypeOK
    <3>2. t = futile
      BY <1>1, <2>1, <3>1 DEF IInv, TriedKnown
    <3> QED
      BY <1>1, <2>3, <3>2 DEF Unmark
  <2> QED
    BY <2>2, <2>3
<1>3. CASE Lapsed(held') /\ held'.token # futile'
  <2>1. Leave("refresh") /\ tried' = tried \union {held'.token}
    BY <1>3 DEF Supervise
  <2> QED
    BY <1>1, <1>2, <1>3, <2>1 DEF TriedKnown, Leave
<1>4. CASE ~(Lapsed(held') /\ held'.token # futile')
  BY <1>1, <1>2, <1>4 DEF Supervise, TriedKnown, Leave
<1> QED
  BY <1>3, <1>4

\* Every step keeps the invariant.
LEMMA StepKeeps == IInv /\ [Next]_vars => IInv'
<1> SUFFICES ASSUME IInv, [Next]_vars PROVE (IssueOrder /\ OneProxy /\ ProcessOwned /\ RestartKnown /\ TriedKnown)'
  BY TypeStep DEF IInv
<1> USE KeeperAssumption, FileFacts, TypeStep DEF IInv, TypeOK, IssueOrder, OneProxy, ProcessOwned, RestartKnown, TriedKnown,
            taskVars, tokenVars, procVars, fileVars, Running, Fault
<1>1. CASE Start
  BY <1>1 DEF Start
<1>2. CASE Spawn
  BY <1>2 DEF Spawn
<1>3. CASE SpawnFails
  BY <1>3 DEF SpawnFails, Leave
<1>4. CASE Authenticated
  <2>1. held' = file /\ file' = file /\ file # NoFile /\ futile' = Judge /\ renewing' = 0
    BY <1>4 DEF Authenticated
  <2>2. TriedKnown'
    <3> SUFFICES ASSUME NEW t \in tried
                 PROVE  t <= file.token /\ (t = file.token => t = futile')
      BY <1>4, <2>1 DEF Authenticated
    <3>1. t <= held.token /\ t \in Nat /\ t # 0
      BY <1>4 DEF Authenticated, Tokens
    <3>2. t <= file.token
      BY <3>1
    <3>3. ASSUME t = file.token PROVE t = futile'
      <4>1. t = held.token
        BY <3>1, <3>3
      <4>2. t = futile \/ t = renewing
        BY <1>4, <4>1 DEF Authenticated
      <4>3. CASE renewing = 0
        BY <2>1, <3>1, <4>2, <4>3 DEF Judge
      <4>4. CASE renewing # 0
        BY <1>4, <2>1, <3>3, <4>1, <4>4 DEF Judge, Authenticated
      <4> QED
        BY <4>3, <4>4
    <3> QED
      BY <3>2, <3>3
  <2> QED
    BY <1>4, <2>1, <2>2 DEF Authenticated
<1>5. CASE ExitedEarly
  BY <1>5 DEF ExitedEarly, Leave
<1>6. CASE Poll
  <2>1. Supervise(Reread) /\ Reread \in File \union {NoFile} /\ Reread # NoFile
    BY <1>6, RereadTypes DEF Poll, Supervise
  <2>2. held.token <= Reread.token /\ Reread.token <= file.token
    BY DEF Reread
  <2>3. TriedKnown'
    BY <2>1, <2>2, SuperviseTried
  <2> QED
    BY <2>1, <2>2, <2>3 DEF Supervise, Leave
<1>7. CASE PollUnreadable
  <2>1. TriedKnown'
    BY <1>7, SuperviseTried DEF PollUnreadable
  <2> QED
    BY <1>7, <2>1 DEF PollUnreadable, Supervise, Leave
<1>8. CASE Exited
  BY <1>8 DEF Exited, Leave
<1>9. CASE ReadRaises
  BY <1>9 DEF ReadRaises, Leave
<1>10. CASE Reaped
  BY <1>10 DEF Reaped, Terminated, Renewing, Clear
<1>11. CASE Escalate
  BY <1>11 DEF Escalate, Killed, Terminated, Renewing, Clear
<1>12. CASE Wake
  BY <1>12 DEF Wake, Doubled
<1>13. CASE Close
  BY <1>13 DEF Close, CancelTry, Clear
<1>14. CASE ProxyExits
  BY <1>14 DEF ProxyExits
<1>15. CASE ProxyConnects
  BY <1>15 DEF ProxyConnects
<1>16. CASE ProxyWrites
  BY <1>16 DEF ProxyWrites
<1>17. CASE TimePasses
  BY <1>17 DEF TimePasses
<1>18. CASE UNCHANGED vars
  BY <1>18 DEF vars
<1> QED
  BY <1>1, <1>2, <1>3, <1>4, <1>5, <1>6, <1>7, <1>8, <1>9, <1>10, <1>11, <1>12, <1>13, <1>14, <1>15, <1>16, <1>17,
     <1>18 DEF Next, Task, Environment, Done

\* The invariant holds throughout.
LEMMA Inductive == Spec => []IInv
BY InitHolds, StepKeeps, PTL DEF Spec

\* A proxy is never spawned while an earlier one runs: Spawn is reached only
\* through _terminate.
THEOREM NeverTwoProxies == Spec => []OneProxy
BY Inductive, PTL DEF IInv

\* Whenever aclose() strikes, the process it leaves has been sent SIGTERM.
THEOREM CloseLeavesNone == Spec => []NoneLeftBehind
<1>1. IInv => NoneLeftBehind
  BY DEF IInv, ProcessOwned, NoneLeftBehind
<1> QED
  BY <1>1, Inductive, PTL

\* A token is the reason of at most one refresh restart, however often the
\* proxy crashes or closes in between.
THEOREM RestartedOnce == Spec => RefreshOnce
<1>1. IInv /\ [Next]_vars =>
        [pc = "watch" /\ pc' = "term" /\ why' = "refresh" => held'.token \notin tried]_vars
  <2> SUFFICES ASSUME IInv, Next, pc = "watch", pc' = "term", why' = "refresh"
               PROVE  held'.token \notin tried
    OBVIOUS
  <2> USE DEF IInv, TypeOK, IssueOrder, RestartKnown, TriedKnown
  <2>1. CASE Poll
    <3>1. Supervise(Reread) /\ Reread \in File \union {NoFile}
      BY <2>1 DEF Poll, Reread
    <3>2. held.token <= Reread.token
      BY FileFacts DEF Reread
    <3>3. Leave("refresh")
      BY <3>1 DEF Supervise
    <3> QED
      BY <3>1, <3>2, <3>3, SuperviseTried
  <2>2. CASE PollUnreadable
    <3>1. Supervise(held) /\ held.token <= held.token
      BY <2>2, FileFacts DEF PollUnreadable
    <3>2. Leave("refresh")
      BY <3>1 DEF Supervise
    <3> QED
      BY <3>1, <3>2, SuperviseTried
  <2>3. CASE Close
    BY <2>3 DEF Close
  <2> QED
    BY <2>1, <2>2, <2>3 DEF Next, Task, Environment, Done, Start, Spawn, SpawnFails, Authenticated,
       ExitedEarly, Exited, ReadRaises, Reaped, Escalate, Terminated, Wake, Leave, ProxyExits,
       ProxyConnects, ProxyWrites, TimePasses, taskVars, vars
<1> QED
  BY <1>1, Inductive, PTL DEF Spec, RefreshOnce
=============================================================================
