----------------------------- MODULE AuthKeeper -----------------------------
(***************************************************************************)
(* RemoteMcpAuthKeeper: the task that keeps one `mcp-remote` process (the  *)
(* proxy) running for a remote MCP server, reads the access token from the *)
(* file the proxy writes and hands it to the chat sessions.                *)
(*                                                                         *)
(* When a token expires is an estimate: the file's age plus its duration.  *)
(* Each write of the file has a stamp, and the estimate of a stamp passes  *)
(* at some moment or never.  Tokens are numbered in the order they were    *)
(* issued; 0 stands for no token.                                          *)
(***************************************************************************)
EXTENDS Naturals

CONSTANTS MaxWrites,  \* bound: writes of the token file
          MaxFaults,  \* bound: proxy crashes, failed spawns, raising reads
          MaxBackoff  \* doublings until _BACKOFF_MAX_SECONDS

ASSUME KeeperAssumption == MaxWrites \in Nat /\ MaxFaults \in Nat /\ MaxBackoff \in Nat

Stamps == 0 .. MaxWrites
Tokens == 1 .. MaxWrites + 1
File   == [token : Tokens, stamp : Stamps]
NoFile == [token |-> 0, stamp |-> 0]

VARIABLES
    pc,       \* "new", "spawn", "await", "watch", "term", "rest", "ended"
    why,      \* the restart reason
    closing,  \* aclose() cancelled the task
    held,     \* _token and _token_expiry
    live,     \* _proxy_live
    futile,   \* _refresh_failed_sig
    renewing, \* pending_refresh_from
    backoff,  \* doublings of the delay between restarts
    proxy,    \* the current process: "none", "starting", "connected", "exited"
    signalled, \* it was sent SIGTERM
    stray,    \* an earlier process was still running when another was spawned
    file, lapsed, \* the token file; the stamps whose estimate has passed
    tried,    \* history: the tokens a refresh restart was made for
    faults

taskVars  == <<pc, why, closing>>
tokenVars == <<held, live, futile, renewing, backoff>>
procVars  == <<proxy, signalled, stray>>
fileVars  == <<file, lapsed>>
vars == <<taskVars, tokenVars, procVars, fileVars, tried, faults>>

TypeOK ==
    /\ pc \in {"new", "spawn", "await", "watch", "term", "rest", "ended"}
    /\ why \in {"exited", "refresh"} /\ closing \in BOOLEAN
    /\ held \in File \union {NoFile} /\ live \in BOOLEAN
    /\ futile \in Tokens \union {0} /\ renewing \in Tokens \union {0}
    /\ backoff \in 0 .. MaxBackoff
    /\ proxy \in {"none", "starting", "connected", "exited"}
    /\ signalled \in BOOLEAN /\ stray \in BOOLEAN
    /\ file \in File \union {NoFile} /\ lapsed \subseteq Stamps
    /\ tried \subseteq Tokens /\ faults \in 0 .. MaxFaults

\* The file of an earlier run of the daemon may be there, lapsed or not.
Init ==
    /\ pc = "new" /\ why = "exited" /\ closing = FALSE
    /\ held = NoFile /\ live = FALSE /\ futile = 0 /\ renewing = 0 /\ backoff = 0
    /\ proxy = "none" /\ signalled = FALSE /\ stray = FALSE
    /\ file \in {NoFile, [token |-> 1, stamp |-> 0]}
    /\ lapsed \in {{}, {0}}
    /\ tried = {} /\ faults = 0

Running == proxy \in {"starting", "connected"}
Lapsed(f) == f # NoFile /\ f.stamp \in lapsed

\* current_token()
Current == IF held = NoFile \/ (~live /\ Lapsed(held)) THEN 0 ELSE held.token

Fault == faults < MaxFaults /\ faults' = faults + 1

(***************************************************************************)
(* The keeper's task.                                                      *)
(***************************************************************************)
\* Without the command on the PATH there is no keeper.
Start ==
    /\ pc = "new"
    /\ pc' \in {"spawn", "ended"}
    /\ UNCHANGED <<why, closing, tokenVars, procVars, fileVars, tried, faults>>

\* The finally clause: the proxy no longer vouches, then _terminate.
Leave(reason) ==
    /\ pc' = "term" /\ why' = reason
    /\ live' = FALSE
    /\ signalled' = Running
    /\ UNCHANGED <<closing, backoff, proxy, stray>>

Spawn ==
    /\ pc = "spawn"
    /\ pc' = "await" /\ why' = "exited"
    /\ proxy' = "starting" /\ signalled' = FALSE
    /\ stray' = (stray \/ Running)
    /\ UNCHANGED <<closing, tokenVars, fileVars, tried, faults>>

SpawnFails ==
    /\ pc = "spawn" /\ Fault
    /\ Leave("exited")
    /\ UNCHANGED <<held, futile, renewing, fileVars, tried>>

\* After a refresh restart: is another one for this token of any use?
Judge_Never == 0
Judge == IF renewing = 0 THEN futile
         ELSE IF file.token = renewing \/ Lapsed(file) THEN file.token
         ELSE 0

\* _await_token: a token in the file ends the wait, whoever wrote it.
Authenticated ==
    /\ pc = "await" /\ proxy # "exited" /\ file # NoFile
    /\ held' = file /\ live' = TRUE
    /\ futile' = Judge
    /\ renewing' = 0 /\ backoff' = 0
    /\ pc' = "watch"
    /\ UNCHANGED <<why, closing, procVars, fileVars, tried, faults>>

ExitedEarly ==
    /\ pc = "await" /\ proxy = "exited"
    /\ Leave("exited")
    /\ UNCHANGED <<held, futile, renewing, fileVars, tried, faults>>

\* The mark is kept as long as the token is the marked one.
Unmark_Always == 0
Unmark == IF held'.token # futile THEN 0 ELSE futile

\* One poll of _supervise: restart when the estimate of the token has passed.
Supervise(read) ==
    /\ pc = "watch" /\ proxy # "exited"
    /\ held' = read
    /\ futile' = Unmark
    /\ IF Lapsed(held') /\ held'.token # futile'
       THEN /\ Leave("refresh")
            /\ tried' = tried \union {held'.token}
       ELSE UNCHANGED <<pc, why, closing, live, backoff, procVars, tried>>
    /\ UNCHANGED <<renewing, fileVars>>

Reread_Forgotten == held
Reread == IF file = NoFile THEN held ELSE file

Poll == Supervise(Reread) /\ UNCHANGED faults

\* The file is there but half written: the old token is kept.
PollUnreadable == file # NoFile /\ Supervise(held) /\ Fault

Exited ==
    /\ pc = "watch" /\ proxy = "exited"
    /\ Leave("exited")
    /\ UNCHANGED <<held, futile, renewing, fileVars, tried, faults>>

\* Looking the file up can raise when it is replaced in that moment.
ReadRaises ==
    /\ pc \in {"await", "watch"} /\ proxy # "exited" /\ Fault
    /\ Leave("exited")
    /\ UNCHANGED <<held, futile, renewing, fileVars, tried>>

\* The proxy is gone: rest before the next one, or end when closing.
Renewing == IF why = "refresh" THEN held.token ELSE renewing

Clear == held' = NoFile /\ live' = FALSE /\ futile' = 0

Terminated ==
    IF closing
    THEN pc' = "ended" /\ Clear /\ UNCHANGED <<why, closing, renewing, backoff>>
    ELSE /\ pc' = "rest" /\ renewing' = Renewing
         /\ UNCHANGED <<why, closing, held, live, futile, backoff>>

Reaped ==
    /\ pc = "term" /\ ~Running
    /\ Terminated
    /\ UNCHANGED <<procVars, fileVars, tried, faults>>

\* _TERMINATE_TIMEOUT_SECONDS passed: SIGKILL.
Killed_GivesUp == UNCHANGED proxy
Killed == proxy' = "exited"

Escalate ==
    /\ pc = "term" /\ Running
    /\ Killed
    /\ Terminated
    /\ UNCHANGED <<signalled, stray, fileVars, tried, faults>>

Doubled_Unbounded == backoff + 1
Doubled == IF backoff < MaxBackoff THEN backoff + 1 ELSE backoff

Wake ==
    /\ pc = "rest"
    /\ pc' = "spawn"
    /\ backoff' = Doubled
    /\ UNCHANGED <<why, closing, held, live, futile, renewing, procVars, fileVars, tried, faults>>

\* aclose(): cancelled at an await of the try block, the finally clause runs;
\* anywhere else the task ends there.
CancelTry_Ends == FALSE
CancelTry == pc \in {"await", "watch"}

Close ==
    /\ pc # "ended" /\ ~closing
    /\ closing' = TRUE
    /\ IF CancelTry
       THEN /\ pc' = "term" /\ live' = FALSE /\ signalled' = Running
            /\ UNCHANGED <<held, futile>>
       ELSE pc' = "ended" /\ Clear /\ UNCHANGED signalled
    /\ UNCHANGED <<why, renewing, backoff, proxy, stray, fileVars, tried, faults>>

Task == \/ Start \/ Spawn \/ SpawnFails \/ Authenticated \/ ExitedEarly \/ Poll
        \/ PollUnreadable \/ Exited \/ ReadRaises \/ Reaped \/ Escalate \/ Wake

(***************************************************************************)
(* The proxy and time.                                                     *)
(***************************************************************************)
\* It obeys SIGTERM, or crashes.
ProxyExits ==
    /\ Running
    /\ proxy' = "exited"
    /\ IF signalled THEN UNCHANGED faults ELSE Fault
    /\ UNCHANGED <<taskVars, tokenVars, signalled, stray, fileVars, tried>>

ProxyConnects ==
    /\ proxy = "starting" /\ file # NoFile
    /\ proxy' = "connected"
    /\ UNCHANGED <<taskVars, tokenVars, signalled, stray, fileVars, tried, faults>>

\* The OAuth flow or a refresh; a refresh may return the same token.
ProxyWrites ==
    /\ Running /\ file.stamp < MaxWrites
    /\ \E t \in {file.token, file.token + 1} \ {0} :
          file' = [token |-> t, stamp |-> file.stamp + 1]
    /\ UNCHANGED <<lapsed, taskVars, tokenVars, procVars, tried, faults>>

TimePasses ==
    /\ file # NoFile
    /\ \E s \in 0 .. file.stamp : s \notin lapsed /\ lapsed' = lapsed \union {s}
    /\ UNCHANGED <<file, taskVars, tokenVars, procVars, tried, faults>>

Environment == ProxyExits \/ ProxyConnects \/ ProxyWrites \/ TimePasses
Done == pc = "ended" /\ ~Running /\ UNCHANGED vars

Next == Task \/ Close \/ Environment \/ Done
Spec == Init /\ [][Next]_vars

\* Every wait of the task is a timer.
FairSpec == Spec /\ WF_vars(Task)

(***************************************************************************)
(* Properties.                                                             *)
(***************************************************************************)
Ended == closing \/ pc = "ended"

\* A token is restarted for at most once: after that the keeper knows that a
\* restart does not renew it ("Suppresses further refresh restarts").
RefreshOnce ==
    [][pc = "watch" /\ pc' = "term" /\ why' = "refresh" => held'.token \notin tried]_vars

\* Never two proxies at a time, which would race to authenticate.
OneProxy == ~stray

\* aclose() at any moment leaves no process that was not told to stop
\* ("SIGTERM is sent before the (cancellable) wait", _terminate).
NoneLeftBehind == pc = "ended" /\ Running => signalled

\* A token written by the proxy reaches the sessions (polling).
PickedUp == \A s \in Stamps : (file.stamp = s /\ file # NoFile) ~>
                              (held.stamp >= s \/ Ended)

\* A healthy proxy is not thrashed: once the server has issued a token the
\* keeper settles on serving one, whatever the estimates say.
Settles == <>(file # NoFile) => <>[](Current # 0 \/ Ended)

\* "a routine refresh never blanks a token that still works": the proxy that
\* used it was connected when the restart began.
RefreshNeverBlanks ==
    [][Poll /\ pc' = "term" /\ proxy = "connected" /\ Current # 0 => Current' # 0]_vars
=============================================================================
