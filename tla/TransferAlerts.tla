--------------------------- MODULE TransferAlerts ---------------------------
(***************************************************************************)
(* The daily mail about new transfers (digests/transfer-alert), to one     *)
(* follower of all of them: each process has its own cron job, a run takes *)
(* what was created since the last run, whose time is kept in Redis, and   *)
(* writes its own time at the end.  A run that lasts longer than a day     *)
(* overlaps the next one of its process.                                   *)
(***************************************************************************)
EXTENDS Naturals, FiniteSets, FiniteSetsExt

CONSTANTS
    Transfers,
    Runs,                   \* that may be in progress at once
    None,
    MAX_TRANSFERS, MAX_ITEMS_PER_USER, MaxTime, MaxFaults

VARIABLES
    now,
    transfer,   \* [at, createdAt]: a row is stamped, then committed
    eligible,   \* the user is active, confirmed and has not opted out
    lastRun,    \* digest:transfer-alert:lastRunAt
    run,        \* [at, runAt, since, items]
    alerted,    \* how often the user was told of each transfer
    excused,    \* ghost: transfers a run has passed over, for a reason
    back,       \* ghost: how often lastRun was set to before a transfer's stamp
    faults

vars == <<now, transfer, eligible, lastRun, run, alerted, excused, back, faults>>
ghosts == <<excused, back>>

\* What a row tells of by its isRumour, each a type that a user can switch off.
Kinds == {"rumour", "transfer"}

NoRun == [at |-> "idle", runAt |-> 0, since |-> 0, items |-> {}]

TypeOK ==
    /\ now \in 0..MaxTime /\ eligible \in BOOLEAN /\ faults \in 0..MaxFaults
    /\ transfer \in [Transfers -> [at : {"none", "open", "visible", "deleted"},
                                   createdAt : 0..MaxTime]]
    /\ lastRun \in 0..MaxTime \cup {None}
    /\ run \in [Runs -> [at : {"idle", "since", "query", "mail", "save"}, runAt : 0..MaxTime,
                         since : 0..MaxTime, items : SUBSET Transfers]]
    /\ \A r \in Runs : IF run[r].at = "mail" THEN Cardinality(run[r].items) \in 1..MAX_ITEMS_PER_USER
                                            ELSE run[r].items = {}
    /\ alerted \in [Transfers -> Nat] /\ excused \subseteq Transfers
    /\ back \in [Transfers -> Nat]

Init ==
    /\ now = 0 /\ transfer = [t \in Transfers |-> [at |-> "none", createdAt |-> 0]]
    /\ eligible = TRUE /\ lastRun = None /\ run = [r \in Runs |-> NoRun]
    /\ alerted = [t \in Transfers |-> 0] /\ excused = {}
    /\ back = [t \in Transfers |-> 0] /\ faults = 0

Fault == faults < MaxFaults /\ faults' = faults + 1
Becomes(r, new) == run' = [run EXCEPT ![r] = new]

(***************************************************************************)
(* Around the runs.                                                        *)
(***************************************************************************)
\* A stamp is later than every clock read before it.
Create(t) ==
    /\ transfer[t].at = "none" /\ now < MaxTime /\ now' = now + 1
    /\ transfer' = [transfer EXCEPT ![t] = [at |-> "open", createdAt |-> now + 1]]
    /\ UNCHANGED <<eligible, lastRun, run, alerted, ghosts, faults>>
Commit(t) ==
    /\ transfer[t].at = "open" /\ transfer' = [transfer EXCEPT ![t].at = "visible"]
    /\ UNCHANGED <<now, eligible, lastRun, run, alerted, ghosts, faults>>
\* A row is deleted by its isDeleted, and stays deleted.
Remove(t) ==
    /\ transfer[t].at = "visible" /\ transfer' = [transfer EXCEPT ![t].at = "deleted"]
    /\ UNCHANGED <<now, eligible, lastRun, run, alerted, ghosts, faults>>
OptOut ==
    /\ eligible /\ eligible' = FALSE
    /\ UNCHANGED <<now, transfer, lastRun, run, alerted, ghosts, faults>>

Stamped == {t \in Transfers : transfer[t].at # "none"}
SetBack(at) == back' = [t \in Transfers |->
                   IF t \in Stamped /\ at < transfer[t].createdAt THEN back[t] + 1 ELSE back[t]]
\* Redis comes back without its data.
Forget ==
    /\ lastRun # None /\ Fault /\ lastRun' = None /\ SetBack(0)
    /\ UNCHANGED <<now, transfer, eligible, run, alerted, excused>>

(***************************************************************************)
(* TransferAlertService.run.                                               *)
(***************************************************************************)
Fire(r) ==
    /\ run[r].at = "idle" /\ Becomes(r, [NoRun EXCEPT !.at = "since", !.runAt = now])
    /\ UNCHANGED <<now, transfer, eligible, lastRun, alerted, ghosts, faults>>

\* Without a last run, the last 24 hours, which may begin at any time.
GetLastRun(r) ==
    /\ run[r].at = "since"
    /\ \E since \in IF lastRun = None THEN 0..run[r].runAt ELSE {lastRun} :
          /\ Becomes(r, [run[r] EXCEPT !.at = "query", !.since = since])
          /\ excused' = excused \cup {t \in Stamped : lastRun = None /\ transfer[t].createdAt <= since}
    /\ UNCHANGED <<now, transfer, eligible, lastRun, alerted, back, faults>>

NewestOf(S) == {t \in S : Cardinality({u \in S : transfer[u].createdAt > transfer[t].createdAt})
                              < MAX_TRANSFERS}
Since(since) == {t \in Transfers : transfer[t].at = "visible" /\ transfer[t].createdAt > since}
Shown(new) == Min({Cardinality(new), MAX_ITEMS_PER_USER})
\* The rows of no kind that the user has switched off.  A rumour may have been confirmed,
\* and the preferences changed, since another run read them: each run finds any kind of
\* row and any preferences.
Wanted(new) == {{t \in new : kind[t] \notin muted} : kind \in [new -> Kinds], muted \in SUBSET Kinds}
\* What is not committed, or beyond the limit, or not wanted, or beyond the items of a
\* mail, stays behind, and so does everything when the user takes no mail.
Query(r) ==
    LET found == Since(run[r].since)
        open == {t \in Transfers : transfer[t].at = "open"}
    IN  /\ run[r].at = "query"
        /\ \E wanted \in IF eligible THEN Wanted(NewestOf(found)) ELSE {{}} :
           \E items \in kSubset(Shown(wanted), wanted) :
              /\ Becomes(r, [run[r] EXCEPT !.items = items, !.since = 0,
                                           !.at = IF items = {} THEN "save" ELSE "mail"])
              /\ excused' = excused \cup open \cup (found \ items)
        /\ UNCHANGED <<now, transfer, eligible, lastRun, alerted, back, faults>>

\* One mail; a failure is logged, and the run goes on.
Mail(r) ==
    /\ run[r].at = "mail" /\ Becomes(r, [run[r] EXCEPT !.at = "save", !.items = {}])
    /\ \/ /\ eligible /\ UNCHANGED <<excused, faults>>
          /\ alerted' = [t \in Transfers |->
                            alerted[t] + (IF t \in run[r].items THEN 1 ELSE 0)]
       \/ /\ ~eligible /\ UNCHANGED <<alerted, faults>>
          /\ excused' = excused \cup run[r].items
       \/ Fault /\ excused' = excused \cup run[r].items /\ UNCHANGED alerted
    /\ UNCHANGED <<now, transfer, eligible, lastRun, back>>

\* Mutant: the time at which the run ends.
SaveTheEnd(r) ==
    /\ run[r].at = "save" /\ lastRun' = now /\ SetBack(now) /\ Becomes(r, NoRun)
    /\ UNCHANGED <<now, transfer, eligible, alerted, excused, faults>>
SetLastRun(r) ==
    /\ run[r].at = "save" /\ lastRun' = run[r].runAt /\ SetBack(run[r].runAt)
    /\ Becomes(r, NoRun)
    /\ UNCHANGED <<now, transfer, eligible, alerted, excused, faults>>

\* Redis, the database or the process fails: the error is logged, nothing is kept.
Break(r) ==
    /\ run[r].at # "idle" /\ Fault /\ Becomes(r, NoRun)
    /\ UNCHANGED <<now, transfer, eligible, lastRun, alerted, ghosts>>

Next ==
    \/ \E t \in Transfers : Create(t) \/ Commit(t) \/ Remove(t)
    \/ OptOut \/ Forget
    \/ \E r \in Runs : \/ Fire(r) \/ GetLastRun(r) \/ Query(r) \/ Mail(r)
                       \/ SetLastRun(r) \/ Break(r)
Spec == Init /\ [][Next]_vars

(***************************************************************************)
(* Properties                                                              *)
(***************************************************************************)
\* Each process mails of a transfer once, and all of them again at most for every
\* time that lastRun is set to before its stamp - by a run whose clock was read
\* first - and for every fault (transfer-alert.service.ts:42-49, :146).
AlertedBounded ==
    \A t \in Transfers : alerted[t] <= Cardinality(Runs) * (1 + back[t]) + faults

\* A transfer that a finished run should have told of has been told, or is about
\* to be, or was passed over: not committed when the run looked, beyond a limit,
\* or its mail failed (transfer-alert.service.ts:45-50, :127-143).
NobodyMisses ==
    \A t \in Transfers :
        transfer[t].at = "visible" /\ lastRun # None /\ transfer[t].createdAt <= lastRun
          => \/ alerted[t] > 0 \/ t \in excused
             \/ \E r \in Runs : run[r].at = "mail" /\ t \in run[r].items
=============================================================================
