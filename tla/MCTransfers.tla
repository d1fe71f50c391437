---------------------------- MODULE MCTransfers ----------------------------
(***************************************************************************)
(* The transfers of a deal, with model values for tweets and requests, and *)
(* the two mails that tell of transfers.  Their state has nothing in       *)
(* common: a behaviour is of one of the three, the others stay as they     *)
(* begin.                                                                  *)
(***************************************************************************)
EXTENDS Transfers, FiniteSets, TLC

CONSTANTS
    s1, s2, p1, p2,
    NewTransfers, AlertRuns, MAX_TRANSFERS, MAX_ITEMS_PER_USER, MaxTime,
    N, Processes, RECIPIENT_PAGE, MaxChanges, MaxFaults

\* A time is a number, and no time is none.
ASSUME MailsAssumption ==
    /\ None \notin Nat /\ IsFiniteSet(AlertRuns)
    /\ N \in Nat /\ RECIPIENT_PAGE \in Nat \ {0}

VARIABLES
    what,
    now, newTransfer, eligible, lastRun, alertRun, alerted, excused, back, alertFaults,
    user, digestRun, mails, changes, digestFaults

Alerts == INSTANCE TransferAlerts WITH
    Transfers <- NewTransfers, Runs <- AlertRuns,
    transfer <- newTransfer, run <- alertRun, faults <- alertFaults
Weekly == INSTANCE WeeklyDigest WITH run <- digestRun, faults <- digestFaults

alertVars == <<now, newTransfer, eligible, lastRun, alertRun, alerted, excused, back, alertFaults>>
digestVars == <<user, digestRun, mails, changes, digestFaults>>

\* The initial states of the weekly mail differ in who is eligible.
DealsAndMails ==
    /\ Init /\ Alerts!Init /\ Weekly!Init
    /\ what \in {"deal", "alerts", "digest"}
    /\ what # "digest" => user = [u \in 1..N |-> "eligible"]
Step ==
    /\ UNCHANGED what
    /\ \/ what = "deal" /\ Next /\ UNCHANGED <<alertVars, digestVars>>
       \/ what = "alerts" /\ Alerts!Next /\ UNCHANGED <<vars, digestVars>>
       \/ what = "digest" /\ Weekly!Next /\ UNCHANGED <<vars, alertVars>>
DealsAndMailsSpec ==
    DealsAndMails /\ [][Step]_<<what, vars, alertVars, digestVars>>

\* Nobody is told more often than once by each process, but for what the other runs,
\* faults and changes of the list account for (transfer-alert.service.ts:42-49,
\* weekly-digest.service.ts:45-57).
NotTooOften == Alerts!AlertedBounded /\ Weekly!TwiceBounded
\* A run that came to its end left nobody and nothing out, but for what its limits, its
\* failures and the changes of the list account for (transfer-alert.service.ts:127-156,
\* weekly-digest.service.ts:45-81).
NobodyMissed == Alerts!NobodyMisses /\ Weekly!MissedBounded

\* Both sets of model values are used in each part.
Symmetry == Permutations(Sources \cup NewTransfers) \cup Permutations(Procs \cup AlertRuns \cup Processes)
=============================================================================
