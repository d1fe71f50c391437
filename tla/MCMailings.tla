----------------------------- MODULE MCMailings -----------------------------
(***************************************************************************)
(* The launch mail and the announcement, whose tables and jobs have        *)
(* nothing in common, in one run: a behaviour is of one of them, and the   *)
(* other stays in its initial state.                                       *)
(***************************************************************************)
EXTENDS Naturals, FiniteSets

CONSTANTS N, Registered, Bad, Processes, Campaigns, NoCampaign, LAUNCH_BATCH_SIZE,
          BROADCAST_BATCH_SIZE, Attempts, MaxStalled, MaxMoves, MaxTroubles

\* Batches are not empty, and there are finitely many processes and campaigns.
ASSUME BatchesAssumption ==
    /\ N \in Nat /\ IsFiniteSet(Processes) /\ IsFiniteSet(Campaigns)
    /\ LAUNCH_BATCH_SIZE \in Nat \ {0} /\ BROADCAST_BATCH_SIZE \in Nat \ {0}

VARIABLES mailing,
    status, launchEmailSentAt, emailOptOut, campaign, launchJob, launchRun, launchOrphans,
    mails, launchFaults,
    user, message, sentCount, told, broadcastJob, broadcastRun, broadcastOrphaned, moves,
    broadcastFaults

L == INSTANCE Launch WITH
    Workers <- Processes, MaxFaults <- MaxTroubles,
    job <- launchJob, run <- launchRun, orphaned <- launchOrphans, faults <- launchFaults
B == INSTANCE Broadcast WITH
    Workers <- Processes, MaxFaults <- MaxTroubles, MaxChanges <- MaxMoves,
    job <- broadcastJob, run <- broadcastRun, orphaned <- broadcastOrphaned,
    changes <- moves, faults <- broadcastFaults

launchVars == <<status, launchEmailSentAt, emailOptOut, campaign, launchJob, launchRun,
                launchOrphans, mails, launchFaults>>
broadcastVars == <<user, message, sentCount, told, broadcastJob, broadcastRun, broadcastOrphaned,
                   moves, broadcastFaults>>

MailingsInit ==
    \/ /\ mailing = "launch" /\ L!Init /\ \A a \in 1..(N - 1) : status[a] = "subscribed"
       /\ B!Init /\ user = [u \in B!Users |-> "none"]
    \/ /\ mailing = "broadcast" /\ B!Init
       /\ L!Init /\ status = [a \in L!Addresses |-> "none"]
MailingsNext ==
    \/ mailing = "launch" /\ L!Next /\ UNCHANGED <<mailing, broadcastVars>>
    \/ mailing = "broadcast" /\ B!Next /\ UNCHANGED <<mailing, launchVars>>
MailingsWork(w) ==
    \/ mailing = "launch" /\ L!Work(w) /\ UNCHANGED <<mailing, broadcastVars>>
    \/ mailing = "broadcast" /\ B!Work(w) /\ UNCHANGED <<mailing, launchVars>>
mailingsVars == <<mailing, launchVars, broadcastVars>>
MailingsSpec ==
    /\ MailingsInit /\ [][MailingsNext]_mailingsVars
    /\ \A w \in Processes : WF_mailingsVars(MailingsWork(w))

(***************************************************************************)
(* The properties of the two modules, by their names there.                *)
(***************************************************************************)
\* Nobody gets a mail or an announcement more often than once, and once more for
\* each fault and each other campaign (launch.processor.ts:64, broadcast.processor.ts:54).
OncePerCause == L!MailsBounded /\ B!ToldBounded
\* An announcement leaves steady users out only for cursors whose users have gone
\* (broadcast.processor.ts:43-50).
NobodyLeftOut == B!NobodyLeftOut
\* A row says "Sending" while somebody sends, or since a run ended without writing it
\* (launch.processor.ts:40, broadcast.processor.ts:35).
SendingExplained == L!SendingExplained /\ B!SendingExplained
\* Bad addresses that do not fill a batch keep nobody waiting (launch.processor.ts:50);
\* what is being sent ends, unless such an address is left or its last run ended
\* without writing the row (launch.processor.ts:47-58, broadcast.processor.ts:35, :70-81).
MailingsProgress == L!NobodyStarves /\ L!Settles /\ B!Settles
\* What launch.processor.ts:48-49 says: the loop over the batches is not endless.
CampaignEnds == L!CampaignEnds
=============================================================================
