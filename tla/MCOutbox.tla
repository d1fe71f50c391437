------------------------------ MODULE MCOutbox ------------------------------
(***************************************************************************)
(* The outbox in three kinds of trouble, one for each behaviour: any fault *)
(* may strike the one row that two workers handle; two rows, of which only *)
(* one fits a batch, meet faults below BullMQ's limits; or the database is *)
(* away for longer than those limits.                                      *)
(***************************************************************************)
EXTENDS Outbox

CONSTANTS m1, m2, w1, w2

NoFaults == [k \in FaultKinds |-> 0]

(* One crash, one live stall, one failed write of processedAtUtc, one
   handler failure and one lost queue.add. *)
SafetyBudget ==
  [NoFaults EXCEPT !["crash"] = 1, !["stall"] = 1, !["mark"] = 1,
                   !["handler"] = 1, !["record"] = 1, !["add"] = 1]

(* Faults that stay below BullMQ's attempts and its stalled limit, yet can
   use up MAX_RETRY = 2. *)
ToleratedBudget ==
  [NoFaults EXCEPT !["crash"] = 1, !["lock"] = 1, !["handler"] = 2]

(* The database does not answer for longer than BullMQ's attempts and their
   backoffs, five of 2 + 4 + 8 + 16 seconds. *)
OutageBudget == [NoFaults EXCEPT !["load"] = Attempts]

VARIABLE trouble    \* "any", "few" or "outage"

Few    == INSTANCE Outbox WITH
            Workers <- {w1}, MAX_RETRY <- 2, Budget <- ToleratedBudget
Outage == INSTANCE Outbox WITH
            Workers <- {w1}, MAX_RETRY <- 2, Budget <- OutageBudget

OneRow == createdAt'[m2] = 0

TroubleInit ==
  \/ trouble = "any" /\ Init
  \/ trouble \in {"few", "outage"} /\ Few!Init
TroubleNext ==
  /\ UNCHANGED trouble
  /\ \/ trouble = "any" /\ Next /\ OneRow
     \/ trouble = "few" /\ Few!Next
     \/ trouble = "outage" /\ Outage!Next /\ OneRow
(* The actions of which Fairness speaks are the same in all three. *)
TroubleSpec ==
  TroubleInit /\ [][TroubleNext]_<<trouble, vars>> /\ Few!Fairness

(* Every enqueued event is eventually applied and marked, or reported as   *)
(* poison (outbox.dispatcher.ts:41-50); one whose job failed at its first  *)
(* read in all of BullMQ's attempts stays in the failed set, where its     *)
(* jobId keeps dispatch() from adding it again (outbox.dispatcher.ts:64).  *)
EventuallySettled ==
  \A m \in Messages :
    trouble # "any" /\ createdAt[m] > 0 ~>
      Few!Settled(m) \/ (job[m] = "failed" /\ spent["load"] = Attempts)
=============================================================================
