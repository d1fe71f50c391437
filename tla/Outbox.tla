------------------------------- MODULE Outbox -------------------------------
(***************************************************************************)
(* The transactional outbox of src/messaging: OutboxService writes a row,  *)
(* OutboxDispatcher moves pending rows to a BullMQ queue once a minute,    *)
(* ReactionProcessor handles a job under a Redis lock.                     *)
(*                                                                         *)
(* A step of this model is one call to Postgres, Redis or BullMQ: between  *)
(* two awaits of the source any other worker, the dispatcher, a crash or a *)
(* lock expiry may come first.  What a handler writes is abstracted to a   *)
(* count, applied[m]; what BullMQ does with a job is modelled from the     *)
(* options the dispatcher passes (jobId, attempts, backoff, removeOn...).  *)
(***************************************************************************)
EXTENDS Naturals, FiniteSets

CONSTANTS
  Messages,     \* outbox rows that may be written
  Workers,      \* processes that run ReactionProcessor (one job at a time)
  NoMessage,    \* the message of an idle worker
  NoWorker,     \* the owner of a job that no worker holds
  BATCH,        \* rows one dispatch() takes (250)
  MAX_RETRY,    \* retryCount at which a row is no longer dispatched (10)
  Attempts,     \* BullMQ attempts per job (5)
  MaxStalled,   \* BullMQ maxStalledCount (its default, 1)
  KeepFailed,   \* removeOnFail: failed jobs kept in Redis (1000)
  Budget        \* how many faults of each kind a behaviour may contain

(***************************************************************************)
(* Where a fault can strike.  "load" to "record" are the awaits of         *)
(* process(), named after what they do; "add" is queue.add in dispatch();  *)
(* "crash" ends a worker's process; "stall" is a live worker that fails to *)
(* renew its BullMQ job lock.                                              *)
(***************************************************************************)
FaultKinds ==
  {"load", "lock", "handler", "mark", "record", "add", "crash", "stall"}

ASSUME ConstantsAssumption ==
  /\ IsFiniteSet(Messages) /\ IsFiniteSet(Workers)
  /\ NoMessage \notin Messages
  /\ NoWorker \notin Workers
  /\ BATCH \in Nat /\ MAX_RETRY \in Nat
  /\ Attempts \in Nat /\ MaxStalled \in Nat /\ KeepFailed \in Nat \ {0}
  /\ Budget \in [FaultKinds -> Nat]

VARIABLES
  createdAt,    \* row: position in createdAtUtc order, 0 if not written
  processed,    \* row: processedAtUtc is set
  retryCount,   \* row: retryCount
  batch,        \* rows read by a dispatch() whose queue.add is outstanding
  job,          \* BullMQ state of the job whose jobId is the message id
  attempts,     \* BullMQ attemptsMade of that job
  stalls,       \* BullMQ stalled count of that job
  owner,        \* the worker whose token the active job carries
  lock,         \* the Redis key job:outbox:{id} exists
  pc,           \* where each worker is in process()
  cur,          \* the message each worker is processing
  applied,      \* ghost: how often the handler's effect was committed
  expiries,     \* ghost: how often the lock's TTL ran out
  spent         \* faults of each kind so far

rows   == <<createdAt, processed, retryCount>>
bull   == <<job, attempts, stalls, owner>>
worker == <<pc, cur>>
ghosts == <<applied, expiries>>
vars   == <<rows, batch, bull, lock, worker, ghosts, spent>>

JobStates == {"none", "waiting", "active", "delayed", "failed"}
Points    == {"idle", "load", "lock", "handle", "mark", "record"}

TypeOK ==
  /\ createdAt \in [Messages -> Nat]
  /\ processed \in [Messages -> BOOLEAN]
  /\ retryCount \in [Messages -> Nat]
  /\ batch \subseteq Messages
  /\ job \in [Messages -> JobStates]
  /\ attempts \in [Messages -> Nat]
  /\ stalls \in [Messages -> Nat]
  /\ owner \in [Messages -> Workers \cup {NoWorker}]
  /\ lock \in [Messages -> BOOLEAN]
  /\ pc \in [Workers -> Points]
  /\ cur \in [Workers -> Messages \cup {NoMessage}]
  /\ \A w \in Workers : pc[w] # "idle" => cur[w] \in Messages
  /\ applied \in [Messages -> Nat]
  /\ expiries \in [Messages -> Nat]
  /\ spent \in [FaultKinds -> Nat]

Init ==
  /\ createdAt = [m \in Messages |-> 0]
  /\ processed = [m \in Messages |-> FALSE]
  /\ retryCount = [m \in Messages |-> 0]
  /\ batch = {}
  /\ job = [m \in Messages |-> "none"]
  /\ attempts = [m \in Messages |-> 0]
  /\ stalls = [m \in Messages |-> 0]
  /\ owner = [m \in Messages |-> NoWorker]
  /\ lock = [m \in Messages |-> FALSE]
  /\ pc = [w \in Workers |-> "idle"]
  /\ cur = [w \in Workers |-> NoMessage]
  /\ applied = [m \in Messages |-> 0]
  /\ expiries = [m \in Messages |-> 0]
  /\ spent = [k \in FaultKinds |-> 0]

(* A fault of kind k, while the budget of that kind lasts. *)
Fault(k) ==
  /\ spent[k] < Budget[k]
  /\ spent' = [spent EXCEPT ![k] = @ + 1]

Rows == {m \in Messages : createdAt[m] > 0}

(***************************************************************************)
(* OutboxService.enqueue: one INSERT, retryCount 0, processedAtUtc null.   *)
(***************************************************************************)
Enqueue(m) ==
  /\ createdAt[m] = 0
  /\ createdAt' = [createdAt EXCEPT ![m] = Cardinality(Rows) + 1]
  /\ UNCHANGED <<processed, retryCount, batch, bull, lock, worker, ghosts, spent>>

(***************************************************************************)
(* OutboxDispatcher.dispatch: read the oldest BATCH pending rows, then add *)
(* a job for each.  Ticks may overlap, and a row may be processed between  *)
(* the read and the add.                                                   *)
(***************************************************************************)
Pending == {m \in Rows : ~processed[m] /\ retryCount[m] < MAX_RETRY}

Oldest(P) ==
  {m \in P : Cardinality({n \in P : createdAt[n] < createdAt[m]}) < BATCH}

DispatchRead ==
  /\ Pending # {}
  /\ batch' = batch \cup Oldest(Pending)
  /\ UNCHANGED <<rows, bull, lock, worker, ghosts, spent>>

(* queue.add: ignored by BullMQ while a job with this jobId still exists,
   whatever its state. *)
DispatchAdd(m) ==
  /\ m \in batch
  /\ batch' = batch \ {m}
  /\ IF job[m] = "none"
       THEN /\ job' = [job EXCEPT ![m] = "waiting"]
            /\ attempts' = [attempts EXCEPT ![m] = 0]
            /\ stalls' = [stalls EXCEPT ![m] = 0]
            /\ UNCHANGED owner
       ELSE UNCHANGED bull
  /\ UNCHANGED <<rows, lock, worker, ghosts, spent>>

(* queue.add fails, or the process ends first: nothing catches it. *)
DispatchLost(m) ==
  /\ m \in batch
  /\ Fault("add")
  /\ batch' = batch \ {m}
  /\ UNCHANGED <<rows, bull, lock, worker, ghosts>>

-----------------------------------------------------------------------------
(***************************************************************************)
(* The BullMQ side of a job (external).                                    *)
(***************************************************************************)
Take(w, m) ==
  /\ pc[w] = "idle"
  /\ job[m] = "waiting"
  /\ job' = [job EXCEPT ![m] = "active"]
  /\ owner' = [owner EXCEPT ![m] = w]
  /\ pc' = [pc EXCEPT ![w] = "load"]
  /\ cur' = [cur EXCEPT ![w] = m]
  /\ UNCHANGED <<rows, batch, attempts, stalls, lock, ghosts, spent>>

Owns(w, m) == job[m] = "active" /\ owner[m] = w

GoIdle(w) ==
  /\ pc' = [pc EXCEPT ![w] = "idle"]
  /\ cur' = [cur EXCEPT ![w] = NoMessage]

FailedJobs == {m \in Messages : job[m] = "failed"}

(* process() returned: removeOnComplete deletes the job, if the worker still
   holds it; otherwise BullMQ refuses the result. *)
Complete(w) ==
  LET m == cur[w] IN
  /\ IF Owns(w, m)
       THEN /\ job' = [job EXCEPT ![m] = "none"]
            /\ owner' = [owner EXCEPT ![m] = NoWorker]
       ELSE UNCHANGED <<job, owner>>
  /\ GoIdle(w)
  /\ UNCHANGED <<attempts, stalls>>

(* The job goes to the failed set, which keeps the KeepFailed latest. *)
ToFailedSet(m) ==
  IF Cardinality(FailedJobs) < KeepFailed
    THEN job' = [job EXCEPT ![m] = "failed"]
    ELSE \E old \in FailedJobs :
           job' = [job EXCEPT ![m] = "failed", ![old] = "none"]

(* process() threw: one attempt used, then a backoff or the failed set. *)
Throw(w) ==
  LET m == cur[w] IN
  /\ IF Owns(w, m)
       THEN /\ attempts' = [attempts EXCEPT ![m] = @ + 1]
            /\ owner' = [owner EXCEPT ![m] = NoWorker]
            /\ IF attempts[m] + 1 < Attempts
                 THEN job' = [job EXCEPT ![m] = "delayed"]
                 ELSE ToFailedSet(m)
       ELSE UNCHANGED <<job, attempts, owner>>
  /\ GoIdle(w)
  /\ UNCHANGED stalls

(* The backoff of a retried job is over. *)
RetryDue(m) ==
  /\ job[m] = "delayed"
  /\ job' = [job EXCEPT ![m] = "waiting"]
  /\ UNCHANGED <<rows, batch, attempts, stalls, owner, lock, worker, ghosts, spent>>

(* BullMQ's stalled-job check takes an active job away from its owner. *)
TakeAway(m) ==
  /\ stalls' = [stalls EXCEPT ![m] = @ + 1]
  /\ owner' = [owner EXCEPT ![m] = NoWorker]
  /\ IF stalls[m] < MaxStalled
       THEN job' = [job EXCEPT ![m] = "waiting"]
       ELSE ToFailedSet(m)
  /\ UNCHANGED <<rows, batch, attempts, lock, worker, ghosts>>

(* ... because the owner is gone ... *)
Stalled(m) ==
  /\ job[m] = "active"
  /\ \A w \in Workers : owner[m] = w => pc[w] = "idle" \/ cur[w] # m
  /\ TakeAway(m)
  /\ UNCHANGED spent

(* ... or because it is alive but did not renew the job lock in time. *)
StalledAlive(m) ==
  /\ job[m] = "active"
  /\ \E w \in Workers : owner[m] = w /\ pc[w] # "idle" /\ cur[w] = m
  /\ Fault("stall")
  /\ TakeAway(m)

-----------------------------------------------------------------------------
(***************************************************************************)
(* ReactionProcessor.process, one action per await.                        *)
(***************************************************************************)
(* Variant: processedAtUtc is not looked at. *)
LoadUnchecked(w) ==
  /\ pc[w] = "load"
  /\ pc' = [pc EXCEPT ![w] = "lock"]
  /\ UNCHANGED <<bull, cur, rows, batch, lock, ghosts, spent>>

(* findUnique; a row that is already processed ends the job. *)
Load(w) ==
  /\ pc[w] = "load"
  /\ IF processed[cur[w]]
       THEN Complete(w)
       ELSE /\ pc' = [pc EXCEPT ![w] = "lock"]
            /\ UNCHANGED <<bull, cur>>
  /\ UNCHANGED <<rows, batch, lock, ghosts, spent>>

(* Variant: SET without NX. *)
AcquireLockAlways(w) ==
  /\ pc[w] = "lock"
  /\ lock' = [lock EXCEPT ![cur[w]] = TRUE]
  /\ pc' = [pc EXCEPT ![w] = "handle"]
  /\ UNCHANGED <<rows, batch, bull, cur, ghosts, spent>>

(* SET job:outbox:{id} 1 EX 600 NX answered OK. *)
AcquireLock(w) ==
  /\ pc[w] = "lock"
  /\ ~lock[cur[w]]
  /\ lock' = [lock EXCEPT ![cur[w]] = TRUE]
  /\ pc' = [pc EXCEPT ![w] = "handle"]
  /\ UNCHANGED <<rows, batch, bull, cur, ghosts, spent>>

(* Variant: a held lock is taken to mean that the event is done. *)
LockBusyMarks(w) ==
  /\ pc[w] = "lock"
  /\ lock[cur[w]]
  /\ processed' = [processed EXCEPT ![cur[w]] = TRUE]
  /\ Complete(w)
  /\ UNCHANGED <<createdAt, retryCount, batch, lock, ghosts, spent>>

(* The key exists: return, and BullMQ sees a job that succeeded. *)
LockBusy(w) ==
  /\ pc[w] = "lock"
  /\ lock[cur[w]]
  /\ Complete(w)
  /\ UNCHANGED <<rows, batch, lock, ghosts, spent>>

(* The handler's write is committed. *)
Handle(w) ==
  /\ pc[w] = "handle"
  /\ applied' = [applied EXCEPT ![cur[w]] = @ + 1]
  /\ pc' = [pc EXCEPT ![w] = "mark"]
  /\ UNCHANGED <<rows, batch, bull, lock, cur, expiries, spent>>

(* processedAtUtc is written and process() returns; the lock stays. *)
Mark(w) ==
  /\ pc[w] = "mark"
  /\ processed' = [processed EXCEPT ![cur[w]] = TRUE]
  /\ Complete(w)
  /\ UNCHANGED <<createdAt, retryCount, batch, lock, ghosts, spent>>

(* findUnique or SET threw: outside the try block, the row is untouched. *)
LoadOrLockError(w) ==
  /\ pc[w] \in {"load", "lock"}
  /\ Fault(pc[w])
  /\ Throw(w)
  /\ UNCHANGED <<rows, batch, lock, ghosts>>

(* The handler threw before its write, or the update of processedAtUtc
   threw: both are inside the try block. *)
HandlerOrMarkError(w) ==
  /\ \/ pc[w] = "handle" /\ Fault("handler")
     \/ pc[w] = "mark" /\ Fault("mark")
  /\ pc' = [pc EXCEPT ![w] = "record"]
  /\ UNCHANGED <<rows, batch, bull, lock, cur, ghosts>>

(* The catch block: retryCount + 1, lastError, rethrow; the lock stays. *)
RecordFailure(w) ==
  /\ pc[w] = "record"
  /\ retryCount' = [retryCount EXCEPT ![cur[w]] = @ + 1]
  /\ Throw(w)
  /\ UNCHANGED <<createdAt, processed, batch, lock, ghosts, spent>>

(* The update in the catch block threw: nothing is recorded. *)
RecordError(w) ==
  /\ pc[w] = "record"
  /\ Fault("record")
  /\ Throw(w)
  /\ UNCHANGED <<rows, batch, lock, ghosts>>

(* The worker's process ends; BullMQ keeps the job active. *)
Crash(w) ==
  /\ pc[w] # "idle"
  /\ Fault("crash")
  /\ GoIdle(w)
  /\ UNCHANGED <<rows, batch, bull, lock, ghosts>>

(* Variant: SET without EX, the key never expires. *)
LockForever(m) ==
  /\ FALSE
  /\ UNCHANGED vars

(* The lock's 600 s are over. *)
ExpireLock(m) ==
  /\ lock[m]
  /\ lock' = [lock EXCEPT ![m] = FALSE]
  /\ expiries' = [expiries EXCEPT ![m] = @ + 1]
  /\ UNCHANGED <<rows, batch, bull, worker, applied, spent>>

-----------------------------------------------------------------------------
Work(w) ==
  \/ Load(w) \/ AcquireLock(w) \/ LockBusy(w) \/ Handle(w) \/ Mark(w)
  \/ RecordFailure(w)

Next ==
  \/ DispatchRead
  \/ \E m \in Messages :
       \/ Enqueue(m) \/ DispatchAdd(m) \/ DispatchLost(m)
       \/ RetryDue(m) \/ Stalled(m) \/ StalledAlive(m) \/ ExpireLock(m)
  \/ \E w \in Workers :
       \/ Work(w) \/ LoadOrLockError(w) \/ HandlerOrMarkError(w)
       \/ RecordError(w) \/ Crash(w)
       \/ \E m \in Messages : Take(w, m)

Spec == Init /\ [][Next]_vars

(***************************************************************************)
(* Fairness.  The cron job fires every minute, Redis expires keys, BullMQ  *)
(* promotes delayed jobs and checks for stalled ones on timers, a live     *)
(* worker goes on; a waiting job is taken in FIFO order, so one that is    *)
(* takeable again and again is taken.  Writers and faults owe nothing.     *)
(***************************************************************************)
Fairness ==
  /\ WF_vars(DispatchRead)
  /\ \A m \in Messages :
       /\ WF_vars(DispatchAdd(m))
       /\ WF_vars(RetryDue(m))
       /\ WF_vars(Stalled(m))
       /\ WF_vars(ExpireLock(m))
       /\ SF_vars(\E w \in Workers : Take(w, m))
  /\ \A w \in Workers : WF_vars(Work(w))

FairSpec == Spec /\ Fairness

-----------------------------------------------------------------------------
(***************************************************************************)
(* Properties.                                                             *)
(***************************************************************************)
(* The outbox implements AtLeastOnce: rows are the events handed over,     *)
(* committed handler writes their effects, processedAtUtc the              *)
(* acknowledgement.                                                        *)
Abstract == INSTANCE AtLeastOnce WITH
  submitted <- Rows,
  effects <- applied,
  acknowledged <- {m \in Messages : processed[m]}

ImplementsAtLeastOnce == Abstract!Spec

(* processedAtUtc is never set on a row whose handler did not commit,      *)
(* whatever fails, stalls or crashes (reaction.processor.ts:55-82).        *)
ProcessedMeansApplied == \A m \in Messages : processed[m] => applied[m] > 0

(* How many times the lock of m was acquired. *)
Acquired(m) == expiries[m] + (IF lock[m] THEN 1 ELSE 0)

(* Within one lifetime of the Redis key a handler commits at most once and *)
(* at most one failure is recorded: the lock is never released, so n       *)
(* commits, or n retries of the MAX_RETRY, take n lock lifetimes, however  *)
(* workers, retries and duplicate jobs interleave.                         *)
OncePerLockWindow ==
  \A m \in Messages :
    /\ applied[m] <= Acquired(m)
    /\ retryCount[m] <= Acquired(m)

(* An event is applied twice only if a worker crashed or stalled, or the   *)
(* write of processedAtUtc failed: jobId deduplication and the re-check of *)
(* processedAtUtc make stale dispatches, lock expiries during a slow       *)
(* handler, and failures before the write harmless.                        *)
DuplicateNeedsFault ==
  \A m \in Messages :
    applied[m] <= 1 + spent["crash"] + spent["stall"] + spent["mark"]

(* A row ends up processed, or poison: counted and reported by dispatch(). *)
Settled(m) == processed[m] \/ retryCount[m] >= MAX_RETRY
=============================================================================
