---------------------------- MODULE OutboxProofs ----------------------------
(***************************************************************************)
(* Theorems about Outbox, for any finite sets of messages and workers, any *)
(* limits and any fault budget.                                            *)
(***************************************************************************)
EXTENDS Outbox, FiniteSetTheorems, TLAPS

LEMMA NextTypeOK == TypeOK /\ [Next]_vars => TypeOK'
<1> SUFFICES ASSUME TypeOK, [Next]_vars PROVE TypeOK'
  OBVIOUS
<1> USE DEF TypeOK, JobStates, Points, FaultKinds, rows, bull, worker, ghosts
<1>1. CASE DispatchRead
  BY <1>1 DEF DispatchRead, Oldest, Pending, Rows
<1>2. ASSUME NEW m \in Messages, Enqueue(m)
      PROVE  TypeOK'
  <2>1. Rows \subseteq Messages
    BY DEF Rows
  <2>2. Cardinality(Rows) \in Nat
    BY <2>1, ConstantsAssumption, FS_Subset, FS_CardinalityType
  <2> QED BY <1>2, <2>2 DEF Enqueue
<1>3. ASSUME NEW m \in Messages, DispatchAdd(m)
      PROVE  TypeOK'
  BY <1>3 DEF DispatchAdd
<1>4. ASSUME NEW m \in Messages, DispatchLost(m)
      PROVE  TypeOK'
  BY <1>4 DEF DispatchLost, Fault
<1>5. ASSUME NEW m \in Messages, RetryDue(m)
      PROVE  TypeOK'
  BY <1>5 DEF RetryDue
<1>6. ASSUME NEW m \in Messages, Stalled(m)
      PROVE  TypeOK'
  BY <1>6 DEF Stalled, TakeAway, ToFailedSet
<1>7. ASSUME NEW m \in Messages, StalledAlive(m)
      PROVE  TypeOK'
  BY <1>7 DEF StalledAlive, Fault, TakeAway, ToFailedSet
<1>8. ASSUME NEW m \in Messages, ExpireLock(m)
      PROVE  TypeOK'
  BY <1>8 DEF ExpireLock
<1>9. ASSUME NEW w \in Workers, NEW m \in Messages, Take(w, m)
      PROVE  TypeOK'
  BY <1>9 DEF Take
<1>10. ASSUME NEW w \in Workers, Load(w)
       PROVE  TypeOK'
  BY <1>10 DEF Load, Complete, GoIdle
<1>11. ASSUME NEW w \in Workers, AcquireLock(w)
       PROVE  TypeOK'
  BY <1>11 DEF AcquireLock
<1>12. ASSUME NEW w \in Workers, LockBusy(w)
       PROVE  TypeOK'
  BY <1>12 DEF LockBusy, Complete, GoIdle
<1>13. ASSUME NEW w \in Workers, Handle(w)
       PROVE  TypeOK'
  BY <1>13 DEF Handle
<1>14. ASSUME NEW w \in Workers, Mark(w)
       PROVE  TypeOK'
  BY <1>14 DEF Mark, Complete, GoIdle
<1>15. ASSUME NEW w \in Workers, RecordFailure(w)
       PROVE  TypeOK'
  BY <1>15 DEF RecordFailure, Throw, GoIdle, ToFailedSet
<1>16. ASSUME NEW w \in Workers, LoadOrLockError(w)
       PROVE  TypeOK'
  BY <1>16 DEF LoadOrLockError, Fault, Throw, GoIdle, ToFailedSet
<1>17. ASSUME NEW w \in Workers, HandlerOrMarkError(w)
       PROVE  TypeOK'
  BY <1>17 DEF HandlerOrMarkError, Fault
<1>18. ASSUME NEW w \in Workers, RecordError(w)
       PROVE  TypeOK'
  BY <1>18 DEF RecordError, Fault, Throw, GoIdle, ToFailedSet
<1>19. ASSUME NEW w \in Workers, Crash(w)
       PROVE  TypeOK'
  BY <1>19 DEF Crash, Fault, GoIdle
<1>20. CASE UNCHANGED vars
  BY <1>20 DEF vars
<1> QED
  BY <1>1, <1>2, <1>3, <1>4, <1>5, <1>6, <1>7, <1>8, <1>9, <1>10, <1>11,
     <1>12, <1>13, <1>14, <1>15, <1>16, <1>17, <1>18, <1>19, <1>20
  DEF Next, Work

(* Every variable keeps its type: in particular a worker that is not idle  *)
(* always has a message, and counters stay natural numbers.                *)
THEOREM TypeCorrect == Spec => []TypeOK
<1>1. Init => TypeOK
  BY DEF Init, TypeOK, JobStates, Points, FaultKinds
<1> QED BY <1>1, NextTypeOK, PTL DEF Spec
-----------------------------------------------------------------------------
(***************************************************************************)
(* One commit and one recorded failure per lock lifetime.  The property    *)
(* is not inductive: a worker already past the lock still has its commit   *)
(* and its failure to come.  WindowInv counts those workers in.            *)
(***************************************************************************)
At(m, points) == {w \in Workers : cur[w] = m /\ pc[w] \in points}

Handling   == {"handle"}
InTryBlock == {"handle", "mark", "record"}

WindowInv ==
  \A m \in Messages :
    /\ applied[m] + Cardinality(At(m, Handling)) <= Acquired(m)
    /\ retryCount[m] + Cardinality(At(m, InTryBlock)) <= Acquired(m)

LEMMA AtFinite ==
  ASSUME NEW m, NEW points
  PROVE  /\ IsFiniteSet(At(m, points))
         /\ Cardinality(At(m, points)) \in Nat
BY ConstantsAssumption, FS_Subset, FS_CardinalityType DEF At

(* A step after which no other worker is at these points cannot raise the
   number of workers there. *)
LEMMA AtShrinks ==
  ASSUME NEW m, NEW points, At(m, points)' \subseteq At(m, points)
  PROVE  /\ Cardinality(At(m, points)') \in Nat
         /\ Cardinality(At(m, points)') <= Cardinality(At(m, points))
BY AtFinite, FS_Subset, FS_CardinalityType

(* A worker that leaves these points lowers their number by one. *)
LEMMA AtLoses ==
  ASSUME NEW m, NEW points, NEW w \in At(m, points),
         At(m, points)' \subseteq At(m, points) \ {w}
  PROVE  /\ Cardinality(At(m, points)') \in Nat
         /\ Cardinality(At(m, points)') + 1 <= Cardinality(At(m, points))
<1>1. /\ IsFiniteSet(At(m, points) \ {w})
      /\ Cardinality(At(m, points) \ {w}) = Cardinality(At(m, points)) - 1
  BY AtFinite, FS_RemoveElement
<1>2. /\ IsFiniteSet(At(m, points)')
      /\ Cardinality(At(m, points)') <= Cardinality(At(m, points) \ {w})
  BY <1>1, FS_Subset
<1> QED BY <1>1, <1>2, AtFinite, FS_CardinalityType

(* A worker that arrives raises their number by at most one. *)
LEMMA AtGains ==
  ASSUME NEW m, NEW points, NEW w,
         At(m, points)' \subseteq At(m, points) \cup {w}
  PROVE  /\ Cardinality(At(m, points)') \in Nat
         /\ Cardinality(At(m, points)') <= Cardinality(At(m, points)) + 1
<1>1. /\ IsFiniteSet(At(m, points) \cup {w})
      /\ \/ Cardinality(At(m, points) \cup {w}) = Cardinality(At(m, points))
         \/ Cardinality(At(m, points) \cup {w}) = Cardinality(At(m, points)) + 1
  BY AtFinite, FS_AddElement
<1>2. /\ IsFiniteSet(At(m, points)')
      /\ Cardinality(At(m, points)') <= Cardinality(At(m, points) \cup {w})
  BY <1>1, FS_Subset
<1> QED BY <1>1, <1>2, AtFinite, FS_CardinalityType

(* A step that starts no handler, commits nothing, records nothing and does
   not touch the lock. *)
LEMMA WindowInvQuiet ==
  ASSUME TypeOK, WindowInv,
         UNCHANGED <<applied, retryCount, lock, expiries>>,
         \A m \in Messages :
           /\ At(m, Handling)' \subseteq At(m, Handling)
           /\ At(m, InTryBlock)' \subseteq At(m, InTryBlock)
  PROVE  WindowInv'
<1> SUFFICES ASSUME NEW m \in Messages
             PROVE  /\ applied'[m] + Cardinality(At(m, Handling)') <= Acquired(m)'
                    /\ retryCount'[m] + Cardinality(At(m, InTryBlock)') <= Acquired(m)'
  BY DEF WindowInv
<1>1. Acquired(m)' = Acquired(m) /\ Acquired(m) \in Nat
  BY DEF Acquired, TypeOK
<1>2. /\ Cardinality(At(m, Handling)') \in Nat
      /\ Cardinality(At(m, Handling)') <= Cardinality(At(m, Handling))
      /\ Cardinality(At(m, InTryBlock)') \in Nat
      /\ Cardinality(At(m, InTryBlock)') <= Cardinality(At(m, InTryBlock))
  BY AtShrinks
<1> QED BY <1>1, <1>2, AtFinite DEF WindowInv, TypeOK

LEMMA NextWindowInv == TypeOK /\ WindowInv /\ [Next]_vars => WindowInv'
<1> SUFFICES ASSUME TypeOK, WindowInv, [Next]_vars PROVE WindowInv'
  OBVIOUS
<1> USE DEF Handling, InTryBlock, rows, bull, worker, ghosts
<1>1. CASE DispatchRead
  BY <1>1, WindowInvQuiet DEF DispatchRead, At
<1>2. ASSUME NEW m \in Messages,
             \/ Enqueue(m) \/ DispatchAdd(m) \/ DispatchLost(m)
             \/ RetryDue(m) \/ Stalled(m) \/ StalledAlive(m)
      PROVE  WindowInv'
  BY <1>2, WindowInvQuiet
  DEF Enqueue, DispatchAdd, DispatchLost, RetryDue, Stalled, StalledAlive,
      TakeAway, At
<1>3. ASSUME NEW w \in Workers, NEW m \in Messages, Take(w, m)
      PROVE  WindowInv'
  BY <1>3, WindowInvQuiet DEF Take, At, TypeOK
<1>4. ASSUME NEW w \in Workers,
             \/ Load(w) \/ LockBusy(w) \/ Mark(w) \/ LoadOrLockError(w)
             \/ HandlerOrMarkError(w) \/ RecordError(w) \/ Crash(w)
      PROVE  WindowInv'
  <2>1. UNCHANGED <<applied, retryCount, lock, expiries>>
    BY <1>4 DEF Load, LockBusy, Mark, LoadOrLockError, HandlerOrMarkError,
                RecordError, Crash
  <2>2. /\ cur' = [cur EXCEPT ![w] = NoMessage] \/ cur' = cur
        /\ \/ pc' = [pc EXCEPT ![w] = "idle"]
           \/ pc' = [pc EXCEPT ![w] = "lock"]
           \/ pc[w] \in {"handle", "mark"} /\ pc' = [pc EXCEPT ![w] = "record"]
    BY <1>4 DEF Load, LockBusy, Mark, LoadOrLockError, HandlerOrMarkError,
                RecordError, Crash, Complete, Throw, GoIdle
  <2>3. ASSUME NEW n \in Messages
        PROVE  /\ At(n, Handling)' \subseteq At(n, Handling)
               /\ At(n, InTryBlock)' \subseteq At(n, InTryBlock)
    BY <2>2, ConstantsAssumption DEF At, TypeOK
  <2> QED BY <2>1, <2>3, WindowInvQuiet
<1>5. ASSUME NEW w \in Workers, AcquireLock(w)
      PROVE  WindowInv'
  <2> SUFFICES ASSUME NEW m \in Messages
               PROVE  /\ applied'[m] + Cardinality(At(m, Handling)') <= Acquired(m)'
                      /\ retryCount'[m] + Cardinality(At(m, InTryBlock)') <= Acquired(m)'
    BY DEF WindowInv
  <2>1. UNCHANGED <<applied, retryCount, expiries, cur>>
    BY <1>5 DEF AcquireLock
  <2>2. CASE m = cur[w]
    <3>1. Acquired(m)' = Acquired(m) + 1 /\ Acquired(m) \in Nat
      BY <1>5, <2>2 DEF AcquireLock, Acquired, TypeOK
    <3>2. /\ At(m, Handling)' \subseteq At(m, Handling) \cup {w}
          /\ At(m, InTryBlock)' \subseteq At(m, InTryBlock) \cup {w}
      BY <1>5 DEF AcquireLock, At, TypeOK
    <3>3. /\ Cardinality(At(m, Handling)') \in Nat
          /\ Cardinality(At(m, Handling)') <= Cardinality(At(m, Handling)) + 1
      BY <3>2, AtGains
    <3>4. /\ Cardinality(At(m, InTryBlock)') \in Nat
          /\ Cardinality(At(m, InTryBlock)') <= Cardinality(At(m, InTryBlock)) + 1
      BY <3>2, AtGains
    <3> QED BY <2>1, <3>1, <3>3, <3>4, AtFinite DEF WindowInv, TypeOK
  <2>3. CASE m # cur[w]
    <3>1. Acquired(m)' = Acquired(m) /\ Acquired(m) \in Nat
      BY <1>5, <2>3 DEF AcquireLock, Acquired, TypeOK
    <3>2. /\ At(m, Handling)' \subseteq At(m, Handling)
          /\ At(m, InTryBlock)' \subseteq At(m, InTryBlock)
      BY <1>5, <2>3 DEF AcquireLock, At, TypeOK
    <3> QED BY <2>1, <3>1, <3>2, AtShrinks, AtFinite DEF WindowInv, TypeOK
  <2> QED BY <2>2, <2>3
<1>6. ASSUME NEW w \in Workers, Handle(w)
      PROVE  WindowInv'
  <2> SUFFICES ASSUME NEW m \in Messages
               PROVE  /\ applied'[m] + Cardinality(At(m, Handling)') <= Acquired(m)'
                      /\ retryCount'[m] + Cardinality(At(m, InTryBlock)') <= Acquired(m)'
    BY DEF WindowInv
  <2>1. UNCHANGED <<retryCount, expiries, lock, cur>>
    BY <1>6 DEF Handle
  <2>2. Acquired(m)' = Acquired(m) /\ Acquired(m) \in Nat
    BY <2>1 DEF Acquired, TypeOK
  <2>3. retryCount'[m] + Cardinality(At(m, InTryBlock)') <= Acquired(m)'
    <3>1. At(m, InTryBlock)' \subseteq At(m, InTryBlock)
      BY <1>6 DEF Handle, At, TypeOK
    <3> QED BY <2>1, <2>2, <3>1, AtShrinks, AtFinite DEF WindowInv, TypeOK
  <2>4. CASE m = cur[w]
    <3>1. w \in At(m, Handling) /\ At(m, Handling)' \subseteq At(m, Handling) \ {w}
      BY <1>6, <2>4 DEF Handle, At, TypeOK
    <3>2. applied'[m] = applied[m] + 1
      BY <1>6, <2>4 DEF Handle, TypeOK
    <3> QED BY <2>2, <2>3, <3>1, <3>2, AtLoses, AtFinite DEF WindowInv, TypeOK
  <2>5. CASE m # cur[w]
    <3>1. At(m, Handling)' \subseteq At(m, Handling)
      BY <1>6 DEF Handle, At, TypeOK
    <3>2. applied'[m] = applied[m]
      BY <1>6, <2>5 DEF Handle, TypeOK
    <3> QED BY <2>2, <2>3, <3>1, <3>2, AtShrinks, AtFinite DEF WindowInv, TypeOK
  <2> QED BY <2>4, <2>5
<1>7. ASSUME NEW w \in Workers, RecordFailure(w)
      PROVE  WindowInv'
  <2> SUFFICES ASSUME NEW m \in Messages
               PROVE  /\ applied'[m] + Cardinality(At(m, Handling)') <= Acquired(m)'
                      /\ retryCount'[m] + Cardinality(At(m, InTryBlock)') <= Acquired(m)'
    BY DEF WindowInv
  <2>1. UNCHANGED <<applied, expiries, lock>>
    BY <1>7 DEF RecordFailure
  <2>2. Acquired(m)' = Acquired(m) /\ Acquired(m) \in Nat
    BY <2>1 DEF Acquired, TypeOK
  <2>3. pc' = [pc EXCEPT ![w] = "idle"] /\ cur' = [cur EXCEPT ![w] = NoMessage]
    BY <1>7 DEF RecordFailure, Throw, GoIdle
  <2>4. applied'[m] + Cardinality(At(m, Handling)') <= Acquired(m)'
    <3>1. At(m, Handling)' \subseteq At(m, Handling)
      BY <2>3 DEF At, TypeOK
    <3> QED BY <2>1, <2>2, <3>1, AtShrinks, AtFinite DEF WindowInv, TypeOK
  <2>5. CASE m = cur[w]
    <3>1. /\ w \in At(m, InTryBlock)
          /\ At(m, InTryBlock)' \subseteq At(m, InTryBlock) \ {w}
      BY <1>7, <2>3, <2>5 DEF RecordFailure, At, TypeOK
    <3>2. retryCount'[m] = retryCount[m] + 1
      BY <1>7, <2>5 DEF RecordFailure, TypeOK
    <3> QED BY <2>2, <2>4, <3>1, <3>2, AtLoses, AtFinite DEF WindowInv, TypeOK
  <2>6. CASE m # cur[w]
    <3>1. At(m, InTryBlock)' \subseteq At(m, InTryBlock)
      BY <2>3 DEF At, TypeOK
    <3>2. retryCount'[m] = retryCount[m]
      BY <1>7, <2>6 DEF RecordFailure, TypeOK
    <3> QED BY <2>2, <2>4, <3>1, <3>2, AtShrinks, AtFinite DEF WindowInv, TypeOK
  <2> QED BY <2>5, <2>6
<1>8. ASSUME NEW n \in Messages, ExpireLock(n)
      PROVE  WindowInv'
  <2>1. \A m \in Messages : Acquired(m)' = Acquired(m)
    BY <1>8 DEF ExpireLock, Acquired, TypeOK
  <2>2. UNCHANGED <<applied, retryCount, pc, cur>>
    BY <1>8 DEF ExpireLock
  <2>3. \A m \in Messages : /\ At(m, Handling)' = At(m, Handling)
                            /\ At(m, InTryBlock)' = At(m, InTryBlock)
    BY <2>2 DEF At
  <2> QED BY <2>1, <2>2, <2>3 DEF WindowInv
<1>9. CASE UNCHANGED vars
  BY <1>9, WindowInvQuiet DEF vars, At
<1> QED
  BY <1>1, <1>2, <1>3, <1>4, <1>5, <1>6, <1>7, <1>8, <1>9 DEF Next, Work

(* The handler of an event commits at most once, and at most one failure   *)
(* is recorded, per lifetime of its Redis key: with workers, stalls and    *)
(* faults in any number.                                                   *)
THEOREM WindowBound == Spec => []OncePerLockWindow
<1>1. Init => WindowInv
  <2> SUFFICES ASSUME Init, NEW m \in Messages
               PROVE  /\ applied[m] + Cardinality(At(m, Handling)) <= Acquired(m)
                      /\ retryCount[m] + Cardinality(At(m, InTryBlock)) <= Acquired(m)
    BY DEF WindowInv
  <2>1. At(m, Handling) = {} /\ At(m, InTryBlock) = {}
    BY DEF Init, At, Handling, InTryBlock
  <2> QED BY <2>1, FS_EmptySet DEF Init, Acquired
<1>2. TypeOK /\ WindowInv => OncePerLockWindow
  BY AtFinite DEF WindowInv, OncePerLockWindow, TypeOK, Acquired
<1> QED BY <1>1, <1>2, TypeCorrect, NextWindowInv, PTL DEF Spec
-----------------------------------------------------------------------------
(***************************************************************************)
(* Outbox implements AtLeastOnce.  Two facts carry the simulation: a       *)
(* message that is in a batch, in the queue or in a worker's hands has a   *)
(* row, and a worker about to mark has committed.                          *)
(***************************************************************************)
RowsInUse ==
  /\ \A m \in Messages : m \in batch \/ job[m] # "none" => createdAt[m] > 0
  /\ \A w \in Workers : pc[w] # "idle" => createdAt[cur[w]] > 0

MarkAfterCommit ==
  \A w \in Workers : pc[w] = "mark" => applied[cur[w]] > 0

SimInv == RowsInUse /\ MarkAfterCommit

(* How the bull variables of a job can change when a worker lets go. *)
LEMMA JobsOnlyFromJobs ==
  ASSUME TypeOK, NEW n \in Messages, job[n] # "none",
         \/ job' = [job EXCEPT ![n] = "delayed"]
         \/ ToFailedSet(n)
  PROVE  \A m \in Messages : job'[m] # "none" => job[m] # "none"
BY DEF ToFailedSet, FailedJobs, TypeOK

LEMMA NextSimInv == TypeOK /\ SimInv /\ [Next]_vars => SimInv'
<1> SUFFICES ASSUME TypeOK, SimInv, [Next]_vars PROVE SimInv'
  OBVIOUS
<1> USE DEF SimInv, RowsInUse, MarkAfterCommit, rows, bull, worker, ghosts
<1>1. CASE DispatchRead
  BY <1>1 DEF DispatchRead, Oldest, Pending, Rows, TypeOK
<1>2. ASSUME NEW m \in Messages, Enqueue(m)
      PROVE  SimInv'
  <2>1. Cardinality(Rows) \in Nat
    BY ConstantsAssumption, FS_Subset, FS_CardinalityType DEF Rows
  <2> QED BY <1>2, <2>1 DEF Enqueue, TypeOK
<1>3. ASSUME NEW m \in Messages, DispatchAdd(m) \/ DispatchLost(m) \/ RetryDue(m)
      PROVE  SimInv'
  BY <1>3 DEF DispatchAdd, DispatchLost, RetryDue, TypeOK
<1>4. ASSUME NEW n \in Messages, Stalled(n) \/ StalledAlive(n)
      PROVE  SimInv'
  <2>1. \A m \in Messages : job'[m] # "none" => job[m] # "none"
    BY <1>4, JobsOnlyFromJobs DEF Stalled, StalledAlive, TakeAway, TypeOK
  <2>2. UNCHANGED <<createdAt, batch, pc, cur, applied>>
    BY <1>4 DEF Stalled, StalledAlive, TakeAway
  <2> QED BY <2>1, <2>2
<1>5. ASSUME NEW m \in Messages, ExpireLock(m)
      PROVE  SimInv'
  BY <1>5 DEF ExpireLock
<1>6. ASSUME NEW w \in Workers, NEW m \in Messages, Take(w, m)
      PROVE  SimInv'
  BY <1>6 DEF Take, TypeOK
<1>7. ASSUME NEW w \in Workers,
             Load(w) \/ LockBusy(w) \/ Mark(w) \/ Crash(w)
      PROVE  SimInv'
  BY <1>7 DEF Load, LockBusy, Mark, Crash, Complete, GoIdle, TypeOK
<1>8. ASSUME NEW w \in Workers,
             RecordFailure(w) \/ LoadOrLockError(w) \/ RecordError(w)
      PROVE  SimInv'
  <2>1. /\ UNCHANGED <<createdAt, batch, applied>>
        /\ pc' = [pc EXCEPT ![w] = "idle"]
        /\ cur' = [cur EXCEPT ![w] = NoMessage]
        /\ pc[w] # "idle" /\ cur[w] \in Messages
    BY <1>8 DEF RecordFailure, LoadOrLockError, RecordError, Throw, GoIdle, TypeOK
  <2>2. \A m \in Messages : job'[m] # "none" => job[m] # "none"
    <3>1. CASE Owns(w, cur[w])
      BY <1>8, <2>1, <3>1, JobsOnlyFromJobs
      DEF RecordFailure, LoadOrLockError, RecordError, Throw, Owns
    <3>2. CASE ~Owns(w, cur[w])
      BY <1>8, <3>2 DEF RecordFailure, LoadOrLockError, RecordError, Throw
    <3> QED BY <3>1, <3>2
  <2> QED BY <2>1, <2>2 DEF TypeOK
<1>9. ASSUME NEW w \in Workers, AcquireLock(w) \/ HandlerOrMarkError(w)
      PROVE  SimInv'
  BY <1>9 DEF AcquireLock, HandlerOrMarkError, TypeOK
<1>10. ASSUME NEW w \in Workers, Handle(w)
       PROVE  SimInv'
  BY <1>10 DEF Handle, TypeOK
<1>11. CASE UNCHANGED vars
  BY <1>11 DEF vars
<1> QED
  BY <1>1, <1>2, <1>3, <1>4, <1>5, <1>6, <1>7, <1>8, <1>9, <1>10, <1>11
  DEF Next, Work

LEMMA SimInvariant == Spec => []SimInv
<1>1. Init => SimInv
  BY DEF Init, SimInv, RowsInUse, MarkAfterCommit
<1> QED BY <1>1, TypeCorrect, NextSimInv, PTL DEF Spec

(* processedAtUtc is never set before the handler's write is committed.    *)
THEOREM MarkedOnlyAfterCommit == Spec => []ProcessedMeansApplied
<1>1. Init => ProcessedMeansApplied
  BY DEF Init, ProcessedMeansApplied
<1>2. TypeOK /\ SimInv /\ ProcessedMeansApplied /\ [Next]_vars
        => ProcessedMeansApplied'
  <2> SUFFICES ASSUME TypeOK, SimInv, ProcessedMeansApplied, [Next]_vars
               PROVE  ProcessedMeansApplied'
    OBVIOUS
  <2> USE DEF ProcessedMeansApplied, rows, bull, worker, ghosts
  <2>1. ASSUME NEW w \in Workers, Handle(w)
        PROVE  ProcessedMeansApplied'
    BY <2>1 DEF Handle, TypeOK
  <2>2. ASSUME NEW w \in Workers, Mark(w)
        PROVE  ProcessedMeansApplied'
    BY <2>2 DEF Mark, SimInv, MarkAfterCommit, TypeOK
  <2>3. CASE UNCHANGED <<processed, applied>>
    BY <2>3
  <2> QED
    BY <2>1, <2>2, <2>3
    DEF Next, Work, vars, DispatchRead, Enqueue, DispatchAdd, DispatchLost,
        RetryDue, Stalled, StalledAlive, TakeAway, ExpireLock, Take, Load,
        AcquireLock, LockBusy, RecordFailure, LoadOrLockError,
        HandlerOrMarkError, RecordError, Crash
<1> QED BY <1>1, <1>2, TypeCorrect, SimInvariant, PTL DEF Spec

(* Every behaviour of the outbox is one AtLeastOnce allows: an INSERT is a *)
(* Submit, a committed handler an Effect, the write of processedAtUtc an   *)
(* Acknowledge, and everything else stutters.                              *)
THEOREM Implementation == Spec => ImplementsAtLeastOnce
<1>1. Init => Abstract!Init
  BY DEF Init, Abstract!Init, Rows
<1>2. TypeOK /\ SimInv /\ [Next]_vars => [Abstract!Next]_(Abstract!vars)
  <2> SUFFICES ASSUME TypeOK, SimInv, [Next]_vars
               PROVE  [Abstract!Next]_(Abstract!vars)
    OBVIOUS
  <2> USE DEF rows, bull, worker, ghosts
  <2>1. ASSUME NEW m \in Messages, Enqueue(m)
        PROVE  Abstract!Submit(m)
    <3>1. Cardinality(Rows) \in Nat
      BY ConstantsAssumption, FS_Subset, FS_CardinalityType DEF Rows
    <3>2. Rows' = Rows \cup {m} /\ m \notin Rows
      BY <2>1, <3>1 DEF Enqueue, Rows, TypeOK
    <3> QED BY <2>1, <3>2 DEF Enqueue, Abstract!Submit
  <2>2. ASSUME NEW w \in Workers, NEW m \in Messages, m = cur[w], Handle(w)
        PROVE  Abstract!Effect(m)
    BY <2>2 DEF Handle, Abstract!Effect, SimInv, RowsInUse, Rows, TypeOK
  <2>3. ASSUME NEW w \in Workers, NEW m \in Messages, m = cur[w], Mark(w)
        PROVE  Abstract!Acknowledge(m)
    <3>1. applied[m] > 0
      BY <2>3 DEF Mark, SimInv, MarkAfterCommit, TypeOK
    <3>2. {n \in Messages : processed'[n]}
            = {n \in Messages : processed[n]} \cup {m}
      BY <2>3 DEF Mark, TypeOK
    <3>3. Rows' = Rows /\ applied' = applied
      BY <2>3 DEF Mark, Rows
    <3> QED BY <3>1, <3>2, <3>3 DEF Abstract!Acknowledge
  <2>4. ASSUME UNCHANGED <<createdAt, applied, processed>>
        PROVE  UNCHANGED Abstract!vars
    BY <2>4 DEF Abstract!vars, Rows
  <2>5. \/ \E m \in Messages : Enqueue(m)
        \/ \E w \in Workers : Handle(w) \/ Mark(w)
        \/ UNCHANGED <<createdAt, applied, processed>>
    BY DEF Next, Work, vars, DispatchRead, DispatchAdd, DispatchLost, RetryDue,
           Stalled, StalledAlive, TakeAway, ExpireLock, Take, Load,
           AcquireLock, LockBusy, RecordFailure, LoadOrLockError,
           HandlerOrMarkError, RecordError, Crash
  <2>6. ASSUME NEW m \in Messages, Enqueue(m)
        PROVE  Abstract!Next
    BY <2>1, <2>6 DEF Abstract!Next
  <2>7. ASSUME NEW w \in Workers, Handle(w) \/ Mark(w)
        PROVE  Abstract!Next
    <3>1. PICK m \in Messages : m = cur[w]
      BY <2>7 DEF Handle, Mark, TypeOK
    <3> QED BY <2>2, <2>3, <2>7, <3>1 DEF Abstract!Next
  <2> QED BY <2>4, <2>5, <2>6, <2>7
<1> QED
  BY <1>1, <1>2, TypeCorrect, SimInvariant, PTL
  DEF Spec, ImplementsAtLeastOnce, Abstract!Spec
-----------------------------------------------------------------------------
(***************************************************************************)
(* A second commit needs a fault.  ChargeInv bounds, beside the commits    *)
(* made, those still to come: one for every worker that works on m without *)
(* owning its job (a stall made it an orphan), and one for the job itself, *)
(* while it or a later job may still reach the handler.                    *)
(***************************************************************************)
Live(m) ==
  /\ job[m] = "active"
  /\ owner[m] \in Workers
  /\ pc[owner[m]] # "idle"
  /\ cur[owner[m]] = m

Open(m) ==
  IF Live(m)
    THEN \/ pc[owner[m]] = "load" /\ ~processed[m]
         \/ pc[owner[m]] \in {"lock", "handle", "record"}
    ELSE ~processed[m]

Orphans(m) ==
  {w \in Workers : /\ cur[w] = m
                   /\ pc[w] \in {"load", "lock", "handle"}
                   /\ ~Owns(w, m)}

Charged == 1 + spent["crash"] + spent["stall"] + spent["mark"]

ChargeOf(m) ==
  applied[m] + Cardinality(Orphans(m)) + (IF Open(m) THEN 1 ELSE 0)

ChargeInv == \A m \in Messages : ChargeOf(m) <= Charged

LEMMA OrphansFinite ==
  ASSUME NEW m
  PROVE  IsFiniteSet(Orphans(m)) /\ Cardinality(Orphans(m)) \in Nat
BY ConstantsAssumption, FS_Subset, FS_CardinalityType DEF Orphans

LEMMA FaultsOnlyGrow ==
  ASSUME TypeOK, spent' = spent \/ (\E k \in FaultKinds : Fault(k))
  PROVE  Charged \in Nat /\ Charged' \in Nat /\ Charged <= Charged'
BY DEF Charged, Fault, TypeOK, FaultKinds

(* A step that commits nothing and opens no new way to the handler. *)
LEMMA ChargeQuiet ==
  ASSUME TypeOK, NEW m \in Messages, ChargeOf(m) <= Charged,
         applied'[m] = applied[m],
         spent' = spent \/ (\E k \in FaultKinds : Fault(k)),
         Orphans(m)' \subseteq Orphans(m),
         Open(m)' => Open(m)
  PROVE  ChargeOf(m)' <= Charged'
<1>1. /\ Cardinality(Orphans(m)') \in Nat
      /\ Cardinality(Orphans(m)') <= Cardinality(Orphans(m))
  BY OrphansFinite, FS_Subset, FS_CardinalityType
<1>2. Charged \in Nat /\ Charged' \in Nat /\ Charged <= Charged'
  BY FaultsOnlyGrow
<1>3. applied[m] \in Nat
  BY DEF TypeOK
<1> QED BY <1>1, <1>2, <1>3, OrphansFinite DEF ChargeOf

(* A step that commits nothing and whose fault pays for a new orphan, or
   for a job that is open again. *)
LEMMA ChargePaid ==
  ASSUME TypeOK, NEW m \in Messages, ChargeOf(m) <= Charged,
         applied'[m] = applied[m],
         Charged' = Charged + 1,
         NEW w \in Workers,
         \/ Orphans(m)' \subseteq Orphans(m)
         \/ /\ Orphans(m)' \subseteq Orphans(m) \cup {w}
            /\ Open(m)' => Open(m)
  PROVE  ChargeOf(m)' <= Charged'
<1>1. Charged \in Nat
  BY FaultsOnlyGrow DEF Charged, TypeOK, FaultKinds
<1>2. applied[m] \in Nat
  BY DEF TypeOK
<1>3. CASE Orphans(m)' \subseteq Orphans(m)
  <2>1. /\ Cardinality(Orphans(m)') \in Nat
        /\ Cardinality(Orphans(m)') <= Cardinality(Orphans(m))
    BY <1>3, OrphansFinite, FS_Subset, FS_CardinalityType
  <2> QED BY <1>1, <1>2, <2>1, OrphansFinite DEF ChargeOf
<1>4. CASE Orphans(m)' \subseteq Orphans(m) \cup {w} /\ (Open(m)' => Open(m))
  <2>1. /\ IsFiniteSet(Orphans(m) \cup {w})
        /\ \/ Cardinality(Orphans(m) \cup {w}) = Cardinality(Orphans(m))
           \/ Cardinality(Orphans(m) \cup {w}) = Cardinality(Orphans(m)) + 1
    BY OrphansFinite, FS_AddElement
  <2>2. /\ Cardinality(Orphans(m)') \in Nat
        /\ Cardinality(Orphans(m)') <= Cardinality(Orphans(m) \cup {w})
    BY <1>4, <2>1, FS_Subset, FS_CardinalityType
  <2>3. Cardinality(Orphans(m)') <= Cardinality(Orphans(m)) + 1
    BY <2>1, <2>2, OrphansFinite
  <2> QED BY <1>1, <1>2, <1>4, <2>2, <2>3, OrphansFinite DEF ChargeOf
<1> QED BY <1>3, <1>4

(* What a worker that returns or throws does to the jobs. *)
LEMMA LetGo ==
  ASSUME TypeOK, NEW w \in Workers, pc[w] # "idle", Complete(w) \/ Throw(w)
  PROVE  /\ pc' = [pc EXCEPT ![w] = "idle"]
         /\ cur' = [cur EXCEPT ![w] = NoMessage]
         /\ \A n \in Messages :
              IF n = cur[w] /\ Owns(w, n)
                THEN job'[n] # "active"
                ELSE /\ owner'[n] = owner[n]
                     /\ job'[n] = "active" <=> job[n] = "active"
<1>1. cur[w] \in Messages
  BY DEF TypeOK
<1>2. pc' = [pc EXCEPT ![w] = "idle"] /\ cur' = [cur EXCEPT ![w] = NoMessage]
  BY DEF Complete, Throw, GoIdle
<1>3. CASE Owns(w, cur[w])
  BY <1>1, <1>2, <1>3
  DEF Complete, Throw, GoIdle, ToFailedSet, FailedJobs, Owns, TypeOK
<1>4. CASE ~Owns(w, cur[w])
  BY <1>1, <1>2, <1>4 DEF Complete, Throw
<1> QED BY <1>3, <1>4

(* A worker that lets go opens nothing if the row is processed, or if its
   own attempt could still have reached the handler. *)
LEMMA LetGoQuiet ==
  ASSUME TypeOK, NEW w \in Workers, pc[w] # "idle", Complete(w) \/ Throw(w),
         \A n \in Messages : processed[n] => processed'[n],
         Owns(w, cur[w]) => Open(cur[w]) \/ processed'[cur[w]],
         NEW m \in Messages
  PROVE  Orphans(m)' \subseteq Orphans(m) /\ (Open(m)' => Open(m))
<1>1. cur[w] \in Messages
  BY DEF TypeOK
<1>2. CASE m = cur[w] /\ Owns(w, m)
  <2>1. job'[m] # "active" /\ ~Live(m)'
    BY <1>2, LetGo DEF Live
  <2>2. Orphans(m)' \subseteq Orphans(m)
    BY <1>2, LetGo, ConstantsAssumption DEF Orphans, Owns, TypeOK
  <2> QED BY <1>2, <2>1, <2>2 DEF Open
<1>3. CASE ~(m = cur[w] /\ Owns(w, m))
  <2>1. owner'[m] = owner[m] /\ (job'[m] = "active" <=> job[m] = "active")
    BY <1>3, LetGo
  <2>2. Orphans(m)' \subseteq Orphans(m)
    BY <2>1, LetGo, ConstantsAssumption DEF Orphans, Owns, TypeOK
  <2>3. CASE Live(m)
    <3>1. owner[m] # w
      BY <1>3, <2>3 DEF Live, Owns
    <3>2. pc'[owner[m]] = pc[owner[m]] /\ cur'[owner[m]] = cur[owner[m]]
      BY <2>3, <3>1, LetGo DEF Live, TypeOK
    <3> QED BY <2>1, <2>2, <2>3, <3>2 DEF Live, Open
  <2>4. CASE ~Live(m)
    <3>1. ~Live(m)'
      BY <2>1, <2>4, LetGo, ConstantsAssumption DEF Live, TypeOK
    <3> QED BY <2>2, <2>4, <3>1 DEF Open
  <2> QED BY <2>3, <2>4
<1> QED BY <1>2, <1>3

LEMMA NextChargeInv == TypeOK /\ ChargeInv /\ [Next]_vars => ChargeInv'
<1> SUFFICES ASSUME TypeOK, ChargeInv, [Next]_vars, NEW m \in Messages
             PROVE  ChargeOf(m)' <= Charged'
  BY DEF ChargeInv
<1>0. ChargeOf(m) <= Charged
  BY DEF ChargeInv
<1> USE DEF rows, bull, worker, ghosts
<1>1. CASE DispatchRead
  BY <1>0, <1>1, ChargeQuiet DEF DispatchRead, Orphans, Owns, Open, Live
<1>2. ASSUME NEW n \in Messages, Enqueue(n) \/ ExpireLock(n) \/ DispatchLost(n)
      PROVE  ChargeOf(m)' <= Charged'
  <2>1. spent' = spent \/ (\E k \in FaultKinds : Fault(k))
    BY <1>2 DEF Enqueue, ExpireLock, DispatchLost, FaultKinds
  <2>2. UNCHANGED <<applied, processed, job, owner, pc, cur>>
    BY <1>2 DEF Enqueue, ExpireLock, DispatchLost
  <2> QED BY <1>0, <2>1, <2>2, ChargeQuiet DEF Orphans, Owns, Open, Live
<1>3. ASSUME NEW n \in Messages, DispatchAdd(n) \/ RetryDue(n)
      PROVE  ChargeOf(m)' <= Charged'
  <2>1. UNCHANGED <<applied, processed, spent, owner, pc, cur>>
    BY <1>3 DEF DispatchAdd, RetryDue
  <2>2. job'[m] = "active" <=> job[m] = "active"
    BY <1>3 DEF DispatchAdd, RetryDue, TypeOK
  <2> QED BY <1>0, <2>1, <2>2, ChargeQuiet DEF Orphans, Owns, Open, Live
<1>4. ASSUME NEW n \in Messages, Stalled(n) \/ StalledAlive(n)
      PROVE  ChargeOf(m)' <= Charged'
  <2>1. UNCHANGED <<applied, processed, pc, cur>>
    BY <1>4 DEF Stalled, StalledAlive, TakeAway
  <2>2. job[n] = "active"
    BY <1>4 DEF Stalled, StalledAlive
  <2>3. job'[n] # "active" /\ (m # n => (job'[m] = "active" <=> job[m] = "active"))
    BY <1>4, <2>2 DEF Stalled, StalledAlive, TakeAway, ToFailedSet, FailedJobs, TypeOK
  <2>4. owner' = [owner EXCEPT ![n] = NoWorker]
    BY <1>4 DEF Stalled, StalledAlive, TakeAway
  <2>5. CASE m # n
    <3>1. Orphans(m)' = Orphans(m) /\ (Open(m)' <=> Open(m))
      BY <2>1, <2>3, <2>4, <2>5 DEF Orphans, Owns, Open, Live, TypeOK
    <3>2. spent' = spent \/ (\E k \in FaultKinds : Fault(k))
      BY <1>4 DEF Stalled, StalledAlive, FaultKinds
    <3> QED BY <1>0, <2>1, <3>1, <3>2, ChargeQuiet
  <2>6. CASE m = n /\ Stalled(n)
    <3>1. ~Live(m) /\ ~Live(m)'
      BY <2>3, <2>6 DEF Stalled, Live
    <3>2. Orphans(m)' \subseteq Orphans(m)
      BY <2>1, <2>6 DEF Stalled, Orphans, Owns
    <3>3. Open(m)' => Open(m)
      BY <2>1, <3>1 DEF Open
    <3> QED BY <1>0, <2>1, <2>6, <3>2, <3>3, ChargeQuiet DEF Stalled
  <2>7. CASE m = n /\ StalledAlive(n)
    <3>1. PICK w \in Workers : owner[m] = w /\ pc[w] # "idle" /\ cur[w] = m
      BY <2>7 DEF StalledAlive
    <3>2. Charged' = Charged + 1
      BY <2>7 DEF StalledAlive, Fault, Charged, TypeOK, FaultKinds
    <3>3. CASE pc[w] \in {"mark", "record"}
      <4>1. Orphans(m)' \subseteq Orphans(m)
        BY <2>1, <3>1, <3>3 DEF Orphans, Owns
      <4> QED BY <1>0, <2>1, <3>2, <4>1, ChargePaid
    <3>4. CASE pc[w] \in {"load", "lock", "handle"}
      <4>1. Orphans(m)' \subseteq Orphans(m) \cup {w}
        BY <2>1, <3>1 DEF Orphans, Owns
      <4>2. Open(m)' => Open(m)
        BY <2>1, <2>2, <2>3, <2>7, <3>1, <3>4 DEF Open, Live
      <4> QED BY <1>0, <2>1, <3>2, <4>1, <4>2, ChargePaid
    <3> QED BY <3>1, <3>3, <3>4 DEF TypeOK, Points
  <2> QED BY <1>4, <2>5, <2>6, <2>7
<1>5. ASSUME NEW w \in Workers, NEW n \in Messages, Take(w, n)
      PROVE  ChargeOf(m)' <= Charged'
  <2>1. Orphans(m)' \subseteq Orphans(m)
    BY <1>5 DEF Take, Orphans, Owns, TypeOK
  <2>2. Open(m)' => Open(m)
    BY <1>5 DEF Take, Open, Live, TypeOK
  <2> QED BY <1>0, <1>5, <2>1, <2>2, ChargeQuiet DEF Take
<1>6. ASSUME NEW w \in Workers, AcquireLock(w)
      PROVE  ChargeOf(m)' <= Charged'
  <2>1. Orphans(m)' \subseteq Orphans(m)
    BY <1>6 DEF AcquireLock, Orphans, Owns, TypeOK
  <2>2. Open(m)' => Open(m)
    BY <1>6 DEF AcquireLock, Open, Live, TypeOK
  <2> QED BY <1>0, <1>6, <2>1, <2>2, ChargeQuiet DEF AcquireLock
<1>7. ASSUME NEW w \in Workers, Load(w)
      PROVE  ChargeOf(m)' <= Charged'
  <2>1. UNCHANGED <<applied, processed, spent>>
    BY <1>7 DEF Load
  <2>2. CASE processed[cur[w]]
    BY <1>0, <1>7, <2>1, <2>2, LetGoQuiet, ChargeQuiet DEF Load
  <2>3. CASE ~processed[cur[w]]
    <3>1. /\ pc' = [pc EXCEPT ![w] = "lock"] /\ pc[w] = "load"
          /\ UNCHANGED <<job, owner, cur>>
      BY <1>7, <2>3 DEF Load
    <3>2. Orphans(m)' \subseteq Orphans(m)
      BY <3>1 DEF Orphans, Owns, TypeOK
    <3>3. Open(m)' => Open(m)
      BY <2>1, <2>3, <3>1 DEF Open, Live, TypeOK
    <3> QED BY <1>0, <2>1, <3>2, <3>3, ChargeQuiet
  <2> QED BY <2>2, <2>3
<1>8. ASSUME NEW w \in Workers,
             \/ LockBusy(w) \/ Mark(w) \/ LoadOrLockError(w)
             \/ RecordFailure(w) \/ RecordError(w)
      PROVE  ChargeOf(m)' <= Charged'
  <2>1. pc[w] # "idle" /\ cur[w] \in Messages /\ (Complete(w) \/ Throw(w))
    BY <1>8 DEF LockBusy, Mark, LoadOrLockError, RecordFailure, RecordError, TypeOK
  <2>2. applied' = applied /\ \A n \in Messages : processed[n] => processed'[n]
    BY <1>8 DEF LockBusy, Mark, LoadOrLockError, RecordFailure, RecordError, TypeOK
  <2>3. spent' = spent \/ (\E k \in FaultKinds : Fault(k))
    BY <1>8 DEF LockBusy, Mark, LoadOrLockError, RecordFailure, RecordError, FaultKinds
  <2>4. Owns(w, cur[w]) => Open(cur[w]) \/ processed'[cur[w]]
    <3> SUFFICES ASSUME Owns(w, cur[w]), ~Open(cur[w])
                 PROVE  processed'[cur[w]]
      OBVIOUS
    <3>1. Live(cur[w])
      BY <2>1 DEF Owns, Live
    <3> QED
      BY <1>8, <2>1, <3>1
      DEF LockBusy, Mark, LoadOrLockError, RecordFailure, RecordError, Open,
          Owns, TypeOK
  <2>5. Orphans(m)' \subseteq Orphans(m) /\ (Open(m)' => Open(m))
    BY <2>1, <2>2, <2>4, LetGoQuiet
  <2> QED BY <1>0, <2>2, <2>3, <2>5, ChargeQuiet
<1>9. ASSUME NEW w \in Workers, Handle(w)
      PROVE  ChargeOf(m)' <= Charged'
  <2>1. /\ pc[w] = "handle" /\ pc' = [pc EXCEPT ![w] = "mark"]
        /\ UNCHANGED <<processed, job, owner, cur, spent>>
        /\ cur[w] \in Messages
    BY <1>9 DEF Handle, TypeOK
  <2>2. Orphans(m)' \subseteq Orphans(m)
    BY <2>1 DEF Orphans, Owns, TypeOK
  <2>3. Open(m)' => Open(m)
    BY <2>1 DEF Open, Live, TypeOK
  <2>4. CASE m # cur[w]
    <3>1. applied'[m] = applied[m]
      BY <1>9, <2>4 DEF Handle
    <3> QED BY <1>0, <2>1, <2>2, <2>3, <3>1, ChargeQuiet
  <2>5. CASE m = cur[w]
    <3>1. applied'[m] = applied[m] + 1 /\ applied[m] \in Nat /\ Charged' = Charged
      BY <1>9, <2>1, <2>5 DEF Handle, TypeOK, Charged
    <3>2. CASE Owns(w, m)
      <4>1. Open(m) /\ ~Open(m)'
        BY <2>1, <2>5, <3>2 DEF Owns, Open, Live, TypeOK
      <4>2. /\ Cardinality(Orphans(m)') \in Nat
            /\ Cardinality(Orphans(m)') <= Cardinality(Orphans(m))
        BY <2>2, OrphansFinite, FS_Subset, FS_CardinalityType
      <4> QED
        BY <1>0, <3>1, <4>1, <4>2, OrphansFinite
        DEF ChargeOf, Charged, TypeOK, FaultKinds
    <3>3. CASE ~Owns(w, m)
      <4>1. w \in Orphans(m) /\ Orphans(m)' \subseteq Orphans(m) \ {w}
        BY <2>1, <2>2, <2>5, <3>3 DEF Orphans, TypeOK
      <4>2. /\ IsFiniteSet(Orphans(m) \ {w})
            /\ Cardinality(Orphans(m) \ {w}) = Cardinality(Orphans(m)) - 1
        BY <4>1, OrphansFinite, FS_RemoveElement
      <4>3. /\ Cardinality(Orphans(m)') \in Nat
            /\ Cardinality(Orphans(m)') <= Cardinality(Orphans(m)) - 1
        BY <4>1, <4>2, FS_Subset, FS_CardinalityType
      <4> QED
        BY <1>0, <2>3, <3>1, <4>3, OrphansFinite
        DEF ChargeOf, Charged, TypeOK, FaultKinds
    <3> QED BY <3>2, <3>3
  <2> QED BY <2>4, <2>5
<1>10. ASSUME NEW w \in Workers, HandlerOrMarkError(w)
       PROVE  ChargeOf(m)' <= Charged'
  <2>1. /\ pc' = [pc EXCEPT ![w] = "record"]
        /\ pc[w] \in {"handle", "mark"}
        /\ UNCHANGED <<applied, processed, job, owner, cur>>
    BY <1>10 DEF HandlerOrMarkError
  <2>2. Orphans(m)' \subseteq Orphans(m)
    BY <2>1 DEF Orphans, Owns, TypeOK
  <2>3. CASE pc[w] = "handle" /\ Fault("handler")
    <3>1. Open(m)' => Open(m)
      BY <2>1, <2>3 DEF Open, Live, TypeOK
    <3> QED BY <1>0, <2>1, <2>2, <2>3, <3>1, ChargeQuiet DEF FaultKinds
  <2>4. CASE pc[w] = "mark" /\ Fault("mark")
    <3>1. Charged' = Charged + 1
      BY <2>4 DEF Fault, Charged, TypeOK, FaultKinds
    <3> QED BY <1>0, <2>1, <2>2, <3>1, ChargePaid
  <2> QED BY <1>10, <2>3, <2>4 DEF HandlerOrMarkError
<1>11. ASSUME NEW w \in Workers, Crash(w)
       PROVE  ChargeOf(m)' <= Charged'
  <2>1. Charged' = Charged + 1
    BY <1>11 DEF Crash, Fault, Charged, TypeOK, FaultKinds
  <2>2. Orphans(m)' \subseteq Orphans(m)
    BY <1>11, ConstantsAssumption DEF Crash, GoIdle, Orphans, Owns, TypeOK
  <2> QED BY <1>0, <1>11, <2>1, <2>2, ChargePaid DEF Crash
<1>12. CASE UNCHANGED vars
  BY <1>0, <1>12, ChargeQuiet DEF vars, Orphans, Owns, Open, Live
<1> QED
  BY <1>1, <1>2, <1>3, <1>4, <1>5, <1>6, <1>7, <1>8, <1>9, <1>10, <1>11, <1>12
  DEF Next, Work

(* An event's handler commits at most once more often than workers crash,  *)
(* stall or fail to write processedAtUtc: without such faults, exactly-once *)
(* needs no working lock.                                                  *)
THEOREM DuplicatesArePaidFor == Spec => []DuplicateNeedsFault
<1>1. Init => ChargeInv
  <2> SUFFICES ASSUME Init, NEW m \in Messages PROVE ChargeOf(m) <= Charged
    BY DEF ChargeInv
  <2>1. Orphans(m) = {}
    BY DEF Init, Orphans
  <2> QED BY <2>1, FS_EmptySet DEF Init, ChargeOf, Charged, FaultKinds
<1>2. TypeOK /\ ChargeInv => DuplicateNeedsFault
  BY OrphansFinite
  DEF ChargeInv, ChargeOf, Charged, DuplicateNeedsFault, TypeOK, FaultKinds
<1> QED BY <1>1, <1>2, TypeCorrect, NextChargeInv, PTL DEF Spec
=============================================================================
