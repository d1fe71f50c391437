----------------------------- MODULE Broadcast -----------------------------
(***************************************************************************)
(* An announcement to every active user (admin/broadcast): a row, a job,   *)
(* and a worker that goes through the users by id, a page after a cursor   *)
(* at a time, and writes one notification for each user of the page.       *)
(* Meanwhile users join, are banned and delete their accounts.             *)
(***************************************************************************)
EXTENDS Naturals, FiniteSets, FiniteSetsExt

CONSTANTS
    N,              \* users, numbered in the order of their ids
    Workers, BROADCAST_BATCH_SIZE, Attempts, MaxStalled,
    MaxChanges, MaxFaults

Users == 1..N

VARIABLES
    user,       \* user.status, "none" without a row
    message,    \* broadcastMessage.status, "none" without a row
    sentCount,  \* broadcastMessage.sentCount
    told,       \* the announcement's notifications of each user
    job, run,   \* BullMQ's job; the workers
    orphaned,   \* ghost: a run left the row as it was when it ended
    changes, faults

vars == <<user, message, sentCount, told, job, run, orphaned, changes, faults>>
users == <<user, changes>>

NoRun == [at |-> "idle", cursor |-> 0, page |-> {}, sent |-> 0,
          steady |-> {}, skips |-> 0, lost |-> FALSE, late |-> FALSE]
\* steady, skips and lost are ghosts: who has been active all through the run,
\* how often the cursor's user was not active, whether it had no row.
\* late: the run's lock has lapsed, and BullMQ takes no outcome from it.
Runs == [at : {"idle", "start", "begin", "read", "write", "done", "fail"},
         cursor : 0..N, page : SUBSET Users, sent : 0..N,
         steady : SUBSET Users, skips : 0..MaxChanges, lost : BOOLEAN, late : BOOLEAN]

TypeOK ==
    /\ user \in [Users -> {"none", "active", "banned"}]
    /\ message \in {"none", "Queued", "Sending", "Done", "Failed"}
    /\ sentCount \in 0..N /\ told \in [Users -> Nat]
    /\ job \in [at : {"none", "waiting", "active", "completed", "failed"},
                made : 0..Attempts, stalled : 0..MaxStalled]
    /\ job.at \in {"waiting", "active"} => job.made < Attempts
    /\ run \in [Workers -> Runs] /\ orphaned \in BOOLEAN
    /\ changes \in 0..MaxChanges /\ faults \in 0..MaxFaults

Init ==
    /\ user \in [Users -> {"none", "active", "banned"}]
    /\ message = "none" /\ sentCount = 0 /\ told = [u \in Users |-> 0]
    /\ job = [at |-> "none", made |-> 0, stalled |-> 0]
    /\ run = [w \in Workers |-> NoRun] /\ orphaned = FALSE /\ changes = 0 /\ faults = 0

Active == {u \in Users : user[u] = "active"}
Fault == faults < MaxFaults /\ faults' = faults + 1
Becomes(w, r) == run' = [run EXCEPT ![w] = r]
To(w, step) == Becomes(w, [run[w] EXCEPT !.at = step])

\* A user registers, is banned, comes back, deletes the account.
Change(u, s) ==
    /\ changes < MaxChanges /\ changes' = changes + 1
    /\ <<user[u], s>> \in {<<"none", "active">>, <<"active", "banned">>,
                           <<"banned", "active">>, <<"active", "none">>,
                           <<"banned", "none">>}
    /\ user' = [user EXCEPT ![u] = s]
    /\ run' = [w \in Workers |-> [run[w] EXCEPT !.steady = @ \ {u}]]
    /\ UNCHANGED <<message, sentCount, told, job, orphaned, faults>>

Enqueue ==
    /\ message = "none" /\ message' = "Queued"
    /\ \/ job' = [job EXCEPT !.at = "waiting"] /\ UNCHANGED faults
       \/ Fault /\ UNCHANGED job
    /\ UNCHANGED <<users, sentCount, told, run, orphaned>>

Take(w) ==
    /\ run[w].at = "idle" /\ job.at = "waiting" /\ job' = [job EXCEPT !.at = "active"]
    /\ Becomes(w, [NoRun EXCEPT !.at = "start"])
    /\ UNCHANGED <<users, message, sentCount, told, orphaned, faults>>

\* BullMQ moves a job for the worker that has its lock, for no other.
Moved(w, j) == job' = IF run[w].late THEN job ELSE j
Ends(w, outcome) == Moved(w, [job EXCEPT !.at = outcome]) /\ Becomes(w, NoRun)
\* An error is an attempt made, and the job waits for its next one.
Thrown(w) ==
    /\ Moved(w, [job EXCEPT !.made = @ + 1,
                            !.at = IF job.made + 1 < Attempts THEN "waiting" ELSE "failed"])
    /\ Becomes(w, NoRun)

\* A run that has written "Sending" ends without another word, or writes the row.
Sending(r) == r.at \notin {"idle", "start", "begin"}
Orphans(w) == orphaned' = (orphaned \/ Sending(run[w]))
Writes(s) == message' = s /\ orphaned' = FALSE

\* The row is read, then set: a run that ends in between is not noticed.
Start(w) ==
    /\ run[w].at = "start"
    /\ \/ message = "Done" /\ Ends(w, "completed") /\ UNCHANGED faults
       \/ message # "Done" /\ To(w, "begin") /\ UNCHANGED <<job, faults>>
       \/ Fault /\ Thrown(w)
    /\ UNCHANGED <<users, message, sentCount, told, orphaned>>
Begin(w) ==
    /\ run[w].at = "begin"
    /\ \/ /\ Writes("Sending") /\ UNCHANGED <<job, faults>>
          /\ Becomes(w, [run[w] EXCEPT !.at = "read", !.steady = Active])
       \/ Fault /\ Thrown(w) /\ UNCHANGED <<message, orphaned>>
    /\ UNCHANGED <<users, sentCount, told>>

FirstOf(S, n) == {u \in S : Cardinality({v \in S : v < u}) < n}
\* Prisma: a page after a cursor is the active users from the cursor's id on but
\* the first; without the cursor's row it is empty.
PageAfter(c) ==
    LET from == {u \in Active : u >= c}
    IN  IF c = 0 THEN FirstOf(Active, BROADCAST_BATCH_SIZE)
        ELSE IF user[c] = "none" \/ from = {} THEN {}
        ELSE FirstOf(from \ {Min(from)}, BROADCAST_BATCH_SIZE)
Read(w) ==
    LET c == run[w].cursor
        moved == c # 0 /\ c \notin Active
    IN  /\ run[w].at = "read"
        /\ \/ /\ Becomes(w, [run[w] EXCEPT
                      !.at = IF PageAfter(c) = {} THEN "done" ELSE "write",
                      !.page = PageAfter(c),
                      !.skips = IF moved THEN @ + 1 ELSE @,
                      !.lost = @ \/ (c # 0 /\ user[c] = "none")])
              /\ UNCHANGED faults
           \/ Fault /\ To(w, "fail")
        /\ UNCHANGED <<users, message, sentCount, told, job, orphaned>>

\* Mutant: a full page is the last.
LastWhenFull(S) == Cardinality(S) <= BROADCAST_BATCH_SIZE
Last(S) == Cardinality(S) < BROADCAST_BATCH_SIZE
\* One statement.  No announcement has a transferId, so that none is a duplicate
\* of another; its answer may be lost after it was executed.
Write(w) ==
    LET page == run[w].page
        written == told' = [u \in Users |-> told[u] + (IF u \in page THEN 1 ELSE 0)]
    IN  /\ run[w].at = "write"
        /\ \/ /\ written /\ UNCHANGED faults
              /\ Becomes(w, [run[w] EXCEPT !.at = IF Last(page) THEN "done" ELSE "read",
                                           !.sent = @ + Cardinality(page),
                                           !.cursor = Max(page), !.page = {}])
           \/ Fault /\ To(w, "fail") /\ (written \/ UNCHANGED told)
        /\ UNCHANGED <<users, message, sentCount, job, orphaned>>

Done(w) ==
    /\ run[w].at = "done"
    /\ \/ /\ Writes("Done") /\ sentCount' = run[w].sent
          /\ Ends(w, "completed") /\ UNCHANGED faults
       \/ Fault /\ To(w, "fail") /\ UNCHANGED <<message, sentCount, job, orphaned>>
    /\ UNCHANGED <<users, told>>

\* Mutant: the error is thrown on alone.
FailOnlyThrows(w) ==
    /\ run[w].at = "fail" /\ Thrown(w)
    /\ UNCHANGED <<users, message, sentCount, told, orphaned, faults>>
\* The row cannot always be set to Failed; the error is thrown on either way.
Fail(w) ==
    /\ run[w].at = "fail" /\ Thrown(w)
    /\ \/ Writes("Failed") /\ UNCHANGED faults
       \/ Fault /\ Orphans(w) /\ UNCHANGED message
    /\ UNCHANGED <<users, sentCount, told>>

\* BullMQ hands an active job out again when its lock has lapsed, once: the
\* worker has ended, or it is late and goes on,
Stalled(w, alive) ==
    /\ run[w].at # "idle" /\ ~run[w].late /\ Fault
    /\ job' = [job EXCEPT !.at = IF job.stalled < MaxStalled THEN "waiting" ELSE "failed",
                          !.stalled = IF @ < MaxStalled THEN @ + 1 ELSE @]
    /\ \/ alive /\ Becomes(w, [run[w] EXCEPT !.late = TRUE]) /\ UNCHANGED orphaned
       \/ ~alive /\ Becomes(w, NoRun) /\ Orphans(w)
    /\ UNCHANGED <<users, message, sentCount, told>>
\* until it ends too, at whatever statement, whoever has the job now.
Dies(w) ==
    /\ run[w].at # "idle" /\ run[w].late /\ Fault /\ Becomes(w, NoRun) /\ Orphans(w)
    /\ UNCHANGED <<users, message, sentCount, told, job>>

Work(w) == \/ Take(w) \/ Start(w) \/ Begin(w) \/ Read(w) \/ Write(w) \/ Done(w) \/ Fail(w)
Next ==
    \/ \E u \in Users : \E s \in {"none", "active", "banned"} : Change(u, s)
    \/ Enqueue
    \/ \E w \in Workers : Work(w) \/ Dies(w) \/ \E alive \in BOOLEAN : Stalled(w, alive)
\* A worker goes on with its run, and takes the job when it has none.
Fairness == \A w \in Workers : WF_vars(Work(w))
Spec == Init /\ [][Next]_vars

(***************************************************************************)
(* Properties                                                              *)
(***************************************************************************)
\* A user gets the announcement once, and once more at most for every fault: the
\* attempt that follows one starts from the first user (broadcast.processor.ts:54-63).
ToldBounded == \A u \in Users : told[u] <= 1 + faults

\* When a run is at its end, who has been active all through it has been told,
\* but for one user for each page whose cursor's user had been banned, and unless
\* a cursor's user had been deleted (broadcast.processor.ts:43-50).
NobodyLeftOut ==
    \A w \in Workers : run[w].at = "done" /\ ~run[w].lost =>
        Cardinality({u \in run[w].steady : told[u] = 0}) <= run[w].skips

\* The row says "Sending" while a run is under way, or since one ended without
\* writing it: its process, or its last update, failed (broadcast.processor.ts:35-38).
SendingExplained ==
    message = "Sending" => orphaned \/ \E w \in Workers : Sending(run[w])

\* An announcement that is being sent ends, and its row shows it, unless its last
\* run ended without writing the row and BullMQ hands the job out no more: a late
\* run may have set a row to "Sending" that said "Done" (broadcast.processor.ts:35, :70-81).
Settles ==
    message = "Sending" ~>
        \/ message \in {"Done", "Failed"}
        \/ /\ orphaned /\ job.at \in {"completed", "failed"}
           /\ \A w \in Workers : run[w].at = "idle"
=============================================================================
