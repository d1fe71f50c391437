------------------------------- MODULE Launch -------------------------------
(***************************************************************************)
(* The launch mail to everybody on the waiting list (waitlist).  A         *)
(* campaign is a job; its worker reads the first addresses, by id, that    *)
(* have no mail yet, sends to one after the other, marks each, and reads   *)
(* again until there is none.  There may be several processes and several  *)
(* campaigns.                                                              *)
(***************************************************************************)
EXTENDS Naturals, FiniteSets, FiniteSetsExt

CONSTANTS
    N,                  \* addresses, numbered in the order of their ids
    Registered, Bad,    \* those of users; those the provider always refuses
    Workers, Campaigns, NoCampaign,
    LAUNCH_BATCH_SIZE, Attempts, MaxStalled, MaxFaults

Addresses == 1..N

VARIABLES
    status,         \* waitlistSubscriber.status, "none" without a row
    launchEmailSentAt, emailOptOut,
    campaign,       \* launchCampaign.status, "none" without a row
    job,            \* BullMQ: where the campaign's job is, attempts, stalls
    run,            \* the workers
    orphaned,       \* ghost: campaigns whose row a run left as it was when it ended
    mails, faults   \* ghosts

vars == <<status, launchEmailSentAt, emailOptOut, campaign, job, run, orphaned, mails, faults>>
rows == <<status, launchEmailSentAt, emailOptOut>>

\* late: the run's lock has lapsed, and BullMQ takes no outcome from it.
NoRun == [at |-> "idle", campaign |-> NoCampaign, batch |-> {}, to |-> 0, late |-> FALSE]
Runs == [at : {"idle", "start", "begin", "read", "send", "mark", "count", "done", "fail"},
         campaign : Campaigns \cup {NoCampaign}, batch : SUBSET Addresses, to : 0..N,
         late : BOOLEAN]
JobRows == [at : {"none", "waiting", "active", "completed", "failed"},
            made : 0..Attempts, stalled : 0..MaxStalled]

TypeOK ==
    /\ status \in [Addresses -> {"none", "subscribed", "unsubscribed"}]
    /\ launchEmailSentAt \in [Addresses -> BOOLEAN]
    /\ emailOptOut \in [Registered -> BOOLEAN]
    /\ campaign \in [Campaigns -> {"none", "Queued", "Sending", "Done", "Failed"}]
    /\ job \in [Campaigns -> JobRows] /\ run \in [Workers -> Runs]
    /\ \A c \in Campaigns : job[c].at \in {"waiting", "active"} => job[c].made < Attempts
    /\ orphaned \subseteq Campaigns
    /\ mails \in [Addresses -> Nat] /\ faults \in 0..MaxFaults

Init ==
    /\ status \in [Addresses -> {"none", "subscribed"}]
    /\ launchEmailSentAt = [a \in Addresses |-> FALSE]
    /\ emailOptOut = [a \in Registered |-> FALSE]
    /\ campaign = [c \in Campaigns |-> "none"]
    /\ job = [c \in Campaigns |-> [at |-> "none", made |-> 0, stalled |-> 0]]
    /\ run = [w \in Workers |-> NoRun] /\ orphaned = {}
    /\ mails = [a \in Addresses |-> 0] /\ faults = 0

Fault == faults < MaxFaults /\ faults' = faults + 1
Becomes(w, r) == run' = [run EXCEPT ![w] = r]
To(w, step) == Becomes(w, [run[w] EXCEPT !.at = step])

(***************************************************************************)
(* Requests.                                                               *)
(***************************************************************************)
\* The upsert changes nothing in a row that is there.
Subscribe(a) ==
    /\ status[a] = "none" /\ status' = [status EXCEPT ![a] = "subscribed"]
    /\ UNCHANGED <<launchEmailSentAt, emailOptOut, campaign, job, run, orphaned, mails, faults>>

\* The link in a mail: the user's row first, the subscriber's row then.
OptOut(a) ==
    /\ a \in Registered /\ ~emailOptOut[a]
    /\ emailOptOut' = [emailOptOut EXCEPT ![a] = TRUE]
    /\ UNCHANGED <<status, launchEmailSentAt, campaign, job, run, orphaned, mails, faults>>
Unsubscribe(a) ==
    /\ status[a] = "subscribed" /\ (a \in Registered => emailOptOut[a])
    /\ status' = [status EXCEPT ![a] = "unsubscribed"]
    /\ UNCHANGED <<launchEmailSentAt, emailOptOut, campaign, job, run, orphaned, mails, faults>>

\* A campaign row, then its job.
EnqueueLaunch(c) ==
    /\ campaign[c] = "none" /\ campaign' = [campaign EXCEPT ![c] = "Queued"]
    /\ \/ job' = [job EXCEPT ![c].at = "waiting"] /\ UNCHANGED faults
       \/ Fault /\ UNCHANGED job
    /\ UNCHANGED <<rows, run, orphaned, mails>>

(***************************************************************************)
(* LaunchProcessor.process.                                                *)
(***************************************************************************)
Take(w, c) ==
    /\ run[w].at = "idle" /\ job[c].at = "waiting"
    /\ job' = [job EXCEPT ![c].at = "active"]
    /\ Becomes(w, [NoRun EXCEPT !.at = "start", !.campaign = c])
    /\ UNCHANGED <<rows, campaign, orphaned, mails, faults>>

\* BullMQ moves a job for the worker that has its lock, for no other.
Moved(w, j) == job' = IF run[w].late THEN job ELSE [job EXCEPT ![run[w].campaign] = j]
Ends(w, outcome) == Moved(w, [job[run[w].campaign] EXCEPT !.at = outcome]) /\ Becomes(w, NoRun)

\* An error is an attempt made, and the job waits for its next one.
Thrown(w) ==
    LET j == job[run[w].campaign]
    IN  /\ Moved(w, [j EXCEPT !.made = @ + 1,
                              !.at = IF j.made + 1 < Attempts THEN "waiting" ELSE "failed"])
        /\ Becomes(w, NoRun)

\* A run that has written "Sending" ends without another word, or writes the row.
Sending(r) == r.at \notin {"idle", "start", "begin"}
Orphans(w) == orphaned' = IF Sending(run[w]) THEN orphaned \cup {run[w].campaign} ELSE orphaned
Writes(w, s) ==
    /\ campaign' = [campaign EXCEPT ![run[w].campaign] = s]
    /\ orphaned' = orphaned \ {run[w].campaign}

\* The row is read, then set: a run that ends in between is not noticed.
Start(w) ==
    /\ run[w].at = "start"
    /\ \/ /\ campaign[run[w].campaign] = "Done"
          /\ Ends(w, "completed") /\ UNCHANGED faults
       \/ /\ campaign[run[w].campaign] # "Done"
          /\ To(w, "begin") /\ UNCHANGED <<job, faults>>
       \/ Fault /\ Thrown(w)
    /\ UNCHANGED <<rows, campaign, orphaned, mails>>

Begin(w) ==
    /\ run[w].at = "begin"
    /\ \/ Writes(w, "Sending") /\ To(w, "read") /\ UNCHANGED <<job, faults>>
       \/ Fault /\ Thrown(w) /\ UNCHANGED <<campaign, orphaned>>
    /\ UNCHANGED <<rows, mails>>

\* Mutant: the mark is not asked for.
Subscribed == {a \in Addresses : status[a] = "subscribed"}
Unsent == {a \in Addresses : status[a] = "subscribed" /\ ~launchEmailSentAt[a]}
FirstOf(S, n) == {a \in S : Cardinality({b \in S : b < a}) < n}
Read(w) ==
    /\ run[w].at = "read"
    /\ \/ /\ UNCHANGED faults
          /\ IF Unsent = {} THEN To(w, "done")
             ELSE Becomes(w, [run[w] EXCEPT !.at = "send",
                                            !.batch = FirstOf(Unsent, LAUNCH_BATCH_SIZE)])
       \/ Fault /\ To(w, "fail")
    /\ UNCHANGED <<rows, campaign, job, orphaned, mails>>

\* The next address of the batch, or the end of the batch.
Onward(w, r) == Becomes(w, [r EXCEPT !.to = 0, !.at = IF r.batch = {} THEN "count" ELSE "send"])
\* Mutant: an address that fails ends its batch.
SkipsTheRest(w) == Onward(w, [run[w] EXCEPT !.batch = {}])
Skipped(w) == Onward(w, [run[w] EXCEPT !.batch = @ \ {Min(run[w].batch)}])
OptedOut(a) == a \in Registered /\ emailOptOut[a]
Send(w) ==
    LET a == Min(run[w].batch)
        sent == Becomes(w, [run[w] EXCEPT !.batch = @ \ {a}, !.to = a, !.at = "mark"])
    IN  /\ run[w].at = "send"
        /\ \/ OptedOut(a) /\ sent /\ UNCHANGED <<mails, faults>>
           \/ /\ ~OptedOut(a) /\ a \notin Bad /\ sent
              /\ mails' = [mails EXCEPT ![a] = @ + 1] /\ UNCHANGED faults
           \/ ~OptedOut(a) /\ a \in Bad /\ Skipped(w) /\ UNCHANGED <<mails, faults>>
           \/ Fault /\ Skipped(w) /\ UNCHANGED mails
        /\ UNCHANGED <<rows, campaign, job, orphaned>>

\* The mark is inside the same try: when it fails, the address comes again.
Mark(w) ==
    /\ run[w].at = "mark" /\ Onward(w, run[w])
    /\ \/ /\ launchEmailSentAt' = [launchEmailSentAt EXCEPT ![run[w].to] = TRUE]
          /\ UNCHANGED faults
       \/ Fault /\ UNCHANGED launchEmailSentAt
    /\ UNCHANGED <<status, emailOptOut, campaign, job, orphaned, mails>>

Count(w) ==
    /\ run[w].at = "count"
    /\ \/ To(w, "read") /\ UNCHANGED faults
       \/ Fault /\ To(w, "fail")
    /\ UNCHANGED <<rows, campaign, job, orphaned, mails>>

\* The last update is inside the try as well.
Done(w) ==
    /\ run[w].at = "done"
    /\ \/ Writes(w, "Done") /\ Ends(w, "completed") /\ UNCHANGED faults
       \/ Fault /\ To(w, "fail") /\ UNCHANGED <<campaign, job, orphaned>>
    /\ UNCHANGED <<rows, mails>>

\* The row cannot always be set to Failed; the error is thrown on either way.
Fail(w) ==
    /\ run[w].at = "fail" /\ Thrown(w)
    /\ \/ Writes(w, "Failed") /\ UNCHANGED faults
       \/ Fault /\ Orphans(w) /\ UNCHANGED campaign
    /\ UNCHANGED <<rows, mails>>

\* BullMQ hands an active job out again when its lock has lapsed: the worker
\* has ended, or it is late and goes on,
Stalled(w, alive) ==
    LET c == run[w].campaign
    IN  /\ run[w].at # "idle" /\ ~run[w].late /\ Fault
        /\ job' = [job EXCEPT ![c].at = IF job[c].stalled < MaxStalled THEN "waiting" ELSE "failed",
                              ![c].stalled = IF @ < MaxStalled THEN @ + 1 ELSE @]
        /\ \/ alive /\ Becomes(w, [run[w] EXCEPT !.late = TRUE]) /\ UNCHANGED orphaned
           \/ ~alive /\ Becomes(w, NoRun) /\ Orphans(w)
        /\ UNCHANGED <<rows, campaign, mails>>
\* until it ends too, at whatever statement, whoever has the job now.
Dies(w) ==
    /\ run[w].at # "idle" /\ run[w].late /\ Fault /\ Becomes(w, NoRun) /\ Orphans(w)
    /\ UNCHANGED <<rows, campaign, job, mails>>

Work(w) == \/ \E c \in Campaigns : Take(w, c)
           \/ Start(w) \/ Begin(w) \/ Read(w) \/ Send(w) \/ Mark(w) \/ Count(w) \/ Done(w) \/ Fail(w)
Next ==
    \/ \E a \in Addresses : Subscribe(a) \/ OptOut(a) \/ Unsubscribe(a)
    \/ \E c \in Campaigns : EnqueueLaunch(c)
    \/ \E w \in Workers : Work(w) \/ Dies(w) \/ \E alive \in BOOLEAN : Stalled(w, alive)
\* A worker goes on with its run, and takes a job when it has none.
Fairness == \A w \in Workers : WF_vars(Work(w))
Spec == Init /\ [][Next]_vars

(***************************************************************************)
(* Properties                                                              *)
(***************************************************************************)
\* An address gets one mail, and one more at most for every other campaign, which
\* may have read it too, and for every fault: a mark that failed, a job handed out
\* again (launch.processor.ts:64-67, :15-18 "idempotent").
MailsBounded == \A a \in Addresses : mails[a] <= Cardinality(Campaigns) + faults

\* With fewer bad addresses than a batch holds, everybody else is reached while a
\* campaign is sending (launch.processor.ts:50: "the first N not sent to").
NobodyStarves ==
    \A a \in Addresses \ Bad :
        (\E c \in Campaigns : campaign[c] = "Sending") /\ a \in Unsent
            ~> \/ a \notin Unsent
               \/ \A c \in Campaigns : job[c].at \in {"none", "completed", "failed"}

\* A campaign's row says "Sending" while a run is under way, or since one ended
\* without writing it: its process, or its last update, failed (launch.processor.ts:40-43).
SendingExplained ==
    \A c \in Campaigns : campaign[c] = "Sending" =>
        c \in orphaned \/ \E w \in Workers : run[w].campaign = c /\ Sending(run[w])

\* A campaign that is being sent ends, and its row shows it, unless an address that
\* always fails is left, or its last run ended without writing the row and BullMQ
\* hands the job out no more (launch.processor.ts:47-58, :85-99).
Over(c) == job[c].at \in {"completed", "failed"} /\ \A w \in Workers : run[w].campaign # c
Settles ==
    \A c \in Campaigns : campaign[c] = "Sending" ~>
        campaign[c] \in {"Done", "Failed"} \/ Unsent \cap Bad # {} \/ (c \in orphaned /\ Over(c))

\* A campaign that is being sent ends, and its row shows it; an address that fails
\* is passed over, and there is no endless loop (launch.processor.ts:48-49).
CampaignEnds == \A c \in Campaigns : campaign[c] = "Sending" ~> campaign[c] \in {"Done", "Failed"}
=============================================================================
