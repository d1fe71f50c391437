---------------------------- MODULE WeeklyDigest ----------------------------
(***************************************************************************)
(* The weekly mail to every eligible user (digests/weekly-digest): the     *)
(* cron job of each process pages through the users by offset, while users *)
(* become eligible and cease to be.  Nothing is kept, and nothing retried. *)
(***************************************************************************)
EXTENDS Naturals, FiniteSets, FiniteSetsExt

CONSTANTS
    N,                  \* users, numbered in the order of their ids
    Processes, RECIPIENT_PAGE, MaxChanges, MaxFaults

Users == 1..N

VARIABLES
    user,       \* "eligible": active, confirmed, not opted out; "optedOut"; "other"
    run,        \* of each process, with the ghosts steady, joined and left
    mails,      \* mails[p][u]: the week's mails of process p to u
    changes, faults

vars == <<user, run, mails, changes, faults>>

NoRun == [at |-> "idle", skip |-> 0, page |-> {}, read |-> 0,
          steady |-> {}, joined |-> 0, left |-> 0, failed |-> 0]

TypeOK ==
    /\ user \in [Users -> {"eligible", "optedOut", "other"}]
    /\ run \in [Processes -> [at : {"idle", "read", "send", "done", "broken"},
                              skip : 0..(N + MaxChanges), page : SUBSET Users,
                              read : 0..RECIPIENT_PAGE, steady : SUBSET Users,
                              joined : 0..MaxChanges, left : 0..MaxChanges, failed : 0..N]]
    /\ \A p \in Processes : run[p].page # {} => run[p].at = "send"
    /\ mails \in [Processes -> [Users -> Nat]]
    /\ changes \in 0..MaxChanges /\ faults \in 0..MaxFaults

Init ==
    /\ user \in [Users -> {"eligible", "optedOut", "other"}]
    /\ run = [p \in Processes |-> NoRun]
    /\ mails = [p \in Processes |-> [u \in Users |-> 0]]
    /\ changes = 0 /\ faults = 0

Eligible == {u \in Users : user[u] = "eligible"}
Fault == faults < MaxFaults /\ faults' = faults + 1
Becomes(p, r) == run' = [run EXCEPT ![p] = r]

\* A user confirms the address, is banned or comes back, opts out.
Change(u, s) ==
    /\ changes < MaxChanges /\ changes' = changes + 1
    /\ <<user[u], s>> \in {<<"other", "eligible">>, <<"eligible", "other">>,
                           <<"eligible", "optedOut">>}
    /\ user' = [user EXCEPT ![u] = s]
    /\ run' = [p \in Processes |->
                  [run[p] EXCEPT !.steady = @ \ {u},
                                 !.joined = IF s = "eligible" THEN @ + 1 ELSE @,
                                 !.left = IF s # "eligible" THEN @ + 1 ELSE @]]
    /\ UNCHANGED <<mails, faults>>

\* The week's figures come first; an error anywhere but in a mail ends the run.
Fire(p) ==
    /\ run[p].at = "idle"
    /\ \/ /\ Becomes(p, [NoRun EXCEPT !.at = "read", !.steady = Eligible])
          /\ UNCHANGED faults
       \/ Fault /\ Becomes(p, [NoRun EXCEPT !.at = "broken"])
    /\ UNCHANGED <<user, mails, changes>>

Page(skip, n) == {u \in Eligible : Cardinality({v \in Eligible : v < u}) \in skip..(skip + n - 1)}
Read(p) ==
    LET page == Page(run[p].skip, RECIPIENT_PAGE)
    IN  /\ run[p].at = "read"
        /\ \/ /\ Becomes(p, [run[p] EXCEPT !.at = IF page = {} THEN "done" ELSE "send",
                                           !.page = page, !.read = Cardinality(page)])
              /\ UNCHANGED faults
           \/ Fault /\ Becomes(p, [run[p] EXCEPT !.at = "broken"])
        /\ UNCHANGED <<user, mails, changes>>

\* Mutant: the page before is read again.
StayOnPage(r) == IF r.read < RECIPIENT_PAGE THEN [r EXCEPT !.at = "done"]
                 ELSE [r EXCEPT !.at = "read", !.skip = @ + r.read - 1]
Onward(r) == IF r.read < RECIPIENT_PAGE THEN [r EXCEPT !.at = "done"]
             ELSE [r EXCEPT !.at = "read", !.skip = @ + r.read]
Mailable(u) == user[u] # "optedOut"
\* The next user of the page; the opt-out, and only it, is asked again.
Send(p) ==
    LET u == Min(run[p].page)
        rest == [run[p] EXCEPT !.page = @ \ {u}]
        After(r) == Becomes(p, IF r.page = {} THEN Onward(r) ELSE r)
    IN  /\ run[p].at = "send"
        /\ \/ /\ Mailable(u) /\ After(rest) /\ UNCHANGED faults
              /\ mails' = [mails EXCEPT ![p][u] = @ + 1]
           \/ ~Mailable(u) /\ After(rest) /\ UNCHANGED <<mails, faults>>
           \/ Fault /\ After([rest EXCEPT !.failed = @ + 1]) /\ UNCHANGED mails
           \/ Fault /\ Becomes(p, [rest EXCEPT !.at = "broken", !.page = {}]) /\ UNCHANGED mails
        /\ UNCHANGED <<user, changes>>

Next ==
    \/ \E u \in Users : \E s \in {"eligible", "other", "optedOut"} : Change(u, s)
    \/ \E p \in Processes : Fire(p) \/ Read(p) \/ Send(p)
Spec == Init /\ [][Next]_vars

(***************************************************************************)
(* Properties                                                              *)
(***************************************************************************)
\* A run that came to its end has left out at most as many of those who were
\* eligible all through it as others left meanwhile, and mails failed
\* (weekly-digest.service.ts:45-57, :80: an offset over a changing list).
MissedBounded ==
    \A p \in Processes : run[p].at = "done" =>
        Cardinality({u \in run[p].steady : mails[p][u] = 0}) <= run[p].left + run[p].failed

\* The mails of a run to a user beyond the first: the n-th, for each n.
Again(p) == UNION {{u} \X (2..mails[p][u]) : u \in Users}
\* A run mails somebody again only for somebody who became eligible meanwhile
\* (weekly-digest.service.ts:45-57).
TwiceBounded == \A p \in Processes : Cardinality(Again(p)) <= run[p].joined
=============================================================================
