------------------------------- MODULE Access -------------------------------
(***************************************************************************)
(* The HTTP interface: every endpoint of the controllers with the guards   *)
(* its decorators ask for, and the requests of users whose role, status    *)
(* and account change meanwhile.  A request passes JwtAuthGuard, which     *)
(* reads the status through Redis, then RolesGuard, which reads the role   *)
(* in the access token, then the service's own check of whose row it is.   *)
(*                                                                         *)
(* A Tick is the 60 s for which a status is cached; an access token lives  *)
(* LIFETIME of them and is not checked again.  A request ends before two   *)
(* Ticks have passed.  Each user holds one access token at a time: what    *)
(* several would allow is what each allows.                                *)
(***************************************************************************)
EXTENDS Integers

CONSTANTS Users, None, LIFETIME, MaxFaults, MaxChanges,
          TokenRoles, Reached, Into    \* of Endpoints: what a token of a role opens

Rights == {"Admin", "Reporter", "active", "here"}

VARIABLES account,  \* the row: role and status; None when it is deleted
          token,    \* the access token: its role and age, or None
          cache,    \* the status in Redis, and whether a Tick has passed
          unset,    \* a status written to the row and not yet to Redis
          request,  \* the request under way
          since,    \* for each right, the Ticks since it was last held
          faults, changes

vars == <<account, token, cache, unset, request, since, faults, changes>>

(***************************************************************************)
(* Accounts and tokens.                                                    *)
(***************************************************************************)
Held(row) ==
    IF row = None THEN {}
    ELSE {"here", row.role} \cup (IF row.status = "Active" THEN {"active"} ELSE {})
\* since is only kept for the properties.
Forever == LIFETIME + 4
Becomes(v, row) ==
    /\ changes < MaxChanges /\ changes' = changes + 1
    /\ account' = [account EXCEPT ![v] = row]
    /\ since' = [since EXCEPT ![v] = [x \in Rights |-> IF x \in Held(row) THEN 0 ELSE @[x]]]

Init ==
    \E role \in [Users -> TokenRoles] :
        /\ account = [u \in Users |-> [role |-> role[u], status |-> "Active"]]
        /\ since = [u \in Users |-> [x \in Rights |-> IF x \in Held(account[u]) THEN 0 ELSE Forever]]
        /\ token = [u \in Users |-> None] /\ cache = [u \in Users |-> None]
        /\ unset = [u \in Users |-> None] /\ request = [u \in Users |-> None]
        /\ faults = 0 /\ changes = 0

Fault == faults < MaxFaults /\ faults' = faults + 1
NoFault == UNCHANGED faults

UpdateRole(v) ==
    /\ account[v] # None
    /\ \E role \in {"User", "Admin"} : Becomes(v, [account[v] EXCEPT !.role = role])
    /\ UNCHANGED unset
\* The row; WriteStatus follows.  Updates that overlap are in Accounts.
UpdateStatus(v) ==
    /\ account[v] # None /\ unset[v] = None
    /\ \E status \in {"Active", "Banned"} :
          /\ Becomes(v, [account[v] EXCEPT !.status = status])
          /\ unset' = [unset EXCEPT ![v] = status]
RemoveUser(v) == account[v] # None /\ Becomes(v, None) /\ UNCHANGED unset

Cached(status) == [status |-> status, old |-> FALSE]
\* The tokens cannot be revoked, or Redis fails: the status is not written there.
WriteStatus(v) ==
    /\ unset[v] # None /\ unset' = [unset EXCEPT ![v] = None]
    /\ \/ cache' = [cache EXCEPT ![v] = Cached(unset[v])] /\ NoFault
       \/ Fault /\ UNCHANGED cache
    /\ UNCHANGED <<account, token, request, since, changes>>

\* Another administrator than the users looked at.
Colleague(v) ==
    /\ UpdateRole(v) \/ UpdateStatus(v) \/ RemoveUser(v)
    /\ UNCHANGED <<token, cache, request, faults>>

\* Mutant: a refreshed token is made from the one before.
SignInAsBefore(u) ==
    /\ account[u] # None
    /\ token' = [token EXCEPT ![u] = [role |-> IF @ = None THEN account[u].role ELSE @.role, age |-> 0]]
    /\ UNCHANGED <<account, cache, unset, request, since, faults, changes>>
\* login, google and refresh sign what is in the row; none looks at the status.
SignIn(u) ==
    /\ account[u] # None
    /\ token' = [token EXCEPT ![u] = [role |-> account[u].role, age |-> 0]]
    /\ UNCHANGED <<account, cache, unset, request, since, faults, changes>>

(***************************************************************************)
(* A request of a user to an endpoint that is not public.                  *)
(***************************************************************************)
Send(u) ==
    /\ token[u] # None /\ request[u] = None
    /\ request' = [request EXCEPT ![u] = [at |-> "status", role |-> token[u].role, read |-> None, late |-> FALSE]]
    /\ UNCHANGED <<account, token, cache, unset, since, faults, changes>>

PassIf(u, active) ==
    request' = [request EXCEPT ![u] = IF active THEN [@ EXCEPT !.at = "handler", !.read = None] ELSE None]
\* Without Redis, or when nothing is cached, the row counts; without a row, nothing.
GetStatus(u) ==
    /\ request[u] # None /\ request[u].at = "status"
    /\ \/ cache[u] # None /\ PassIf(u, cache[u].status = "Active") /\ NoFault
       \/ /\ \/ cache[u] = None /\ NoFault
             \/ cache[u] # None /\ Fault
          /\ IF account[u] = None THEN PassIf(u, TRUE)
             ELSE request' = [request EXCEPT ![u].at = "fill", ![u].read = account[u].status]
    /\ UNCHANGED <<account, token, cache, unset, since, changes>>
Fill(u) ==
    /\ request[u] # None /\ request[u].at = "fill"
    /\ \/ cache' = [cache EXCEPT ![u] = Cached(request[u].read)] /\ NoFault
       \/ Fault /\ UNCHANGED cache
    /\ PassIf(u, request[u].read = "Active")
    /\ UNCHANGED <<account, token, unset, since, changes>>

\* What the handlers do to the accounts; the rest is in the other modules.
Effect(op, v) ==
    \/ op = "updateRole" /\ UpdateRole(v)
    \/ op = "updateStatus" /\ UpdateStatus(v)
    \/ op = "remove" /\ RemoveUser(v)
Handle(u) ==
    /\ request[u] # None /\ request[u].at = "handler"
    /\ \/ UNCHANGED <<account, unset, since, changes>>
       \/ \E e \in Reached, v \in Users : e.role = request[u].role /\ Effect(e.op, v)
    /\ request' = [request EXCEPT ![u] = None]
    /\ UNCHANGED <<token, cache, faults>>

(***************************************************************************)
(* Time.                                                                   *)
(***************************************************************************)
LapseToken(u) ==
    /\ token[u] # None /\ token[u].age = LIFETIME
    /\ token' = [token EXCEPT ![u] = None]
    /\ UNCHANGED <<account, cache, unset, request, since, faults, changes>>
LapseStatus(u) ==
    /\ cache[u] # None /\ cache[u].old
    /\ cache' = [cache EXCEPT ![u] = None]
    /\ UNCHANGED <<account, token, unset, request, since, faults, changes>>
Tick ==
    /\ \A u \in Users : unset[u] = None /\ (request[u] # None => ~request[u].late)
    /\ token' = [u \in Users |-> IF token[u] = None \/ token[u].age = LIFETIME THEN None
                                 ELSE [token[u] EXCEPT !.age = @ + 1]]
    /\ cache' = [u \in Users |-> IF cache[u] = None \/ cache[u].old THEN None
                                 ELSE [cache[u] EXCEPT !.old = TRUE]]
    /\ request' = [u \in Users |-> IF request[u] = None THEN None ELSE [request[u] EXCEPT !.late = TRUE]]
    /\ since' = [u \in Users |-> [x \in Rights |->
                    IF x \in Held(account[u]) \/ since[u][x] = Forever THEN since[u][x] ELSE since[u][x] + 1]]
    /\ UNCHANGED <<account, unset, faults, changes>>

Next ==
    \/ \E u \in Users :
          \/ WriteStatus(u) \/ Colleague(u) \/ SignIn(u)
          \/ Send(u) \/ GetStatus(u) \/ Fill(u) \/ Handle(u)
          \/ LapseToken(u) \/ LapseStatus(u)
    \/ Tick

Spec == Init /\ [][Next]_vars

(***************************************************************************)
(* Properties                                                              *)
(***************************************************************************)
\* Whatever is taken from a user, the role, the good standing or the account,
\* takes its effect on every endpoint when the tokens or the cached status of
\* that time have lapsed and the requests then under way have ended, in whatever
\* order the row and the cache are written and read; a deleted account is held
\* back by its token alone (jwt-auth.guard.ts:45-65, roles.guard.ts:25-43).
AccessWithdrawn ==
    \A u \in Users : request[u] # None /\ request[u].at = "handler" =>
        LET into(affair, own) == [role |-> request[u].role, own |-> own, affair |-> affair] \in Into
            was(right) == since[u][right] <= LIFETIME + 1
        IN  /\ into("all", TRUE) => was("here") /\ (account[u] # None => since[u]["active"] <= 3)
            /\ into("admins", TRUE) => was("Admin")
            /\ into("reporters", TRUE) => was("Admin") \/ was("Reporter")
            /\ into("owners", FALSE) => was("Admin")
=============================================================================
