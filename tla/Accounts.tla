------------------------------ MODULE Accounts ------------------------------
(***************************************************************************)
(* Status and role of the accounts: the Redis cache that JwtAuthGuard asks *)
(* on every request, and the back office that changes the rows.  A check   *)
(* is a cache read, a row read and a cache write; an update is a read, a   *)
(* count of the active administrators, a write and a cache write.  None of *)
(* these has a lock or a transaction.                                      *)
(***************************************************************************)
EXTENDS Naturals, FiniteSets

CONSTANTS
  Users,          \* accounts
  Guards,         \* requests being authorised at the same time
  Ops,            \* back office requests that run at the same time
  None,           \* nothing cached, nobody
  MaxFaults       \* bound: Redis errors and requests that end early

ASSUME ConstantsAssumption ==
  /\ IsFiniteSet(Users)
  /\ None \notin Users \cup {"Active", "Banned"}
  /\ MaxFaults \in Nat

VARIABLES
  users,          \* accounts that exist
  role, status,   \* columns of the user rows
  cache,          \* auth:status:<id>: None or a status
  guard,          \* a request's check: where it is, of whom, the status it read
  op,             \* a back office request: where it is, whom it changes to what
  dirty,          \* ghost: requests that read rows another one changed since
  overlapped,     \* ghost: such a request has written
  removed,        \* ghost: an active administrator was deleted
  stale,          \* ghost: accounts whose cache entry was written late or not at all
  faults

account == <<users, role, status>>
vars    == <<account, cache, guard, op, dirty, overlapped, removed, stale, faults>>

Statuses == {"Active", "Banned"}     \* Suspended and Inactive are refused like Banned
Roles    == {"Admin", "User"}        \* Editor counts as User
Values   == Statuses \cup Roles      \* a request sets one column

NoCheck == [at |-> "idle", who |-> None, seen |-> None]
NoOp    == [at |-> "idle", who |-> None, to |-> None]

Checks ==
  {NoCheck} \cup [at : {"read"}, who : Users, seen : {None}]
            \cup [at : {"fill"}, who : Users, seen : Statuses]
Changes ==
  {NoOp} \cup [at : {"count", "write"}, who : Users, to : Values]
         \cup [at : {"cache"}, who : Users, to : Statuses]

TypeOK ==
  /\ users \subseteq Users
  /\ role \in [Users -> Roles] /\ status \in [Users -> Statuses]
  /\ cache \in [Users -> Statuses \cup {None}]
  /\ guard \in [Guards -> Checks]
  /\ op \in [Ops -> Changes]
  /\ dirty \subseteq Ops
  /\ overlapped \in BOOLEAN /\ removed \in BOOLEAN
  /\ stale \subseteq Users
  /\ faults \in Nat

ActiveAdmins == {u \in users : role[u] = "Admin" /\ status[u] = "Active"}

Init ==
  /\ users = Users
  /\ role \in [Users -> Roles] /\ status \in [Users -> Statuses]
  /\ ActiveAdmins # {}
  /\ cache = [u \in Users |-> None]
  /\ guard = [g \in Guards |-> NoCheck]
  /\ op = [a \in Ops |-> NoOp]
  /\ dirty = {} /\ overlapped = FALSE /\ removed = FALSE
  /\ stale = {}
  /\ faults = 0

Fault == faults < MaxFaults /\ faults' = faults + 1

-----------------------------------------------------------------------------
(***************************************************************************)
(* The guard.  A cached status answers at once and changes nothing.        *)
(***************************************************************************)
Ask(g, u) ==
  /\ guard[g] = NoCheck
  /\ guard' = [guard EXCEPT ![g] = [at |-> "read", who |-> u, seen |-> None]]
  /\ UNCHANGED <<account, cache, op, dirty, overlapped, removed, stale>>

(* getStatus finds nothing cached ... *)
Miss(g, u) == cache[u] = None /\ Ask(g, u) /\ UNCHANGED faults

(* ... or Redis fails: the row answers instead. *)
Unreachable(g, u) == Fault /\ Ask(g, u)

(* The row is read; without a row nothing is cached. *)
ReadRow(g) ==
  LET u == guard[g].who IN
  /\ guard[g].at = "read"
  /\ guard' = [guard EXCEPT ![g] = IF u \in users
                                   THEN [at |-> "fill", who |-> u, seen |-> status[u]]
                                   ELSE NoCheck]
  /\ UNCHANGED <<account, cache, op, dirty, overlapped, removed, stale, faults>>

(* writeCache: SET with a new expiry. *)
WriteCache(u, s) ==
  /\ cache' = [cache EXCEPT ![u] = s]
  /\ stale' = IF s = status[u] THEN stale \ {u} ELSE stale \cup {u}

Fill(g) ==
  /\ guard[g].at = "fill"
  /\ WriteCache(guard[g].who, guard[g].seen)
  /\ guard' = [guard EXCEPT ![g] = NoCheck]
  /\ UNCHANGED <<account, op, dirty, overlapped, removed, faults>>

(* The write fails and is only logged, or the request ends. *)
FillFails(g) ==
  /\ guard[g].at = "fill"
  /\ Fault
  /\ guard' = [guard EXCEPT ![g] = NoCheck]
  /\ UNCHANGED <<account, cache, op, dirty, overlapped, removed, stale>>

(* Variant: every request renews the expiry of the entry it finds. *)
ExpireUnused(u) ==
  /\ cache[u] # None /\ u \notin users
  /\ cache' = [cache EXCEPT ![u] = None]
  /\ stale' = stale \ {u}
  /\ UNCHANGED <<account, guard, op, dirty, overlapped, removed, faults>>

(* The TTL of 60 s passes. *)
Expire(u) ==
  /\ cache[u] # None
  /\ cache' = [cache EXCEPT ![u] = None]
  /\ stale' = stale \ {u}
  /\ UNCHANGED <<account, guard, op, dirty, overlapped, removed, faults>>

-----------------------------------------------------------------------------
(***************************************************************************)
(* updateStatus, updateRole and remove.                                    *)
(***************************************************************************)
(* The change takes an active administrator away. *)
Demotes(u, to) == u \in ActiveAdmins /\ to \in {"Banned", "User"}

(* The row is read: it decides whether the administrators are counted. *)
Begin(a, u, to) ==
  /\ op[a] = NoOp
  /\ u \in users
  /\ op' = [op EXCEPT ![a] =
              [at |-> IF Demotes(u, to) THEN "count" ELSE "write", who |-> u, to |-> to]]
  /\ dirty' = dirty \ {a}
  /\ UNCHANGED <<account, cache, guard, overlapped, removed, stale, faults>>

(* Variant: the administrator who is changed is not one of those left. *)
AssertNotLastOther(a) ==
  /\ op[a].at = "count"
  /\ op' = [op EXCEPT ![a] = IF Cardinality(ActiveAdmins) > 0
                             THEN [@ EXCEPT !.at = "write"] ELSE NoOp]
  /\ UNCHANGED <<account, cache, guard, dirty, overlapped, removed, stale, faults>>

(* assertNotLastActiveAdmin: passed, or 409. *)
AssertNotLast(a) ==
  /\ op[a].at = "count"
  /\ op' = [op EXCEPT ![a] = IF Cardinality(ActiveAdmins) > 1
                             THEN [@ EXCEPT !.at = "write"] ELSE NoOp]
  /\ UNCHANGED <<account, cache, guard, dirty, overlapped, removed, stale, faults>>

(* Requests whose reads a change of the rows makes old. *)
Reading == {b \in Ops : op[b].at \in {"count", "write"}}

(* Variant: the cache is left to expire. *)
WriteRowOnly(a) ==
  LET u == op[a].who   to == op[a].to IN
  /\ op[a].at = "write"
  /\ IF u \in users
     THEN /\ status' = [status EXCEPT ![u] = IF to \in Statuses THEN to ELSE @]
          /\ role' = [role EXCEPT ![u] = IF to \in Roles THEN to ELSE @]
          /\ op' = [op EXCEPT ![a] = NoOp]
          /\ dirty' = dirty \cup (Reading \ {a})
          /\ overlapped' = (overlapped \/ a \in dirty)
     ELSE /\ op' = [op EXCEPT ![a] = NoOp]
          /\ UNCHANGED <<status, role, dirty, overlapped>>
  /\ UNCHANGED <<users, cache, guard, removed, stale, faults>>

(* The row is written; without a row the request fails.  A status goes on  *)
(* to revokeAllForUser (module Sessions) and the cache.                    *)
WriteRow(a) ==
  LET u == op[a].who   to == op[a].to IN
  /\ op[a].at = "write"
  /\ IF u \in users
     THEN /\ status' = [status EXCEPT ![u] = IF to \in Statuses THEN to ELSE @]
          /\ role' = [role EXCEPT ![u] = IF to \in Roles THEN to ELSE @]
          /\ op' = [op EXCEPT ![a] = IF to \in Statuses
                                     THEN [@ EXCEPT !.at = "cache"] ELSE NoOp]
          /\ dirty' = dirty \cup (Reading \ {a})
          /\ overlapped' = (overlapped \/ a \in dirty)
     ELSE /\ op' = [op EXCEPT ![a] = NoOp]
          /\ UNCHANGED <<status, role, dirty, overlapped>>
  /\ UNCHANGED <<users, cache, guard, removed, stale, faults>>

(* setStatus. *)
SetCache(a) ==
  /\ op[a].at = "cache"
  /\ WriteCache(op[a].who, op[a].to)
  /\ op' = [op EXCEPT ![a] = NoOp]
  /\ UNCHANGED <<account, guard, dirty, overlapped, removed, faults>>

(* A query fails, among them revokeAllForUser's; Redis' SET fails and is   *)
(* only logged; or the process ends.                                       *)
GiveUp(a) ==
  /\ op[a] # NoOp
  /\ Fault
  /\ stale' = IF op[a].at = "cache" THEN stale \cup {op[a].who} ELSE stale
  /\ op' = [op EXCEPT ![a] = NoOp]
  /\ UNCHANGED <<account, cache, guard, dirty, overlapped, removed>>

(* remove: no administrator is counted and the cache is left. *)
Remove(u) ==
  /\ u \in users
  /\ users' = users \ {u}
  /\ removed' = (removed \/ u \in ActiveAdmins)
  /\ dirty' = dirty \cup Reading
  /\ UNCHANGED <<role, status, cache, guard, op, overlapped, stale, faults>>

GuardStep(g) == ReadRow(g) \/ Fill(g)
OpStep(a)    == AssertNotLast(a) \/ WriteRow(a) \/ SetCache(a)

Next ==
  \/ \E u \in Users : Expire(u) \/ Remove(u)
  \/ \E g \in Guards : GuardStep(g) \/ FillFails(g)
                       \/ \E u \in Users : Miss(g, u) \/ Unreachable(g, u)
  \/ \E a \in Ops : OpStep(a) \/ GiveUp(a)
                    \/ \E u \in Users, to \in Values : Begin(a, u, to)

Spec == Init /\ [][Next]_vars

(* A request that has begun takes its next step, and Redis drops what has  *)
(* reached its TTL: an entry is only written after it was missing, so that *)
(* writes do not keep it alive.                                            *)
Fairness ==
  /\ \A g \in Guards : WF_vars(GuardStep(g))
  /\ \A a \in Ops : WF_vars(OpStep(a))
  /\ \A u \in Users : WF_vars(Expire(u))

FairSpec == Spec /\ Fairness

-----------------------------------------------------------------------------
(***************************************************************************)
(* Properties.                                                             *)
(***************************************************************************)
(* The cache says other than the row only while an update has still to     *)
(* write it, or after a write that came late or not at all; an expiry ends *)
(* that (user-status.cache.ts:33-80).                                      *)
CacheExplained ==
  \A u \in users :
    cache[u] \notin {None, status[u]} =>
      u \in stale \/ \E a \in Ops : op[a].at = "cache" /\ op[a].who = u

(* Counting before a demotion keeps one active administrator as long as no *)
(* change of another request comes between the reads and the write, and    *)
(* none is deleted (users.service.ts:379-389).                             *)
AdminLeft == overlapped \/ removed \/ ActiveAdmins # {}

(* The guard lets nobody in for ever: an account that stays banned is not  *)
(* cached as active from some time on, whatever races and Redis errors     *)
(* came before (user-status.cache.ts:9-11).                                *)
BanTakesHold ==
  \A u \in Users :
    <>[](u \in users /\ status[u] = "Banned") => <>[](cache[u] # "Active")
=============================================================================
