------------------------------ MODULE MCAccess ------------------------------
(***************************************************************************)
(* Two accounts under overlapping changes (Accounts), and one user whose   *)
(* requests to every endpoint (Endpoints) meet such changes (Access).      *)
(* Their state has nothing in common: a behaviour is of one of the two,    *)
(* the other stays as it begins.                                           *)
(***************************************************************************)
EXTENDS Accounts, Endpoints, TLC

CONSTANTS Callers, LIFETIME, MaxChanges, MaxLost

\* An access token lives for a number of Ticks, and no row is no row.
ASSUME TokensAssumption ==
    LIFETIME \in Nat /\ None \notin [role : TokenRoles, status : {"Active", "Banned"}]

VARIABLES side, row, token, known, unset, call, since, down, changes

A == INSTANCE Access WITH Users <- Callers, account <- row, cache <- known, request <- call,
                        faults <- down, MaxFaults <- MaxLost

accessVars == <<row, token, known, unset, call, since, down, changes>>

AccessInit ==
    /\ Init /\ A!Init /\ side \in {"changes", "requests"}
    /\ IF side = "changes" THEN \A c \in Callers : row[c].role = "User"
       ELSE \A u \in Users : role[u] = "Admin" /\ status[u] = "Active"
AccessNext ==
    /\ UNCHANGED side
    /\ \/ side = "changes" /\ Next /\ UNCHANGED accessVars
       \/ side = "requests" /\ A!Next /\ UNCHANGED vars
AccessSpec == AccessInit /\ [][AccessNext]_<<side, vars, accessVars>>

\* Whatever is taken from a user takes its effect on every endpoint when the tokens
\* and the cached status of that time have lapsed (jwt-auth.guard.ts:45-65,
\* roles.guard.ts:25-43).
AccessWithdrawn == A!AccessWithdrawn

Symmetry == Permutations(Users) \cup Permutations(Ops)
=============================================================================
