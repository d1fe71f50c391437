---------------------------- MODULE Idempotency ----------------------------
(***************************************************************************)
(* The Idempotency-Key of writing requests (common/interceptors): before   *)
(* the handler runs, a key is set in Redis if it is not there, and a       *)
(* request that finds it is answered 409.  The key stays until it lapses,  *)
(* whatever becomes of the handler.  Requests without the header, and      *)
(* reads, pass by and are left out.                                        *)
(***************************************************************************)
EXTENDS Naturals, FiniteSets

CONSTANTS
    Users, Keys,            \* a key with the method and path it is sent to
    Requests, None,
    MaxLapses, MaxFaults    \* bounds

VARIABLES
    taken,      \* the keys that are in Redis
    request,    \* [at, user, key]
    done,       \* done[u][k]: how often u's operation took effect
    lapses,     \* how often each key in Redis came to its end
    let,        \* ghost: how often Redis failed and u's request was let through
    admitted,   \* ghost: users and keys that a handler has run for
    refused,    \* ghost: users and keys answered 409 before that
    faults

vars == <<taken, request, done, lapses, let, admitted, refused, faults>>

Idle == [at |-> "idle", user |-> None, key |-> None]
Pairs == Users \X Keys
\* What is in request.user has a userId, and no sub.
KeyOf(u, k) == <<"anon", k>>
RedisKeys == {KeyOf(u, k) : u \in Users, k \in Keys}

TypeOK ==
    /\ taken \subseteq RedisKeys
    /\ request \in [Requests -> {Idle} \cup [at : {"ask", "handle"}, user : Users, key : Keys]]
    /\ done \in [Pairs -> Nat] /\ lapses \in [RedisKeys -> 0..MaxLapses]
    /\ let \in [Pairs -> 0..MaxFaults] /\ faults \in 0..MaxFaults
    /\ admitted \subseteq Pairs /\ refused \subseteq Pairs

Init ==
    /\ taken = {} /\ request = [p \in Requests |-> Idle]
    /\ done = [x \in Pairs |-> 0] /\ lapses = [rk \in RedisKeys |-> 0]
    /\ let = [x \in Pairs |-> 0] /\ admitted = {} /\ refused = {} /\ faults = 0

\* A user sends an operation, for the first time or again.
Send(p, u, k) ==
    /\ request[p] = Idle
    /\ request' = [request EXCEPT ![p] = [at |-> "ask", user |-> u, key |-> k]]
    /\ UNCHANGED <<taken, done, lapses, let, admitted, refused, faults>>

Admit(p, u, k) ==
    /\ request' = [request EXCEPT ![p].at = "handle"] /\ admitted' = admitted \cup {<<u, k>>}
    /\ UNCHANGED refused

\* Mutant: the key is set without NX.
AlwaysFree(rk) == TRUE
Free(rk) == rk \notin taken
\* SET with EX and NX.  When Redis fails, the request is let through, and the key
\* may be set all the same.
Acquire(p) ==
    LET u == request[p].user
        k == request[p].key
        set == taken' = taken \cup {KeyOf(u, k)}
    IN  /\ request[p].at = "ask"
        /\ \/ Free(KeyOf(u, k)) /\ set /\ Admit(p, u, k) /\ UNCHANGED <<let, faults>>
           \/ /\ ~Free(KeyOf(u, k)) /\ request' = [request EXCEPT ![p] = Idle]
              /\ refused' = refused \cup ({<<u, k>>} \ admitted)
              /\ UNCHANGED <<taken, let, admitted, faults>>
           \/ /\ faults < MaxFaults /\ faults' = faults + 1
              /\ let' = [let EXCEPT ![<<u, k>>] = @ + 1]
              /\ Admit(p, u, k) /\ (set \/ UNCHANGED taken)
        /\ UNCHANGED <<done, lapses>>

\* The handler takes effect, or throws, or its process ends.
Handle(p) ==
    /\ request[p].at = "handle" /\ request' = [request EXCEPT ![p] = Idle]
    /\ \/ done' = [done EXCEPT ![<<request[p].user, request[p].key>>] = @ + 1]
       \/ UNCHANGED done
    /\ UNCHANGED <<taken, lapses, let, admitted, refused, faults>>

\* After the TTL, whether the handler has come to its end or not.
Lapse(rk) ==
    /\ rk \in taken /\ taken' = taken \ {rk}
    /\ lapses[rk] < MaxLapses /\ lapses' = [lapses EXCEPT ![rk] = @ + 1]
    /\ UNCHANGED <<request, done, let, admitted, refused, faults>>

Next ==
    \/ \E p \in Requests : \/ \E u \in Users, k \in Keys : Send(p, u, k)
                           \/ Acquire(p) \/ Handle(p)
    \/ \E rk \in RedisKeys : Lapse(rk)
Spec == Init /\ [][Next]_vars

(***************************************************************************)
(* Properties                                                              *)
(***************************************************************************)
\* An operation that is sent again and again takes effect once, and once more at
\* most for every time its key lapsed and every time Redis failed
\* (idempotency.interceptor.ts:21-22).
OncePerWindow ==
    \A u \in Users, k \in Keys :
        done[<<u, k>>] <= 1 + lapses[KeyOf(u, k)] + let[<<u, k>>]

\* Who is refused has sent this operation before and was admitted with it: "key
\* idem:{userId}:{method}:{path}:{key}" (idempotency.interceptor.ts:20).
RefusedForOwn == refused = {}
=============================================================================
