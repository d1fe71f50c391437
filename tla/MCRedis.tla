------------------------------ MODULE MCRedis ------------------------------
(***************************************************************************)
(* The two caches in Redis: the status of each account (Accounts) and the  *)
(* answers of the catalogue (ReadCache).  Their keys have nothing in       *)
(* common: a behaviour is of one of the two, the other stays as it begins. *)
(***************************************************************************)
EXTENDS Accounts

CONSTANTS Requests, Writers, List, Search, TAG_TTL_BUFFER, MaxWrites

\* The lives that CacheTtl and the buffer of the tags' sets give.
ASSUME LivesAssumption == List \in Nat /\ Search \in Nat /\ TAG_TTL_BUFFER \in Nat

VARIABLES what, read, ver, due, entry, member, request, write, writes, lost

C == INSTANCE ReadCache WITH faults <- lost

answers == <<read, ver, due, entry, member, request, write, writes, lost>>
all == <<what, vars, answers>>

OfStatus(A) == what = "status" /\ A /\ UNCHANGED <<what, answers>>
OfAnswers(A) == what = "answers" /\ A /\ UNCHANGED <<what, vars>>

BothInit ==
  /\ Init /\ C!Init /\ what \in {"status", "answers"}
  /\ IF what = "status"
       THEN read = [table |-> "league", tag |-> "leagues", ttl |-> List, others |-> FALSE]
       ELSE \A u \in Users : role[u] = "Admin" /\ status[u] = "Active"
BothNext == OfStatus(Next) \/ OfAnswers(C!Next)
(* The fairness of Accounts and that of ReadCache. *)
BothFairness ==
  /\ \A g \in Guards : WF_all(OfStatus(GuardStep(g)))
  /\ \A a \in Ops : WF_all(OfStatus(OpStep(a)))
  /\ \A u \in Users : WF_all(OfStatus(Expire(u)))
  /\ WF_all(OfAnswers(C!Tick))
  /\ \A r \in Requests : WF_all(OfAnswers(C!Produce(r) \/ C!Set(r) \/ C!Tag(r)))
  /\ \A w \in Writers : WF_all(OfAnswers(C!WriteRow(w) \/ C!Members(w) \/ C!Delete(w) \/ C!End(w)))
BothSpec == BothInit /\ [][BothNext]_all /\ BothFairness

\* No answer is older than a write that has ended, unless it was got or stored during an
\* invalidation (cache.service.ts:79-95).
FreshUnlessRaced == C!FreshUnlessRaced
\* Without further writes no answer stays older than its table (cache-tags.ts:15).
EventuallyFresh == C!EventuallyFresh
=============================================================================
