--------------------------- MODULE SessionsProofs ---------------------------
(***************************************************************************)
(* Theorems about Sessions, for any finite sets of tokens and requests and *)
(* any number of faults, and about what else MCSessions runs: idempotency  *)
(* keys, reports and pictures, for any sets and bounds of theirs.          *)
(***************************************************************************)
EXTENDS MCSessions, CardinalityFacts

LEMMA NextTypeOK == TypeOK /\ [Next]_vars => TypeOK'
<1> SUFFICES ASSUME TypeOK, [Next]_vars PROVE TypeOK'
  OBVIOUS
<1> USE ConstantsAssumption DEF TypeOK, Points, rows, req, counts, ghosts
<1>live. Cardinality(Live) \in Nat
  <2> Live \subseteq Tokens /\ IsFiniteSet(Live)
    BY FS_Subset DEF Live
  <2> QED BY FS_CardinalityType
<1>1. CASE LogoutEverywhere
  BY <1>1, <1>live DEF LogoutEverywhere, RevokeAll
<1>2. ASSUME NEW t \in Tokens, Logout(t) PROVE TypeOK'
  BY <1>2 DEF Logout
<1>3. ASSUME NEW t \in Tokens, Expire(t) PROVE TypeOK'
  BY <1>3 DEF Expire
<1>4. ASSUME NEW r \in ResetTokens, RequestReset(r) PROVE TypeOK'
  BY <1>4 DEF RequestReset
<1>5. ASSUME NEW r \in ResetTokens, Lapse(r) PROVE TypeOK'
  BY <1>5 DEF Lapse
<1>6. ASSUME NEW p \in Requests, LoginCheck(p) PROVE TypeOK'
  BY <1>6 DEF LoginCheck
<1>7. ASSUME NEW p \in Requests, RotateRetire(p) PROVE TypeOK'
  BY <1>7 DEF RotateRetire, Done
<1>8. ASSUME NEW p \in Requests, ResetApply(p) PROVE TypeOK'
  BY <1>8 DEF ResetApply
<1>9. ASSUME NEW p \in Requests, ResetRevoke(p) PROVE TypeOK'
  BY <1>9, <1>live DEF ResetRevoke, RevokeAll, Done
<1>10. ASSUME NEW p \in Requests, Crash(p) PROVE TypeOK'
  BY <1>10 DEF Crash, Done
<1>11. ASSUME NEW p \in Requests, NEW t \in Tokens, LoginIssue(p, t) PROVE TypeOK'
  BY <1>11 DEF LoginIssue, Insert, Done
<1>12. ASSUME NEW p \in Requests, NEW t \in Tokens, RotateCheck(p, t) PROVE TypeOK'
  BY <1>12 DEF RotateCheck
<1>13. ASSUME NEW p \in Requests, NEW t \in Tokens, RotateIssue(p, t) PROVE TypeOK'
  BY <1>13 DEF RotateIssue, Insert
<1>14. ASSUME NEW p \in Requests, NEW r \in ResetTokens, ResetFind(p, r) PROVE TypeOK'
  BY <1>14 DEF ResetFind
<1>15. CASE UNCHANGED vars
  BY <1>15 DEF vars
<1> HIDE DEF TypeOK
<1> QED
  BY <1>1, <1>2, <1>3, <1>4, <1>5, <1>6, <1>7, <1>8, <1>9, <1>10, <1>11,
     <1>12, <1>13, <1>14, <1>15
  DEF Next

(* Every variable keeps its type; a request holds a token to rotate, its   *)
(* successor and a reset token exactly at the points that use them.        *)
THEOREM TypeCorrect == Spec => []TypeOK
<1>1. Init => TypeOK
  BY ConstantsAssumption DEF Init, TypeOK, Points
<1> QED BY <1>1, NextTypeOK, PTL DEF Spec

-----------------------------------------------------------------------------
(***************************************************************************)
(* The number of live sessions.                                            *)
(***************************************************************************)
LEMMA BothFinite ==
  /\ IsFiniteSet(Live) /\ IsFiniteSet(Live')
  /\ Cardinality(Live) \in Nat /\ Cardinality(Live') \in Nat
  /\ IsFiniteSet(Retiring) /\ IsFiniteSet(Retiring')
  /\ Cardinality(Retiring) \in Nat /\ Cardinality(Retiring') \in Nat
<1>1. IsFiniteSet(Live) /\ IsFiniteSet(Live')
  BY ConstantsAssumption, FS_Subset DEF Live
<1>2. IsFiniteSet(Retiring) /\ IsFiniteSet(Retiring')
  BY ConstantsAssumption, FS_Subset DEF Retiring
<1> QED BY <1>1, <1>2, FS_CardinalityType

IsLive(t)     == IF token[t] = "live" THEN 1 ELSE 0
IsRetiring(p) == IF pc[p] = "retire" THEN 1 ELSE 0

(* A step on one token.                                                    *)
LEMMA LiveMoves ==
  ASSUME TypeOK, NEW t \in Tokens, \A s \in Tokens \ {t} : token'[s] = token[s]
  PROVE  Cardinality(Live') = Cardinality(Live) + IsLive(t)' - IsLive(t)
<1> DEFINE S == Live
           T == Live'
<1>1. S \ {t} = T \ {t} /\ IsFiniteSet(S)
  BY BothFinite DEF Live
<1>2. In(t, T) = IsLive(t)' /\ In(t, S) = IsLive(t)
  BY DEF In, Live, IsLive
<1>3. Cardinality(T) = Cardinality(S) + In(t, T) - In(t, S)
  BY <1>1, OneElement
<1> QED BY <1>2, <1>3

(* A step of one request.                                                  *)
LEMMA RetiringMoves ==
  ASSUME TypeOK, NEW p \in Requests, \A q \in Requests \ {p} : pc'[q] = pc[q]
  PROVE  Cardinality(Retiring') =
           Cardinality(Retiring) + IsRetiring(p)' - IsRetiring(p)
<1> DEFINE S == Retiring
           T == Retiring'
<1>1. S \ {p} = T \ {p} /\ IsFiniteSet(S)
  BY BothFinite DEF Retiring
<1>2. In(p, T) = IsRetiring(p)' /\ In(p, S) = IsRetiring(p)
  BY DEF In, Retiring, IsRetiring
<1>3. Cardinality(T) = Cardinality(S) + In(p, T) - In(p, S)
  BY <1>1, OneElement
<1> QED BY <1>2, <1>3

LEMMA NextAccounted ==
  TypeOK /\ SessionsAccounted /\ [Next]_vars => SessionsAccounted'
<1> SUFFICES ASSUME TypeOK, SessionsAccounted, [Next]_vars
             PROVE  SessionsAccounted'
  OBVIOUS
<1> DEFINE Sum(l, r) == l + ended = opened + r + forks + lost
<1>fin. /\ Cardinality(Live) \in Nat /\ Cardinality(Live)' \in Nat
        /\ Cardinality(Retiring) \in Nat /\ Cardinality(Retiring)' \in Nat
  BY BothFinite
<1>num. ended \in Nat /\ opened \in Nat /\ forks \in Nat /\ lost \in Nat
  BY DEF TypeOK
<1> USE <1>fin, <1>num DEF rows, req, counts, ghosts
(* Which sets a step leaves alone.                                         *)
<1>tok. UNCHANGED token => Cardinality(Live)' = Cardinality(Live)
  BY DEF Live
<1>pcs. UNCHANGED pc => Cardinality(Retiring)' = Cardinality(Retiring)
  BY DEF Retiring
<1>all. ASSUME RevokeAll PROVE Cardinality(Live)' + ended' = Cardinality(Live) + ended
  <2>1. Live' = {}
    BY <1>all DEF RevokeAll, Live, TypeOK
  <2>2. Cardinality(Live)' = 0
    BY <2>1, FS_EmptySet
  <2> QED BY <1>all, <2>2 DEF RevokeAll
<1>1. CASE LogoutEverywhere
  BY <1>1, <1>all, <1>pcs DEF LogoutEverywhere, SessionsAccounted
<1>2. ASSUME NEW t \in Tokens, Logout(t) PROVE SessionsAccounted'
  <2>1. Cardinality(Live)' = Cardinality(Live) - 1
    BY <1>2, LiveMoves DEF Logout, IsLive, TypeOK
  <2> QED BY <1>2, <2>1, <1>pcs DEF Logout, SessionsAccounted
<1>3. ASSUME NEW p \in Requests, pc[p] # "retire", pc'[p] # "retire",
             pc' = [pc EXCEPT ![p] = pc'[p]]
      PROVE  Cardinality(Retiring)' = Cardinality(Retiring)
  BY <1>3, RetiringMoves DEF IsRetiring, TypeOK
<1>4. ASSUME NEW p \in Requests, LoginCheck(p) \/ ResetApply(p)
      PROVE  SessionsAccounted'
  <2>1. Cardinality(Retiring)' = Cardinality(Retiring)
    BY <1>4, <1>3 DEF LoginCheck, ResetApply, TypeOK
  <2> QED BY <1>4, <2>1, <1>tok DEF LoginCheck, ResetApply, SessionsAccounted
<1>5. ASSUME NEW p \in Requests, NEW t \in Tokens, RotateCheck(p, t)
      PROVE  SessionsAccounted'
  <2>1. Cardinality(Retiring)' = Cardinality(Retiring)
    BY <1>5, <1>3 DEF RotateCheck, TypeOK
  <2> QED BY <1>5, <2>1, <1>tok DEF RotateCheck, SessionsAccounted
<1>6. ASSUME NEW p \in Requests, NEW r \in ResetTokens, ResetFind(p, r)
      PROVE  SessionsAccounted'
  <2>1. Cardinality(Retiring)' = Cardinality(Retiring)
    BY <1>6, <1>3 DEF ResetFind, TypeOK
  <2> QED BY <1>6, <2>1, <1>tok DEF ResetFind, SessionsAccounted
<1>7. ASSUME NEW p \in Requests, NEW t \in Tokens, LoginIssue(p, t)
      PROVE  SessionsAccounted'
  <2>1. Cardinality(Retiring)' = Cardinality(Retiring)
    BY <1>7, <1>3 DEF LoginIssue, Done, TypeOK
  <2>2. Cardinality(Live)' = Cardinality(Live) + 1
    BY <1>7, LiveMoves DEF LoginIssue, Insert, IsLive, TypeOK
  <2> QED BY <1>7, <2>1, <2>2 DEF LoginIssue, SessionsAccounted
<1>8. ASSUME NEW p \in Requests, NEW t \in Tokens, RotateIssue(p, t)
      PROVE  SessionsAccounted'
  <2>1. Cardinality(Retiring)' = Cardinality(Retiring) + 1
    BY <1>8, RetiringMoves DEF RotateIssue, IsRetiring, TypeOK
  <2>2. Cardinality(Live)' = Cardinality(Live) + 1
    BY <1>8, LiveMoves DEF RotateIssue, Insert, IsLive, TypeOK
  <2> QED BY <1>8, <2>1, <2>2 DEF RotateIssue, SessionsAccounted
<1>9. ASSUME NEW p \in Requests, RotateRetire(p) PROVE SessionsAccounted'
  <2>1. Cardinality(Retiring)' = Cardinality(Retiring) - 1
    BY <1>9, RetiringMoves DEF RotateRetire, Done, IsRetiring, TypeOK
  <2>2. old[p] \in Tokens
    BY <1>9 DEF RotateRetire, TypeOK
  <2>3. Cardinality(Live)' = Cardinality(Live) - IsLive(old[p])
    <3> DEFINE t == old[p]
    <3>1. \A s \in Tokens \ {t} : token'[s] = token[s]
      BY <1>9, <2>2 DEF RotateRetire, TypeOK
    <3>2. token'[t] = "revoked"
      BY <1>9, <2>2 DEF RotateRetire, TypeOK
    <3>3. PICK x \in Tokens : x = t
      BY <2>2
    <3> HIDE DEF t
    <3>4. Cardinality(Live)' = Cardinality(Live) + IsLive(x)' - IsLive(x)
      BY <3>1, <3>3, LiveMoves
    <3> QED BY <3>2, <3>3, <3>4 DEF IsLive, t
  <2> QED BY <1>9, <2>1, <2>3 DEF RotateRetire, SessionsAccounted, IsLive
<1>10. ASSUME NEW p \in Requests, ResetRevoke(p) PROVE SessionsAccounted'
  <2>1. Cardinality(Retiring)' = Cardinality(Retiring)
    BY <1>10, <1>3 DEF ResetRevoke, Done, TypeOK
  <2> QED BY <1>10, <1>all, <2>1 DEF ResetRevoke, SessionsAccounted
<1>11. ASSUME NEW p \in Requests, Crash(p) PROVE SessionsAccounted'
  <2>1. Cardinality(Retiring)' = Cardinality(Retiring) - IsRetiring(p)
    BY <1>11, RetiringMoves DEF Crash, Done, IsRetiring, TypeOK
  <2> QED BY <1>11, <2>1, <1>tok DEF Crash, SessionsAccounted, IsRetiring
<1>12. ASSUME UNCHANGED <<token, pc, opened, ended, forks, lost>>
       PROVE  SessionsAccounted'
  BY <1>12, <1>tok, <1>pcs DEF SessionsAccounted
<1>13. ASSUME NEW t \in Tokens, Expire(t) PROVE SessionsAccounted'
  BY <1>13, <1>12 DEF Expire
<1>14. ASSUME NEW r \in ResetTokens, RequestReset(r) \/ Lapse(r)
       PROVE  SessionsAccounted'
  BY <1>14, <1>12 DEF RequestReset, Lapse
<1>15. CASE UNCHANGED vars
  BY <1>15, <1>12 DEF vars
<1> QED
  BY <1>1, <1>2, <1>4, <1>5, <1>6, <1>7, <1>8, <1>9, <1>10, <1>11, <1>13,
     <1>14, <1>15
  DEF Next

(* Every live token is a login's, or that of a rotation still to retire    *)
(* its predecessor, that came second or was cut short                      *)
(* (token.service.ts:63-86).                                               *)
THEOREM SessionCount == Spec => []SessionsAccounted
<1>1. Init => SessionsAccounted
  <2> SUFFICES ASSUME Init PROVE SessionsAccounted
    OBVIOUS
  <2>1. Live = {} /\ Retiring = {}
    BY DEF Init, Live, Retiring
  <2> QED BY <2>1, FS_EmptySet DEF Init, SessionsAccounted
<1> QED BY <1>1, TypeCorrect, NextAccounted, PTL DEF Spec

-----------------------------------------------------------------------------
(***************************************************************************)
(* Sessions of an old password.                                            *)
(***************************************************************************)
LEMMA NextOldSession ==
  TypeOK /\ OldSessionNeedsRace /\ [Next]_vars => OldSessionNeedsRace'
<1> SUFFICES ASSUME TypeOK, OldSessionNeedsRace, [Next]_vars,
                    NEW s \in Tokens, token'[s] = "live", version'[s] < password',
                    s \notin late', ~(unrevoked' > 0)
             PROVE  \E p \in Requests : pc'[p] = "revoke"
  BY DEF OldSessionNeedsRace, Live
<1> USE DEF TypeOK, rows, req, counts, ghosts
(* While it stays old and live, the race has to be found before the step.  *)
<1>before. ASSUME token[s] = "live", version[s] < password, s \notin late,
                  ~(unrevoked > 0)
           PROVE  \E p \in Requests : pc[p] = "revoke"
  BY <1>before DEF OldSessionNeedsRace, Live
<1>1. CASE LogoutEverywhere
  BY <1>1 DEF LogoutEverywhere, RevokeAll, Live
<1>2. ASSUME NEW t \in Tokens, Logout(t) \/ Expire(t)
      PROVE  \E p \in Requests : pc'[p] = "revoke"
  BY <1>2, <1>before DEF Logout, Expire
<1>3. ASSUME NEW r \in ResetTokens, RequestReset(r) \/ Lapse(r)
      PROVE  \E p \in Requests : pc'[p] = "revoke"
  BY <1>3, <1>before DEF RequestReset, Lapse
<1>4. ASSUME NEW p \in Requests, LoginCheck(p)
      PROVE  \E q \in Requests : pc'[q] = "revoke"
  BY <1>4, <1>before DEF LoginCheck
<1>5. ASSUME NEW p \in Requests, RotateRetire(p)
      PROVE  \E q \in Requests : pc'[q] = "revoke"
  BY <1>5, <1>before DEF RotateRetire, Done
<1>6. ASSUME NEW p \in Requests, ResetApply(p)
      PROVE  \E q \in Requests : pc'[q] = "revoke"
  BY <1>6 DEF ResetApply
<1>7. ASSUME NEW p \in Requests, ResetRevoke(p)
      PROVE  \E q \in Requests : pc'[q] = "revoke"
  BY <1>7 DEF ResetRevoke, RevokeAll, Live
<1>8. ASSUME NEW p \in Requests, Crash(p)
      PROVE  \E q \in Requests : pc'[q] = "revoke"
  BY <1>8, <1>before DEF Crash, Done
<1>9. ASSUME NEW p \in Requests, NEW t \in Tokens, LoginIssue(p, t)
      PROVE  \E q \in Requests : pc'[q] = "revoke"
  BY <1>9, <1>before DEF LoginIssue, Insert, Done
<1>10. ASSUME NEW p \in Requests, NEW t \in Tokens, RotateCheck(p, t)
       PROVE  \E q \in Requests : pc'[q] = "revoke"
  BY <1>10, <1>before DEF RotateCheck
<1>11. ASSUME NEW p \in Requests, NEW t \in Tokens, RotateIssue(p, t)
       PROVE  \E q \in Requests : pc'[q] = "revoke"
  BY <1>11, <1>before DEF RotateIssue, Insert
<1>12. ASSUME NEW p \in Requests, NEW r \in ResetTokens, ResetFind(p, r)
       PROVE  \E q \in Requests : pc'[q] = "revoke"
  BY <1>12, <1>before DEF ResetFind
<1>13. CASE UNCHANGED vars
  BY <1>13, <1>before DEF vars
<1> QED
  BY <1>1, <1>2, <1>3, <1>4, <1>5, <1>6, <1>7, <1>8, <1>9, <1>10, <1>11,
     <1>12, <1>13
  DEF Next

(* A session of an old password is live only while a reset has still to    *)
(* end the sessions, after one that was cut short, or if it was issued     *)
(* after the change (password.service.ts:77-87).                           *)
THEOREM OldSessionsExplained == Spec => []OldSessionNeedsRace
<1>1. Init => OldSessionNeedsRace
  BY DEF Init, OldSessionNeedsRace, Live
<1> QED BY <1>1, TypeCorrect, NextOldSession, PTL DEF Spec

-----------------------------------------------------------------------------
(***************************************************************************)
(* The chain of replaced tokens.  A token in hand is issued, and nothing   *)
(* but the request that holds it will make it a successor.                 *)
(***************************************************************************)
HeldFresh ==
  \A p \in Requests :
    pc[p] = "retire" =>
      /\ token[new[p]] # "free"
      /\ \A s \in Tokens : replacedBy[s] # new[p]
      /\ \A q \in Requests \ {p} : pc[q] = "retire" => new[q] # new[p]

ChainInv == ChainSound /\ HeldFresh

LEMMA NextChain == TypeOK /\ ChainInv /\ [Next]_vars => ChainInv'
<1> SUFFICES ASSUME TypeOK, ChainInv, [Next]_vars PROVE ChainInv'
  OBVIOUS
<1> USE ConstantsAssumption DEF TypeOK, ChainInv, ChainSound, HeldFresh, rows, req, counts, ghosts
(* Steps that link nothing and only revoke tokens.                         *)
<1>quiet. ASSUME UNCHANGED <<replacedBy, new>>,
                 \A t \in Tokens : token[t] = "revoked" => token'[t] = "revoked",
                 \A t \in Tokens : token[t] # "free" => token'[t] # "free",
                 \A p \in Requests : pc'[p] = "retire" => pc[p] = "retire"
          PROVE  ChainInv'
  BY <1>quiet
<1>1. CASE LogoutEverywhere
  BY <1>1, <1>quiet DEF LogoutEverywhere, RevokeAll, Live
<1>2. ASSUME NEW t \in Tokens, Logout(t) \/ Expire(t) PROVE ChainInv'
  BY <1>2, <1>quiet DEF Logout, Expire
<1>3. ASSUME NEW r \in ResetTokens, RequestReset(r) \/ Lapse(r) PROVE ChainInv'
  BY <1>3, <1>quiet DEF RequestReset, Lapse
<1>4. ASSUME NEW p \in Requests, LoginCheck(p) PROVE ChainInv'
  BY <1>4, <1>quiet DEF LoginCheck
<1>5. ASSUME NEW p \in Requests, RotateRetire(p) PROVE ChainInv'
  <2> DEFINE o == old[p]
             n == new[p]
  <2>1. /\ pc[p] = "retire" /\ o \in Tokens /\ n \in Tokens
        /\ token' = [token EXCEPT ![o] = "revoked"]
        /\ replacedBy' = [replacedBy EXCEPT ![o] = n]
        /\ new' = [new EXCEPT ![p] = None]
        /\ pc' = [pc EXCEPT ![p] = "idle"]
    BY <1>5 DEF RotateRetire, Done
  <2> HIDE DEF o
  <2>2. ChainSound'
    BY <2>1
  <2>3. HeldFresh'
    BY <2>1
  <2> QED BY <2>2, <2>3
<1>6. ASSUME NEW p \in Requests, ResetApply(p) PROVE ChainInv'
  BY <1>6, <1>quiet DEF ResetApply
<1>7. ASSUME NEW p \in Requests, ResetRevoke(p) PROVE ChainInv'
  BY <1>7 DEF ResetRevoke, RevokeAll, Live, Done
<1>8. ASSUME NEW p \in Requests, Crash(p) PROVE ChainInv'
  BY <1>8 DEF Crash, Done
<1>9. ASSUME NEW p \in Requests, NEW t \in Tokens, LoginIssue(p, t) PROVE ChainInv'
  BY <1>9 DEF LoginIssue, Insert, Done
<1>10. ASSUME NEW p \in Requests, NEW t \in Tokens, RotateCheck(p, t) PROVE ChainInv'
  BY <1>10, <1>quiet DEF RotateCheck
<1>11. ASSUME NEW p \in Requests, NEW t \in Tokens, RotateIssue(p, t) PROVE ChainInv'
  BY <1>11 DEF RotateIssue, Insert
<1>12. ASSUME NEW p \in Requests, NEW r \in ResetTokens, ResetFind(p, r) PROVE ChainInv'
  BY <1>12, <1>quiet DEF ResetFind
<1>13. CASE UNCHANGED vars
  BY <1>13 DEF vars
<1> HIDE DEF ChainInv
<1> QED
  BY <1>1, <1>2, <1>3, <1>4, <1>5, <1>6, <1>7, <1>8, <1>9, <1>10, <1>11,
     <1>12, <1>13
  DEF Next

(* The links of rotation form chains: no token succeeds two others, and a  *)
(* token that has a successor is revoked (token.service.ts:81-84).         *)
THEOREM ChainsNeverMerge == Spec => []ChainSound
<1>1. Init => ChainInv
  BY DEF Init, ChainInv, ChainSound, HeldFresh
<1>2. Spec => []ChainInv
  BY <1>1, TypeCorrect, NextChain, PTL DEF Spec
<1> QED BY <1>2, PTL DEF ChainInv

-----------------------------------------------------------------------------
(***************************************************************************)
(* Idempotency keys.  An operation's effects, and the handlers under way   *)
(* that may still have one, are paid for by the key in Redis, the ends it  *)
(* has come to and the failures that let a request pass.                   *)
(***************************************************************************)
Handling(u, k) ==
  {p \in Requests : keyed[p].at = "handle" /\ keyed[p].user = u /\ keyed[p].key = k}

KeyTypes ==
  /\ keyed \in [Requests -> {K!Idle} \cup [at : {"ask", "handle"}, user : Users, key : Keys]]
  /\ done \in [K!Pairs -> Nat] /\ let \in [K!Pairs -> Nat]
  /\ lapses \in [K!RedisKeys -> Nat] /\ taken \subseteq K!RedisKeys

PaidFor(u, k) ==
  done[<<u, k>>] + Cardinality(Handling(u, k))
    <= lapses[K!KeyOf(u, k)] + let[<<u, k>>] + In(K!KeyOf(u, k), taken)

KeyInv == KeyTypes /\ \A u \in Users, k \in Keys : PaidFor(u, k)

LEMMA NextKeyTypes == KeyTypes /\ [K!Next]_keyVars => KeyTypes'
<1> SUFFICES ASSUME KeyTypes, [K!Next]_keyVars PROVE KeyTypes'
  OBVIOUS
<1> USE DEF KeyTypes, K!Pairs, K!RedisKeys, K!KeyOf, K!Idle
<1>1. ASSUME NEW p \in Requests, NEW u \in Users, NEW k \in Keys, K!Send(p, u, k)
      PROVE  KeyTypes'
  BY <1>1 DEF K!Send
<1>2. ASSUME NEW p \in Requests, K!Acquire(p) PROVE KeyTypes'
  <2>1. keyed[p].user \in Users /\ keyed[p].key \in Keys
    BY <1>2 DEF K!Acquire
  <2>2. /\ keyed' \in [Requests -> {K!Idle} \cup [at : {"ask", "handle"}, user : Users, key : Keys]]
        /\ UNCHANGED <<done, lapses>>
    BY <1>2 DEF K!Acquire, K!Admit
  <2>3. \/ UNCHANGED let
        \/ let' = [let EXCEPT ![<<keyed[p].user, keyed[p].key>>] = @ + 1]
    BY <1>2 DEF K!Acquire
  <2>4. UNCHANGED taken \/ taken' = taken \cup {K!KeyOf(keyed[p].user, keyed[p].key)}
    BY <1>2 DEF K!Acquire
  <2>5. taken' \subseteq K!RedisKeys
    BY <2>1, <2>4
  <2>6. let' \in [K!Pairs -> Nat]
    BY <2>1, <2>3
  <2> QED BY <2>2, <2>5, <2>6
<1>3. ASSUME NEW p \in Requests, K!Handle(p) PROVE KeyTypes'
  <2>1. <<keyed[p].user, keyed[p].key>> \in K!Pairs
    BY <1>3 DEF K!Handle
  <2>2. keyed' = [keyed EXCEPT ![p] = K!Idle] /\ UNCHANGED <<let, lapses, taken>>
    BY <1>3 DEF K!Handle
  <2>3. \/ UNCHANGED done
        \/ done' = [done EXCEPT ![<<keyed[p].user, keyed[p].key>>] = @ + 1]
    BY <1>3 DEF K!Handle
  <2>4. done' \in [K!Pairs -> Nat]
    BY <2>1, <2>3
  <2> QED BY <2>2, <2>4
<1>4. ASSUME NEW rk \in K!RedisKeys, K!Lapse(rk) PROVE KeyTypes'
  BY <1>4 DEF K!Lapse
<1>5. CASE UNCHANGED keyVars
  BY <1>5 DEF keyVars
<1> HIDE DEF KeyTypes, K!RedisKeys
<1> QED BY <1>1, <1>2, <1>3, <1>4, <1>5 DEF K!Next

(* What a step of one request does to those in a handler.                  *)
LEMMA HandlingMoves ==
  ASSUME KeyTypes, NEW p \in Requests, NEW u, NEW k,
         \A q \in Requests \ {p} : keyed'[q] = keyed[q]
  PROVE  /\ Cardinality(Handling(u, k)) \in Nat
         /\ Cardinality(Handling(u, k)') =
              Cardinality(Handling(u, k)) + In(p, Handling(u, k)') - In(p, Handling(u, k))
<1> DEFINE S == Handling(u, k)
           T == Handling(u, k)'
<1>1. IsFiniteSet(S)
  BY ConstantsAssumption, FS_Subset DEF Handling
<1>2. S \ {p} = T \ {p}
  BY DEF Handling
<1> HIDE DEF S, T
<1>3. Cardinality(S) \in Nat /\ Cardinality(T) = Cardinality(S) + In(p, T) - In(p, S)
  BY <1>1, <1>2, OneElement
<1> QED BY <1>3 DEF S, T

LEMMA NextPaidFor ==
  ASSUME KeyInv, [K!Next]_keyVars, NEW u \in Users, NEW k \in Keys
  PROVE  PaidFor(u, k)'
<1> DEFINE n == Cardinality(Handling(u, k))
           rk == K!KeyOf(u, k)
           x == <<u, k>>
<1>types. /\ KeyTypes /\ rk \in K!RedisKeys /\ x \in K!Pairs
          /\ done[x] \in Nat /\ lapses[rk] \in Nat /\ let[x] \in Nat
          /\ In(rk, taken) \in 0 .. 1 /\ In(rk, taken)' \in 0 .. 1
          /\ done[x] + n <= lapses[rk] + let[x] + In(rk, taken)
  BY DEF KeyInv, KeyTypes, K!RedisKeys, K!Pairs, PaidFor, In
<1>n. ASSUME UNCHANGED keyed PROVE Cardinality(Handling(u, k)') = n
  BY <1>n DEF Handling
<1>nat. n \in Nat
  <2> IsFiniteSet(Handling(u, k))
    BY ConstantsAssumption, FS_Subset DEF Handling
  <2> QED BY FS_CardinalityType
<1>1. ASSUME NEW p \in Requests, NEW v \in Users, NEW l \in Keys, K!Send(p, v, l)
      PROVE  PaidFor(u, k)'
  <2>1. /\ \A q \in Requests \ {p} : keyed'[q] = keyed[q]
        /\ p \notin Handling(u, k) /\ p \notin Handling(u, k)'
    BY <1>1, <1>types DEF K!Send, K!Idle, Handling, KeyTypes
  <2>2. Cardinality(Handling(u, k)') = n
    BY <2>1, <1>types, <1>nat, HandlingMoves DEF In
  <2> QED BY <1>1, <2>2, <1>types DEF K!Send, PaidFor
<1>2. ASSUME NEW p \in Requests, K!Acquire(p) PROVE PaidFor(u, k)'
  <2> DEFINE mine == keyed[p].user = u /\ keyed[p].key = k
  <2>1. \A q \in Requests \ {p} : keyed'[q] = keyed[q]
    BY <1>2, <1>types DEF K!Acquire, K!Admit, KeyTypes
  <2>2. p \notin Handling(u, k)
    BY <1>2 DEF K!Acquire, Handling
  <2>3. Cardinality(Handling(u, k)') = n + In(p, Handling(u, k)')
    BY <2>1, <2>2, <1>types, <1>nat, HandlingMoves DEF In
  <2>4. p \in Handling(u, k)' => mine
    BY <1>2, <1>types DEF K!Acquire, K!Admit, Handling, KeyTypes, K!Idle
  <2>5. UNCHANGED <<done, lapses>>
    BY <1>2 DEF K!Acquire
  <2>6. CASE /\ K!Free(K!KeyOf(keyed[p].user, keyed[p].key)) /\ UNCHANGED let
             /\ taken' = taken \cup {K!KeyOf(keyed[p].user, keyed[p].key)}
    <3>1. CASE mine
      <4>1. In(rk, taken) = 0 /\ In(rk, taken)' = 1
        BY <2>6, <3>1 DEF K!Free, In
      <4> QED BY <4>1, <2>3, <2>5, <2>6, <1>types, <1>nat DEF PaidFor, In
    <3>2. CASE ~mine
      <4>1. In(rk, taken)' >= In(rk, taken)
        BY <2>6 DEF In
      <4>2. Cardinality(Handling(u, k)') = n
        BY <2>3, <2>4, <3>2, <1>nat DEF In
      <4> QED BY <4>1, <4>2, <2>5, <2>6, <1>types, <1>nat DEF PaidFor
    <3> QED BY <3>1, <3>2
  <2>7. CASE UNCHANGED <<taken, let>> /\ keyed' = [keyed EXCEPT ![p] = K!Idle]
    <3>1. p \notin Handling(u, k)'
      BY <2>7, <1>types DEF KeyTypes, Handling, K!Idle
    <3>2. Cardinality(Handling(u, k)') = n
      BY <2>3, <3>1, <1>nat DEF In
    <3> QED BY <3>2, <2>5, <2>7, <1>types DEF PaidFor
  <2>8. CASE /\ let' = [let EXCEPT ![<<keyed[p].user, keyed[p].key>>] = @ + 1]
             /\ taken \subseteq taken'
    <3>1. In(rk, taken)' >= In(rk, taken)
      BY <2>8 DEF In
    <3>2. CASE mine
      <4>1. let'[x] = let[x] + 1
        BY <2>8, <3>2, <1>types DEF KeyTypes
      <4> QED BY <4>1, <3>1, <2>3, <2>5, <1>types, <1>nat DEF PaidFor, In
    <3>3. CASE ~mine
      <4>1. let'[x] = let[x]
        BY <2>8, <3>3, <1>types DEF KeyTypes
      <4>2. Cardinality(Handling(u, k)') = n
        BY <2>3, <2>4, <3>3, <1>nat DEF In
      <4> QED BY <4>1, <4>2, <3>1, <2>5, <1>types, <1>nat DEF PaidFor
    <3> QED BY <3>2, <3>3
  <2> QED BY <1>2, <2>6, <2>7, <2>8 DEF K!Acquire
<1>3. ASSUME NEW p \in Requests, K!Handle(p) PROVE PaidFor(u, k)'
  <2>1. /\ \A q \in Requests \ {p} : keyed'[q] = keyed[q]
        /\ p \notin Handling(u, k)' /\ UNCHANGED <<taken, lapses, let>>
        /\ p \in Handling(u, k) <=> keyed[p].user = u /\ keyed[p].key = k
    BY <1>3, <1>types DEF K!Handle, K!Idle, Handling, KeyTypes
  <2>2. Cardinality(Handling(u, k)') = n - In(p, Handling(u, k))
    BY <2>1, <1>types, <1>nat, HandlingMoves DEF In
  <2>3. keyed[p].user \in Users /\ keyed[p].key \in Keys
    BY <1>3, <1>types DEF K!Handle, KeyTypes, K!Idle
  <2>4. done'[x] <= done[x] + In(p, Handling(u, k))
    BY <1>3, <2>1, <2>3, <1>types DEF K!Handle, KeyTypes, In
  <2>5. done'[x] \in Nat
    BY <1>types, NextKeyTypes DEF KeyTypes
  <2> QED BY <2>1, <2>2, <2>4, <2>5, <1>types, <1>nat DEF PaidFor, In
<1>4. ASSUME NEW l \in K!RedisKeys, K!Lapse(l) PROVE PaidFor(u, k)'
  <2>1. Cardinality(Handling(u, k)') = n /\ UNCHANGED <<done, let>>
    BY <1>4, <1>n DEF K!Lapse
  <2>2. lapses'[rk] + In(rk, taken)' = lapses[rk] + In(rk, taken)
    BY <1>4, <1>types DEF K!Lapse, KeyTypes, In
  <2>3. lapses'[rk] \in Nat
    BY <1>types, NextKeyTypes DEF KeyTypes
  <2> QED BY <2>1, <2>2, <2>3, <1>types, <1>nat DEF PaidFor
<1>5. CASE UNCHANGED keyVars
  BY <1>5, <1>n, <1>types DEF keyVars, PaidFor
<1> QED BY <1>1, <1>2, <1>3, <1>4, <1>5 DEF K!Next

LEMMA NextKeyInv == KeyInv /\ [K!Next]_keyVars => KeyInv'
<1> SUFFICES ASSUME KeyInv, [K!Next]_keyVars PROVE KeyInv'
  OBVIOUS
<1>1. KeyTypes'
  BY NextKeyTypes DEF KeyInv
<1>2. \A u \in Users, k \in Keys : PaidFor(u, k)'
  BY NextPaidFor
<1> QED BY <1>1, <1>2 DEF KeyInv

(* An operation sent again and again takes effect once, and once more at   *)
(* most for each end of its key and each failure of Redis, whoever else    *)
(* uses the same key (idempotency.interceptor.ts:21-22).                   *)
THEOREM KeysHoldBack == AllSpec => []OncePerWindow
<1>1. AllInit => KeyInv
  <2> SUFFICES ASSUME K!Init PROVE KeyInv
    BY DEF AllInit
  <2>1. KeyTypes
    BY DEF K!Init, KeyTypes, K!Pairs, K!RedisKeys
  <2>2. ASSUME NEW u \in Users, NEW k \in Keys PROVE PaidFor(u, k)
    <3>1. Handling(u, k) = {}
      BY DEF K!Init, Handling, K!Idle
    <3>2. Cardinality(Handling(u, k)) = 0 /\ In(K!KeyOf(u, k), taken) = 0
      BY <3>1, FS_EmptySet DEF In, K!Init
    <3>3. done[<<u, k>>] = 0 /\ let[<<u, k>>] = 0 /\ lapses[K!KeyOf(u, k)] = 0
      BY DEF K!Init, K!Pairs, K!RedisKeys
    <3> QED BY <3>2, <3>3 DEF PaidFor
  <2> QED BY <2>1, <2>2 DEF KeyInv
<1>2. KeyInv /\ [Step]_<<what, vars, keyVars, reviewVars, pictureVars>> => KeyInv'
  BY NextKeyInv DEF Step
<1>3. KeyInv => OncePerWindow
  <2> SUFFICES ASSUME KeyInv, NEW u \in Users, NEW k \in Keys
               PROVE  done[<<u, k>>] <= 1 + lapses[K!KeyOf(u, k)] + let[<<u, k>>]
    BY DEF OncePerWindow, K!OncePerWindow
  <2>1. IsFiniteSet(Handling(u, k))
    BY ConstantsAssumption, FS_Subset DEF Handling
  <2>2. Cardinality(Handling(u, k)) \in Nat
    BY <2>1, FS_CardinalityType
  <2>3. /\ done[<<u, k>>] \in Nat /\ lapses[K!KeyOf(u, k)] \in Nat /\ let[<<u, k>>] \in Nat
        /\ PaidFor(u, k) /\ In(K!KeyOf(u, k), taken) \in 0 .. 1
    BY DEF KeyInv, KeyTypes, K!Pairs, K!RedisKeys, In
  <2> QED BY <2>2, <2>3 DEF PaidFor
<1> QED BY <1>1, <1>2, <1>3, PTL DEF AllSpec

-----------------------------------------------------------------------------
(***************************************************************************)
(* Reports.  What a review still holds to be done when it has come to its  *)
(* save is done, and stays so: content does not come back.                 *)
(***************************************************************************)
Gone == targetType = "content" /\ ~there
Deleted(actions) == "deleteContent" \in actions => Gone
Carried(actions) == Deleted(actions) /\ ("banUser" \in actions => banned)

Records == [at : M!Points, report : Reporters, status : M!Statuses, actions : SUBSET M!Actions]
Keeps(p) ==
  /\ review[p].at \in {"resolve", "ban"} => Deleted(review[p].actions)
  /\ review[p].at \in {"save", "mail"} => Carried(review[p].actions)
ReviewInv ==
  /\ review \in [Requests -> {M!Idle} \cup Records]
  /\ Carried(claimed) /\ \A p \in Requests : Keeps(p)

(* Neither what is gone nor who was banned once is undone.                 *)
LEMMA NothingUndone ==
  [M!Next]_reviewVars => (Gone => Gone') /\ (banned => banned')
<1> SUFFICES ASSUME [M!Next]_reviewVars PROVE (Gone => Gone') /\ (banned => banned')
  OBVIOUS
<1>1. /\ targetType' = targetType
      /\ there' = there \/ there' = FALSE
      /\ banned' = banned \/ banned' = TRUE
  BY DEF M!Next, reviewVars, M!target, M!AssertTargetExists, M!Review, M!FindDuplicate, M!Create,
         M!DeleteTarget, M!ResolveOwner, M!BanTargetUser, M!Save, M!NotifyReporter, M!Break,
         M!Remove, M!Unban
<1>2. CASE there' = there
  <2> Gone => Gone'
    BY <1>1, <1>2, Zenon DEF Gone
  <2> banned => banned'
    BY <1>1, Zenon
  <2> QED OBVIOUS
<1>3. CASE there' = FALSE
  <2> Gone => Gone'
    BY <1>1, <1>3, Zenon DEF Gone
  <2> banned => banned'
    BY <1>1, Zenon
  <2> QED OBVIOUS
<1> QED BY <1>1, <1>2, <1>3

(* A step of one request, to a record that fits.                           *)
LEMMA ReviewMoves ==
  ASSUME ReviewInv, [M!Next]_reviewVars,
         NEW p \in Requests, NEW step \in {M!Idle} \cup Records,
         review' = [review EXCEPT ![p] = step], Carried(claimed)',
         step.at \in {"resolve", "ban"} => Deleted(step.actions)',
         step.at \in {"save", "mail"} => Carried(step.actions)'
  PROVE  ReviewInv'
<1>1. /\ review' \in [Requests -> {M!Idle} \cup Records] /\ review'[p] = step
      /\ \A q \in Requests \ {p} : review'[q] = review[q]
  BY DEF ReviewInv
<1>2. ASSUME NEW q \in Requests PROVE Keeps(q)'
  <2>1. CASE q = p
    BY <1>1, <2>1 DEF Keeps
  <2>2. CASE q # p
    <3>1. Keeps(q) /\ review'[q] = review[q]
      BY <1>1, <2>2 DEF ReviewInv
    <3> QED BY <3>1, NothingUndone DEF Keeps, Carried, Deleted
  <2> QED BY <2>1, <2>2
<1> QED BY <1>1, <1>2 DEF ReviewInv

LEMMA ClaimsStay == ReviewInv /\ [M!Next]_reviewVars /\ UNCHANGED claimed => Carried(claimed)'
  BY NothingUndone DEF ReviewInv, Carried, Deleted

LEMMA NextReviewInv == ReviewInv /\ [M!Next]_reviewVars => ReviewInv'
<1> SUFFICES ASSUME ReviewInv, [M!Next]_reviewVars PROVE ReviewInv'
  OBVIOUS
<1>undone. (Gone => Gone') /\ (banned => banned')
  BY NothingUndone
<1>r. ASSUME NEW p \in Requests, review[p].at # "idle" PROVE review[p] \in Records
  BY <1>r DEF ReviewInv, M!Idle
<1>at. ASSUME NEW p \in Requests, review[p].at # "idle", NEW at \in M!Points, UNCHANGED claimed,
              review' = [review EXCEPT ![p].at = at], NEW a, a = review[p].actions,
              at \in {"resolve", "ban"} => Deleted(a)',
              at \in {"save", "mail"} => Carried(a)'
       PROVE  ReviewInv'
  <2> DEFINE next == [review[p] EXCEPT !.at = at]
  <2>1. next \in Records /\ next.at = at /\ next.actions = a
    BY <1>at, <1>r DEF Records
  <2>2. PICK step \in Records : /\ review' = [review EXCEPT ![p] = step]
                               /\ step.at = at /\ step.actions = a
    BY <1>at, <2>1
  <2>3. /\ step.at \in {"resolve", "ban"} => Deleted(step.actions)'
        /\ step.at \in {"save", "mail"} => Carried(step.actions)'
    BY <1>at, <2>2 DEF Deleted, Carried
  <2>4. Carried(claimed)'
    BY <1>at, ClaimsStay
  <2> QED BY <2>2, <2>3, <2>4, ReviewMoves
<1>end. ASSUME NEW p \in Requests, review' = [review EXCEPT ![p] = M!Idle], Carried(claimed)'
        PROVE  ReviewInv'
  BY <1>end, ReviewMoves DEF M!Idle
<1>still. ASSUME UNCHANGED <<review, claimed>> PROVE ReviewInv'
  BY <1>still, <1>undone DEF ReviewInv, Keeps, Carried, Deleted
<1> USE DEF M!To, M!End, M!Points
<1>1. ASSUME NEW p \in Requests, NEW r \in Reporters, M!AssertTargetExists(p, r) PROVE ReviewInv'
  <2> DEFINE step == [M!Idle EXCEPT !.at = "duplicate", !.report = r]
  <2>1. step \in Records /\ step.at = "duplicate"
    BY DEF Records, M!Idle, M!Statuses
  <2>2. review' = [review EXCEPT ![p] = step] /\ UNCHANGED claimed
    BY <1>1 DEF M!AssertTargetExists
  <2> HIDE DEF step
  <2> QED BY <2>1, <2>2, ClaimsStay, ReviewMoves
<1>2. ASSUME NEW p \in Requests, M!FindDuplicate(p) PROVE ReviewInv'
  BY <1>2, <1>at, <1>end, ClaimsStay DEF M!FindDuplicate
<1>3. ASSUME NEW p \in Requests, M!Create(p) PROVE ReviewInv'
  BY <1>3, <1>end, ClaimsStay DEF M!Create
<1>4. ASSUME NEW p \in Requests, NEW r \in Reporters, NEW s \in M!Statuses,
             NEW a \in SUBSET M!Actions, M!Review(p, r, s, a)
      PROVE  ReviewInv'
  <2> DEFINE step == [at |-> M!After(a), report |-> r, status |-> s, actions |-> a]
  <2>1. /\ M!After(a) \in {"delete", "resolve", "save"}
        /\ M!After(a) = "resolve" => "deleteContent" \notin a
        /\ M!After(a) = "save" => "deleteContent" \notin a /\ "banUser" \notin a
    BY DEF M!After
  <2>2. step \in Records /\ step.at = M!After(a) /\ step.actions = a
    BY <2>1 DEF Records
  <2>3. review' = [review EXCEPT ![p] = step] /\ UNCHANGED claimed
    BY <1>4 DEF M!Review
  <2> HIDE DEF step
  <2>4. /\ step.at \in {"resolve", "ban"} => Deleted(step.actions)'
        /\ step.at \in {"save", "mail"} => Carried(step.actions)'
    BY <2>1, <2>2 DEF Deleted, Carried
  <2> QED BY <2>2, <2>3, <2>4, ClaimsStay, ReviewMoves
<1>5. ASSUME NEW p \in Requests, M!DeleteTarget(p) PROVE ReviewInv'
  <2> DEFINE a == review[p].actions
             at == M!After(a \ {"deleteContent"})
  <2>0. review[p].at = "delete" /\ UNCHANGED claimed
    BY <1>5 DEF M!DeleteTarget
  <2>1. CASE review' = [review EXCEPT ![p] = M!Idle]
    BY <2>0, <2>1, <1>end, ClaimsStay
  <2>2. CASE Gone' /\ review' = [review EXCEPT ![p].at = at]
    <3>1. at \in {"resolve", "save"} /\ (at = "save" => "banUser" \notin a)
      BY DEF M!After
    <3>2. /\ at \in {"resolve", "ban"} => ("deleteContent" \in a => Gone')
          /\ at \in {"save", "mail"} => ("deleteContent" \in a => Gone') /\ ("banUser" \in a => banned')
      BY <2>2, <3>1
    <3> HIDE DEF at
    <3> QED BY <2>0, <2>2, <3>1, <3>2, <1>at DEF Deleted, Carried
  <2>3. \/ review' = [review EXCEPT ![p] = M!Idle]
        \/ /\ targetType' = "content" /\ there' = FALSE
           /\ review' = [review EXCEPT ![p].at = at]
    BY <1>5 DEF M!DeleteTarget
  <2>4. targetType' = "content" /\ there' = FALSE => Gone'
    BY Zenon DEF Gone
  <2> QED BY <2>1, <2>2, <2>3, <2>4
<1>6. ASSUME NEW p \in Requests, M!ResolveOwner(p) PROVE ReviewInv'
  <2>1. /\ review[p].at = "resolve" /\ Deleted(review[p].actions) /\ UNCHANGED claimed
    BY <1>6 DEF M!ResolveOwner, M!target, ReviewInv, Keeps
  <2>2. \/ review' = [review EXCEPT ![p].at = "ban"]
        \/ review' = [review EXCEPT ![p] = M!Idle]
    BY <1>6 DEF M!ResolveOwner
  <2> QED BY <2>1, <2>2, <1>at, <1>end, <1>undone, ClaimsStay DEF Deleted
<1>7. ASSUME NEW p \in Requests, M!BanTargetUser(p) PROVE ReviewInv'
  <2>1. review[p].at = "ban" /\ Deleted(review[p].actions) /\ UNCHANGED claimed
    BY <1>7 DEF M!BanTargetUser, ReviewInv, Keeps
  <2>2. \/ review' = [review EXCEPT ![p].at = "save"] /\ banned' = TRUE
        \/ review' = [review EXCEPT ![p] = M!Idle]
    BY <1>7 DEF M!BanTargetUser
  <2>3. CASE review' = [review EXCEPT ![p].at = "save"] /\ banned'
    BY <2>1, <2>3, <1>at, <1>undone DEF Deleted, Carried
  <2>4. CASE review' = [review EXCEPT ![p] = M!Idle]
    BY <2>1, <2>4, <1>end, ClaimsStay
  <2> QED BY <2>2, <2>3, <2>4, Zenon
<1>8. ASSUME NEW p \in Requests, M!Save(p) PROVE ReviewInv'
  <2> DEFINE a == review[p].actions
             step == [review[p] EXCEPT !.at = "mail"]
  <2>1. review[p].at = "save" /\ Carried(a) /\ claimed' = claimed \cup a
    BY <1>8 DEF M!Save, ReviewInv, Keeps
  <2>2. /\ "deleteContent" \in a => Gone'
        /\ "banUser" \in a => banned'
    BY <2>1, <1>undone DEF Carried, Deleted
  <2>3. Carried(claimed)'
    BY <2>1, <2>2, <1>undone DEF ReviewInv, Carried, Deleted
  <2>4. \/ review' = [review EXCEPT ![p] = step]
        \/ review' = [review EXCEPT ![p] = M!Idle]
    BY <1>8 DEF M!Save
  <2>5. step \in Records /\ step.at = "mail" /\ step.actions = a
    BY <2>1, <1>r DEF Records
  <2> HIDE DEF step, a
  <2>6. CASE review' = [review EXCEPT ![p] = step]
    BY <2>2, <2>3, <2>5, <2>6, ReviewMoves DEF Deleted, Carried
  <2> QED BY <2>3, <2>4, <2>6, <1>end
<1>9. ASSUME NEW p \in Requests, M!NotifyReporter(p) PROVE ReviewInv'
  <2>1. /\ review' = [review EXCEPT ![p] = M!Idle] /\ Carried(review[p].actions)
        /\ claimed' = claimed \cup review[p].actions
    BY <1>9 DEF M!NotifyReporter, ReviewInv, Keeps
  <2>2. Carried(claimed)'
    BY <2>1, <1>undone DEF ReviewInv, Carried, Deleted
  <2> QED BY <2>1, <2>2, <1>end
<1>10. ASSUME NEW p \in Requests, M!Break(p) PROVE ReviewInv'
  BY <1>10, <1>end, ClaimsStay DEF M!Break
<1>11. CASE M!Remove
  BY <1>11, <1>still DEF M!Remove
<1>12. CASE M!Unban
  BY <1>12, <1>still DEF M!Unban
<1>13. CASE UNCHANGED reviewVars
  BY <1>13, <1>still DEF reviewVars
<1> QED
  BY <1>1, <1>2, <1>3, <1>4, <1>5, <1>6, <1>7, <1>8, <1>9, <1>10, <1>11, <1>12, <1>13 DEF M!Next

(* When a report is set to Actioned, and when its reporter is told, the    *)
(* content is gone and the ban has been set, whoever else reviews, deletes *)
(* or fails (reports.service.ts:105-108, :194-203).                        *)
THEOREM ActionsAreTaken == AllSpec => []ActionedIsTrue
<1>1. AllInit => ReviewInv
  BY DEF AllInit, M!Init, ReviewInv, M!Idle, Carried, Deleted, Keeps
<1>2. ReviewInv /\ [Step]_<<what, vars, keyVars, reviewVars, pictureVars>> => ReviewInv'
  BY NextReviewInv DEF Step
<1>3. ReviewInv => ActionedIsTrue
  BY DEF ReviewInv, Carried, Deleted, Gone, ActionedIsTrue, M!ActionedIsTrue
<1> QED BY <1>1, <1>2, <1>3, PTL DEF AllSpec

-----------------------------------------------------------------------------
(***************************************************************************)
(* Pictures.  What a request or a run carries fits what is stored; and as  *)
(* long as no write has crossed another, what somebody has read of the row *)
(* is still what the row says when he writes.                              *)
(***************************************************************************)
URLs == {"own", "provider", "mirror", "given"} \X Nat
PictureRows == [id : Nat, url : {None} \cup URLs, source : {None} \cup Nat, locked : BOOLEAN]
Uploads ==
  {P!Idle} \cup [at : {"store"}, id : Nat, from : {"file", "url"}] \cup [at : {"write"}, id : Nat]
    \cup [at : {"save"}, id : Nat, url : {None} \cup URLs] \cup [at : {"clear"}]
Runs ==
  {P!Idle} \cup [at : {"mirror", "write"}, source : Nat, id : {None} \cup Nat, url : {None} \cup URLs]

PictureTypes ==
  /\ row \in {None} \cup PictureRows /\ made \in Nat /\ offered \in Nat
  /\ upload \in [Requests -> Uploads] /\ run \in [Workers -> Runs] /\ crossed \in BOOLEAN

Stands(id, url) ==
  /\ url = P!Own(id) => id \in stored
  /\ url = P!Mirror => mirrored # None
UploadFits(r) ==
  /\ upload[r].at = "write" => upload[r].id \in stored
  /\ upload[r].at = "save" => Stands(upload[r].id, upload[r].url)
  /\ upload[r].at = "clear" => kind = "profile"
RunFits(w) ==
  run[w] # P!Idle =>
    /\ kind = "catalogue" /\ run[w].source <= offered
    /\ \A i \in Nat : run[w].url # P!Own(i)
    /\ run[w].url = P!Mirror => mirrored # None
    /\ run[w].at = "mirror" \/ run[w].id = None => run[w].url # None
RowFits ==
  row # None =>
    /\ Stands(row.id, row.url)
    /\ IF kind = "catalogue" THEN row.source \in Nat /\ row.source <= offered
       ELSE row.source = None /\ ~row.locked

Resolving(w) == run[w] # P!Idle /\ run[w].url # None
(* As long as nothing has crossed.                                         *)
Shows ==
  row # None =>
    /\ row.locked => row.url \in {P!Own(row.id), P!Given}
    /\ row.url = P!Mirror /\ row.source = offered => mirrored = row.source
Opened(r) ==
  upload[r].at = "save" /\ row # None /\ row.id = upload[r].id => row.url = upload[r].url
Found(w) ==
  Resolving(w) =>
    /\ row # None => row.id = run[w].id /\ ~row.locked /\ row.source < run[w].source
    /\ run[w].url = P!Mirror => mirrored = run[w].source
Uncrossed == Shows /\ (\A r \in Requests : Opened(r)) /\ (\A w \in Workers : Found(w))

PictureInv ==
  /\ PictureTypes /\ RowFits
  /\ \A r \in Requests : UploadFits(r)
  /\ \A w \in Workers : RunFits(w)
  /\ ~crossed => Uncrossed

LEMMA NextPictureTypes == PictureTypes /\ [P!Next]_pictureVars => PictureTypes'
<1> SUFFICES ASSUME PictureTypes, [P!Next]_pictureVars PROVE PictureTypes'
  OBVIOUS
<1> USE DEF PictureTypes, Uploads, Runs, PictureRows, P!Idle, P!To, P!Run, P!Is
<1>c. crossed' \in BOOLEAN
  <2>1. \/ UNCHANGED crossed
        \/ \E r \in Requests : P!RequestWrites(r)
        \/ \E w \in Workers : P!RunWrites(w)
    BY DEF P!Next, pictureVars, P!SetImage, P!SetProfile, P!RefuseFile, P!RefuseUrl, P!Store,
       P!WriteRow, P!DeleteImage, P!FindProfile, P!ClearProfile, P!Open, P!Save, P!Find,
       P!FindInSquad, P!MirrorImage, P!Upsert, P!Break, P!Remove, P!Offer
  <2> QED BY <2>1, Zenon DEF P!RequestWrites, P!RunWrites
<1>url. /\ P!Given \in URLs /\ P!Mirror \in URLs
        /\ \A i \in Nat : P!Own(i) \in URLs /\ P!Provider(i) \in URLs
  BY DEF URLs, P!Given, P!Mirror, P!Own, P!Provider
<1>1. ASSUME NEW r \in Requests, P!SetImage(r) PROVE PictureTypes'
  BY <1>1, <1>c DEF P!SetImage
<1>2. ASSUME NEW r \in Requests, P!SetProfile(r) PROVE PictureTypes'
  BY <1>2, <1>c DEF P!SetProfile
<1>3. ASSUME NEW r \in Requests, P!RefuseFile(r) \/ P!RefuseUrl(r) PROVE PictureTypes'
  BY <1>3, <1>c DEF P!RefuseFile, P!RefuseUrl
<1>4. ASSUME NEW r \in Requests, P!Store(r) PROVE PictureTypes'
  BY <1>4, <1>c DEF P!Store
<1>5. ASSUME NEW r \in Requests, P!WriteRow(r) PROVE PictureTypes'
  <2>1. upload[r].id \in Nat /\ P!Own(upload[r].id) \in URLs
    BY <1>5, <1>url DEF P!WriteRow
  <2>2. row' \in {None} \cup PictureRows
    BY <1>5, <2>1 DEF P!WriteRow
  <2> QED BY <1>5, <1>c, <2>2 DEF P!WriteRow
<1>6. ASSUME NEW r \in Requests, P!DeleteImage(r) PROVE PictureTypes'
  BY <1>6, <1>c DEF P!DeleteImage
<1>7. ASSUME NEW r \in Requests, P!FindProfile(r) PROVE PictureTypes'
  BY <1>7, <1>c DEF P!FindProfile
<1>8. ASSUME NEW r \in Requests, P!ClearProfile(r) PROVE PictureTypes'
  BY <1>8, <1>c DEF P!ClearProfile
<1>9. ASSUME NEW r \in Requests, P!Open(r) PROVE PictureTypes'
  BY <1>9, <1>c DEF P!Open
<1>10. ASSUME NEW r \in Requests, P!Save(r) PROVE PictureTypes'
  <2>1. upload[r].url \in {None} \cup URLs
    BY <1>10 DEF P!Save
  <2>2. row' \in {None} \cup PictureRows
    BY <1>10, <1>url, <2>1 DEF P!Save
  <2> QED BY <1>10, <1>c, <2>2 DEF P!Save
<1>11. ASSUME NEW w \in Workers, P!Find(w) PROVE PictureTypes'
  <2>1. P!Provider(offered) \in URLs
    BY <1>url
  <2>2. run' \in [Workers -> Runs]
    BY <1>11, <2>1 DEF P!Find
  <2> QED BY <1>11, <1>c, <2>2 DEF P!Find
<1>12. ASSUME NEW w \in Workers, P!FindInSquad(w) PROVE PictureTypes'
  <2>1. P!Provider(offered) \in URLs
    BY <1>url
  <2> QED BY <1>12, <1>c, <2>1 DEF P!FindInSquad
<1>13. ASSUME NEW w \in Workers, P!MirrorImage(w) PROVE PictureTypes'
  <2> DEFINE Record == [at : {"mirror", "write"}, source : Nat, id : {None} \cup Nat,
                        url : {None} \cup URLs]
  <2>1. run[w] \in Record
    BY <1>13 DEF P!MirrorImage
  <2>2. /\ [run[w] EXCEPT !.at = "write"] \in Record
        /\ [run[w] EXCEPT !.at = "write", !.url = P!Mirror] \in Record
    BY <2>1, <1>url
  <2>3. \/ run' = [run EXCEPT ![w] = [run[w] EXCEPT !.at = "write"]]
        \/ run' = [run EXCEPT ![w] = [run[w] EXCEPT !.at = "write", !.url = P!Mirror]]
    BY <1>13 DEF P!MirrorImage
  <2> HIDE DEF Record
  <2>4. run' \in [Workers -> Runs]
    BY <2>2, <2>3 DEF Record
  <2> QED BY <1>13, <1>c, <2>4 DEF P!MirrorImage
<1>14. ASSUME NEW w \in Workers, P!Upsert(w) PROVE PictureTypes'
  <2>0. run[w].url \in {None} \cup URLs /\ run[w].source \in Nat
    BY <1>14 DEF P!Upsert
  <2>1. row' \in {None} \cup PictureRows /\ made' \in Nat
    <3>1. CASE row # None /\ row' = [row EXCEPT !.url = run[w].url, !.source = run[w].source]
                          /\ UNCHANGED made
      BY <3>1, <2>0
    <3>2. CASE row' = P!NewRow(made + 1, run[w].url, run[w].source) /\ made' = made + 1
      BY <3>2, <2>0 DEF P!NewRow
    <3>3. CASE UNCHANGED <<row, made>>
      BY <3>3
    <3> QED BY <1>14, <3>1, <3>2, <3>3 DEF P!Upsert
  <2> QED BY <1>14, <1>c, <2>1 DEF P!Upsert
<1>15. ASSUME NEW w \in Workers, P!Break(w) PROVE PictureTypes'
  BY <1>15, <1>c DEF P!Break
<1>16. CASE P!Remove
  BY <1>16, <1>c DEF P!Remove
<1>17. CASE P!Offer
  BY <1>17, <1>c DEF P!Offer
<1>18. CASE UNCHANGED pictureVars
  BY <1>18 DEF pictureVars
<1> HIDE DEF PictureTypes
<1> QED
  BY <1>1, <1>2, <1>3, <1>4, <1>5, <1>6, <1>7, <1>8, <1>9, <1>10, <1>11, <1>12, <1>13, <1>14,
     <1>15, <1>16, <1>17, <1>18 DEF P!Next

(* What is not touched keeps what it fits.                                 *)
LEMMA UntouchedFits ==
  ASSUME PictureInv, UNCHANGED kind, stored \subseteq stored', mirrored # None => mirrored' # None,
         offered' \in Nat, offered <= offered'
  PROVE  /\ \A r \in Requests : UNCHANGED upload[r] => UploadFits(r)'
         /\ \A w \in Workers : UNCHANGED run[w] => RunFits(w)'
         /\ UNCHANGED row => RowFits'
<1>1. ASSUME NEW r \in Requests, UNCHANGED upload[r] PROVE UploadFits(r)'
  BY <1>1 DEF PictureInv, UploadFits, Stands
<1>2. ASSUME NEW w \in Workers, UNCHANGED run[w] PROVE RunFits(w)'
  <2>1. RunFits(w) /\ offered \in Nat /\ (run[w] # P!Idle => run[w].source \in Nat)
    BY DEF PictureInv, PictureTypes, Runs
  <2> QED BY <1>2, <2>1 DEF RunFits, P!Own, P!Mirror, P!Idle
<1>3. ASSUME UNCHANGED row PROVE RowFits'
  BY <1>3 DEF PictureInv, PictureTypes, RowFits, Stands
<1> QED BY <1>1, <1>2, <1>3

(* Who writes while others are between reading and writing crosses them.   *)
LEMMA RequestCrosses ==
  ASSUME NEW r, P!RequestWrites(r), ~crossed'
  PROVE  /\ ~crossed /\ \A w \in Workers : ~Resolving(w)
         /\ \A q \in Requests \ {r} : upload[q].at # "save"
<1>1. ~crossed /\ ~P!Pending(Requests \ {r}, Workers)
  BY Zenon DEF P!RequestWrites
<1> QED BY <1>1 DEF P!Pending, Resolving, P!Idle

LEMMA RunCrosses ==
  ASSUME NEW w, P!RunWrites(w), ~crossed'
  PROVE  /\ ~crossed /\ \A v \in Workers \ {w} : ~Resolving(v)
         /\ \A q \in Requests : upload[q].at # "save"
<1>1. ~crossed /\ ~P!Pending(Requests, Workers \ {w})
  BY Zenon DEF P!RunWrites
<1> QED BY <1>1 DEF P!Pending, Resolving, P!Idle

(* What is not touched shows what it did.                                  *)
LEMMA UntouchedShows ==
  ASSUME PictureInv, UNCHANGED <<row, mirrored, offered>>, ~crossed
  PROVE  /\ Shows'
         /\ \A r \in Requests : UNCHANGED upload[r] => Opened(r)'
         /\ \A w \in Workers : UNCHANGED run[w] => Found(w)'
<1> Uncrossed
  BY DEF PictureInv
<1> QED BY DEF Uncrossed, Shows, Opened, Found, Resolving

(* After a write that crossed nobody, nobody else has read the row.        *)
LEMMA RequestShows ==
  ASSUME NEW r \in Requests, P!RequestWrites(r), ~crossed', UNCHANGED run, upload'[r].at # "save",
         \A q \in Requests \ {r} : UNCHANGED upload[q], Shows'
  PROVE  Uncrossed'
<1>1. \A q \in Requests : Opened(q)'
  BY RequestCrosses DEF Opened
<1>2. \A w \in Workers : Found(w)'
  BY RequestCrosses DEF Found, Resolving
<1> QED BY <1>1, <1>2 DEF Uncrossed

LEMMA RunShows ==
  ASSUME NEW w \in Workers, P!RunWrites(w), ~crossed', UNCHANGED upload, Found(w)',
         \A v \in Workers \ {w} : UNCHANGED run[v], Shows'
  PROVE  Uncrossed'
<1>1. \A q \in Requests : Opened(q)'
  BY RunCrosses DEF Opened
<1>2. \A v \in Workers : Found(v)'
  BY RunCrosses DEF Found, Resolving
<1> QED BY <1>1, <1>2 DEF Uncrossed

(* A step in which nobody writes: of one request, or of one run.           *)
LEMMA RequestReads ==
  ASSUME PictureInv, PictureTypes', UNCHANGED <<kind, row, mirrored, offered, crossed, run>>,
         stored \subseteq stored', NEW r \in Requests,
         \A q \in Requests \ {r} : UNCHANGED upload[q], UploadFits(r)', Opened(r)'
  PROVE  PictureInv'
<1>1. offered \in Nat /\ offered' \in Nat /\ offered <= offered'
  BY DEF PictureInv, PictureTypes
<1>2. /\ RowFits'
      /\ \A q \in Requests : UploadFits(q)'
      /\ \A w \in Workers : RunFits(w)'
  BY <1>1, UntouchedFits
<1>3. ASSUME ~crossed' PROVE Uncrossed'
  BY <1>3, UntouchedShows DEF Uncrossed
<1> QED BY <1>2, <1>3 DEF PictureInv

LEMMA RunReads ==
  ASSUME PictureInv, PictureTypes',
         UNCHANGED <<kind, row, mirrored, offered, crossed, upload, stored>>, NEW w \in Workers,
         \A v \in Workers \ {w} : UNCHANGED run[v], RunFits(w)', Uncrossed => Found(w)'
  PROVE  PictureInv'
<1>1. offered \in Nat /\ offered' \in Nat /\ offered <= offered'
  BY DEF PictureInv, PictureTypes
<1>2. /\ RowFits'
      /\ \A q \in Requests : UploadFits(q)'
      /\ \A v \in Workers : RunFits(v)'
  BY <1>1, UntouchedFits
<1>3. ASSUME ~crossed' PROVE Uncrossed'
  <2>1. ~crossed /\ Uncrossed
    BY <1>3 DEF PictureInv
  <2> QED BY <2>1, UntouchedShows DEF Uncrossed
<1> QED BY <1>2, <1>3 DEF PictureInv

LEMMA NextPictureInv == PictureInv /\ [P!Next]_pictureVars => PictureInv'
<1> SUFFICES ASSUME PictureInv, [P!Next]_pictureVars PROVE PictureInv'
  OBVIOUS
<1>t. PictureTypes /\ PictureTypes'
  BY NextPictureTypes DEF PictureInv
<1>f. /\ RowFits /\ \A r \in Requests : UploadFits(r)
      /\ \A w \in Workers : RunFits(w)
      /\ offered \in Nat /\ upload \in [Requests -> Uploads] /\ run \in [Workers -> Runs]
      /\ row \in {None} \cup PictureRows
  BY DEF PictureInv, PictureTypes
<1>n. None \notin Nat /\ None \notin URLs
  BY NullAssumption DEF URLs
<1>1. ASSUME NEW r \in Requests, P!SetImage(r) \/ P!SetProfile(r) PROVE PictureInv'
  <2>1. /\ UNCHANGED <<kind, row, mirrored, offered, crossed, run, stored>>
        /\ \A q \in Requests \ {r} : UNCHANGED upload[q]
        /\ upload'[r].at = "store"
    BY <1>1, <1>f DEF P!SetImage, P!SetProfile, P!To
  <2>2. UploadFits(r)' /\ Opened(r)'
    BY <2>1 DEF UploadFits, Opened
  <2> QED BY <1>t, <2>1, <2>2, RequestReads
<1>2. ASSUME NEW r \in Requests, P!RefuseFile(r) \/ P!RefuseUrl(r) PROVE PictureInv'
  <2>1. /\ UNCHANGED <<kind, row, mirrored, offered, crossed, run, stored>>
        /\ \A q \in Requests \ {r} : UNCHANGED upload[q]
        /\ upload'[r].at = "idle"
    BY <1>2, <1>f DEF P!RefuseFile, P!RefuseUrl, P!To, P!Idle
  <2>2. UploadFits(r)' /\ Opened(r)'
    BY <2>1 DEF UploadFits, Opened
  <2> QED BY <1>t, <2>1, <2>2, RequestReads
<1>3. ASSUME NEW r \in Requests, P!Store(r) PROVE PictureInv'
  <2>1. /\ UNCHANGED <<kind, row, mirrored, offered, crossed, run>> /\ stored \subseteq stored'
        /\ \A q \in Requests \ {r} : UNCHANGED upload[q]
        /\ upload'[r].at = "write" /\ upload'[r].id \in stored'
    BY <1>3, <1>f DEF P!Store, P!To
  <2>2. UploadFits(r)' /\ Opened(r)'
    BY <2>1 DEF UploadFits, Opened
  <2> QED BY <1>t, <2>1, <2>2, RequestReads
<1>4. ASSUME NEW r \in Requests, P!FindProfile(r) PROVE PictureInv'
  <2>1. /\ UNCHANGED <<kind, row, mirrored, offered, crossed, run, stored>> /\ kind = "profile"
        /\ \A q \in Requests \ {r} : UNCHANGED upload[q]
        /\ upload'[r].at = "clear"
    BY <1>4, <1>f DEF P!FindProfile, P!To
  <2>2. UploadFits(r)' /\ Opened(r)'
    BY <2>1 DEF UploadFits, Opened
  <2> QED BY <1>t, <2>1, <2>2, RequestReads
<1>5. ASSUME NEW r \in Requests, P!Open(r) PROVE PictureInv'
  <2>1. /\ UNCHANGED <<kind, row, mirrored, offered, crossed, run, stored>> /\ row # None
        /\ \A q \in Requests \ {r} : UNCHANGED upload[q]
        /\ upload'[r] = [at |-> "save", id |-> row.id, url |-> row.url]
    BY <1>5, <1>f DEF P!Open, P!To
  <2>2. UploadFits(r)' /\ Opened(r)'
    BY <2>1, <1>f DEF UploadFits, Opened, RowFits, Stands
  <2> QED BY <1>t, <2>1, <2>2, RequestReads
<1>6. ASSUME NEW r \in Requests, P!WriteRow(r) PROVE PictureInv'
  <2>1. /\ UNCHANGED <<kind, mirrored, offered, run, stored>> /\ P!RequestWrites(r)
        /\ \A q \in Requests \ {r} : UNCHANGED upload[q]
        /\ upload'[r].at = "idle" /\ upload[r].id \in stored
        /\ \/ UNCHANGED row
           \/ /\ row # None /\ row.id = upload[r].id
              /\ row' = [row EXCEPT !.url = P!Own(upload[r].id), !.locked = kind = "catalogue"]
    BY <1>6, <1>f DEF P!WriteRow, P!To, P!Idle, P!Is, UploadFits
  <2>2. RowFits' /\ (Shows => Shows')
    <3>1. CASE UNCHANGED row
      BY <2>1, <3>1, <1>f DEF RowFits, Stands, Shows
    <3>2. CASE row # None /\ row.id = upload[r].id
               /\ row' = [row EXCEPT !.url = P!Own(upload[r].id), !.locked = kind = "catalogue"]
      <4>1. /\ row \in PictureRows
            /\ row'.id = row.id /\ row'.url = P!Own(row.id) /\ row'.source = row.source
            /\ kind # "catalogue" => ~row'.locked
        BY <3>2, <1>f DEF PictureRows
      <4>2. P!Own(row.id) # P!Mirror
        BY DEF P!Own, P!Mirror
      <4>3. RowFits'
        BY <2>1, <3>2, <4>1, <4>2, <1>f DEF RowFits, Stands
      <4>4. Shows'
        BY <4>1, <4>2 DEF Shows
      <4> QED BY <4>3, <4>4
    <3> QED BY <2>1, <3>1, <3>2
  <2>3. /\ \A q \in Requests : UploadFits(q)'
        /\ \A w \in Workers : RunFits(w)'
    <3>1. UploadFits(r)'
      BY <2>1 DEF UploadFits
    <3> QED BY <2>1, <3>1, <1>f, UntouchedFits
  <2>4. ASSUME ~crossed' PROVE Uncrossed'
    <3>1. Shows
      BY <2>1, <2>4, RequestCrosses DEF PictureInv, Uncrossed
    <3> QED BY <2>1, <2>2, <2>4, <3>1, RequestShows
  <2> QED BY <1>t, <2>2, <2>3, <2>4 DEF PictureInv
<1>7. ASSUME NEW r \in Requests, P!DeleteImage(r) \/ P!ClearProfile(r) PROVE PictureInv'
  <2>1. /\ UNCHANGED <<kind, mirrored, offered, run, stored>> /\ P!RequestWrites(r)
        /\ \A q \in Requests \ {r} : UNCHANGED upload[q]
        /\ upload'[r].at = "idle"
        /\ \/ UNCHANGED row
           \/ row # None /\ row' = [row EXCEPT !.url = None, !.locked = FALSE]
           \/ row # None /\ kind = "profile" /\ row' = [row EXCEPT !.url = None]
    BY <1>7, <1>f DEF P!DeleteImage, P!ClearProfile, P!To, P!Idle, UploadFits
  <2>2. RowFits' /\ (Shows => Shows')
    <3>1. CASE UNCHANGED row
      BY <2>1, <3>1, <1>f DEF RowFits, Stands, Shows
    <3>2. CASE \/ row # None /\ row' = [row EXCEPT !.url = None, !.locked = FALSE]
               \/ row # None /\ kind = "profile" /\ row' = [row EXCEPT !.url = None]
      <4>1. /\ row \in PictureRows
            /\ row'.id = row.id /\ row'.url = None /\ row'.source = row.source
            /\ ~row'.locked
        BY <3>2, <1>f DEF PictureRows, RowFits
      <4>2. None # P!Mirror /\ \A i \in Nat : None # P!Own(i)
        BY <1>n DEF URLs, P!Mirror, P!Own
      <4>3. row'.id \in Nat
        BY <4>1 DEF PictureRows
      <4> QED BY <2>1, <3>2, <4>1, <4>2, <4>3, <1>f DEF RowFits, Stands, Shows
    <3> QED BY <2>1, <3>1, <3>2
  <2>3. /\ \A q \in Requests : UploadFits(q)'
        /\ \A w \in Workers : RunFits(w)'
    <3>1. UploadFits(r)'
      BY <2>1 DEF UploadFits
    <3> QED BY <2>1, <3>1, <1>f, UntouchedFits
  <2>4. ASSUME ~crossed' PROVE Uncrossed'
    <3>1. Shows
      BY <2>1, <2>4, RequestCrosses DEF PictureInv, Uncrossed
    <3> QED BY <2>1, <2>2, <2>4, <3>1, RequestShows
  <2> QED BY <1>t, <2>2, <2>3, <2>4 DEF PictureInv
<1>8. ASSUME NEW r \in Requests, P!Save(r) PROVE PictureInv'
  <2>1. /\ UNCHANGED <<kind, mirrored, offered, run, stored>> /\ P!RequestWrites(r)
        /\ \A q \in Requests \ {r} : UNCHANGED upload[q]
        /\ upload[r].at = "save" /\ upload'[r].at = "idle"
        /\ Stands(upload[r].id, upload[r].url)
    BY <1>8, <1>f DEF P!Save, P!To, P!Idle, UploadFits
  <2>2. PICK url \in {upload[r].url, P!Given} :
          row' = IF P!Is(upload[r].id) THEN [row EXCEPT !.url = url] ELSE row
    BY <1>8 DEF P!Save
  <2>3. RowFits' /\ (Shows /\ Opened(r) => Shows')
    <3>1. CASE UNCHANGED row
      BY <2>1, <3>1, <1>f DEF RowFits, Stands, Shows
    <3>2. CASE P!Is(upload[r].id)
      <4>1. /\ row # None /\ row.id = upload[r].id /\ row \in PictureRows
            /\ row'.id = row.id /\ row'.url = url /\ row'.source = row.source
            /\ row'.locked = row.locked
        BY <3>2, <2>2, <1>f DEF PictureRows, P!Is
      <4>2. P!Given # P!Mirror /\ P!Given # P!Own(row.id)
        BY DEF P!Given, P!Mirror, P!Own
      <4>3. RowFits'
        BY <2>1, <4>1, <4>2, <1>f DEF RowFits, Stands
      <4>4. Shows /\ Opened(r) => Shows'
        BY <2>1, <4>1, <4>2 DEF Shows, Opened
      <4> QED BY <4>3, <4>4
    <3> QED BY <2>2, <3>1, <3>2
  <2>4. /\ \A q \in Requests : UploadFits(q)'
        /\ \A w \in Workers : RunFits(w)'
    <3>1. UploadFits(r)'
      BY <2>1 DEF UploadFits
    <3> QED BY <2>1, <3>1, <1>f, UntouchedFits
  <2>5. ASSUME ~crossed' PROVE Uncrossed'
    <3>1. Shows /\ Opened(r)
      BY <2>1, <2>5, RequestCrosses DEF PictureInv, Uncrossed
    <3> QED BY <2>1, <2>3, <2>5, <3>1, RequestShows
  <2> QED BY <1>t, <2>3, <2>4, <2>5 DEF PictureInv
<1>9. CASE P!Remove
  <2>1. UNCHANGED <<kind, mirrored, offered, upload, run, stored, crossed>> /\ row' = None
    BY <1>9 DEF P!Remove
  <2>2. /\ RowFits'
        /\ \A q \in Requests : UploadFits(q)'
        /\ \A w \in Workers : RunFits(w)'
    BY <2>1, <1>f, UntouchedFits DEF RowFits
  <2>3. ASSUME ~crossed' PROVE Uncrossed'
    <3>1. Uncrossed
      BY <2>1, <2>3 DEF PictureInv
    <3> QED BY <2>1, <3>1 DEF Uncrossed, Shows, Opened, Found, Resolving
  <2> QED BY <1>t, <2>2, <2>3 DEF PictureInv
<1>10. CASE P!Offer
  <2>1. UNCHANGED <<kind, row, mirrored, upload, run, stored, crossed>> /\ offered' = offered + 1
    BY <1>10 DEF P!Offer
  <2>2. /\ RowFits'
        /\ \A q \in Requests : UploadFits(q)'
        /\ \A w \in Workers : RunFits(w)'
    BY <2>1, <1>f, UntouchedFits
  <2>3. ASSUME ~crossed' PROVE Uncrossed'
    <3>1. Uncrossed
      BY <2>1, <2>3 DEF PictureInv
    <3>2. row # None => row.source # offered'
      BY <2>1, <1>f, <1>n DEF RowFits
    <3>3. Shows'
      BY <2>1, <3>1, <3>2 DEF Uncrossed, Shows
    <3> QED BY <2>1, <3>1, <3>3 DEF Uncrossed, Opened, Found, Resolving
  <2> QED BY <1>t, <2>2, <2>3 DEF PictureInv
<1>11. ASSUME NEW w \in Workers, P!Find(w) PROVE PictureInv'
  <2>1. /\ UNCHANGED <<kind, row, mirrored, offered, crossed, upload, stored>> /\ kind = "catalogue"
        /\ \A v \in Workers \ {w} : UNCHANGED run[v]
        /\ run'[w].source = offered /\ run'[w].id = IF row = None THEN None ELSE row.id
        /\ run'[w].url = IF P!Resolve THEN P!Provider(offered) ELSE None
        /\ run'[w].at = IF P!Resolve THEN "mirror" ELSE "write"
    BY <1>11, <1>f DEF P!Find, P!Run
  <2>2. /\ P!Provider(offered) # P!Mirror /\ None # P!Mirror /\ P!Provider(offered) # None
        /\ \A i \in Nat : P!Provider(offered) # P!Own(i) /\ None # P!Own(i)
    BY <1>f, <1>n DEF URLs, P!Provider, P!Mirror, P!Own
  <2>3. RunFits(w)'
    <3>1. row # None => row.id # None
      BY <1>f, <1>n DEF PictureRows
    <3>2. run'[w].source <= offered' /\ kind' = "catalogue"
      BY <2>1, <1>f
    <3>3. run'[w].at = "mirror" \/ run'[w].id = None => run'[w].url # None
      BY <2>1, <2>2, <3>1 DEF P!Resolve
    <3>4. run'[w].url # P!Mirror /\ \A i \in Nat : run'[w].url # P!Own(i)
      BY <2>1, <2>2
    <3> QED BY <3>2, <3>3, <3>4 DEF RunFits
  <2>4. Found(w)'
    BY <2>1, <2>2, <1>f DEF Found, Resolving, P!Resolve, RowFits
  <2> QED BY <1>t, <2>1, <2>3, <2>4, RunReads
<1>12. ASSUME NEW w \in Workers, P!FindInSquad(w) PROVE PictureInv'
  <2>1. /\ UNCHANGED <<kind, row, mirrored, offered, crossed, upload, stored>> /\ kind = "catalogue"
        /\ \A v \in Workers \ {w} : UNCHANGED run[v]
        /\ run'[w].source = offered /\ run'[w].url = P!Provider(offered) /\ row = None
    BY <1>12, <1>f DEF P!FindInSquad, P!Run
  <2>2. /\ P!Provider(offered) # P!Mirror /\ P!Provider(offered) # None
        /\ \A i \in Nat : P!Provider(offered) # P!Own(i)
    BY <1>f, <1>n DEF URLs, P!Provider, P!Mirror, P!Own
  <2>3. RunFits(w)' /\ Found(w)'
    BY <2>1, <2>2, <1>f DEF RunFits, Found
  <2> QED BY <1>t, <2>1, <2>3, RunReads
<1>13. ASSUME NEW w \in Workers, P!MirrorImage(w) PROVE PictureInv'
  <2>0. /\ run[w] \in Runs /\ run[w] # P!Idle
        /\ kind = "catalogue" /\ run[w].source \in Nat /\ run[w].source <= offered
        /\ \A i \in Nat : run[w].url # P!Own(i)
        /\ run[w].url = P!Mirror => mirrored # None
        /\ run[w].at = "mirror" /\ run[w].url # None
    BY <1>13, <1>f DEF P!MirrorImage, P!Idle, RunFits, Runs
  <2>1. /\ UNCHANGED <<kind, row, offered, upload, stored>>
        /\ \A v \in Workers \ {w} : UNCHANGED run[v]
    BY <1>13, <1>f DEF P!MirrorImage, P!Run
  <2>2. CASE P!Run(w, [run[w] EXCEPT !.at = "write"]) /\ UNCHANGED <<mirrored, crossed>>
    <3>1. /\ run'[w].source = run[w].source /\ run'[w].id = run[w].id /\ run'[w].url = run[w].url
      BY <2>0, <2>2, <1>f DEF P!Run, Runs, P!Idle
    <3>2. RunFits(w)'
      BY <2>0, <2>1, <2>2, <3>1, <1>f DEF RunFits
    <3>3. Uncrossed => Found(w)'
      BY <2>0, <2>1, <2>2, <3>1 DEF Uncrossed, Found, Resolving
    <3> QED BY <1>t, <2>1, <2>2, <3>2, <3>3, RunReads
  <2>3. CASE /\ mirrored' = run[w].source
             /\ P!Run(w, [run[w] EXCEPT !.at = "write", !.url = P!Mirror])
             /\ P!RunWrites(w)
    <3>1. /\ run'[w].source = run[w].source /\ run'[w].id = run[w].id /\ run'[w].url = P!Mirror
      BY <2>0, <2>3, <1>f DEF P!Run, Runs, P!Idle
    <3>2. mirrored' # None /\ P!Mirror # None /\ \A i \in Nat : P!Mirror # P!Own(i)
      BY <2>0, <2>3, <1>n DEF URLs, P!Mirror, P!Own
    <3>3. RunFits(w)'
      BY <2>0, <2>1, <2>3, <3>1, <3>2 DEF RunFits
    <3>4. /\ RowFits'
          /\ \A q \in Requests : UploadFits(q)'
          /\ \A v \in Workers : RunFits(v)'
      BY <2>1, <3>2, <3>3, <1>f, UntouchedFits
    <3>5. ASSUME ~crossed' PROVE Uncrossed'
      <4>1. Uncrossed
        BY <2>3, <3>5, RunCrosses DEF PictureInv
      <4>2. row # None => row.id = run[w].id /\ ~row.locked /\ row.source < run[w].source
        BY <4>1, <2>0 DEF Uncrossed, Found, Resolving
      <4>3. row # None => row.source \in Nat /\ row.source # offered
        BY <4>2, <2>0, <1>f DEF RowFits
      <4>4. Shows'
        BY <4>1, <2>1, <4>3 DEF Uncrossed, Shows
      <4>5. Found(w)'
        BY <2>1, <2>3, <3>1, <4>2 DEF Found
      <4> QED BY <2>1, <2>3, <3>5, <4>4, <4>5, RunShows
    <3> QED BY <1>t, <3>4, <3>5 DEF PictureInv
  <2> QED BY <1>13, <2>2, <2>3 DEF P!MirrorImage
<1>14. ASSUME NEW w \in Workers, P!Upsert(w) PROVE PictureInv'
  <2>0. /\ run[w] \in Runs /\ run[w] # P!Idle /\ run'[w] = P!Idle
        /\ kind = "catalogue" /\ run[w].source \in Nat /\ run[w].source <= offered
        /\ \A i \in Nat : run[w].url # P!Own(i)
        /\ run[w].url = P!Mirror => mirrored # None
        /\ run[w].id = None => run[w].url # None
    BY <1>14, <1>f DEF P!Upsert, P!Run, P!Idle, RunFits, Runs
  <2>1. /\ UNCHANGED <<kind, mirrored, offered, upload, stored>>
        /\ \A v \in Workers \ {w} : UNCHANGED run[v]
    BY <1>14, <1>f DEF P!Upsert, P!Run
  <2>2. RunFits(w)' /\ Found(w)'
    BY <2>0 DEF RunFits, Found, Resolving
  <2>3. CASE UNCHANGED <<row, crossed>>
    BY <1>t, <2>1, <2>2, <2>3, RunReads
  <2>4. CASE /\ P!RunWrites(w) /\ run[w].url # None
             /\ \/ /\ row # None
                   /\ row' = [row EXCEPT !.url = run[w].url, !.source = run[w].source]
                \/ row = None /\ row' = P!NewRow(made + 1, run[w].url, run[w].source)
    <3>1. row'.url = run[w].url /\ row'.source = run[w].source
      <4>1. CASE row # None /\ row' = [row EXCEPT !.url = run[w].url, !.source = run[w].source]
        BY <4>1, <1>f DEF PictureRows
      <4>2. CASE row' = P!NewRow(made + 1, run[w].url, run[w].source)
        BY <4>2 DEF P!NewRow
      <4> QED BY <2>4, <4>1, <4>2
    <3>2. row' # None => row'.id \in Nat
      BY <1>t DEF PictureTypes, PictureRows
    <3>3. RowFits'
      BY <2>0, <2>1, <3>1, <3>2 DEF RowFits, Stands
    <3>4. /\ \A q \in Requests : UploadFits(q)'
          /\ \A v \in Workers : RunFits(v)'
      BY <2>1, <2>2, <1>f, UntouchedFits
    <3>5. ASSUME ~crossed' PROVE Uncrossed'
      <4>1. Uncrossed
        BY <2>4, <3>5, RunCrosses DEF PictureInv
      <4>2. run[w].url = P!Mirror => mirrored = run[w].source
        BY <4>1, <2>0, <2>4 DEF Uncrossed, Found, Resolving
      <4>3. ~row'.locked
        <5>1. CASE row # None
          <6>1. ~row.locked
            BY <4>1, <2>0, <2>4, <5>1 DEF Uncrossed, Found, Resolving
          <6> QED BY <5>1, <6>1, <2>4, <1>f DEF PictureRows
        <5>2. CASE row = None
          BY <5>2, <2>4 DEF P!NewRow
        <5> QED BY <5>1, <5>2
      <4>4. Shows'
        BY <2>1, <3>1, <4>2, <4>3 DEF Shows
      <4> QED BY <2>1, <2>2, <2>4, <3>5, <4>4, RunShows
    <3> QED BY <1>t, <3>3, <3>4, <3>5 DEF PictureInv
  <2> QED BY <1>14, <2>0, <2>3, <2>4 DEF P!Upsert, P!Is
<1>15. ASSUME NEW w \in Workers, P!Break(w) PROVE PictureInv'
  <2>1. /\ UNCHANGED <<kind, row, mirrored, offered, crossed, upload, stored>>
        /\ \A v \in Workers \ {w} : UNCHANGED run[v]
        /\ run'[w] = P!Idle
    BY <1>15, <1>f DEF P!Break, P!Run
  <2>2. RunFits(w)' /\ Found(w)'
    BY <2>1 DEF RunFits, Found, Resolving
  <2> QED BY <1>t, <2>1, <2>2, RunReads
<1>16. CASE UNCHANGED pictureVars
  BY <1>16, <1>t DEF pictureVars, PictureInv, RowFits, UploadFits, RunFits, Stands, Uncrossed,
     Shows, Opened, Found, Resolving
<1> QED
  BY <1>1, <1>2, <1>3, <1>4, <1>5, <1>6, <1>7, <1>8, <1>9, <1>10, <1>11, <1>12, <1>13, <1>14,
     <1>15, <1>16 DEF P!Next

(* As long as nobody wrote between another's reading and writing, a locked *)
(* row shows what an administrator chose and a mirrored picture is the one *)
(* its row says; and a row never names an object that was not stored       *)
(* (football-data.sync.service.ts:785-812, image-upload.service.ts:17-36). *)
THEOREM PicturesAreShown == AllSpec => []ShowsWhatItSays
<1>1. AllInit => PictureInv
  <2> SUFFICES ASSUME AllInit PROVE PictureInv
    OBVIOUS
  <2>1. /\ made = 1 /\ offered = 1 /\ stored = {} /\ mirrored = None /\ crossed = FALSE
        /\ upload = [r \in Requests |-> P!Idle] /\ run = [w \in Workers |-> P!Idle]
        /\ row = IF kind = "catalogue" THEN P!NewRow(1, P!Provider(1), 1) ELSE P!NewRow(1, None, None)
    BY DEF AllInit, P!Init
  <2>2. P!Provider(1) \in URLs /\ P!Provider(1) # P!Mirror /\ P!Provider(1) # P!Own(1)
    BY DEF URLs, P!Provider, P!Mirror, P!Own
  <2>3. None \notin URLs /\ P!Own(1) \in URLs /\ P!Mirror \in URLs /\ None \notin Nat
    BY NullAssumption DEF URLs, P!Own, P!Mirror
  <2>4. PictureTypes
    BY <2>1, <2>2 DEF PictureTypes, PictureRows, P!NewRow, Uploads, Runs
  <2>5. RowFits /\ Shows
    BY <2>1, <2>2, <2>3 DEF RowFits, Stands, Shows, P!NewRow
  <2>6. /\ \A r \in Requests : UploadFits(r) /\ Opened(r)
        /\ \A w \in Workers : RunFits(w) /\ Found(w)
    BY <2>1 DEF UploadFits, Opened, RunFits, Found, Resolving, P!Idle
  <2> QED BY <2>4, <2>5, <2>6 DEF PictureInv, Uncrossed
<1>2. PictureInv /\ [Step]_<<what, vars, keyVars, reviewVars, pictureVars>> => PictureInv'
  BY NextPictureInv DEF Step
<1>3. PictureInv => ShowsWhatItSays
  <2> SUFFICES ASSUME PictureInv, row # None PROVE P!ShowsWhatItSays
    BY DEF ShowsWhatItSays, P!ShowsWhatItSays
  <2>1. RowFits /\ (~crossed => Shows)
    BY DEF PictureInv, Uncrossed
  <2> QED BY <2>1 DEF RowFits, Stands, Shows, P!ShowsWhatItSays
<1> QED BY <1>1, <1>2, <1>3, PTL DEF AllSpec
=============================================================================
