------------------------- MODULE EngagementProofs -------------------------
(***************************************************************************)
(* Theorems about Engagement, for any finite sets of users and processes   *)
(* and any bounds: how far the counters of a post may be from its rows;    *)
(* and about Feed, for any posts, scores, requests and lives: what a page  *)
(* shows, and when it may be empty.                                        *)
(***************************************************************************)
EXTENDS MCPosts, CardinalityFacts

(* A request writes its own row and no other.                              *)
LEMMA QueueAdds ==
  ASSUME requests \in Nat, OutboxOK, Request, NEW e \in Events, Queue(e)
  PROVE  /\ requests' \in Messages /\ event[requests'] = NoJob
         /\ requests' \notin processed /\ UNCHANGED processed
         /\ event' = [event EXCEPT ![requests'] = e]
         /\ \A m \in Messages : event[m] # NoJob => event'[m] = event[m]
         /\ \A p \in Procs : msg[p] # requests'
<1>1. requests \in Nat /\ requests < MaxRequests /\ requests' = requests + 1
  BY DEF Request
<1>2. requests' \in Messages /\ ~(requests' <= requests)
  BY <1>1, ConstantsAssumption DEF Messages
<1>3. event[requests'] = NoJob /\ event' = [event EXCEPT ![requests'] = e]
      /\ UNCHANGED processed
  BY <1>2 DEF OutboxOK, Queue
<1>4. requests' \notin processed
  BY <1>3 DEF OutboxOK
<1>5. \A m \in Messages : event[m] # NoJob => event'[m] = event[m]
  BY <1>3 DEF OutboxOK
<1>6. NoJob \notin Events
  BY DEF NoJob, Events, Jobs
<1>7. \A p \in Procs : msg[p] # requests'
  BY <1>1, <1>3, <1>6 DEF OutboxOK
<1> QED BY <1>2, <1>3, <1>4, <1>5, <1>7

(* What a step does to the outbox rows and to who holds them.              *)
LEMMA NextOutboxOK ==
  ASSUME TypeOK, [Next]_vars
  PROVE  OutboxOK'
<1> USE DEF post, rowset, outbox, proc, ghosts, bounds, Goto
<1>t. /\ OutboxOK /\ requests \in Nat /\ job \in [Procs -> Jobs \cup {NoJob}]
      /\ DOMAIN pc = Procs
  BY DEF TypeOK
<1>e. /\ NoJob \notin Events
      /\ \A u \in Users, c \in Choices : [kind |-> c, user |-> u] \notin Events
  BY DEF NoJob, Events, Jobs, Choices
(* No row changes, and no process but those that let go of theirs.         *)
<1>1. ASSUME UNCHANGED outbox, requests' >= requests, requests' \in Nat,
             msg' \in [Procs -> 0 .. MaxRequests],
             \A p \in Procs : \/ job'[p] = job[p] /\ msg'[p] = msg[p]
                              \/ job'[p] \notin Events /\ msg'[p] = 0
      PROVE  OutboxOK'
  <2>1. \A m \in Messages : event'[m] # NoJob => m <= requests'
    BY <1>1, <1>t, ConstantsAssumption DEF OutboxOK, Messages
  <2>2. ASSUME NEW p \in Procs
        PROVE  /\ job'[p] \in Events => msg'[p] # 0
               /\ msg'[p] # 0 => job'[p] \in Events /\ event'[msg'[p]] = job'[p]
    BY <1>1, <1>t, <2>2 DEF OutboxOK
  <2> QED BY <1>1, <1>t, <2>1, <2>2 DEF OutboxOK
<1>2. ASSUME NEW e \in Events, Request, Queue(e), UNCHANGED <<job, msg>>
      PROVE  OutboxOK'
  <2>1. /\ requests' \in Messages /\ event[requests'] = NoJob
        /\ UNCHANGED processed /\ event' = [event EXCEPT ![requests'] = e]
        /\ \A m \in Messages : event[m] # NoJob => event'[m] = event[m]
        /\ \A p \in Procs : msg[p] # requests'
    BY <1>t, <1>2, QueueAdds
  <2>2. requests' = requests + 1
    BY <1>2 DEF Request
  <2>3. /\ event \in [Messages -> Events \cup {NoJob}]
        /\ \A m \in Messages : event[m] # NoJob => m <= requests
        /\ processed \subseteq {m \in Messages : event[m] # NoJob}
        /\ msg \in [Procs -> 0 .. MaxRequests]
        /\ \A p \in Procs :
             /\ job[p] \in Events => msg[p] # 0
             /\ msg[p] # 0 => job[p] \in Events /\ event[msg[p]] = job[p]
    BY <1>t DEF OutboxOK
  <2>4. event' \in [Messages -> Events \cup {NoJob}]
    BY <2>1, <2>3
  <2>5. \A m \in Messages : event'[m] # NoJob => m <= requests'
    BY <1>t, <2>1, <2>2, <2>3, ConstantsAssumption DEF Messages
  <2>6. processed' \subseteq {m \in Messages : event'[m] # NoJob}
    BY <2>1, <2>3
  <2>7. ASSUME NEW p \in Procs
        PROVE  /\ job'[p] \in Events => msg'[p] # 0
               /\ msg'[p] # 0 => job'[p] \in Events /\ event'[msg'[p]] = job'[p]
    <3>1. msg[p] # 0 => msg[p] \in Messages
      BY <2>3, ConstantsAssumption DEF Messages
    <3> QED BY <1>2, <1>e, <2>1, <2>3, <3>1
  <2> QED BY <1>2, <2>3, <2>4, <2>5, <2>6, <2>7 DEF OutboxOK
<1>3. ASSUME NEW p \in Procs, Free(p), UNCHANGED <<outbox, requests>> PROVE OutboxOK'
  <2>1. msg' \in [Procs -> 0 .. MaxRequests]
    BY <1>t, <1>3, ConstantsAssumption DEF OutboxOK, Free
  <2>2. \A q \in Procs : \/ job'[q] = job[q] /\ msg'[q] = msg[q]
                         \/ job'[q] \notin Events /\ msg'[q] = 0
    BY <1>t, <1>e, <1>3 DEF OutboxOK, Free
  <2> QED BY <1>1, <1>t, <1>3, <2>1, <2>2
<1>4. ASSUME UNCHANGED <<outbox, job, msg>>, Request \/ UNCHANGED requests
      PROVE  OutboxOK'
  <2>1. requests' \in Nat /\ requests' >= requests
    BY <1>t, <1>4 DEF Request
  <2>2. msg' \in [Procs -> 0 .. MaxRequests]
    BY <1>t, <1>4 DEF OutboxOK
  <2> QED BY <1>1, <1>4, <2>1, <2>2
<1>5. CASE DeletePost
  BY <1>4, <1>5 DEF DeletePost
<1>6. ASSUME NEW n \in 1 .. comments, DeleteComment(n) PROVE OutboxOK'
  BY <1>4, <1>6 DEF DeleteComment
<1>7. ASSUME NEW u \in Users, CreateComment(u) PROVE OutboxOK'
  <2>1. [kind |-> "comment", user |-> u] \in Events
    BY DEF Events, Jobs, Choices
  <2> QED BY <1>2, <1>7, <2>1 DEF CreateComment
<1>8. ASSUME NEW u \in Users, Report(u) PROVE OutboxOK'
  BY <1>4, <1>8 DEF Report
<1>9. ASSUME NEW u \in Users, NEW isLike \in BOOLEAN, React(u, isLike) PROVE OutboxOK'
  <2> DEFINE e == [kind |-> IF isLike THEN "like" ELSE "unlike", user |-> u]
  <2>1. e \in Events
    BY DEF Events, Jobs, Choices
  <2>2. Request /\ UNCHANGED <<job, msg>> /\ (UNCHANGED outbox \/ Queue(e))
    BY <1>9 DEF React
  <2> HIDE DEF e
  <2> QED BY <1>2, <1>4, <2>1, <2>2
<1>10. ASSUME NEW u \in Users, NEW p \in Procs, NEW c \in Choices, VoteRead(p, u, c)
       PROVE  OutboxOK'
  <2>1. /\ UNCHANGED <<outbox, msg>> /\ Request /\ pc[p] = "idle"
        /\ job' = [job EXCEPT ![p] = [kind |-> c, user |-> u]]
    BY <1>10 DEF VoteRead
  <2>2. job[p] = NoJob /\ msg[p] = 0
    BY <1>t, <1>e, <2>1 DEF TypeOK, OutboxOK
  <2>3. requests' \in Nat /\ requests' >= requests
    BY <1>t, <2>1 DEF Request
  <2>4. msg' \in [Procs -> 0 .. MaxRequests]
    BY <1>t, <2>1 DEF OutboxOK
  <2>5. \A q \in Procs : \/ job'[q] = job[q] /\ msg'[q] = msg[q]
                         \/ job'[q] \notin Events /\ msg'[q] = 0
    BY <1>t, <1>e, <2>1, <2>2
  <2> QED BY <1>1, <2>1, <2>3, <2>4, <2>5
<1>11. ASSUME NEW p \in Procs, NEW m \in Messages, Start(p, m) PROVE OutboxOK'
  <2>1. /\ UNCHANGED <<outbox, requests>> /\ event[m] # NoJob
        /\ job' = [job EXCEPT ![p] = event[m]] /\ msg' = [msg EXCEPT ![p] = m]
    BY <1>11 DEF Start
  <2>2. m \in 0 .. MaxRequests /\ m # 0 /\ event[m] \in Events
    BY <1>t, <2>1, ConstantsAssumption DEF OutboxOK, Messages
  <2>3. msg' \in [Procs -> 0 .. MaxRequests]
    BY <1>t, <2>1, <2>2 DEF OutboxOK
  <2>4. ASSUME NEW q \in Procs
        PROVE  /\ job'[q] \in Events => msg'[q] # 0
               /\ msg'[q] # 0 => job'[q] \in Events /\ event'[msg'[q]] = job'[q]
    BY <1>t, <2>1, <2>2 DEF OutboxOK
  <2> QED BY <1>t, <2>1, <2>3, <2>4 DEF OutboxOK
<1>12. ASSUME NEW p \in Procs,
              VoteWrite(p) \/ LikeRow(p) \/ UnlikeRow(p) \/ Count(p)
                \/ CommentTx(p) \/ CommentNoPost(p)
       PROVE  OutboxOK'
  BY <1>4, <1>12
  DEF VoteWrite, LikeRow, UnlikeRow, Count, CommentTx, CommentNoPost
<1>13. ASSUME NEW p \in Procs, ScoreRead(p) \/ ScoreWrite(p) PROVE OutboxOK'
  <2>1. UNCHANGED <<outbox, requests>> /\ (UNCHANGED <<job, msg>> \/ Free(p))
    BY <1>13 DEF ScoreRead, ScoreWrite
  <2> QED BY <1>3, <1>4, <2>1
<1>14. ASSUME NEW p \in Procs, Mark(p) PROVE OutboxOK'
  <2>1. /\ UNCHANGED <<event, requests>> /\ pc[p] = "mark"
        /\ processed' = processed \cup {msg[p]}
        /\ job' = [job EXCEPT ![p] = NoJob] /\ msg' = [msg EXCEPT ![p] = 0]
    BY <1>14 DEF Mark, Free
  <2>2. job[p] \in Events /\ msg[p] # 0
    BY <1>t, <2>1 DEF TypeOK, OutboxOK
  <2>3. msg[p] \in {m \in Messages : event[m] # NoJob}
    BY <1>t, <1>e, <2>2, ConstantsAssumption DEF OutboxOK, Messages
  <2>4. msg' \in [Procs -> 0 .. MaxRequests]
    BY <1>t, <2>1, ConstantsAssumption DEF OutboxOK
  <2>5. ASSUME NEW q \in Procs
        PROVE  /\ job'[q] \in Events => msg'[q] # 0
               /\ msg'[q] # 0 => job'[q] \in Events /\ event'[msg'[q]] = job'[q]
    BY <1>t, <1>e, <2>1 DEF OutboxOK
  <2> QED BY <1>t, <2>1, <2>3, <2>4, <2>5 DEF OutboxOK
<1>15. ASSUME NEW p \in Procs, Crash(p) \/ Refused(p) PROVE OutboxOK'
  <2>1. Free(p) /\ UNCHANGED <<outbox, requests>>
    BY <1>15 DEF Crash, Refused, Lose
  <2> QED BY <1>3, <2>1
<1>16. CASE UNCHANGED vars
  BY <1>4, <1>16 DEF vars
<1> QED
  BY <1>5, <1>6, <1>7, <1>8, <1>9, <1>10, <1>11, <1>12, <1>13, <1>14, <1>15, <1>16
  DEF Next

LEMMA NextTypeOK == TypeOK /\ [Next]_vars => TypeOK'
<1> SUFFICES ASSUME TypeOK, [Next]_vars PROVE TypeOK'
  OBVIOUS
<1>0. OutboxOK'
  BY NextOutboxOK
<1>o. event \in [Messages -> Events \cup {NoJob}] /\ OutboxOK
  BY DEF TypeOK, OutboxOK
<1> USE DEF TypeOK, post, rowset, outbox, proc, ghosts, bounds, Request
<1>1. CASE DeletePost
  <2>1. exists' \in BOOLEAN
    BY <1>1, Zenon DEF DeletePost
  <2>2. voted' \in [Users -> Choices \cup {"none"}]
    BY <1>1 DEF DeletePost
  <2> QED BY <1>0, <1>1, <2>1, <2>2 DEF DeletePost
<1> USE DEF Points, Choices, Jobs, Events, NoJob, Fault, Goto, Free
<1>2. ASSUME NEW n \in 1 .. comments, DeleteComment(n) PROVE TypeOK'
  BY <1>0, <1>2 DEF DeleteComment
<1>3. ASSUME NEW u \in Users, CreateComment(u) PROVE TypeOK'
  BY <1>0, <1>3 DEF CreateComment
<1>4. ASSUME NEW u \in Users, Report(u) PROVE TypeOK'
  BY <1>0, <1>4 DEF Report
<1>5. ASSUME NEW u \in Users, NEW isLike \in BOOLEAN, React(u, isLike) PROVE TypeOK'
  BY <1>0, <1>5 DEF React
<1>6. ASSUME NEW u \in Users, NEW p \in Procs, NEW c \in Choices, VoteRead(p, u, c)
      PROVE  TypeOK'
  BY <1>0, <1>6 DEF VoteRead
<1>7. ASSUME NEW p \in Procs, NEW m \in Messages, Start(p, m) PROVE TypeOK'
  BY <1>0, <1>o, <1>7 DEF Start
<1>8. ASSUME NEW p \in Procs, VoteWrite(p) PROVE TypeOK'
  BY <1>0, <1>8 DEF VoteWrite, Delta
<1>9. ASSUME NEW p \in Procs, LikeRow(p) PROVE TypeOK'
  BY <1>0, <1>9 DEF LikeRow, Touch
<1>10. ASSUME NEW p \in Procs, UnlikeRow(p) PROVE TypeOK'
  BY <1>0, <1>10 DEF UnlikeRow, Touch
<1>11. ASSUME NEW p \in Procs, Count(p) PROVE TypeOK'
  BY <1>0, <1>11 DEF Count, Step
<1>12. ASSUME NEW p \in Procs, CommentTx(p) PROVE TypeOK'
  BY <1>0, <1>12 DEF CommentTx
<1>13. ASSUME NEW p \in Procs, CommentNoPost(p) PROVE TypeOK'
  BY <1>0, <1>13 DEF CommentNoPost
<1>14. ASSUME NEW p \in Procs, ScoreRead(p) PROVE TypeOK'
  <2>1. Weighted \in Int
    BY ConstantsAssumption, FS_Subset, FS_CardinalityType DEF Weighted
  <2>2. CASE exists
    BY <1>0, <1>14, <2>1, <2>2 DEF ScoreRead
  <2>3. CASE ~exists /\ job[p] \in Events
    BY <1>0, <1>14, <2>3 DEF ScoreRead
  <2>4. CASE ~exists /\ job[p] \notin Events
    BY <1>0, <1>14, <2>4 DEF ScoreRead
  <2> QED BY <2>2, <2>3, <2>4
<1>15. ASSUME NEW p \in Procs, ScoreWrite(p) PROVE TypeOK'
  <2>1. score' \in Int /\ faults' \in Nat
    BY <1>15 DEF ScoreWrite
  <2>2. behind' \in BOOLEAN
    BY <1>15, Zenon DEF ScoreWrite
  <2>u. /\ UNCHANGED <<post, rowset, outbox, wish, missed, missedDown, staleVotes, late, requests>>
        /\ job[p] \in Events =>
             /\ pc' = [pc EXCEPT ![p] = "mark"] /\ snap' = [snap EXCEPT ![p] = 0]
             /\ UNCHANGED <<job, msg, seen>>
        /\ job[p] \notin Events => Free(p)
    BY <1>15 DEF ScoreWrite
  <2>3. CASE job[p] \in Events
    BY <1>0, <2>u, <2>1, <2>3, <2>2
  <2>4. CASE job[p] \notin Events
    BY <1>0, <2>u, <2>1, <2>4, <2>2
  <2> QED BY <2>3, <2>4
<1>16. ASSUME NEW p \in Procs, Mark(p) PROVE TypeOK'
  BY <1>0, <1>16 DEF Mark
<1>17. ASSUME NEW p \in Procs, Crash(p) PROVE TypeOK'
  BY <1>0, <1>17 DEF Crash, Lose
<1>18. ASSUME NEW p \in Procs, Refused(p) PROVE TypeOK'
  BY <1>0, <1>18 DEF Refused, Lose
<1>19. CASE UNCHANGED vars
  BY <1>0, <1>19 DEF vars
<1> HIDE DEF TypeOK
<1> QED
  BY <1>1, <1>2, <1>3, <1>4, <1>5, <1>6, <1>7, <1>8, <1>9, <1>10, <1>11,
     <1>12, <1>13, <1>14, <1>15, <1>16, <1>17, <1>18, <1>19
  DEF Next

(* Every variable keeps its type, and a process its program point: it has  *)
(* a job exactly while it is not idle, and counts only likes.              *)
THEOREM TypeCorrect == Spec => []TypeOK
<1>1. Init => TypeOK
  <2> SUFFICES ASSUME Init PROVE TypeOK
    OBVIOUS
  <2>1. exists \in BOOLEAN /\ behind \in BOOLEAN
    BY Zenon DEF Init
  <2>2. job \in [Procs -> Jobs \cup {NoJob}]
    BY DEF Init
  <2>3. NoJob \notin Events
    BY DEF NoJob, Events, Jobs
  <2>4. OutboxOK
    BY <2>3, ConstantsAssumption DEF Init, OutboxOK
  <2> QED BY <2>1, <2>2, <2>4 DEF Init, TypeOK, Points
<1> QED BY <1>1, NextTypeOK, PTL DEF Spec

-----------------------------------------------------------------------------
(***************************************************************************)
(* The like counter.                                                       *)
(***************************************************************************)
IsCounting(p, k) == IF pc[p] = "count" /\ job[p].kind = k THEN 1 ELSE 0

(* A step of one process changes Counting in that process only.            *)
LEMMA CountingMoves ==
  ASSUME TypeOK, NEW p \in Procs, NEW k,
         \A q \in Procs \ {p} : pc'[q] = pc[q] /\ job'[q] = job[q]
  PROVE  /\ Cardinality(Counting(k)) \in Nat
         /\ Cardinality(Counting(k))' =
              Cardinality(Counting(k)) + IsCounting(p, k)' - IsCounting(p, k)
<1> DEFINE S == Counting(k)
           T == Counting(k)'
<1>1. IsFiniteSet(S)
  BY ConstantsAssumption, FS_Subset DEF Counting
<1>2. S \ {p} = T \ {p}
  BY DEF Counting
<1>3. In(p, T) = IsCounting(p, k)' /\ In(p, S) = IsCounting(p, k)
  BY DEF In, Counting, IsCounting
<1>4. /\ Cardinality(S) \in Nat
      /\ Cardinality(T) = Cardinality(S) + In(p, T) - In(p, S)
  BY <1>1, <1>2, OneElement
<1> QED BY <1>3, <1>4

(* A step that leaves the likes and the counting processes alone.          *)
LEMMA SameLikes ==
  ASSUME LikeCountAccounted, exists' => exists,
         UNCHANGED <<likeCount, liked, missed, missedDown>>,
         Counting("like")' = Counting("like"),
         Counting("unlike")' = Counting("unlike")
  PROVE  LikeCountAccounted'
BY DEF LikeCountAccounted

LEMMA NextLikeCount ==
  TypeOK /\ LikeCountAccounted /\ [Next]_vars => LikeCountAccounted'
<1> SUFFICES ASSUME TypeOK, LikeCountAccounted, [Next]_vars
             PROVE  LikeCountAccounted'
  OBVIOUS
<1> USE DEF post, rowset, outbox, proc, ghosts, bounds, Goto, Free
<1>liked. IsFiniteSet(liked) /\ Cardinality(liked) \in Nat
  BY ConstantsAssumption, FS_Subset, FS_CardinalityType DEF TypeOK
<1>nat. /\ likeCount \in Int /\ missed \in Nat /\ missedDown \in Nat
        /\ pc \in [Procs -> Points] /\ DOMAIN job = Procs
  BY DEF TypeOK
<1>1. CASE DeletePost
  BY <1>1 DEF DeletePost, LikeCountAccounted
<1>2. ASSUME NEW n \in 1 .. comments, DeleteComment(n)
      PROVE  LikeCountAccounted'
  BY <1>2, SameLikes DEF DeleteComment, Counting
<1>3. ASSUME NEW u \in Users, CreateComment(u) PROVE LikeCountAccounted'
  BY <1>3, SameLikes DEF CreateComment, Counting
<1>4. ASSUME NEW u \in Users, Report(u) PROVE LikeCountAccounted'
  BY <1>4, SameLikes DEF Report, Counting
<1>5. ASSUME NEW u \in Users, NEW isLike \in BOOLEAN, React(u, isLike)
      PROVE  LikeCountAccounted'
  BY <1>5, SameLikes DEF React, Counting
<1>6. ASSUME NEW u \in Users, NEW p \in Procs, NEW c \in Choices,
             VoteRead(p, u, c)
      PROVE  LikeCountAccounted'
  BY <1>6, <1>nat, SameLikes DEF VoteRead, Counting
<1>7. ASSUME NEW p \in Procs, NEW m \in Messages, Start(p, m)
      PROVE  LikeCountAccounted'
  BY <1>7, <1>nat, SameLikes DEF Start, Counting
<1>8. ASSUME NEW p \in Procs, VoteWrite(p) PROVE LikeCountAccounted'
  BY <1>8, <1>nat, SameLikes DEF VoteWrite, Counting
<1>9. ASSUME NEW p \in Procs, LikeRow(p) PROVE LikeCountAccounted'
  <2> DEFINE u == job[p].user
  <2>1. liked \ {u} = liked' \ {u} /\ u \in liked'
    BY <1>9 DEF LikeRow
  <2>2. Cardinality(liked') = Cardinality(liked) + 1 - In(u, liked)
    BY <2>1, <1>liked, OneElement DEF In
  <2>3. \A q \in Procs \ {p} : pc'[q] = pc[q] /\ job'[q] = job[q]
    BY <1>9, <1>nat DEF LikeRow
  <2>4. /\ IsCounting(p, "like") = 0 /\ IsCounting(p, "unlike") = 0
        /\ IsCounting(p, "unlike")' = 0
        /\ IsCounting(p, "like")' = 1 - In(u, liked)
    BY <1>9, <1>nat DEF LikeRow, IsCounting, In
  <2> HIDE DEF u
  <2>5. /\ Cardinality(Counting("like"))' =
             Cardinality(Counting("like")) + 1 - In(u, liked)
        /\ Cardinality(Counting("unlike"))' = Cardinality(Counting("unlike"))
        /\ Cardinality(Counting("like")) \in Nat
        /\ Cardinality(Counting("unlike")) \in Nat
        /\ In(u, liked) \in Int
    BY <2>3, <2>4, CountingMoves DEF In
  <2>6. exists /\ UNCHANGED <<likeCount, missed, missedDown>>
    BY <1>9 DEF LikeRow, Touch
  <2> QED BY <2>2, <2>5, <2>6, <1>nat, <1>liked DEF LikeCountAccounted
<1>10. ASSUME NEW p \in Procs, UnlikeRow(p) PROVE LikeCountAccounted'
  <2> DEFINE u == job[p].user
  <2>1. liked \ {u} = liked' \ {u} /\ u \notin liked'
    BY <1>10 DEF UnlikeRow
  <2>2. Cardinality(liked') = Cardinality(liked) - In(u, liked)
    BY <2>1, <1>liked, OneElement DEF In
  <2>3. \A q \in Procs \ {p} : pc'[q] = pc[q] /\ job'[q] = job[q]
    BY <1>10, <1>nat DEF UnlikeRow
  <2>4. /\ IsCounting(p, "like") = 0 /\ IsCounting(p, "unlike") = 0
        /\ IsCounting(p, "like")' = 0
        /\ IsCounting(p, "unlike")' = In(u, liked)
    BY <1>10, <1>nat DEF UnlikeRow, IsCounting, In
  <2> HIDE DEF u
  <2>5. /\ Cardinality(Counting("unlike"))' =
             Cardinality(Counting("unlike")) + In(u, liked)
        /\ Cardinality(Counting("like"))' = Cardinality(Counting("like"))
        /\ Cardinality(Counting("like")) \in Nat
        /\ Cardinality(Counting("unlike")) \in Nat
        /\ In(u, liked) \in Int
    BY <2>3, <2>4, CountingMoves DEF In
  <2>6. UNCHANGED <<exists, likeCount, missed, missedDown>>
    BY <1>10 DEF UnlikeRow, Touch
  <2> QED BY <2>2, <2>5, <2>6, <1>nat, <1>liked DEF LikeCountAccounted
<1>11. ASSUME NEW p \in Procs, Count(p) PROVE LikeCountAccounted'
  <2>1. \A q \in Procs \ {p} : pc'[q] = pc[q] /\ job'[q] = job[q]
    BY <1>11, <1>nat DEF Count
  <2>2. /\ IsCounting(p, "like")' = 0 /\ IsCounting(p, "unlike")' = 0
        /\ IsCounting(p, "like") - IsCounting(p, "unlike") = Step(p)
        /\ IsCounting(p, "like") \in Int /\ IsCounting(p, "unlike") \in Int
        /\ Step(p) \in Int
    BY <1>11, <1>nat DEF Count, IsCounting, Step, TypeOK
  <2>3. /\ exists /\ likeCount' = likeCount + Step(p)
        /\ UNCHANGED <<liked, missed, missedDown>>
    BY <1>11 DEF Count
  <2>4. /\ Cardinality(Counting("like"))' =
             Cardinality(Counting("like")) - IsCounting(p, "like")
        /\ Cardinality(Counting("unlike"))' =
             Cardinality(Counting("unlike")) - IsCounting(p, "unlike")
        /\ Cardinality(Counting("like")) \in Nat
        /\ Cardinality(Counting("unlike")) \in Nat
    BY <2>1, <2>2, CountingMoves
  <2> QED BY <2>2, <2>3, <2>4, <1>nat, <1>liked DEF LikeCountAccounted
<1>12. ASSUME NEW p \in Procs, CommentTx(p) PROVE LikeCountAccounted'
  BY <1>12, <1>nat, SameLikes DEF CommentTx, Counting
<1>13. ASSUME NEW p \in Procs, CommentNoPost(p) PROVE LikeCountAccounted'
  BY <1>13, <1>nat, SameLikes DEF CommentNoPost, Counting
<1>14. ASSUME NEW p \in Procs, ScoreRead(p) PROVE LikeCountAccounted'
  BY <1>14, <1>nat, SameLikes DEF ScoreRead, Counting
<1>15. ASSUME NEW p \in Procs, ScoreWrite(p) PROVE LikeCountAccounted'
  BY <1>15, <1>nat, SameLikes DEF ScoreWrite, Counting
<1>16. ASSUME NEW p \in Procs, Mark(p) PROVE LikeCountAccounted'
  BY <1>16, <1>nat, SameLikes DEF Mark, Counting
<1>17. ASSUME NEW p \in Procs, Lose(p) PROVE LikeCountAccounted'
  <2>1. \A q \in Procs \ {p} : pc'[q] = pc[q] /\ job'[q] = job[q]
    BY <1>17, <1>nat DEF Lose
  <2>2. /\ IsCounting(p, "like")' = 0 /\ IsCounting(p, "unlike")' = 0
        /\ IsCounting(p, "like") \in Int /\ IsCounting(p, "unlike") \in Int
        /\ missed' = missed + IsCounting(p, "like")
        /\ missedDown' = missedDown + IsCounting(p, "unlike")
    BY <1>17, <1>nat DEF Lose, IsCounting
  <2>3. UNCHANGED <<exists, likeCount, liked>>
    BY <1>17 DEF Lose
  <2>4. /\ Cardinality(Counting("like"))' =
             Cardinality(Counting("like")) - IsCounting(p, "like")
        /\ Cardinality(Counting("unlike"))' =
             Cardinality(Counting("unlike")) - IsCounting(p, "unlike")
        /\ Cardinality(Counting("like")) \in Nat
        /\ Cardinality(Counting("unlike")) \in Nat
    BY <2>1, <2>2, CountingMoves
  <2> QED BY <2>2, <2>3, <2>4, <1>nat, <1>liked DEF LikeCountAccounted
<1>18. CASE UNCHANGED vars
  BY <1>18, SameLikes DEF vars, Counting
<1> QED
  BY <1>1, <1>2, <1>3, <1>4, <1>5, <1>6, <1>7, <1>8, <1>9, <1>10, <1>11,
     <1>12, <1>13, <1>14, <1>15, <1>16, <1>17, <1>18
  DEF Next, Crash, Refused

(* The like counter is off by exactly the updates in flight and the lost   *)
(* ones (LikeCountAccounted).                                              *)
THEOREM LikesAccounted == Spec => []LikeCountAccounted
<1>1. Init => LikeCountAccounted
  <2> SUFFICES ASSUME Init PROVE LikeCountAccounted
    OBVIOUS
  <2>1. Counting("like") = {} /\ Counting("unlike") = {} /\ liked = {}
    BY DEF Init, Counting
  <2> QED BY <2>1, FS_EmptySet DEF Init, LikeCountAccounted
<1> QED BY <1>1, NextLikeCount, TypeCorrect, PTL DEF Spec

-----------------------------------------------------------------------------
(***************************************************************************)
(* The vote counters.                                                      *)
(***************************************************************************)
(* Votes, counters and staleVotes only change together, in VoteWrite.      *)
LEMMA VotersFinite ==
  ASSUME TypeOK, NEW c
  PROVE  IsFiniteSet(Voters(c)) /\ Cardinality(Voters(c)) \in Nat
BY ConstantsAssumption, FS_Subset, FS_CardinalityType DEF Voters

LEMMA NextVotes == TypeOK /\ VotesAccounted /\ [Next]_vars => VotesAccounted'
<1> SUFFICES ASSUME TypeOK, VotesAccounted, [Next]_vars
             PROVE  VotesAccounted'
  OBVIOUS
<1>1. ASSUME exists' => exists,
             UNCHANGED <<voted, agreeCount, disagreeCount, staleVotes>>
      PROVE  VotesAccounted'
  <2>1. \A c \in Choices : Voters(c)' = Voters(c)
    BY <1>1 DEF Voters
  <2> QED BY <1>1, <2>1 DEF VotesAccounted, Choices
<1>2. CASE DeletePost
  BY <1>2 DEF DeletePost, VotesAccounted
<1>3. ASSUME NEW p \in Procs, VoteWrite(p) PROVE VotesAccounted'
  <2> DEFINE u == job[p].user
             k == job[p].kind
             Err(c) == (IF voted[u] = c THEN 1 ELSE 0) - (IF seen[p] = c THEN 1 ELSE 0)
  <2>1. /\ exists /\ u \in Users /\ k \in Choices
        /\ voted' = [voted EXCEPT ![u] = k]
        /\ agreeCount' = agreeCount + Delta(p, "agree")
        /\ disagreeCount' = disagreeCount + Delta(p, "disagree")
        /\ staleVotes' = IF seen[p] = voted[u] THEN staleVotes ELSE staleVotes + 1
    BY <1>3 DEF VoteWrite, TypeOK, Jobs, NoJob, Choices
  <2>2. /\ voted \in [Users -> Choices \cup {"none"}] /\ staleVotes \in Nat
        /\ agreeCount \in Int /\ disagreeCount \in Int
    BY DEF TypeOK
  <2> HIDE DEF u, k
  <2>3. ASSUME NEW c \in Choices
        PROVE  /\ Cardinality(Voters(c)') = Cardinality(Voters(c))
                    + (IF k = c THEN 1 ELSE 0) - (IF voted[u] = c THEN 1 ELSE 0)
               /\ Cardinality(Voters(c)) \in Nat
    <3>1. Voters(c) \ {u} = Voters(c)' \ {u}
      BY <2>1, <2>2 DEF Voters
    <3>2. /\ In(u, Voters(c)') = IF k = c THEN 1 ELSE 0
          /\ In(u, Voters(c)) = IF voted[u] = c THEN 1 ELSE 0
      BY <2>1, <2>2 DEF Voters, In
    <3>3. /\ Cardinality(Voters(c)) \in Nat
          /\ Cardinality(Voters(c)')
               = Cardinality(Voters(c)) + In(u, Voters(c)') - In(u, Voters(c))
      BY <3>1, VotersFinite, OneElement
    <3> QED BY <3>2, <3>3
  <2>4. ASSUME NEW c \in Choices
        PROVE  /\ Delta(p, c) - (Cardinality(Voters(c)') - Cardinality(Voters(c))) = Err(c)
               /\ Delta(p, c) \in Int
               /\ Cardinality(Voters(c)) \in Nat /\ Cardinality(Voters(c)') \in Int
    BY <2>3 DEF Delta, k
  <2>5. ASSUME NEW c \in Choices, NEW n \in Int,
               Within(staleVotes, n, Cardinality(Voters(c)))
        PROVE  Within(staleVotes', n + Delta(p, c), Cardinality(Voters(c)'))
    <3>1. /\ Err(c) \in Int /\ -1 <= Err(c) /\ Err(c) <= 1
          /\ seen[p] = voted[u] => Err(c) = 0
      OBVIOUS
    <3> HIDE DEF Err
    <3>2. CASE seen[p] = voted[u]
      BY <2>1, <2>2, <2>4, <2>5, <3>1, <3>2 DEF Within
    <3>3. CASE seen[p] # voted[u]
      BY <2>1, <2>2, <2>4, <2>5, <3>1, <3>3 DEF Within
    <3> QED BY <3>2, <3>3
  <2>6. /\ Within(staleVotes', agreeCount + Delta(p, "agree"),
                  Cardinality(Voters("agree")'))
        /\ Within(staleVotes', disagreeCount + Delta(p, "disagree"),
                  Cardinality(Voters("disagree")'))
    BY <2>1, <2>2, <2>5 DEF VotesAccounted, Choices
  <2>7. /\ Within(staleVotes', agreeCount', Cardinality(Voters("agree")'))
        /\ Within(staleVotes', disagreeCount', Cardinality(Voters("disagree")'))
    BY <2>1, <2>6
  <2> QED BY <2>7 DEF VotesAccounted, Within
<1>4. CASE UNCHANGED vars
  BY <1>1, <1>4 DEF vars, post, rowset, ghosts
<1>5. CASE /\ Next /\ ~DeletePost /\ \A p \in Procs : ~VoteWrite(p)
  <2> USE DEF post, rowset, ghosts
  <2>1. exists' = exists /\ UNCHANGED <<voted, agreeCount, disagreeCount, staleVotes>>
    BY <1>5
    DEF Next, DeleteComment, CreateComment, Report, React, VoteRead, Start,
        LikeRow, UnlikeRow, Count, CommentTx, CommentNoPost, ScoreRead,
        ScoreWrite, Mark, Crash, Refused, Lose, Touch
  <2> QED BY <1>1, <2>1
<1> QED BY <1>2, <1>3, <1>4, <1>5

(* A vote counter is off by at most one per vote that overwrote a vote its *)
(* request had not read (VotesAccounted).                                  *)
THEOREM VoteDriftBounded == Spec => []VotesAccounted
<1>1. Init => VotesAccounted
  <2> SUFFICES ASSUME Init PROVE VotesAccounted
    OBVIOUS
  <2>1. Voters("agree") = {} /\ Voters("disagree") = {}
    BY DEF Init, Voters
  <2> QED BY <2>1, FS_EmptySet DEF Init, VotesAccounted, Within
<1> QED BY <1>1, NextVotes, TypeCorrect, PTL DEF Spec

-----------------------------------------------------------------------------
LEMMA NextComments ==
  TypeOK /\ CommentsCounted /\ [Next]_vars => CommentsCounted'
<1> SUFFICES ASSUME TypeOK, CommentsCounted, [Next]_vars
             PROVE  CommentsCounted'
  OBVIOUS
<1> USE DEF post, rowset, ghosts
<1>1. comments \in Nat /\ commentCount \in Nat
  BY DEF TypeOK
<1>2. CASE DeletePost
  BY <1>2 DEF DeletePost, CommentsCounted
<1>3. ASSUME NEW p \in Procs, CommentTx(p) PROVE CommentsCounted'
  BY <1>1, <1>3 DEF CommentTx, CommentsCounted
<1>4. ASSUME NEW n \in 1 .. comments, DeleteComment(n) PROVE CommentsCounted'
  BY <1>1, <1>4 DEF DeleteComment, CommentsCounted
<1>5. CASE UNCHANGED vars
  BY <1>5 DEF vars, CommentsCounted
<1>6. CASE /\ Next /\ ~DeletePost /\ \A p \in Procs : ~CommentTx(p)
           /\ \A n \in 1 .. comments : ~DeleteComment(n)
  <2>1. UNCHANGED <<exists, comments, commentCount>>
    BY <1>6
    DEF Next, CreateComment, Report, React, VoteRead, VoteWrite, Start,
        LikeRow, UnlikeRow, Count, CommentNoPost, ScoreRead,
        ScoreWrite, Mark, Crash, Refused, Lose, Touch
  <2> QED BY <2>1 DEF CommentsCounted
<1> QED BY <1>2, <1>3, <1>4, <1>5, <1>6

(* The comment counter never falls below the number of comments.           *)
THEOREM CommentsNeverUncounted == Spec => []CommentsCounted
<1>1. Init => CommentsCounted
  BY DEF Init, CommentsCounted
<1> QED BY <1>1, NextComments, TypeCorrect, PTL DEF Spec

-----------------------------------------------------------------------------
(***************************************************************************)
(* The score.  While it is out of date and nothing was lost, somebody will *)
(* still recompute it: a process that is about to read the counters or to  *)
(* write the right score, or a worker that has yet to be done with an      *)
(* outbox row nobody has got to the mark with.                             *)
(***************************************************************************)
Owed(m) ==
  /\ event[m] # NoJob /\ m \notin processed
  /\ \A q \in Holders(m) : pc[q] # "mark"

WillRecompute ==
  \/ \E p \in Procs : pc[p] = "read"
  \/ \E p \in Procs : pc[p] = "write" /\ snap[p] = Weighted
  \/ \E m \in Messages : Owed(m)

ScoreInv == exists /\ ~behind => score = Weighted \/ WillRecompute

OthersStay(p) ==
  \A q \in Procs \ {p} : /\ pc'[q] = pc[q] /\ job'[q] = job[q]
                         /\ msg'[q] = msg[q] /\ snap'[q] = snap[q]

LEMMA NextScore == TypeOK /\ ScoreInv /\ [Next]_vars => ScoreInv'
<1> SUFFICES ASSUME TypeOK, ScoreInv, [Next]_vars, exists', ~behind'
             PROVE  (score = Weighted \/ WillRecompute)'
  BY DEF ScoreInv
<1> DEFINE Good == score = Weighted \/ WillRecompute
<1> USE DEF post, rowset, outbox, proc, ghosts, bounds, Goto
<1>t. /\ pc \in [Procs -> Points] /\ DOMAIN job = Procs /\ DOMAIN msg = Procs
      /\ DOMAIN snap = Procs
      /\ requests \in Nat /\ OutboxOK
  BY DEF TypeOK, OutboxOK
(* The inputs and the score stay, and so does every reason to recompute.   *)
<1>1. ASSUME exists, ~behind, UNCHANGED <<score, Weighted>>,
             \A p \in Procs : pc[p] = "read" => pc'[p] = "read",
             \A p \in Procs : pc[p] = "write" => UNCHANGED <<pc[p], snap[p]>>,
             \A m \in Messages : Owed(m) => Owed(m)'
      PROVE  Good'
  BY <1>1 DEF ScoreInv, WillRecompute
(* Only tables change. *)
<1>2. ASSUME exists, ~behind, UNCHANGED <<score, Weighted, proc, processed>>,
             \A m \in Messages : event[m] # NoJob => event'[m] = event[m]
      PROVE  Good'
  <2>1. \A m \in Messages : Owed(m) => Owed(m)'
    BY <1>2 DEF Owed, Holders
  <2> QED BY <1>1, <1>2, <2>1
(* A step of p that neither reads nor writes a score, nor marks a row nor
   gets there. *)
<1>3. ASSUME NEW p \in Procs, exists, ~behind, OthersStay(p),
             UNCHANGED <<score, Weighted, outbox>>,
             pc[p] \notin {"read", "write"}, pc'[p] # "mark"
      PROVE  Good'
  <2>1. \A m \in Messages : Owed(m) => Owed(m)'
    BY <1>3 DEF Owed, Holders, OthersStay
  <2> QED BY <1>1, <1>3, <2>1 DEF OthersStay
<1>5. CASE DeletePost
  BY <1>5 DEF DeletePost
<1>6. ASSUME NEW n \in 1 .. comments, DeleteComment(n) PROVE Good'
  BY <1>2, <1>6 DEF DeleteComment, Weighted
<1>7. ASSUME NEW u \in Users, CreateComment(u) PROVE Good'
  <2>1. [kind |-> "comment", user |-> u] \in Events
    BY DEF Events, Jobs, Choices
  <2>2. /\ UNCHANGED <<exists, behind, score, Weighted, proc>> /\ Request
        /\ Queue([kind |-> "comment", user |-> u])
    BY <1>7 DEF CreateComment, Weighted
  <2> QED BY <1>t, <1>2, <2>1, <2>2, QueueAdds
<1>8. ASSUME NEW u \in Users, Report(u) PROVE Good'
  BY <1>8 DEF Report
<1>9. ASSUME NEW u \in Users, NEW isLike \in BOOLEAN, React(u, isLike) PROVE Good'
  <2> DEFINE e == [kind |-> IF isLike THEN "like" ELSE "unlike", user |-> u]
  <2>1. e \in Events
    BY DEF Events, Jobs, Choices
  <2>2. /\ UNCHANGED <<exists, behind, score, Weighted, proc>> /\ Request
        /\ UNCHANGED outbox \/ Queue(e)
    BY <1>9 DEF React, Weighted
  <2> HIDE DEF e
  <2> QED BY <1>t, <1>2, <2>1, <2>2, QueueAdds
<1>10. ASSUME NEW u \in Users, NEW p \in Procs, NEW c \in Choices, VoteRead(p, u, c)
       PROVE  Good'
  BY <1>t, <1>3, <1>10 DEF VoteRead, Weighted, OthersStay
<1>11. ASSUME NEW p \in Procs, NEW m \in Messages, Start(p, m) PROVE Good'
  BY <1>t, <1>3, <1>11 DEF Start, Weighted, OthersStay
<1>12. ASSUME NEW p \in Procs, VoteWrite(p) \/ Count(p) \/ CommentTx(p) PROVE Good'
  <2>1. pc'[p] = "read"
    BY <1>t, <1>12 DEF VoteWrite, Count, CommentTx
  <2> QED BY <2>1 DEF WillRecompute
<1>13. ASSUME NEW p \in Procs, LikeRow(p) \/ UnlikeRow(p) PROVE Good'
  <2>1. /\ UNCHANGED <<exists, behind, score, Weighted, outbox>>
        /\ OthersStay(p) /\ pc[p] = "row" /\ pc'[p] \in {"read", "count"}
    BY <1>t, <1>13 DEF LikeRow, UnlikeRow, Touch, Weighted, OthersStay
  <2> QED BY <1>3, <2>1
<1>15. ASSUME NEW p \in Procs, CommentNoPost(p) PROVE Good'
  BY <1>15 DEF CommentNoPost
<1>16. ASSUME NEW p \in Procs, ScoreRead(p) PROVE Good'
  <2>1. /\ pc' = [pc EXCEPT ![p] = "write"] /\ snap' = [snap EXCEPT ![p] = Weighted]
        /\ UNCHANGED Weighted
    BY <1>16 DEF ScoreRead, Weighted
  <2>2. pc'[p] = "write" /\ snap'[p] = Weighted'
    BY <1>t, <2>1
  <2> QED BY <2>2 DEF WillRecompute
<1>17. ASSUME NEW p \in Procs, ScoreWrite(p) PROVE Good'
  <2>1. behind' = (snap[p] # Weighted) /\ score' = snap[p] /\ UNCHANGED Weighted
    BY <1>17, Zenon DEF ScoreWrite, Weighted
  <2> QED BY <2>1
<1>18. ASSUME NEW p \in Procs, Mark(p) PROVE Good'
  <2>1. /\ UNCHANGED <<exists, behind, score, Weighted, event>>
        /\ pc[p] = "mark" /\ OthersStay(p) /\ pc'[p] = "idle"
        /\ processed' = processed \cup {msg[p]}
    BY <1>t, <1>18 DEF Mark, Weighted, Free, OthersStay
  <2>2. \A m \in Messages : Owed(m) => Owed(m)'
    BY <2>1 DEF Owed, Holders, OthersStay
  <2> QED BY <1>1, <2>1, <2>2 DEF OthersStay
(* Where p would have recomputed, its row is handled again. *)
<1>19. ASSUME NEW p \in Procs, Lose(p) PROVE Good'
  <2>1. /\ UNCHANGED <<exists, score, Weighted, outbox>>
        /\ OthersStay(p) /\ pc'[p] = "idle" /\ msg'[p] = 0
        /\ ~behind /\ ~(pc[p] \in {"read", "write"} /\ NotRepeated(p))
    BY <1>t, <1>19 DEF Lose, Weighted, Free, OthersStay
  <2>2. CASE pc[p] \in {"read", "write"}
    <3>1. /\ job[p].kind \notin Choices /\ msg[p] \notin processed
          /\ \A q \in Holders(msg[p]) \ {p} : pc[q] # "mark"
      BY <2>1, <2>2 DEF NotRepeated
    <3>2. job[p] \in Events
      BY <2>2, <3>1 DEF TypeOK, Events, NoJob
    <3>3. NoJob \notin Events
      BY DEF NoJob, Events, Jobs
    <3>4. msg[p] \in Messages /\ event[msg[p]] # NoJob
      BY <1>t, <3>2, <3>3, ConstantsAssumption DEF OutboxOK, Messages
    <3>5. \A m \in Messages : m = msg[p] => Owed(m)'
      BY <2>1, <3>1, <3>4 DEF Owed, Holders, OthersStay
    <3>6. \E m \in Messages : Owed(m)'
      BY <3>4, <3>5
    <3> QED BY <3>6 DEF WillRecompute
  <2>3. CASE pc[p] \notin {"read", "write"}
    BY <1>3, <1>19, <2>1, <2>3 DEF Lose
  <2> QED BY <2>2, <2>3
<1>20. CASE UNCHANGED vars
  BY <1>2, <1>20 DEF vars, Weighted
<1> QED
  BY <1>5, <1>6, <1>7, <1>8, <1>9, <1>10, <1>11, <1>12, <1>13, <1>15,
     <1>16, <1>17, <1>18, <1>19, <1>20
  DEF Next, Crash, Refused

(* When everything is handled and no recompute was lost, the score agrees  *)
(* with the counters (ScoreCatchesUp).                                     *)
THEOREM ScoreConverges == Spec => []ScoreCatchesUp
<1>1. Init => ScoreInv
  <2> SUFFICES ASSUME Init PROVE ScoreInv
    OBVIOUS
  <2>1. Weighted = 0
    BY FS_EmptySet DEF Init, Weighted
  <2> QED BY <2>1 DEF Init, ScoreInv
<1>2. ScoreInv => ScoreCatchesUp
  BY DEF ScoreCatchesUp, ScoreInv, WillRecompute, Owed, Quiet
<1> QED BY <1>1, <1>2, NextScore, TypeCorrect, PTL DEF Spec

-----------------------------------------------------------------------------
(***************************************************************************)
(* Likes that were asked for one at a time.  Everything queued for such a  *)
(* user is what was asked for last; the like row agrees with it, or was    *)
(* last written too late, or nobody has got past the row of an event that  *)
(* is still queued.                                                        *)
(***************************************************************************)
Agrees(u) == wish[u] = "like" <=> u \in liked

BeforeRow(m) == \A q \in Holders(m) : pc[q] = "row"

WishHolds(u) ==
  wish[u] # "any" =>
    /\ \A m \in Reactions(u) \ processed : event[m].kind = wish[u]
    /\ \/ Agrees(u)
       \/ u \in late
       \/ \E m \in Reactions(u) \ processed : BeforeRow(m)

WishInv == exists => \A u \in Users : WishHolds(u)

LEMMA NextWish == TypeOK /\ WishInv /\ [Next]_vars => WishInv'
<1> SUFFICES ASSUME TypeOK, WishInv, [Next]_vars, exists', NEW v \in Users
             PROVE  WishHolds(v)'
  BY DEF WishInv
<1> USE DEF post, rowset, outbox, proc, ghosts, bounds, Goto
<1>t. /\ pc \in [Procs -> Points] /\ DOMAIN job = Procs /\ DOMAIN msg = Procs
      /\ DOMAIN snap = Procs
      /\ wish \in [Users -> {"like", "unlike", "any"}]
      /\ event \in [Messages -> Events \cup {NoJob}]
      /\ requests \in Nat /\ OutboxOK
  BY DEF TypeOK, OutboxOK
<1>r. \A m \in Messages : event[m] = NoJob => m \notin Reactions(v)
  BY DEF Reactions, NoJob
(* Nothing that matters to the user changes.                               *)
<1>same. ASSUME exists, UNCHANGED <<wish, event>>,
                v \in liked' <=> v \in liked, v \in late => v \in late',
                \A m \in Reactions(v) \ processed' : m \notin processed,
                \A m \in Reactions(v) \ processed :
                  BeforeRow(m) => BeforeRow(m)' /\ m \notin processed'
         PROVE  WishHolds(v)'
  <2>1. Reactions(v)' = Reactions(v)
    BY <1>same DEF Reactions
  <2>2. WishHolds(v) /\ (Agrees(v)' <=> Agrees(v))
    BY <1>same DEF WishInv, Agrees
  <2>3. wish'[v] # "any" => \A m \in Reactions(v)' \ processed' : event'[m].kind = wish'[v]
    BY <1>same, <2>1, <2>2 DEF WishHolds
  <2>4. (\E m \in Reactions(v) \ processed : BeforeRow(m))
          => \E m \in Reactions(v)' \ processed' : BeforeRow(m)'
    BY <1>same, <2>1
  <2> QED BY <1>same, <2>2, <2>3, <2>4 DEF WishHolds
(* Only tables change.                                                     *)
<1>still. ASSUME exists, UNCHANGED <<wish, liked, late, processed, proc>>,
                 Reactions(v)' = Reactions(v),
                 \A m \in Reactions(v) : event'[m] = event[m]
          PROVE  WishHolds(v)'
  <2>1. WishHolds(v) /\ (Agrees(v)' <=> Agrees(v)) /\ \A m : BeforeRow(m)' <=> BeforeRow(m)
    BY <1>still DEF WishInv, Agrees, BeforeRow, Holders
  <2> QED BY <1>still, <2>1 DEF WishHolds
(* A step of p that leaves the like rows alone, and does not leave "row".  *)
<1>move. ASSUME NEW p \in Procs, exists, OthersStay(p),
                UNCHANGED <<wish, liked, late, outbox>>,
                pc[p] # "row" \/ pc'[p] = "row" \/ msg'[p] = 0,
                pc'[p] = "row" \/ msg'[p] \in {0, msg[p]}
         PROVE  WishHolds(v)'
  <2>1. \A m \in Messages : BeforeRow(m) => BeforeRow(m)'
    BY <1>move, ConstantsAssumption DEF BeforeRow, Holders, OthersStay, Messages
  <2>2. Reactions(v) \subseteq Messages
    BY DEF Reactions
  <2> QED BY <1>move, <1>same, <2>1, <2>2
<1>2. CASE DeletePost
  BY <1>2 DEF DeletePost
<1>3. ASSUME NEW n \in 1 .. comments, DeleteComment(n) PROVE WishHolds(v)'
  BY <1>3, <1>still DEF DeleteComment, Reactions
<1>4. ASSUME NEW u \in Users, CreateComment(u) PROVE WishHolds(v)'
  <2> DEFINE e == [kind |-> "comment", user |-> u]
  <2>1. e \in Events /\ e \notin [kind : {"like", "unlike"}, user : {v}]
    BY DEF Events, Jobs, Choices
  <2>2. /\ UNCHANGED <<exists, wish, liked, late, proc>> /\ Request /\ Queue(e)
    BY <1>4 DEF CreateComment
  <2>3. /\ UNCHANGED processed /\ event[requests'] = NoJob
        /\ event' = [event EXCEPT ![requests'] = e]
        /\ \A m \in Messages : event[m] # NoJob => event'[m] = event[m]
    BY <1>t, <2>1, <2>2, QueueAdds
  <2> HIDE DEF e
  <2>4. Reactions(v)' = Reactions(v)
    BY <1>t, <1>r, <2>1, <2>3 DEF Reactions
  <2>5. \A m \in Reactions(v) : event'[m] = event[m]
    BY <1>r, <2>3 DEF Reactions
  <2> QED BY <1>4, <1>still, <2>2, <2>3, <2>4, <2>5 DEF CreateComment
<1>5. ASSUME NEW u \in Users, Report(u) PROVE WishHolds(v)'
  BY <1>5, <1>still DEF Report, Reactions
<1>6. ASSUME NEW u \in Users, NEW isLike \in BOOLEAN, React(u, isLike)
      PROVE  WishHolds(v)'
  <2> DEFINE k == IF isLike THEN "like" ELSE "unlike"
             e == [kind |-> k, user |-> u]
  <2>0. e \in Events /\ k \in {"like", "unlike"} /\ (k = "like" <=> isLike)
    BY DEF Events, Jobs, Choices
  <2>1. /\ exists /\ UNCHANGED <<liked, late, proc>> /\ Request
        /\ \/ (u \in liked) = isLike /\ UNCHANGED outbox
           \/ Queue(e)
        /\ wish' = [wish EXCEPT ![u] = IF Waiting(u) THEN "any" ELSE k]
    BY <1>6 DEF React
  <2>k. /\ e.kind = k
        /\ \A w : e \in [kind : {"like", "unlike"}, user : {w}] <=> w = u
    BY <2>0
  <2> HIDE DEF k, e
  <2>2. CASE v # u
    <3>1. wish'[v] = wish[v]
      BY <1>t, <2>1, <2>2
    <3>2. CASE UNCHANGED outbox
      <4>1. WishHolds(v) /\ UNCHANGED Reactions(v) /\ (Agrees(v)' <=> Agrees(v))
            /\ \A m : BeforeRow(m)' <=> BeforeRow(m)
        BY <2>1, <3>1, <3>2 DEF WishInv, Agrees, BeforeRow, Holders, Reactions
      <4> QED BY <2>1, <3>1, <3>2, <4>1 DEF WishHolds
    <3>3. CASE Queue(e)
      <4>0. /\ UNCHANGED processed /\ event[requests'] = NoJob
            /\ event' = [event EXCEPT ![requests'] = e]
            /\ \A m \in Messages : event[m] # NoJob => event'[m] = event[m]
        BY <1>t, <2>0, <2>1, <3>3, QueueAdds
      <4>1. Reactions(v)' = Reactions(v)
        BY <1>t, <1>r, <2>2, <2>k, <4>0 DEF Reactions
      <4>2. \A m \in Reactions(v) : event'[m] = event[m]
        BY <1>r, <4>0 DEF Reactions
      <4>3. WishHolds(v) /\ (Agrees(v)' <=> Agrees(v))
            /\ \A m : BeforeRow(m)' <=> BeforeRow(m)
        BY <2>1, <3>1 DEF WishInv, Agrees, BeforeRow, Holders
      <4> QED BY <2>1, <3>1, <4>0, <4>1, <4>2, <4>3 DEF WishHolds
    <3> QED BY <2>1, <3>2, <3>3
  <2>3. CASE v = u
    <3> SUFFICES ASSUME wish'[v] # "any" PROVE WishHolds(v)'
      BY DEF WishHolds
    <3>1. wish'[v] = k /\ Reactions(v) \subseteq processed
      BY <1>t, <2>1, <2>3 DEF Waiting
    <3>2. CASE (u \in liked) = isLike /\ UNCHANGED outbox
      <4>1. Reactions(v)' = Reactions(v) /\ Agrees(v)'
        BY <2>0, <2>1, <2>3, <3>1, <3>2 DEF Reactions, Agrees
      <4> QED BY <3>1, <3>2, <4>1 DEF WishHolds
    <3>3. CASE Queue(e)
      <4>0. /\ requests' \in Messages /\ event[requests'] = NoJob
            /\ requests' \notin processed /\ UNCHANGED processed
            /\ event' = [event EXCEPT ![requests'] = e]
            /\ \A p \in Procs : msg[p] # requests'
        BY <1>t, <2>0, <2>1, <3>3, QueueAdds
      <4>1. PICK n \in Messages : n = requests'
        BY <4>0
      <4>2. event'[n] = e /\ \A m \in Messages \ {n} : event'[m] = event[m]
        BY <1>t, <4>0, <4>1
      <4>3. n \in Reactions(v)' /\ Reactions(v)' \subseteq Reactions(v) \cup {n}
        BY <2>3, <2>k, <4>2 DEF Reactions
      <4>4. BeforeRow(n)'
        BY <2>1, <4>0, <4>1 DEF BeforeRow, Holders
      <4>5. \A m \in Reactions(v)' \ processed' : m = n
        BY <3>1, <4>0, <4>3
      <4> QED BY <2>k, <3>1, <4>0, <4>1, <4>2, <4>3, <4>4, <4>5 DEF WishHolds
    <3> QED BY <2>1, <3>2, <3>3
  <2> QED BY <2>2, <2>3
<1>7. ASSUME NEW u \in Users, NEW p \in Procs, NEW c \in Choices, VoteRead(p, u, c)
      PROVE  WishHolds(v)'
  BY <1>7, <1>t, <1>move DEF VoteRead, OthersStay
<1>8. ASSUME NEW p \in Procs, NEW m \in Messages, Start(p, m) PROVE WishHolds(v)'
  <2>1. OthersStay(p) /\ pc'[p] = "row" /\ UNCHANGED <<exists, wish, liked, late, outbox>>
    BY <1>8, <1>t DEF Start, OthersStay
  <2> QED BY <1>8, <2>1, <1>move DEF Start
<1>9. ASSUME NEW p \in Procs, VoteWrite(p) \/ Count(p) PROVE WishHolds(v)'
  <2>1. /\ OthersStay(p) /\ exists /\ UNCHANGED <<wish, liked, late, outbox, msg>>
        /\ pc[p] # "row"
    BY <1>9, <1>t DEF VoteWrite, Count, OthersStay
  <2> QED BY <2>1, <1>move
(* The row follows the event; every other event of the user agrees.        *)
<1>10. ASSUME NEW p \in Procs, NEW r \in {"like", "unlike"}, exists,
              job[p].kind = r, pc[p] = "row", OthersStay(p),
              UNCHANGED <<outbox, job, msg>>, Touch(p, job[p].user),
              liked' = IF r = "like" THEN liked \cup {job[p].user}
                                     ELSE liked \ {job[p].user}
       PROVE  WishHolds(v)'
  <2>0. NoJob \notin Events
    BY DEF NoJob, Events, Jobs
  <2>1. /\ job[p] \in Events /\ msg[p] \in Messages /\ event[msg[p]] = job[p]
        /\ job[p] = [kind |-> r, user |-> job[p].user] /\ job[p].user \in Users
    BY <1>10, ConstantsAssumption DEF TypeOK, OutboxOK, Events, Jobs, Messages
  <2>2. WishHolds(v) /\ UNCHANGED <<Reactions(v), wish>>
    BY <1>10 DEF WishInv, Touch, Reactions
  <2>3. CASE v = job[p].user
    <3>1. CASE msg[p] \in processed
      <4>1. v \in late'
        BY <1>10, <2>3, <3>1 DEF Touch
      <4> QED BY <1>10, <2>2, <4>1 DEF WishHolds
    <3>2. CASE msg[p] \notin processed
      <4> SUFFICES ASSUME wish[v] # "any" PROVE WishHolds(v)'
        BY <2>2 DEF WishHolds
      <4>1. msg[p] \in Reactions(v) \ processed
        BY <2>1, <2>3, <3>2 DEF Reactions
      <4>2. wish[v] = r
        BY <2>1, <2>2, <4>1 DEF WishHolds
      <4>3. Agrees(v)'
        BY <1>10, <2>2, <2>3, <4>2 DEF Agrees
      <4> QED BY <1>10, <2>2, <4>3 DEF WishHolds
    <3> QED BY <3>1, <3>2
  <2>4. CASE v # job[p].user
    <3>1. (v \in liked' <=> v \in liked) /\ (v \in late => v \in late')
      BY <1>10, <2>4 DEF Touch
    <3>2. msg[p] \notin Reactions(v)
      BY <2>1, <2>4 DEF Reactions
    <3>3. \A m \in Reactions(v) : BeforeRow(m) => BeforeRow(m)'
      BY <1>10, <3>2 DEF BeforeRow, Holders, OthersStay
    <3> QED BY <1>10, <1>same, <2>2, <3>1, <3>3
  <2> QED BY <2>3, <2>4
<1>11. ASSUME NEW p \in Procs, LikeRow(p) PROVE WishHolds(v)'
  <2>1. OthersStay(p)
    BY <1>11, <1>t DEF LikeRow, OthersStay
  <2> QED BY <1>11, <2>1, <1>10 DEF LikeRow
<1>12. ASSUME NEW p \in Procs, UnlikeRow(p) PROVE WishHolds(v)'
  <2>1. OthersStay(p)
    BY <1>12, <1>t DEF UnlikeRow, OthersStay
  <2> QED BY <1>12, <2>1, <1>10 DEF UnlikeRow
(* A comment is nobody's like.                                             *)
<1>14. ASSUME NEW p \in Procs, CommentTx(p) \/ CommentNoPost(p) PROVE WishHolds(v)'
  <2>1. /\ exists /\ UNCHANGED <<wish, liked, late, outbox, job, msg>>
        /\ job[p].kind = "comment" /\ pc[p] = "row" /\ OthersStay(p)
    BY <1>14, <1>t DEF CommentTx, CommentNoPost, OthersStay
  <2>2. event[msg[p]] = job[p]
    BY <2>1 DEF TypeOK, OutboxOK
  <2>3. msg[p] \notin Reactions(v)
    BY <2>1, <2>2 DEF Reactions
  <2>4. \A m \in Reactions(v) : BeforeRow(m) => BeforeRow(m)'
    BY <2>1, <2>3 DEF BeforeRow, Holders, OthersStay
  <2> QED BY <2>1, <2>4, <1>same
<1>15. ASSUME NEW p \in Procs, ScoreRead(p) \/ ScoreWrite(p) PROVE WishHolds(v)'
  <2>1. /\ exists /\ UNCHANGED <<wish, liked, late, outbox>>
        /\ pc[p] # "row"
        /\ \/ UNCHANGED <<job, msg>> /\ \E l : Goto(p, l)
           \/ Free(p)
    BY <1>15 DEF ScoreRead, ScoreWrite, Free
  <2>s. \E w : snap' = [snap EXCEPT ![p] = w]
    <3>1. CASE ScoreRead(p)
      <4>1. snap' = [snap EXCEPT ![p] = snap[p]] \/ snap' = [snap EXCEPT ![p] = 0]
            \/ snap' = [snap EXCEPT ![p] = Weighted]
        BY <1>t, <3>1 DEF ScoreRead, Free, TypeOK
      <4> QED BY <4>1
    <3>2. CASE ScoreWrite(p)
      BY <3>2 DEF ScoreWrite, Free
    <3> QED BY <1>15, <3>1, <3>2
  <2>2. OthersStay(p) /\ msg'[p] \in {0, msg[p]}
    BY <1>t, <2>1, <2>s DEF OthersStay, Free
  <2> QED BY <2>1, <2>2, <1>move
<1>16. ASSUME NEW p \in Procs, Mark(p) PROVE WishHolds(v)'
  <2>1. /\ exists /\ UNCHANGED <<wish, liked, late, event>> /\ pc[p] = "mark"
        /\ processed' = processed \cup {msg[p]} /\ OthersStay(p) /\ msg'[p] = 0
    BY <1>16, <1>t DEF Mark, Free, OthersStay
  <2>2. \A m \in Messages : BeforeRow(m) => BeforeRow(m)' /\ m # msg[p]
    BY <2>1, ConstantsAssumption DEF BeforeRow, Holders, OthersStay, Messages
  <2>3. Reactions(v) \subseteq Messages
    BY DEF Reactions
  <2> QED BY <2>1, <2>2, <2>3, <1>same
<1>17. ASSUME NEW p \in Procs, Lose(p) PROVE WishHolds(v)'
  <2>1. /\ exists /\ UNCHANGED <<wish, liked, late, outbox>>
        /\ OthersStay(p) /\ msg'[p] = 0
    BY <1>17, <1>t DEF Lose, Free, OthersStay
  <2> QED BY <2>1, <1>move
<1>18. CASE UNCHANGED vars
  BY <1>18, <1>still DEF vars, Reactions
<1> QED
  BY <1>2, <1>3, <1>4, <1>5, <1>6, <1>7, <1>8, <1>9, <1>11, <1>12,
     <1>14, <1>15, <1>16, <1>17, <1>18
  DEF Next, Crash, Refused

(* A user whose requests each came after the one before was handled has in *)
(* the end what was asked for last, unless the like row was last written   *)
(* by a worker that came too late (LastRequestWins).                       *)
THEOREM RequestsHonoured == Spec => []LastRequestWins
<1>1. Init => WishInv
  BY DEF Init, WishInv, WishHolds, Agrees, Reactions, NoJob
<1>2. WishInv => LastRequestWins
  <2> SUFFICES ASSUME WishInv, exists, Quiet, NEW u \in Users \ late, wish[u] # "any"
               PROVE  wish[u] = "like" <=> u \in liked
    BY DEF LastRequestWins
  <2>1. Reactions(u) \subseteq processed
    BY DEF Quiet, Reactions, NoJob
  <2> QED BY <2>1 DEF WishInv, WishHolds, Agrees
<1> QED BY <1>1, <1>2, NextWish, TypeCorrect, PTL DEF Spec

-----------------------------------------------------------------------------
(***************************************************************************)
(* The feed.  Rows are functions from posts to scores.                     *)
(***************************************************************************)
LEMMA RowsAre ==
  /\ \A rows \in F!Rows : DOMAIN rows \subseteq F!Posts /\ \A p \in DOMAIN rows : rows[p] \in HotScores
  /\ \A S \in SUBSET F!Posts : \A rows \in [S -> HotScores] : rows \in F!Rows
  /\ F!NoRows \in F!Rows /\ DOMAIN F!NoRows = {}
<1>1. ASSUME NEW S \in SUBSET F!Posts, NEW rows \in [S -> HotScores] PROVE rows \in F!Rows
  BY DEF F!Rows
<1>2. ASSUME NEW rows \in F!Rows
      PROVE  DOMAIN rows \subseteq F!Posts /\ \A p \in DOMAIN rows : rows[p] \in HotScores
  BY DEF F!Rows
<1>3. F!NoRows \in [{} -> HotScores] /\ DOMAIN F!NoRows = {}
  BY DEF F!NoRows
<1> QED BY <1>1, <1>2, <1>3

LEMMA SameCardinality == \A S : F!Cardinality(S) = Cardinality(S)
  BY Zenon DEF F!Cardinality, Cardinality

LEMMA PostsFinite ==
  /\ F!Posts \subseteq Int /\ IsFiniteSet(F!Posts) /\ Cardinality(F!Posts) = N
  /\ \A S \in SUBSET F!Posts : /\ IsFiniteSet(S) /\ Cardinality(S) \in 0..N
<1>n. N \in Nat /\ N \in Int /\ 1 \in Int
  BY FeedAssumption
<1>p. IsFiniteSet(1 .. N) /\ Cardinality(1 .. N) = IF 1 > N THEN 0 ELSE N - 1 + 1
  BY ONLY <1>n, FS_Interval
<1>1. F!Posts \subseteq Int /\ IsFiniteSet(F!Posts) /\ Cardinality(F!Posts) = N /\ N \in Nat
  BY ONLY <1>n, <1>p DEF F!Posts
<1>2. ASSUME NEW S \in SUBSET F!Posts PROVE IsFiniteSet(S) /\ Cardinality(S) \in 0..N
  <2>1. IsFiniteSet(S) /\ Cardinality(S) <= N /\ Cardinality(S) \in Nat
    BY <1>1, FS_Subset, FS_CardinalityType
  <2> QED BY <1>1, <2>1
<1> QED BY <1>1, <1>2

(* A source takes some of the posts it looks at, and fewer than its limit  *)
(* only if it takes them all.                                              *)
LEMMA TakeTakes ==
  ASSUME NEW rows \in F!Rows, NEW S \in SUBSET DOMAIN rows
  PROVE  /\ F!Take(rows, S) \in F!Rows /\ DOMAIN F!Take(rows, S) \subseteq S
         /\ Cardinality(DOMAIN F!Take(rows, S)) < SOURCE_LIMIT => DOMAIN F!Take(rows, S) = S
<1> DEFINE Above(p) == {q \in S : F!Hotter(rows, q, p)}
           top == {p \in S : Cardinality(Above(p)) < SOURCE_LIMIT}
<1>0. S \subseteq F!Posts /\ \A p \in S : rows[p] \in HotScores
  BY RowsAre
<1>1. F!Take(rows, S) = [p \in top |-> rows[p]]
  <2>1. \A T : F!Cardinality(T) = Cardinality(T)
    BY SameCardinality
  <2> QED BY <2>1 DEF F!Take
<1>2. F!Take(rows, S) \in [top -> HotScores] /\ top \in SUBSET S
  BY <1>0, <1>1
<1> HIDE DEF top
<1>3. F!Take(rows, S) \in F!Rows /\ DOMAIN F!Take(rows, S) = top
  BY <1>0, <1>2, RowsAre
<1>4. ASSUME Cardinality(top) < SOURCE_LIMIT, S \ top # {} PROVE FALSE
  <2>0. S \ top \in SUBSET F!Posts
    BY <1>0
  <2>1. /\ S \ top \in SUBSET Int /\ IsFiniteSet(S \ top)
        /\ \A p \in S \ top : rows[p] \in Int
    <3>1. S \ top \in SUBSET Int /\ IsFiniteSet(S \ top)
      BY <2>0, PostsFinite
    <3>2. \A p \in S \ top : rows[p] \in Int
      BY <1>0, <2>0, FeedAssumption
    <3> QED BY <3>1, <3>2
  <2>2. PICK p \in S \ top : \A c \in S \ top : ~Outranks(rows, c, p)
    BY <1>4, <2>1, FirstInRank
  <2>3. Above(p) \subseteq top
    BY <2>2 DEF Outranks, F!Hotter
  <2>4. IsFiniteSet(top) /\ Cardinality(top) \in Nat /\ Cardinality(Above(p)) \in Nat
    BY <1>0, <1>2, PostsFinite
  <2>5. Cardinality(Above(p)) <= Cardinality(top)
    BY <2>3, <2>4, FS_Subset
  <2>6. Cardinality(Above(p)) < SOURCE_LIMIT
    BY <1>4, <2>4, <2>5, FeedAssumption
  <2> QED BY <2>2, <2>6 DEF top
<1> QED BY <1>2, <1>3, <1>4

(* The posts of a page are candidates of the request, and a first page is  *)
(* not empty when there are any.                                           *)
LEMMA ScoresHaveCandidates ==
  ASSUME NEW q PROVE DOMAIN F!Score(q) = F!Candidates(q) /\ F!Page(q) \subseteq F!Candidates(q)
<1>1. DOMAIN F!Score(q) = F!Candidates(q)
  BY DEF F!Score, F!Diversity
<1> QED BY <1>1 DEF F!Page

LEMMA CandidatesArePosts ==
  ASSUME NEW q, \A s \in F!Sources : q.rows[s] \in F!Rows
  PROVE  /\ F!Candidates(q) \in SUBSET F!Posts
         /\ \A p \in F!Candidates(q) : F!HotScore(q, p) \in Int
<1>1. \A s \in F!Sources : /\ F!From(q, s) \subseteq F!Posts
                           /\ \A p \in F!From(q, s) : q.rows[s][p] \in Int
  BY RowsAre, FeedAssumption DEF F!From
<1>2. {"favourite", "follow", "discovery"} = F!Sources
  BY DEF F!Sources
<1>3. ASSUME NEW p \in F!Candidates(q) PROVE p \in F!Posts /\ F!HotScore(q, p) \in Int
  <2>1. p \in F!From(q, "favourite") \/ p \in F!From(q, "follow") \/ p \in F!From(q, "discovery")
    BY <1>2 DEF F!Candidates
  <2>2. CASE p \in F!From(q, "favourite")
    <3>1. F!Origin(q, p) = 1
      BY <2>2 DEF F!Origin
    <3> QED BY <1>1, <1>2, <2>2, <3>1 DEF F!HotScore
  <2>3. CASE p \notin F!From(q, "favourite") /\ p \in F!From(q, "follow")
    <3>1. F!Origin(q, p) = 2
      BY <2>3 DEF F!Origin
    <3> QED BY <1>1, <1>2, <2>3, <3>1 DEF F!HotScore
  <2>4. CASE p \notin F!From(q, "favourite") /\ p \notin F!From(q, "follow")
    <3>1. F!Origin(q, p) = 3 /\ p \in F!From(q, "discovery")
      BY <2>1, <2>4 DEF F!Origin
    <3> QED BY <1>1, <1>2, <3>1 DEF F!HotScore
  <2> QED BY <2>2, <2>3, <2>4
<1> QED BY <1>3

LEMMA ScoresAreNumbers ==
  ASSUME NEW q, \A s \in F!Sources : q.rows[s] \in F!Rows
  PROVE  \A p \in F!Candidates(q) : F!Score(q)[p] \in Int
<1> DEFINE C == F!Candidates(q)
           base == [p \in C |-> F!HotScore(q, p) * F!Affinity(q, p) * F!OutOfNetwork(q, p)]
           Earlier(p) == {c \in DOMAIN base :
                            /\ OwnerOf[c] = OwnerOf[p]
                            /\ base[c] > base[p] \/ (base[c] = base[p] /\ F!Before(q, c, p))}
<1>1. C \in SUBSET F!Posts /\ DOMAIN base = C
  BY CandidatesArePosts
<1>2. \A a, b \in Int : a * b \in Int /\ a + b \in Int
  OBVIOUS
<1>3. \A p \in C : base[p] \in Int
  <2>1. ASSUME NEW p \in C PROVE F!HotScore(q, p) \in Int
    BY CandidatesArePosts
  <2>2. \A p : F!Affinity(q, p) \in Int
    BY DEF F!Affinity
  <2>3. \A p : F!OutOfNetwork(q, p) \in Int
    BY DEF F!OutOfNetwork
  <2> QED BY <1>2, <2>1, <2>2, <2>3
<1>4. ASSUME NEW p \in C PROVE F!Score(q)[p] \in Int
  <2> DEFINE n == F!Cardinality(Earlier(p))
  <2>1. F!Score(q)[p] = base[p] * (100 + (900 \div 2 ^ n))
    BY <1>1 DEF F!Score, F!Diversity
  <2>2. Earlier(p) \in SUBSET F!Posts
    BY <1>1
  <2>3. n \in 0 .. N
    <3> HIDE DEF Earlier
    <3> QED BY <2>2, PostsFinite, SameCardinality
  <2> HIDE DEF n, base
  <2>4. 900 \div 2 ^ n \in Int
    BY <2>3, FeedAssumption
  <2>5. 100 + (900 \div 2 ^ n) \in Int
    BY <1>2, <2>4
  <2> QED BY <1>2, <1>3, <2>1, <2>5
<1> QED BY <1>4

LEMMA FirstPageIsNotEmpty ==
  ASSUME NEW q, \A s \in F!Sources : q.rows[s] \in F!Rows,
         q.page = 1, F!Candidates(q) # {}
  PROVE  F!Page(q) # {}
<1> DEFINE C == F!Candidates(q)
           points == F!Score(q)
<1>1. C \in SUBSET Int /\ IsFiniteSet(C) /\ C # {} /\ DOMAIN points = C
  BY CandidatesArePosts, PostsFinite, ScoresHaveCandidates
<1>2. \A p \in C : points[p] \in Int
  BY ScoresAreNumbers
<1> HIDE DEF C, points
<1>3. PICK p \in C : \A c \in C : ~Outranks(points, c, p)
  BY <1>1, <1>2, FirstInRank
<1>4. F!Place(points, p) = 0
  <2> DEFINE Ahead == {c \in DOMAIN points : points[c] > points[p] \/ (points[c] = points[p] /\ c > p)}
  <2>1. Ahead = {}
    BY <1>1, <1>3 DEF Outranks
  <2>2. F!Place(points, p) = F!Cardinality(Ahead)
    BY DEF F!Place
  <2> HIDE DEF Ahead
  <2> QED BY <2>1, <2>2, SameCardinality, FS_EmptySet
<1>5. /\ 0 + 1 <= MAX_RESULTS /\ 0 + 1 > (1 - 1) * PageSize
      /\ 0 + 1 <= (1 - 1 + 1) * PageSize
  BY FeedAssumption
<1> QED BY <1>1, <1>4, <1>5 DEF F!Page, points

(***************************************************************************)
(* The invariant of the feed, stage by stage of a request.                 *)
(***************************************************************************)
AskedFields == {"stage", "by", "page", "since", "sent", "favourite", "following", "suppressed",
                "words", "seen", "owed", "hit", "rows", "failed", "there"}
Fresh(since, p) == deletedAt[p] >= 0 => since <= deletedAt[p]
Soon(since, p) ==
    deletedAt[p] >= 0 => since <= deletedAt[p] \/ since - deletedAt[p] < DISCOVERY_TTL

Begun(q) == q.by \in Readers /\ q.since \in Nat /\ q.since <= now
AskedOK(q) ==
  /\ Begun(q) /\ q = [f \in AskedFields |-> q[f]] /\ q.owed \subseteq q.seen
  /\ q.hit # None => q.hit \in F!Rows /\ \A p \in DOMAIN q.hit : Soon(q.since, p)
QueriedOK(q) ==
  /\ Begun(q) /\ q.owed \subseteq q.seen
  /\ \A s \in F!Sources : q.rows[s] \in F!Rows /\ \A p \in DOMAIN q.rows[s] : Soon(q.since, p)
  /\ q.hit = None => \A p \in F!From(q, "discovery") : Fresh(q.since, p)
  /\ q.failed = {} /\ q.hit = None /\ Cardinality(F!From(q, "discovery")) < SOURCE_LIMIT
       => q.there \subseteq F!From(q, "discovery")
CollectedOK(q) ==
  /\ Begun(q) /\ q.items \subseteq F!Posts /\ q.items \cap q.owed = {}
  /\ \A p \in q.items : Soon(q.since, p)
  /\ q.page = 1 /\ q.items = {} /\ q.unseen # {} => q.full \/ q.degraded
RequestOK(q) ==
  /\ q.stage = "asked" => AskedOK(q)
  /\ q.stage = "queried" => QueriedOK(q)
  /\ q.stage = "collected" => CollectedOK(q)

FeedTypes ==
  /\ now \in Nat /\ posts \in F!Rows
  /\ served \in [Readers -> [ids : SUBSET F!Posts, expiresAt : Nat]]
  /\ cache # None => cache.rows \in F!Rows /\ cache.expiresAt \in Nat
  /\ request = [r \in Requests |-> request[r]]
  /\ shown \in [Readers -> [F!Posts -> Int]]
  /\ deletedAt \in [F!Posts -> Int]
(* What is in the table was never deleted, and nothing is dated ahead.     *)
DatedInPast ==
  /\ \A p \in DOMAIN posts : deletedAt[p] = -1
  /\ \A p \in F!Posts : deletedAt[p] <= now
  /\ \A u \in Readers : \A p \in F!Posts : shown[u][p] <= now
(* Redis remembers what was shown until the last of it may be shown again. *)
Remembered(u, p) ==
  shown[u][p] >= 0 /\ now - shown[u][p] < SERVED_TTL
    => p \in served[u].ids /\ shown[u][p] + SERVED_TTL <= served[u].expiresAt
(* The cache lapses before a post has been deleted for long.               *)
CacheLapses ==
  cache # None =>
    /\ cache.expiresAt <= now + DISCOVERY_TTL
    /\ \A p \in DOMAIN cache.rows :
         deletedAt[p] >= 0 => cache.expiresAt <= deletedAt[p] + DISCOVERY_TTL
FeedInv ==
  /\ FeedTypes /\ DatedInPast /\ CacheLapses
  /\ \A u \in Readers : \A p \in F!Posts : Remembered(u, p)
  /\ \A r \in Requests : RequestOK(request[r])

LEMMA FeedInvStarts == F!Init => FeedInv
<1> SUFFICES ASSUME F!Init PROVE FeedInv
  OBVIOUS
<1>1. posts \in [1 .. (N - 1) -> HotScores] /\ 1 .. (N - 1) \in SUBSET F!Posts
  BY FeedAssumption DEF F!Init, F!Posts
<1>2. posts \in F!Rows /\ DOMAIN posts \subseteq F!Posts
  BY <1>1, RowsAre
<1>3. FeedTypes /\ DatedInPast /\ CacheLapses
  BY <1>2 DEF F!Init, FeedTypes, DatedInPast, CacheLapses
<1>4. ASSUME NEW u \in Readers, NEW p \in F!Posts PROVE Remembered(u, p)
  BY DEF F!Init, Remembered
<1>5. ASSUME NEW r \in Requests PROVE RequestOK(request[r])
  <2>1. request[r].stage = "idle"
    BY DEF F!Init, F!Idle
  <2> QED BY <2>1 DEF RequestOK
<1> QED BY <1>3, <1>4, <1>5 DEF FeedInv

(* Time and deletions leave true what is known of a request: a post that   *)
(* is deleted now is deleted no earlier than the request began.            *)
LEMMA TimeAndDeletions ==
  ASSUME FeedTypes, NEW q, RequestOK(q),
         now' \in Nat, now <= now',
         \A p \in F!Posts : \/ deletedAt'[p] = deletedAt[p]
                            \/ deletedAt[p] = -1 /\ deletedAt'[p] = now
  PROVE  RequestOK(q)'
<1>1. ASSUME Begun(q), NEW p \in F!Posts
      PROVE  /\ Begun(q)'
             /\ Soon(q.since, p) => Soon(q.since, p)'
             /\ Fresh(q.since, p) => Fresh(q.since, p)'
  <2>1. q.since \in Nat /\ now \in Nat /\ q.since <= now /\ deletedAt[p] \in Int
    BY <1>1 DEF Begun, FeedTypes
  <2>2. Begun(q)'
    BY <1>1, <2>1 DEF Begun
  <2> QED BY <2>1, <2>2 DEF Soon, Fresh
<1>b. Begun(q) => Begun(q)'
  BY DEF Begun, FeedTypes
<1>2. AskedOK(q) => AskedOK(q)'
  <2> SUFFICES ASSUME AskedOK(q) PROVE AskedOK(q)'
    OBVIOUS
  <2>1. q.hit # None => \A p \in DOMAIN q.hit : Soon(q.since, p)'
    BY <1>1, RowsAre DEF AskedOK
  <2> QED BY <1>b, <2>1 DEF AskedOK
<1>3. QueriedOK(q) => QueriedOK(q)'
  <2> SUFFICES ASSUME QueriedOK(q) PROVE QueriedOK(q)'
    OBVIOUS
  <2>1. \A s \in F!Sources : \A p \in DOMAIN q.rows[s] : Soon(q.since, p)'
    BY <1>1, RowsAre DEF QueriedOK
  <2>2. "discovery" \in F!Sources
    BY DEF F!Sources
  <2>3. q.hit = None => \A p \in F!From(q, "discovery") : Fresh(q.since, p)'
    BY <1>1, <2>2, RowsAre DEF QueriedOK, F!From
  <2> QED BY <1>b, <2>1, <2>3 DEF QueriedOK
<1>4. CollectedOK(q) => CollectedOK(q)'
  <2> SUFFICES ASSUME CollectedOK(q) PROVE CollectedOK(q)'
    OBVIOUS
  <2>1. \A p \in q.items : Soon(q.since, p)'
    BY <1>1 DEF CollectedOK
  <2> QED BY <1>b, <2>1 DEF CollectedOK
<1> QED BY <1>2, <1>3, <1>4 DEF RequestOK

(* A step of one request changes what is known of no other.                *)
LEMMA OneRequest ==
  ASSUME FeedInv, UNCHANGED <<now, deletedAt>>, NEW r \in Requests, NEW q, RequestOK(q),
         request' = [request EXCEPT ![r] = q]
  PROVE  /\ request' = [x \in Requests |-> request'[x]]
         /\ \A x \in Requests : RequestOK(request[x])'
<1>1. ASSUME NEW p PROVE RequestOK(p) => RequestOK(p)'
  BY DEF RequestOK, AskedOK, QueriedOK, CollectedOK, Begun, Soon, Fresh
<1>2. request = [x \in Requests |-> request[x]]
  BY DEF FeedInv, FeedTypes
<1>3. \A x \in Requests : RequestOK(request[x])
  BY DEF FeedInv
<1>4. request' = [x \in Requests |-> request'[x]]
  BY <1>2
<1>5. ASSUME NEW x \in Requests PROVE RequestOK(request[x])'
  <2>1. request'[x] = request[x] \/ request'[x] = q
    BY <1>2
  <2> QED BY <1>1, <1>3, <2>1
<1> QED BY <1>4, <1>5

LEMMA AskKeepsInv ==
  ASSUME FeedInv, NEW r \in Requests, NEW u \in Readers, NEW page, NEW sent, F!Ask(r, u, page, sent)
  PROVE  FeedInv'
<1>1. PICK ok \in BOOLEAN :
        request' = [request EXCEPT ![r] =
              [stage |-> "asked", by |-> u, page |-> page, since |-> now, sent |-> sent,
               favourite |-> F!GetTargets(u), following |-> follows[u],
               suppressed |-> F!Suppressed(u), words |-> keywords[u],
               seen |-> sent \cup (IF ok THEN F!GetServed(u) ELSE {}),
               owed |-> IF ok THEN {p \in F!Posts : shown[u][p] >= 0 /\ now - shown[u][p] < SERVED_TTL}
                              ELSE {},
               hit |-> IF DISCOVERY_TTL > 0 /\ cache # None /\ cache.expiresAt > now
                       THEN cache.rows ELSE None,
               rows |-> [s \in F!Sources |-> F!NoRows], failed |-> {}, there |-> {}]]
  BY DEF F!Ask
<1>u. UNCHANGED <<now, posts, served, cache, shown, deletedAt>>
  BY DEF F!Ask
<1> DEFINE q == [stage |-> "asked", by |-> u, page |-> page, since |-> now, sent |-> sent,
               favourite |-> F!GetTargets(u), following |-> follows[u],
               suppressed |-> F!Suppressed(u), words |-> keywords[u],
               seen |-> sent \cup (IF ok THEN F!GetServed(u) ELSE {}),
               owed |-> IF ok THEN {p \in F!Posts : shown[u][p] >= 0 /\ now - shown[u][p] < SERVED_TTL}
                              ELSE {},
               hit |-> IF DISCOVERY_TTL > 0 /\ cache # None /\ cache.expiresAt > now
                       THEN cache.rows ELSE None,
               rows |-> [s \in F!Sources |-> F!NoRows], failed |-> {}, there |-> {}]
<1>q. /\ q.stage = "asked" /\ q.by = u /\ q.since = now
      /\ q.seen = sent \cup (IF ok THEN F!GetServed(u) ELSE {})
      /\ q.owed = IF ok THEN {p \in F!Posts : shown[u][p] >= 0 /\ now - shown[u][p] < SERVED_TTL} ELSE {}
      /\ q.hit = IF DISCOVERY_TTL > 0 /\ cache # None /\ cache.expiresAt > now
                 THEN cache.rows ELSE None
  OBVIOUS
<1>f. q = [f \in AskedFields |-> q[f]]
  BY DEF AskedFields
<1>r. request' = [request EXCEPT ![r] = q]
  BY <1>1
<1> HIDE DEF q
<1>t. now \in Nat /\ served[u].expiresAt \in Nat /\ \A p \in F!Posts : shown[u][p] \in Int /\ deletedAt[p] \in Int
  BY DEF FeedInv, FeedTypes
<1>2. q.owed \subseteq q.seen
  <2> SUFFICES ASSUME NEW p \in q.owed PROVE p \in q.seen
    OBVIOUS
  <2>1. ok /\ p \in F!Posts /\ shown[u][p] >= 0 /\ now - shown[u][p] < SERVED_TTL
    BY <1>q
  <2>2. p \in served[u].ids /\ shown[u][p] + SERVED_TTL <= served[u].expiresAt
    BY <2>1 DEF FeedInv, Remembered
  <2>3. served[u].expiresAt > now
    BY <1>t, <2>1, <2>2, FeedAssumption
  <2> QED BY <1>q, <2>1, <2>2, <2>3 DEF F!GetServed
<1>3. q.hit # None => q.hit \in F!Rows /\ \A p \in DOMAIN q.hit : Soon(q.since, p)
  <2> SUFFICES ASSUME q.hit # None PROVE q.hit \in F!Rows /\ \A p \in DOMAIN q.hit : Soon(q.since, p)
    OBVIOUS
  <2>1. q.hit = cache.rows /\ cache # None /\ cache.expiresAt > now
    BY <1>q
  <2>2. cache.rows \in F!Rows /\ cache.expiresAt \in Nat
    BY <2>1 DEF FeedInv, FeedTypes
  <2>3. ASSUME NEW p \in DOMAIN cache.rows PROVE Soon(now, p)
    <3>1. deletedAt[p] >= 0 => cache.expiresAt <= deletedAt[p] + DISCOVERY_TTL
      BY <2>1 DEF FeedInv, CacheLapses
    <3>2. deletedAt[p] \in Int
      BY <1>t, <2>2, RowsAre
    <3> QED BY <1>t, <2>1, <2>2, <3>1, <3>2, FeedAssumption DEF Soon
  <2> QED BY <1>q, <2>1, <2>2, <2>3
<1>4. RequestOK(q)
  BY <1>q, <1>f, <1>t, <1>2, <1>3 DEF RequestOK, AskedOK, Begun
<1>5. /\ request' = [x \in Requests |-> request'[x]]
      /\ \A x \in Requests : RequestOK(request[x])'
  BY <1>r, <1>u, <1>4, OneRequest
<1> QED BY <1>u, <1>5 DEF FeedInv, FeedTypes, DatedInPast, CacheLapses, Remembered

LEMMA QueryKeepsInv ==
  ASSUME FeedInv, NEW r \in Requests, F!Query(r)
  PROVE  FeedInv'
<1> DEFINE o == request[r]
           rowsFor(failed, s) ==
             IF s \in failed THEN F!NoRows
             ELSE CASE s = "favourite" -> F!ByFavourite(o.favourite)
                    [] s = "follow" -> F!ByAuthors(o.following)
                    [] s = "discovery" -> IF o.hit = None THEN F!Discovery ELSE o.hit
<1>1. PICK failed \in SUBSET (IF o.hit = None THEN F!Sources ELSE F!Sources \ {"discovery"}) :
        request' = [request EXCEPT ![r] =
          [o EXCEPT !.stage = "queried", !.failed = failed, !.there = DOMAIN posts,
                    !.favourite = None, !.following = {},
                    !.rows = [s \in F!Sources |-> rowsFor(failed, s)]]]
  BY Zenon DEF F!Query
<1>u. UNCHANGED <<now, posts, served, cache, shown, deletedAt>> /\ o.stage = "asked"
  BY DEF F!Query
<1> DEFINE q == [o EXCEPT !.stage = "queried", !.failed = failed, !.there = DOMAIN posts,
                    !.favourite = None, !.following = {},
                    !.rows = [s \in F!Sources |-> rowsFor(failed, s)]]
<1>a. AskedOK(o) /\ posts \in F!Rows
  BY <1>u DEF FeedInv, RequestOK, FeedTypes
<1>q. /\ q.stage = "queried" /\ q.failed = failed /\ q.there = DOMAIN posts
      /\ q.rows = [s \in F!Sources |-> rowsFor(failed, s)]
      /\ q.by = o.by /\ q.since = o.since /\ q.owed = o.owed /\ q.seen = o.seen /\ q.hit = o.hit
  <2>1. o = [f \in AskedFields |-> o[f]]
    BY <1>a DEF AskedOK
  <2> HIDE DEF o, rowsFor
  <2> QED BY <2>1 DEF AskedFields
<1>r. request' = [request EXCEPT ![r] = q]
  BY <1>1
<1> HIDE DEF q
<1>t. o.since \in Nat /\ now \in Nat /\ o.since <= now
  BY <1>a DEF AskedOK, Begun, FeedInv, FeedTypes
<1>n. \A p \in DOMAIN posts : Fresh(o.since, p) /\ Soon(o.since, p)
  BY DEF FeedInv, DatedInPast, Fresh, Soon
<1>s. F!Sources = {"favourite", "follow", "discovery"}
  BY DEF F!Sources
<1>k. ASSUME NEW S \in SUBSET DOMAIN posts
      PROVE  /\ F!Take(posts, S) \in F!Rows /\ DOMAIN F!Take(posts, S) \subseteq DOMAIN posts
             /\ Cardinality(DOMAIN F!Take(posts, S)) < SOURCE_LIMIT => DOMAIN F!Take(posts, S) = S
  BY <1>a, TakeTakes
<1>o. q.since = o.since /\ q.hit = o.hit
  BY <1>q
<1>m. \A S \in SUBSET DOMAIN posts :
        F!Take(posts, S) \in F!Rows /\ \A p \in DOMAIN F!Take(posts, S) : Soon(q.since, p)
  BY <1>o, <1>k, <1>n
<1>2. ASSUME NEW s \in F!Sources
      PROVE  q.rows[s] \in F!Rows /\ \A p \in DOMAIN q.rows[s] : Soon(q.since, p)
  <2>1. CASE s \in failed
    BY <1>q, <2>1, RowsAre
  <2>2. CASE s \notin failed /\ s = "favourite"
    <3>1. q.rows[s] = F!ByFavourite(o.favourite)
      BY <1>q, <2>2
    <3> QED BY <1>m, <3>1 DEF F!ByFavourite
  <2>3. CASE s \notin failed /\ s = "follow"
    <3>1. q.rows[s] = F!ByAuthors(o.following)
      BY <1>q, <2>3
    <3> QED BY <1>m, <3>1 DEF F!ByAuthors
  <2>4. CASE s \notin failed /\ s = "discovery"
    <3>1. q.rows[s] = IF o.hit = None THEN F!Discovery ELSE o.hit
      BY <1>q, <2>4
    <3>2. CASE o.hit = None
      BY <1>m, <3>1, <3>2 DEF F!Discovery
    <3>3. CASE o.hit # None
      BY <1>o, <1>a, <3>1, <3>3 DEF AskedOK
    <3> QED BY <3>2, <3>3
  <2> QED BY <1>s, <2>1, <2>2, <2>3, <2>4
<1>3. ASSUME q.hit = None
      PROVE  /\ \A p \in F!From(q, "discovery") : Fresh(q.since, p)
             /\ q.failed = {} /\ Cardinality(F!From(q, "discovery")) < SOURCE_LIMIT
                  => q.there \subseteq F!From(q, "discovery")
  <2>1. CASE "discovery" \in failed
    BY <1>q, <1>s, <2>1, RowsAre DEF F!From
  <2>2. CASE "discovery" \notin failed
    <3>1. q.rows["discovery"] = F!Take(posts, DOMAIN posts)
      BY <1>q, <1>s, <1>3, <2>2 DEF F!Discovery
    <3> QED BY <1>q, <1>k, <1>n, <3>1 DEF F!From
  <2> QED BY <2>1, <2>2
<1>4. RequestOK(q)
  <2>1. Begun(q) /\ q.owed \subseteq q.seen
    BY <1>a, <1>q DEF AskedOK, Begun
  <2> QED BY <1>q, <1>2, <1>3, <2>1 DEF RequestOK, QueriedOK
<1>5. /\ request' = [x \in Requests |-> request'[x]]
      /\ \A x \in Requests : RequestOK(request[x])'
  BY <1>r, <1>u, <1>4, OneRequest
<1> QED BY <1>u, <1>5 DEF FeedInv, FeedTypes, DatedInPast, CacheLapses, Remembered

LEMMA CollectKeepsInv ==
  ASSUME FeedInv, NEW r \in Requests, F!Collect(r)
  PROVE  FeedInv'
<1> DEFINE o == request[r]
           q == [stage |-> "collected", by |-> o.by, page |-> o.page, since |-> o.since,
                 owed |-> o.owed, items |-> F!Page(o),
                 full |-> F!Cardinality(F!From(o, "discovery")) >= SOURCE_LIMIT,
                 degraded |-> o.failed # {} \/ o.hit # None,
                 unseen |-> {p \in o.there : F!Kept(o, p)}]
<1>r. request' = [request EXCEPT ![r] = q]
  BY DEF F!Collect
<1>u. /\ UNCHANGED <<now, posts, served, shown, deletedAt>> /\ o.stage = "queried"
      /\ \/ cache' = cache
         \/ /\ o.hit = None
            /\ cache' = [rows |-> o.rows["discovery"], expiresAt |-> o.since + DISCOVERY_TTL]
  BY DEF F!Collect, F!ExpiresAt
<1>a. QueriedOK(o)
  BY <1>u DEF FeedInv, RequestOK
<1>q. /\ q.stage = "collected" /\ q.by = o.by /\ q.page = o.page /\ q.since = o.since
      /\ q.owed = o.owed /\ q.items = F!Page(o)
      /\ q.unseen = {p \in o.there : F!Kept(o, p)}
  OBVIOUS
<1>f. /\ q.full = (F!Cardinality(F!From(o, "discovery")) >= SOURCE_LIMIT)
      /\ q.degraded = (o.failed # {} \/ o.hit # None)
  OBVIOUS
<1> HIDE DEF q
<1>s. \A s \in F!Sources : o.rows[s] \in F!Rows
  BY <1>a DEF QueriedOK
<1>d. "discovery" \in F!Sources
  BY DEF F!Sources
<1>t. o.since \in Nat /\ now \in Nat /\ o.since <= now
  BY <1>a DEF QueriedOK, Begun, FeedInv, FeedTypes
<1>2. \A p \in q.items : p \in F!Candidates(o)
  BY <1>q, ScoresHaveCandidates
<1>3. q.items \subseteq F!Posts /\ \A p \in q.items : Soon(q.since, p)
  <2>1. \A p \in F!Candidates(o) : p \in F!Posts
    BY <1>s, CandidatesArePosts
  <2>2. \A p \in F!Candidates(o) : Soon(o.since, p)
    BY <1>a DEF F!Candidates, F!From, QueriedOK
  <2> QED BY <1>2, <1>q, <2>1, <2>2
<1>4. q.items \cap q.owed = {}
  <2>1. \A p \in F!Candidates(o) : p \notin o.seen
    BY DEF F!Candidates, F!Kept
  <2> QED BY <1>2, <1>a, <1>q, <2>1 DEF QueriedOK
<1>5. ASSUME q.page = 1, q.items = {}, q.unseen # {}, ~q.full, ~q.degraded PROVE FALSE
  <2>1. PICK p \in o.there : F!Kept(o, p)
    BY <1>5, <1>q
  <2>2. IsFiniteSet(F!From(o, "discovery")) /\ Cardinality(F!From(o, "discovery")) \in Nat
    <3>1. F!From(o, "discovery") \in SUBSET F!Posts
      BY <1>s, <1>d, RowsAre DEF F!From
    <3> QED BY <3>1, PostsFinite, FeedAssumption
  <2>3. Cardinality(F!From(o, "discovery")) < SOURCE_LIMIT /\ o.failed = {} /\ o.hit = None
    <3>1. ~(F!Cardinality(F!From(o, "discovery")) >= SOURCE_LIMIT)
      BY <1>5, <1>f, Zenon
    <3>2. o.failed = {} /\ o.hit = None
      BY <1>5, <1>f, Zenon
    <3>3. F!Cardinality(F!From(o, "discovery")) = Cardinality(F!From(o, "discovery"))
      BY SameCardinality, Zenon
    <3> QED BY <2>2, <3>1, <3>2, <3>3, FeedAssumption
  <2>4. p \in F!From(o, "discovery")
    BY <1>a, <2>1, <2>3 DEF QueriedOK
  <2>5. p \in F!Candidates(o)
    BY <1>d, <2>1, <2>4 DEF F!Candidates
  <2> QED BY <1>5, <1>q, <1>s, <2>5, FirstPageIsNotEmpty
<1>6. RequestOK(q)
  <2>1. Begun(q)
    BY <1>a, <1>q DEF QueriedOK, Begun
  <2> QED BY <1>q, <1>3, <1>4, <1>5, <2>1 DEF RequestOK, CollectedOK
<1>7. /\ request' = [x \in Requests |-> request'[x]]
      /\ \A x \in Requests : RequestOK(request[x])'
  BY <1>r, <1>u, <1>6, OneRequest
<1>8. /\ cache' # None => cache'.rows \in F!Rows /\ cache'.expiresAt \in Nat
      /\ CacheLapses'
  <2>1. CASE cache' = cache
    BY <1>u, <2>1 DEF FeedInv, FeedTypes, CacheLapses
  <2>2. CASE /\ o.hit = None
             /\ cache' = [rows |-> o.rows["discovery"], expiresAt |-> o.since + DISCOVERY_TTL]
    <3>1. cache'.rows = o.rows["discovery"] /\ cache'.expiresAt = o.since + DISCOVERY_TTL
      BY <2>2
    <3>2. cache'.rows \in F!Rows /\ cache'.expiresAt \in Nat
      BY <1>s, <1>d, <1>t, <3>1, FeedAssumption
    <3>3. ASSUME NEW p \in DOMAIN cache'.rows, deletedAt[p] >= 0
          PROVE  cache'.expiresAt <= deletedAt[p] + DISCOVERY_TTL
      <4>1. deletedAt[p] \in Int
        BY <1>s, <1>d, <3>1, RowsAre DEF FeedInv, FeedTypes
      <4>2. o.since <= deletedAt[p]
        BY <1>a, <2>2, <3>1, <3>3 DEF QueriedOK, Fresh, F!From
      <4> QED BY <1>t, <3>1, <4>1, <4>2, FeedAssumption
    <3>4. cache'.expiresAt <= now + DISCOVERY_TTL
      BY <1>t, <3>1, FeedAssumption
    <3> QED BY <1>u, <3>2, <3>3, <3>4 DEF CacheLapses
  <2> QED BY <1>u, <2>1, <2>2
<1> QED BY <1>u, <1>7, <1>8 DEF FeedInv, FeedTypes, DatedInPast, Remembered

LEMMA AnswerKeepsInv ==
  ASSUME FeedInv, NEW r \in Requests, F!Answer(r)
  PROVE  FeedInv'
<1> DEFINE q == request[r]
           u == q.by
           new == [ids |-> F!GetServed(u) \cup q.items, expiresAt |-> now + SERVED_TTL]
<1>r. request' = [request EXCEPT ![r] = F!Idle] /\ F!Idle.stage = "idle"
  BY DEF F!Answer, F!Idle
<1>u. /\ UNCHANGED <<now, posts, cache, deletedAt>> /\ q.stage = "collected"
      /\ \/ /\ served' = [served EXCEPT ![u] = new]
            /\ shown' = [shown EXCEPT ![u] = [p \in F!Posts |-> IF p \in q.items THEN now ELSE @[p]]]
         \/ UNCHANGED <<served, shown>>
  BY DEF F!Answer, F!Expire
<1>a. u \in Readers /\ q.items \subseteq F!Posts
  BY <1>u DEF FeedInv, RequestOK, CollectedOK, Begun
<1>t. /\ now \in Nat /\ shown \in [Readers -> [F!Posts -> Int]]
      /\ served \in [Readers -> [ids : SUBSET F!Posts, expiresAt : Nat]]
  BY DEF FeedInv, FeedTypes
<1>1. RequestOK(F!Idle)
  BY <1>r DEF RequestOK
<1>2. /\ request' = [x \in Requests |-> request'[x]]
      /\ \A x \in Requests : RequestOK(request[x])'
  BY <1>r, <1>u, <1>1, OneRequest
<1>3. CASE /\ served' = [served EXCEPT ![u] = new]
           /\ shown' = [shown EXCEPT ![u] = [p \in F!Posts |-> IF p \in q.items THEN now ELSE @[p]]]
  <2>1. new \in [ids : SUBSET F!Posts, expiresAt : Nat] /\ new.ids = F!GetServed(u) \cup q.items
        /\ new.expiresAt = now + SERVED_TTL
    BY <1>a, <1>t, FeedAssumption DEF F!GetServed
  <2> HIDE DEF new, q, u
  <2>2. served' \in [Readers -> [ids : SUBSET F!Posts, expiresAt : Nat]]
    BY <1>3, <1>t, <2>1
  <2>3. shown' \in [Readers -> [F!Posts -> Int]]
    BY <1>3, <1>t, <1>a
  <2>4. ASSUME NEW v \in Readers, NEW p \in F!Posts
        PROVE  shown'[v][p] <= now /\ Remembered(v, p)'
    <3>1. shown[v][p] \in Int /\ shown[v][p] <= now /\ Remembered(v, p)
      BY <1>t DEF FeedInv, DatedInPast
    <3>2. CASE v # u
      <4>1. shown'[v] = shown[v] /\ served'[v] = served[v]
        BY <1>3, <1>t, <3>2
      <4> QED BY <1>u, <3>1, <4>1 DEF Remembered
    <3>3. CASE v = u
      <4>1. shown'[v][p] = (IF p \in q.items THEN now ELSE shown[v][p]) /\ served'[v] = new
        BY <1>3, <1>t, <1>a, <3>3
      <4>2. CASE p \in q.items
        BY <1>t, <1>u, <2>1, <4>1, <4>2, FeedAssumption DEF Remembered
      <4>3. CASE p \notin q.items
        <5>1. shown'[v][p] = shown[v][p]
          BY <4>1, <4>3
        <5>2. ASSUME shown[v][p] >= 0, now - shown[v][p] < SERVED_TTL
              PROVE  p \in new.ids /\ shown[v][p] + SERVED_TTL <= new.expiresAt
          <6>1. p \in served[u].ids /\ shown[v][p] + SERVED_TTL <= served[u].expiresAt
            BY <3>1, <3>3, <5>2 DEF Remembered
          <6>2. served[u].expiresAt \in Nat
            BY <1>t, <1>a
          <6>3. F!GetServed(u) = served[u].ids
            BY <1>t, <3>1, <5>2, <6>1, <6>2, FeedAssumption DEF F!GetServed
          <6> QED BY <1>t, <2>1, <3>1, <6>1, <6>3, FeedAssumption
        <5> QED BY <1>u, <3>1, <4>1, <5>1, <5>2 DEF Remembered
      <4> QED BY <4>2, <4>3
    <3> QED BY <3>2, <3>3
  <2> QED BY <1>u, <1>2, <2>2, <2>3, <2>4 DEF FeedInv, FeedTypes, DatedInPast, CacheLapses
<1>4. CASE UNCHANGED <<served, shown>>
  BY <1>u, <1>2, <1>4 DEF FeedInv, FeedTypes, DatedInPast, CacheLapses, Remembered
<1> QED BY <1>u, <1>3, <1>4

(* The tables change, time passes, or nothing does.                        *)
LEMMA TablesKeepInv ==
  ASSUME FeedInv, UNCHANGED <<served, cache, request, shown>>,
         \/ now' = now + 1 /\ UNCHANGED <<posts, deletedAt>>
         \/ UNCHANGED <<now, posts, deletedAt>>
         \/ UNCHANGED now /\ \E p \in F!Posts : F!Create(p) \/ F!Delete(p) \/ \E h \in HotScores : F!Rescore(p, h)
  PROVE  FeedInv'
<1>t. /\ now \in Nat /\ deletedAt \in [F!Posts -> Int] /\ posts \in F!Rows
      /\ shown \in [Readers -> [F!Posts -> Int]]
      /\ served \in [Readers -> [ids : SUBSET F!Posts, expiresAt : Nat]]
  BY DEF FeedInv, FeedTypes
<1>n. now' \in Nat /\ now <= now'
  BY <1>t
<1>1. /\ posts' \in F!Rows /\ \A p \in DOMAIN posts' : deletedAt'[p] = -1
      /\ deletedAt' \in [F!Posts -> Int]
      /\ \A p \in F!Posts : \/ deletedAt'[p] = deletedAt[p]
                            \/ deletedAt[p] = -1 /\ deletedAt'[p] = now
  <2>d. \A p \in DOMAIN posts : deletedAt[p] = -1 /\ p \in F!Posts
    BY <1>t, RowsAre DEF FeedInv, DatedInPast
  <2>r. PICK S \in SUBSET F!Posts : posts \in [S -> HotScores]
    BY <1>t DEF F!Rows
  <2>1. CASE UNCHANGED <<posts, deletedAt>>
    BY <1>t, <2>d, <2>1
  <2>2. ASSUME NEW p \in F!Posts, F!Create(p)
        PROVE  /\ posts' \in F!Rows /\ \A x \in DOMAIN posts' : deletedAt'[x] = -1
               /\ deletedAt' = deletedAt
    <3>1. /\ posts' = [q \in DOMAIN posts \cup {p} |-> IF q = p THEN 0 ELSE posts[q]]
          /\ deletedAt' = deletedAt /\ deletedAt[p] = -1
      BY <2>2 DEF F!Create
    <3>2. posts' \in [S \cup {p} -> HotScores] /\ S \cup {p} \in SUBSET F!Posts
      BY <2>r, <3>1, FeedAssumption
    <3> QED BY <2>d, <2>r, <3>1, <3>2, RowsAre
  <2>3. ASSUME NEW p \in F!Posts, F!Delete(p)
        PROVE  /\ posts' \in F!Rows /\ \A x \in DOMAIN posts' : deletedAt'[x] = -1
               /\ deletedAt' = [deletedAt EXCEPT ![p] = now] /\ deletedAt[p] = -1
    <3>1. /\ posts' = [q \in DOMAIN posts \ {p} |-> posts[q]]
          /\ deletedAt' = [deletedAt EXCEPT ![p] = now] /\ p \in DOMAIN posts
      BY <2>3 DEF F!Delete
    <3>2. posts' \in [S \ {p} -> HotScores] /\ S \ {p} \in SUBSET F!Posts
      BY <2>r, <3>1
    <3>3. \A x \in S \ {p} : deletedAt'[x] = -1
      BY <1>t, <2>d, <2>r, <3>1
    <3> QED BY <2>d, <3>1, <3>2, <3>3, RowsAre
  <2>4. ASSUME NEW p \in F!Posts, NEW h \in HotScores, F!Rescore(p, h)
        PROVE  /\ posts' \in F!Rows /\ \A x \in DOMAIN posts' : deletedAt'[x] = -1
               /\ deletedAt' = deletedAt
    <3>1. posts' = [posts EXCEPT ![p] = h] /\ deletedAt' = deletedAt
      BY <2>4 DEF F!Rescore
    <3>2. posts' \in [S -> HotScores] /\ DOMAIN posts' = DOMAIN posts
      BY <2>r, <3>1
    <3> QED BY <2>d, <3>1, <3>2, RowsAre
  <2>5. CASE \E p \in F!Posts : F!Create(p) \/ F!Delete(p) \/ \E h \in HotScores : F!Rescore(p, h)
    BY <1>t, <2>2, <2>3, <2>4, <2>5
  <2> QED BY <2>1, <2>5
<1>2. \A x \in Requests : RequestOK(request[x])'
  <2>1. \A x \in Requests : RequestOK(request[x]) /\ request'[x] = request[x]
    BY DEF FeedInv
  <2>2. ASSUME NEW q, RequestOK(q) PROVE RequestOK(q)'
    BY <1>n, <1>1, <2>2, TimeAndDeletions DEF FeedInv
  <2> QED BY <2>1, <2>2
<1>3. DatedInPast'
  <2>1. \A p \in F!Posts : deletedAt'[p] <= now'
    BY <1>t, <1>n, <1>1 DEF FeedInv, DatedInPast
  <2>2. \A u \in Readers : \A p \in F!Posts : shown'[u][p] <= now'
    BY <1>t, <1>n DEF FeedInv, DatedInPast
  <2> QED BY <1>1, <2>1, <2>2 DEF DatedInPast
<1>4. CacheLapses'
  <2> SUFFICES ASSUME cache # None PROVE CacheLapses'
    BY DEF CacheLapses
  <2>1. cache.rows \in F!Rows /\ cache.expiresAt \in Nat /\ cache.expiresAt <= now + DISCOVERY_TTL
    BY DEF FeedInv, FeedTypes, CacheLapses
  <2>2. ASSUME NEW p \in DOMAIN cache.rows, deletedAt'[p] >= 0
        PROVE  cache.expiresAt <= deletedAt'[p] + DISCOVERY_TTL
    <3>1. p \in F!Posts
      BY <2>1, RowsAre
    <3>2. deletedAt'[p] = deletedAt[p] \/ deletedAt'[p] = now
      BY <1>1, <3>1
    <3> QED BY <2>1, <2>2, <3>2 DEF FeedInv, CacheLapses
  <2>3. cache.expiresAt <= now' + DISCOVERY_TTL
    BY <1>t, <1>n, <2>1, FeedAssumption
  <2> QED BY <2>2, <2>3 DEF CacheLapses
<1>5. \A u \in Readers : \A p \in F!Posts : Remembered(u, p)'
  <2>1. ASSUME NEW u \in Readers, NEW p \in F!Posts PROVE Remembered(u, p)'
    <3>1. shown[u][p] \in Int /\ Remembered(u, p)
      BY <1>t DEF FeedInv
    <3> QED BY <1>t, <1>n, <3>1, FeedAssumption DEF Remembered
  <2> QED BY <2>1
<1> QED BY <1>n, <1>1, <1>2, <1>3, <1>4, <1>5 DEF FeedInv, FeedTypes

LEMMA FeedInvStays == FeedInv /\ [F!Next]_feedVars => FeedInv'
<1> SUFFICES ASSUME FeedInv, [F!Next]_feedVars PROVE FeedInv'
  OBVIOUS
<1>1. ASSUME NEW r \in Requests, NEW u \in Readers, NEW c \in Calls, F!Ask(r, u, c.page, c.seenIds)
      PROVE  FeedInv'
  BY <1>1, AskKeepsInv
<1>2. ASSUME NEW r \in Requests, F!Query(r) PROVE FeedInv'
  BY <1>2, QueryKeepsInv
<1>3. ASSUME NEW r \in Requests, F!Collect(r) PROVE FeedInv'
  BY <1>3, CollectKeepsInv
<1>4. ASSUME NEW r \in Requests, F!Answer(r) PROVE FeedInv'
  BY <1>4, AnswerKeepsInv
<1>5. ASSUME NEW r \in Requests, F!Fail(r) PROVE FeedInv'
  <2>1. /\ request' = [request EXCEPT ![r] = F!Idle] /\ F!Idle.stage = "idle"
        /\ UNCHANGED <<now, posts, served, cache, shown, deletedAt>>
    BY <1>5 DEF F!Fail, F!Idle
  <2>2. RequestOK(F!Idle)
    BY <2>1 DEF RequestOK
  <2>3. /\ request' = [x \in Requests |-> request'[x]]
        /\ \A x \in Requests : RequestOK(request[x])'
    BY <2>1, <2>2, OneRequest
  <2> QED BY <2>1, <2>3 DEF FeedInv, FeedTypes, DatedInPast, CacheLapses, Remembered
<1>6. CASE F!Tick
  BY <1>6, TablesKeepInv DEF F!Tick
<1>7. CASE F!ChangeTables
  <2>1. UNCHANGED <<served, cache, request, shown, now, posts, deletedAt>>
    BY <1>7 DEF F!ChangeTables, F!Follow, F!Unfollow, F!Block, F!Unblock, F!Mute, F!Unmute,
         F!AddKeyword, F!RemoveKeyword, F!AddFavourite, F!RemoveFavourite, F!SetFavourites,
         F!Others, F!NotTables
  <2> QED BY <2>1, TablesKeepInv
<1>8. CASE F!ChangePosts
  <2>1. \E p \in F!Posts : F!Create(p) \/ F!Delete(p) \/ \E h \in HotScores : F!Rescore(p, h)
    BY <1>8 DEF F!ChangePosts
  <2>2. UNCHANGED <<served, cache, request, shown, now>>
    BY <2>1 DEF F!Create, F!Delete, F!Rescore, F!NotTables
  <2> QED BY <2>1, <2>2, TablesKeepInv
<1>9. CASE UNCHANGED feedVars
  BY <1>9, TablesKeepInv DEF feedVars
<1> QED BY <1>1, <1>2, <1>3, <1>4, <1>5, <1>6, <1>7, <1>8, <1>9 DEF F!Next

LEMMA FeedInvHolds == BothSpec => []FeedInv
<1>1. BothInit => FeedInv
  BY FeedInvStarts DEF BothInit
<1>2. FeedInv /\ [BothNext]_<<what, vars, feedVars>> => FeedInv'
  <2>1. [BothNext]_<<what, vars, feedVars>> => [F!Next]_feedVars
    BY DEF BothNext
  <2> QED BY <2>1, FeedInvStays
<1> QED BY <1>1, <1>2, PTL DEF BothSpec

(* Whatever comes between two requests of a reader, what Redis was told of *)
(* less than SERVED_TTL before the later one is in no page of it           *)
(* (feed-served.store.ts:36-41, filters/seen-served.filter.ts).            *)
THEOREM WhatWasShownWaits == BothSpec => []NotShownAgain
<1>1. FeedInv => NotShownAgain
  BY DEF FeedInv, RequestOK, CollectedOK, NotShownAgain, F!NotShownAgain, F!Ready
<1> QED BY <1>1, FeedInvHolds, PTL

(* However slow the query that filled the cache and whoever filled it, a   *)
(* deleted post is out of the answers to requests that begin DISCOVERY_TTL *)
(* after the deletion (sources/discovery.source.ts:33-44).                 *)
THEOREM DeletedLeavesTheCache == BothSpec => []DeletedSoonGone
<1>1. FeedInv => DeletedSoonGone
  BY DEF FeedInv, RequestOK, CollectedOK, Soon, DeletedSoonGone, F!DeletedSoonGone, F!Ready
<1> QED BY <1>1, FeedInvHolds, PTL

(* An empty first page with posts left unseen is always a full source's,   *)
(* a failed source's or the cache's doing, for any number of posts and any *)
(* scores (feed.service.ts:110-112, sources/discovery.source.ts:39).       *)
THEOREM AnEmptyPageHasACause == BothSpec => []EmptyExplained
<1>1. FeedInv => EmptyExplained
  BY DEF FeedInv, RequestOK, CollectedOK, EmptyExplained, F!EmptyExplained, F!Ready
<1> QED BY <1>1, FeedInvHolds, PTL
=============================================================================
