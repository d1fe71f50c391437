----------------------------- MODULE Engagement -----------------------------
(***************************************************************************)
(* The likes, votes, comments, reports and the hot score of one post.      *)
(* Likes and comments are applied by outbox workers (module Outbox: at     *)
(* least once, in any order, and a worker whose locks ran out goes on with *)
(* a row that another has taken over or finished), votes by the request    *)
(* itself.  Rows and the denormalised counters of the post are written by  *)
(* different queries, and the score from counters that were read before.   *)
(*                                                                         *)
(* A process is a worker with an event or a request with a vote; a step is *)
(* one query.  handleCommentReaction and transfer-comments' like/unlike    *)
(* write a row and a counter in the same two steps, without a score.       *)
(***************************************************************************)
EXTENDS Integers, FiniteSets

CONSTANTS
  Users,
  Procs,          \* workers and vote requests that run at the same time
  SmallInt,       \* largest value of Post.likeCount (SMALLINT, 32767)
  MaxRequests,    \* bound: requests that write
  MaxFaults       \* bound: failed queries, ended processes, lapsed locks

ASSUME ConstantsAssumption ==
  /\ IsFiniteSet(Users) /\ IsFiniteSet(Procs)
  /\ SmallInt \in Nat /\ MaxRequests \in Nat /\ MaxFaults \in Nat

Choices == {"agree", "disagree"}
Jobs    == [kind : {"like", "unlike", "comment"} \cup Choices, user : Users]
Events  == {j \in Jobs : j.kind \notin Choices}
NoJob   == [kind |-> "none"]
Messages == 1 .. MaxRequests    \* outbox rows, by the request that wrote them

VARIABLES
  exists,         \* the post row exists
  liked,          \* users with a post_like row
  likeCount, commentCount, agreeCount, disagreeCount,    \* columns of post
  comments,       \* number of comment rows
  voted,          \* choice of each user's post_vote row, or "none"
  reporters,      \* users with a report row for the post
  score,          \* hotScore without its age factor, times two
  event,          \* the event of each outbox row, NoJob if there is no row
  processed,      \* outbox rows with a processedAtUtc
  pc, job,        \* where each process is, and with which job
  msg,            \* the outbox row a worker holds, 0 if none
  seen,           \* the vote it read before it writes
  snap,           \* the score it computed before it writes
  wish,           \* ghost: what a user last asked for, "any" if in a hurry
  missed,         \* ghost: like rows written whose increment never came ...
  missedDown,     \* ... and like rows deleted whose decrement never came
  staleVotes,     \* ghost: votes written over a vote that was not read
  behind,         \* ghost: an input changed and its recompute was lost
  late,           \* ghost: users whose like row was last written by a worker
                  \* whose outbox row another had finished
  requests, faults

post   == <<exists, likeCount, commentCount, agreeCount, disagreeCount>>
rowset == <<liked, comments, voted, reporters>>
outbox == <<event, processed>>
proc   == <<pc, job, msg, seen, snap>>
ghosts == <<wish, missed, missedDown, staleVotes, behind, late>>
bounds == <<requests, faults>>
vars   == <<post, rowset, score, outbox, proc, ghosts, bounds>>

Points == {"idle", "row", "count", "vote", "read", "write", "mark"}

(* A worker has the event of the row it holds. *)
OutboxOK ==
  /\ event \in [Messages -> Events \cup {NoJob}]
  /\ \A m \in Messages : event[m] # NoJob => m <= requests
  /\ processed \subseteq {m \in Messages : event[m] # NoJob}
  /\ msg \in [Procs -> 0 .. MaxRequests]
  /\ \A p \in Procs :
       /\ job[p] \in Events => msg[p] # 0
       /\ msg[p] # 0 => job[p] \in Events /\ event[msg[p]] = job[p]

TypeOK ==
  /\ exists \in BOOLEAN
  /\ liked \subseteq Users /\ reporters \subseteq Users
  /\ likeCount \in Int /\ commentCount \in Nat
  /\ agreeCount \in Int /\ disagreeCount \in Int
  /\ comments \in Nat
  /\ voted \in [Users -> Choices \cup {"none"}]
  /\ score \in Int
  /\ pc \in [Procs -> Points]
  /\ job \in [Procs -> Jobs \cup {NoJob}]
  /\ \A p \in Procs :
       /\ pc[p] = "idle" <=> job[p] = NoJob
       /\ pc[p] \in {"row", "count", "mark"} => job[p] \in Events
       /\ pc[p] = "count" => job[p].kind \in {"like", "unlike"}
       /\ pc[p] = "vote" => job[p].kind \in Choices
  /\ seen \in [Procs -> Choices \cup {"none"}]
  /\ snap \in [Procs -> Int]
  /\ wish \in [Users -> {"like", "unlike", "any"}]
  /\ missed \in Nat /\ missedDown \in Nat /\ staleVotes \in Nat
  /\ behind \in BOOLEAN /\ late \subseteq Users
  /\ requests \in Nat /\ faults \in Nat
  /\ OutboxOK

Init ==
  /\ exists = TRUE
  /\ liked = {} /\ reporters = {} /\ comments = 0
  /\ likeCount = 0 /\ commentCount = 0 /\ agreeCount = 0 /\ disagreeCount = 0
  /\ voted = [u \in Users |-> "none"]
  /\ score = 0
  /\ event = [m \in Messages |-> NoJob] /\ processed = {}
  /\ pc = [p \in Procs |-> "idle"] /\ job = [p \in Procs |-> NoJob]
  /\ msg = [p \in Procs |-> 0]
  /\ seen = [p \in Procs |-> "none"] /\ snap = [p \in Procs |-> 0]
  /\ wish = [u \in Users |-> "unlike"]
  /\ missed = 0 /\ missedDown = 0 /\ staleVotes = 0
  /\ behind = FALSE /\ late = {}
  /\ requests = 0 /\ faults = 0

(* computeHotScore's weighted sum: likes 1, votes 0.5, comments 2, reports
   -5, doubled; the division by the age is left out. *)
Weighted ==
  2 * likeCount + (agreeCount + disagreeCount) + 4 * commentCount
    - 10 * Cardinality(reporters)

Request == requests < MaxRequests /\ requests' = requests + 1
Fault   == faults < MaxFaults /\ faults' = faults + 1

Goto(p, l) == pc' = [pc EXCEPT ![p] = l]

(* The process is done with its job, successfully or not. *)
Free(p) ==
  /\ pc' = [pc EXCEPT ![p] = "idle"]
  /\ job' = [job EXCEPT ![p] = NoJob]
  /\ msg' = [msg EXCEPT ![p] = 0]
  /\ seen' = [seen EXCEPT ![p] = "none"]
  /\ snap' = [snap EXCEPT ![p] = 0]

-----------------------------------------------------------------------------
(***************************************************************************)
(* Requests.  Their reads (exists, isLiked) may be stale by the time the   *)
(* event is written; an event written late is the same as one written at   *)
(* once that no worker takes yet.                                          *)
(***************************************************************************)
Holders(m) == {p \in Procs : msg[p] = m}

(* Outbox rows with a like or an unlike of the user. *)
Reactions(u) ==
  {m \in Messages : event[m] \in [kind : {"like", "unlike"}, user : {u}]}

(* A like or an unlike of the user is not handled yet. *)
Waiting(u) == ~(Reactions(u) \subseteq processed)

(* The request's outbox row. *)
Queue(e) == event' = [event EXCEPT ![requests'] = e] /\ UNCHANGED processed

(* PostsService.react: queue the event, or answer 'unchanged'. *)
React(u, isLike) ==
  /\ exists
  /\ Request
  /\ LET kind == IF isLike THEN "like" ELSE "unlike"
     IN
     /\ IF (u \in liked) = isLike THEN UNCHANGED outbox
                                  ELSE Queue([kind |-> kind, user |-> u])
     /\ wish' = [wish EXCEPT ![u] = IF Waiting(u) THEN "any" ELSE kind]
  /\ UNCHANGED <<post, rowset, score, proc, missed, missedDown, staleVotes,
                 behind, late, faults>>

(* CommentsService.createAsync. *)
CreateComment(u) ==
  /\ exists
  /\ Request
  /\ Queue([kind |-> "comment", user |-> u])
  /\ UNCHANGED <<post, rowset, score, proc, ghosts, faults>>

(* CommentsService.remove and adminRemove: the row and its replies go, the
   post is not touched. *)
DeleteComment(n) ==
  /\ n \in 1 .. comments
  /\ Request
  /\ comments' = comments - n
  /\ UNCHANGED <<post, liked, voted, reporters, score, outbox, proc, ghosts,
                 faults>>

(* PostsService.remove and adminRemove: rows go by ON DELETE CASCADE (report
   rows have no foreign key); queued events stay. *)
DeletePost ==
  /\ exists
  /\ Request
  /\ exists' = FALSE
  /\ liked' = {} /\ comments' = 0 /\ voted' = [u \in Users |-> "none"]
  /\ UNCHANGED <<reporters, likeCount, commentCount, agreeCount, disagreeCount,
                 score, outbox, proc, ghosts, faults>>

(* ReportsService.create for the post: no recompute. *)
Report(u) ==
  /\ exists /\ u \notin reporters
  /\ Request
  /\ reporters' = reporters \cup {u}
  /\ behind' = TRUE
  /\ UNCHANGED <<post, liked, comments, voted, score, outbox, proc, wish,
                 missed, missedDown, staleVotes, late, faults>>

-----------------------------------------------------------------------------
(***************************************************************************)
(* Votes: PrismaPostRepository.vote, called by PostsService.vote.          *)
(***************************************************************************)
(* The reads; the same choice again is 'Unchanged'. *)
VoteRead(p, u, c) ==
  /\ pc[p] = "idle" /\ exists /\ voted[u] # c
  /\ Request
  /\ Goto(p, "vote")
  /\ job' = [job EXCEPT ![p] = [kind |-> c, user |-> u]]
  /\ seen' = [seen EXCEPT ![p] = voted[u]]
  /\ UNCHANGED <<post, rowset, score, outbox, msg, snap, ghosts, faults>>

(* Variant: the previous choice is not taken back. *)
DeltaAddsOnly(p, c) == IF job[p].kind = c THEN 1 ELSE 0

(* What the transaction adds to a counter, from the vote that was read. *)
Delta(p, c) ==
  (IF job[p].kind = c THEN 1 ELSE 0) - (IF seen[p] = c THEN 1 ELSE 0)

(* The transaction: upsert the row, add the deltas. *)
VoteWrite(p) ==
  LET u == job[p].user IN
  /\ pc[p] = "vote" /\ exists
  /\ voted' = [voted EXCEPT ![u] = job[p].kind]
  /\ agreeCount' = agreeCount + Delta(p, "agree")
  /\ disagreeCount' = disagreeCount + Delta(p, "disagree")
  /\ staleVotes' = IF seen[p] = voted[u] THEN staleVotes ELSE staleVotes + 1
  /\ Goto(p, "read") /\ seen' = [seen EXCEPT ![p] = "none"]
  /\ UNCHANGED <<exists, likeCount, commentCount, liked, comments, reporters,
                 score, outbox, job, msg, snap, wish, missed, missedDown,
                 behind, late, bounds>>

-----------------------------------------------------------------------------
(***************************************************************************)
(* The outbox worker: ReactionProcessor's handlers, one action per query.  *)
(***************************************************************************)
(* The row is not processed.  If somebody is at work on it, a lock has run out
   there, which is neither renewed nor looked at again. *)
Start(p, m) ==
  /\ pc[p] = "idle"
  /\ event[m] # NoJob /\ m \notin processed
  /\ IF Holders(m) = {} THEN UNCHANGED faults ELSE Fault
  /\ Goto(p, "row")
  /\ job' = [job EXCEPT ![p] = event[m]]
  /\ msg' = [msg EXCEPT ![p] = m]
  /\ UNCHANGED <<post, rowset, score, outbox, seen, snap, ghosts, requests>>

(* The worker changes the user's like row, in time or after its outbox row was
   finished by another. *)
Touch(p, u) ==
  /\ late' = IF msg[p] \in processed THEN late \cup {u} ELSE late \ {u}
  /\ UNCHANGED <<wish, missed, missedDown, staleVotes, behind>>

(* Variant: a like that is already there ends the job without a recompute. *)
LikeRowReturnsEarly(p) ==
  LET u == job[p].user IN
  /\ pc[p] = "row" /\ job[p].kind = "like" /\ exists
  /\ liked' = liked \cup {u}
  /\ Goto(p, IF u \in liked THEN "mark" ELSE "count")
  /\ Touch(p, u)
  /\ UNCHANGED <<post, comments, voted, reporters, score, outbox, job, msg,
                 seen, snap, bounds>>

(* postLike.create; a unique violation is swallowed. *)
LikeRow(p) ==
  LET u == job[p].user IN
  /\ pc[p] = "row" /\ job[p].kind = "like" /\ exists
  /\ liked' = liked \cup {u}
  /\ Goto(p, IF u \in liked THEN "read" ELSE "count")
  /\ Touch(p, u)
  /\ UNCHANGED <<post, comments, voted, reporters, score, outbox, job, msg,
                 seen, snap, bounds>>

(* postLike.deleteMany; no decrement if it deleted nothing. *)
UnlikeRow(p) ==
  LET u == job[p].user IN
  /\ pc[p] = "row" /\ job[p].kind = "unlike"
  /\ liked' = liked \ {u}
  /\ Goto(p, IF u \in liked THEN "count" ELSE "read")
  /\ Touch(p, u)
  /\ UNCHANGED <<post, comments, voted, reporters, score, outbox, job, msg,
                 seen, snap, bounds>>

(* Variant: the decrement is forgotten. *)
StepUpOnly(p) == 1

Step(p) == IF job[p].kind = "like" THEN 1 ELSE -1

(* post.update of likeCount, a SMALLINT. *)
Count(p) ==
  /\ pc[p] = "count" /\ exists
  /\ likeCount + Step(p) \in (-SmallInt - 1) .. SmallInt
  /\ likeCount' = likeCount + Step(p)
  /\ Goto(p, "read")
  /\ UNCHANGED <<exists, commentCount, agreeCount, disagreeCount, rowset, score,
                 outbox, job, msg, seen, snap, ghosts, bounds>>

(* Variant: the row without the counter. *)
CommentTxRowOnly(p) ==
  /\ pc[p] = "row" /\ job[p].kind = "comment" /\ exists
  /\ comments' = comments + 1
  /\ Goto(p, "read")
  /\ UNCHANGED <<post, liked, voted, reporters, score, outbox, job, msg,
                 seen, snap, ghosts, bounds>>

(* handleCommentCreate: row and counter in one transaction. *)
CommentTx(p) ==
  /\ pc[p] = "row" /\ job[p].kind = "comment" /\ exists
  /\ comments' = comments + 1
  /\ commentCount' = commentCount + 1
  /\ Goto(p, "read")
  /\ UNCHANGED <<exists, likeCount, agreeCount, disagreeCount, liked, voted,
                 reporters, score, outbox, job, msg, seen, snap, ghosts,
                 bounds>>

(* ... and nothing at all if the post is gone. *)
CommentNoPost(p) ==
  /\ pc[p] = "row" /\ job[p].kind = "comment" /\ ~exists
  /\ Goto(p, "mark")
  /\ UNCHANGED <<post, rowset, score, outbox, job, msg, seen, snap, ghosts, bounds>>

(* HotScoreService.recompute reads the counters and counts the reports ... *)
ScoreRead(p) ==
  /\ pc[p] = "read"
  /\ IF exists
       THEN Goto(p, "write") /\ snap' = [snap EXCEPT ![p] = Weighted]
                             /\ UNCHANGED <<job, msg, seen>>
       ELSE IF job[p] \in Events
              THEN Goto(p, "mark") /\ UNCHANGED <<job, msg, seen, snap>>
              ELSE Free(p)
  /\ UNCHANGED <<post, rowset, score, outbox, ghosts, bounds>>

(* ... and writes the score; a failed write is only logged. *)
ScoreWrite(p) ==
  /\ pc[p] = "write"
  /\ \/ /\ exists
        /\ score' = snap[p]
        /\ behind' = (snap[p] # Weighted)
        /\ UNCHANGED faults
     \/ /\ exists => Fault
        /\ ~exists => UNCHANGED faults
        /\ behind' = TRUE
        /\ UNCHANGED score
  /\ IF job[p] \in Events
       THEN /\ Goto(p, "mark") /\ snap' = [snap EXCEPT ![p] = 0]
            /\ UNCHANGED <<job, msg, seen>>
       ELSE Free(p)
  /\ UNCHANGED <<post, rowset, outbox, wish, missed, missedDown, staleVotes,
                 late, requests>>

(* processedAtUtc is set. *)
Mark(p) ==
  /\ pc[p] = "mark"
  /\ processed' = processed \cup {msg[p]}
  /\ Free(p)
  /\ UNCHANGED <<post, rowset, score, event, ghosts, bounds>>

(* Nobody is going to recompute the score for the process: a vote is not
   repeated, and neither is an event that another has handled. *)
NotRepeated(p) ==
  \/ job[p].kind \in Choices
  \/ msg[p] \in processed
  \/ \E q \in Holders(msg[p]) \ {p} : pc[q] = "mark"

(* Variant: the event counts as processed. *)
LoseMarks(p) ==
  /\ missed' = missed + (IF pc[p] = "count" /\ job[p].kind = "like" THEN 1 ELSE 0)
  /\ missedDown' =
       missedDown + (IF pc[p] = "count" /\ job[p].kind = "unlike" THEN 1 ELSE 0)
  /\ behind' = (behind \/ (pc[p] \in {"read", "write"} /\ NotRepeated(p)))
  /\ Free(p)
  /\ processed' = processed \cup ({msg[p]} \ {0})
  /\ UNCHANGED <<post, rowset, score, event, wish, staleVotes, late, requests>>

(* What is lost when a process ends where it is. *)
Lose(p) ==
  /\ missed' = missed + (IF pc[p] = "count" /\ job[p].kind = "like" THEN 1 ELSE 0)
  /\ missedDown' =
       missedDown + (IF pc[p] = "count" /\ job[p].kind = "unlike" THEN 1 ELSE 0)
  /\ behind' = (behind \/ (pc[p] \in {"read", "write"} /\ NotRepeated(p)))
  /\ Free(p)
  /\ UNCHANGED <<post, rowset, score, outbox, wish, staleVotes, late, requests>>

(* A query fails or the process ends: an event that is not processed will be
   handled again, a vote will not. *)
Crash(p) ==
  /\ pc[p] # "idle"
  /\ Fault
  /\ Lose(p)

(* The query must fail: the post is gone, or likeCount would leave its range. *)
Refused(p) ==
  /\ \/ pc[p] = "row" /\ job[p].kind \in {"like", "comment"} /\ ~exists
     \/ pc[p] = "vote" /\ ~exists
     \/ pc[p] = "count" /\ (exists =>
          likeCount + Step(p) \notin (-SmallInt - 1) .. SmallInt)
  /\ UNCHANGED faults
  /\ Lose(p)

Next ==
  \/ DeletePost
  \/ \E n \in 1 .. comments : DeleteComment(n)
  \/ \E u \in Users :
       \/ CreateComment(u) \/ Report(u)
       \/ \E isLike \in BOOLEAN : React(u, isLike)
       \/ \E p \in Procs, c \in Choices : VoteRead(p, u, c)
  \/ \E p \in Procs :
       \/ \E m \in Messages : Start(p, m)
       \/ VoteWrite(p) \/ LikeRow(p) \/ UnlikeRow(p) \/ Count(p) \/ CommentTx(p)
       \/ CommentNoPost(p) \/ ScoreRead(p) \/ ScoreWrite(p) \/ Mark(p)
       \/ Crash(p) \/ Refused(p)

Spec == Init /\ [][Next]_vars

-----------------------------------------------------------------------------
(***************************************************************************)
(* Properties.                                                             *)
(***************************************************************************)
(* Processes between a like row and its counter. *)
Counting(kind) == {p \in Procs : pc[p] = "count" /\ job[p].kind = kind}

(* The like counter differs from the number of like rows exactly by the    *)
(* updates in flight and those that were lost; duplicate, reordered and    *)
(* repeated events cost nothing (reaction.processor.ts:111-137).           *)
LikeCountAccounted ==
  exists =>
    likeCount + Cardinality(Counting("like")) + missed
      = Cardinality(liked) + Cardinality(Counting("unlike")) + missedDown

Voters(c) == {u \in Users : voted[u] = c}

Within(n, a, b) == a <= b + n /\ b <= a + n

(* A vote counter is off by at most one for every vote that was written    *)
(* over a vote its request had not read (prisma-post.repository.ts:184-225).*)
VotesAccounted ==
  exists =>
    /\ Within(staleVotes, agreeCount, Cardinality(Voters("agree")))
    /\ Within(staleVotes, disagreeCount, Cardinality(Voters("disagree")))

(* The comment counter is never below the number of comments, however      *)
(* often an event is handled again (reaction.processor.ts:149-163).        *)
CommentsCounted == exists => comments <= commentCount

Quiet ==
  /\ \A p \in Procs : pc[p] = "idle"
  /\ \A m \in Messages : event[m] # NoJob => m \in processed

(* Once everything queued is handled, the score agrees with the counters,  *)
(* unless a recompute was lost (a vote's, or that of a worker that ended   *)
(* when another had handled its event: the 600 s lock at line 45 is not    *)
(* renewed), a snapshot was stale when it was written, or a report came    *)
(* after it.  A failed handler recomputes when it is retried, also if its  *)
(* row is already there (reaction.processor.ts:138).                       *)
ScoreCatchesUp == exists /\ Quiet /\ ~behind => score = Weighted

(* A user whose requests each came after the one before was handled has in *)
(* the end what was asked for last, however often events are handled,      *)
(* unless the last to write the like row was a worker whose outbox row     *)
(* another had finished: processedAtUtc is read once, before the lock.  An *)
(* answer 'unchanged' is only wrong while an event of the user is waiting  *)
(* (posts.service.ts:222-240, reaction.processor.ts:38-51 and 111-137).    *)
LastRequestWins ==
  exists /\ Quiet =>
    \A u \in Users \ late :
      wish[u] # "any" => (wish[u] = "like" <=> u \in liked)
=============================================================================
