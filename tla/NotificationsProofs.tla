------------------------ MODULE NotificationsProofs ------------------------
(***************************************************************************)
(* Theorems about what the application tells its users, for any sets of    *)
(* users and workers and any bounds: first Notifications, then the         *)
(* announcements of Broadcast and the launch mail of Launch.               *)
(***************************************************************************)
EXTENDS Notifications, MCMailings, CardinalityFacts, TLAPS

Works(w, r) == worker' = [worker EXCEPT ![w] = r]

LEMMA NextTypeOK == TypeOK /\ [Next]_vars => TypeOK'
<1> SUFFICES ASSUME TypeOK, [Next]_vars PROVE TypeOK'
  OBVIOUS
<1> USE ConstantsAssumption DEF queue, row, users
<1> DEFINE Record == [at : Points, event : Events \cup {0},
                      type : Types \cup {"none"}, left : SUBSET Users]
           Fits(r, S) == /\ r.at # "idle" => r.event \in S
                         /\ r.at \in {"typed", "listed", "create"} => r.type \in Types
<1>t. /\ kind \in Types \cup {"none"} /\ deleted \in BOOLEAN
      /\ kindOf \in [Events -> Types \cup {"none"}]
      /\ submitted \subseteq Events /\ acknowledged \subseteq submitted
      /\ submitted # {} => kind # "none"
      /\ effects \in [Events -> Nat]
      /\ follows \subseteq Users /\ moved \subseteq Users
      /\ optedOut \in [Types -> SUBSET Users]
      /\ unread \subseteq notes /\ notes \subseteq Users \X Types
      /\ worker \in [Workers -> Record] /\ changes \in Nat /\ faults \in Nat
      /\ \A w \in Workers : Fits(worker[w], submitted)
  BY DEF TypeOK
<1> HIDE DEF Record
(* A worker's new record.                                                  *)
<1>w. ASSUME NEW w \in Workers, NEW r \in Record, Fits(r, submitted), Works(w, r)
      PROVE  /\ worker' \in [Workers -> Record]
             /\ \A v \in Workers : Fits(worker'[v], submitted)
  BY <1>w, <1>t DEF Works
<1>q. ASSUME worker' \in [Workers -> Record],
             \A v \in Workers : Fits(worker'[v], submitted'),
             UNCHANGED <<row, users>>,
             submitted' = submitted, acknowledged' \subseteq submitted,
             effects' \in [Events -> Nat], unread' \subseteq notes',
             notes' \subseteq Users \X Types, faults' \in Nat
      PROVE  TypeOK'
  BY <1>q, <1>t DEF TypeOK, Record
<1>idle. Idle \in Record /\ Fits(Idle, submitted)
  BY DEF Idle, Record, Points
<1>f. Fault => faults' \in Nat
  BY <1>t DEF Fault
(* What the steps of a worker's own record have in common.                 *)
<1>r. ASSUME NEW w \in Workers, NEW l \in Points, NEW t \in Types \cup {"none"},
             NEW S \in SUBSET Users, ~At(w, "idle"),
             l \in {"typed", "listed", "create"} => t \in Types
      PROVE  LET r == [worker[w] EXCEPT !.at = l, !.type = t, !.left = S]
             IN  r \in Record /\ Fits(r, submitted)
  BY <1>r, <1>t DEF At, Record
<1>1. CASE Delete
  BY <1>1 DEF Delete, TypeOK
<1>notify. ASSUME NEW e, NEW k \in Types, Notify(e, k) PROVE TypeOK'
  <2>1. /\ e \in Events /\ submitted' = submitted \cup {e}
        /\ kindOf' = [kindOf EXCEPT ![e] = k] /\ kind' = k
        /\ UNCHANGED <<effects, acknowledged, deleted, users, notes, unread, worker, faults>>
    BY <1>notify DEF Notify, Queue!Submit
  <2>2. \A v \in Workers : Fits(worker[v], submitted')
    BY <1>t, <2>1
  <2>3. kind' # "none" /\ kindOf' \in [Events -> Types \cup {"none"}]
        /\ kind' \in Types /\ submitted' \subseteq Events /\ acknowledged' \subseteq submitted'
    BY <1>t, <2>1 DEF Types
  <2> QED BY <1>t, <2>1, <2>2, <2>3 DEF TypeOK, Record
<1>2. ASSUME NEW k \in Types, CreateRow(k) PROVE TypeOK'
  BY <1>2, <1>notify DEF CreateRow
<1>3. ASSUME NEW e \in Events, Confirm(e) PROVE TypeOK'
  BY <1>3, <1>notify DEF Confirm, Types
<1>4. ASSUME NEW u \in Users, MarkRead(u) PROVE TypeOK'
  <2>1. unread' \subseteq unread /\ changes' \in Nat
        /\ UNCHANGED <<row, queue, follows, optedOut, moved, notes, worker, faults>>
    BY <1>4, <1>t DEF MarkRead, UserDoes
  <2> QED BY <1>t, <2>1 DEF TypeOK, Record
<1>5. ASSUME NEW u \in Users, NEW match \in BOOLEAN, SetFavourites(u, match)
      PROVE  TypeOK'
  <2>1. /\ moved' \subseteq Users /\ follows' \subseteq Users /\ changes' \in Nat
        /\ UNCHANGED <<row, queue, optedOut, notes, unread, worker, faults>>
    BY <1>5, <1>t DEF SetFavourites, Change, UserDoes
  <2> QED BY <1>t, <2>1 DEF TypeOK, Record
<1>6. ASSUME NEW u \in Users, NEW out \in SUBSET Types, SetPreferences(u, out)
      PROVE  TypeOK'
  <2>1. /\ moved' \subseteq Users /\ changes' \in Nat
        /\ UNCHANGED <<row, queue, follows, notes, unread, worker, faults>>
    BY <1>6, <1>t DEF SetPreferences, Change, UserDoes
  <2>2. optedOut' \in [Types -> SUBSET Users]
    BY <1>6, <1>t DEF SetPreferences
  <2> QED BY <1>t, <2>1, <2>2 DEF TypeOK, Record
<1>return. ASSUME NEW w \in Workers, ~At(w, "idle"), Return(w) PROVE TypeOK'
  <2>1. /\ effects' \in [Events -> Nat] /\ UNCHANGED <<submitted, acknowledged>>
    BY <1>return, <1>t DEF Return, Queue!Effect
  <2>2. Works(w, [worker[w] EXCEPT !.at = "mark", !.type = "none", !.left = {}])
        /\ UNCHANGED <<row, users, notes, unread, faults>>
    BY <1>return DEF Return, Step, Works
  <2>3. "mark" \in Points /\ "none" \in Types \cup {"none"} /\ {} \in SUBSET Users
    BY DEF Points
  <2>4. LET r == [worker[w] EXCEPT !.at = "mark", !.type = "none", !.left = {}]
        IN  r \in Record /\ Fits(r, submitted)
    BY <1>return, <1>r, <2>3
  <2>5. /\ worker' \in [Workers -> Record]
        /\ \A v \in Workers : Fits(worker'[v], submitted)
    BY <1>w, <2>2, <2>4
  <2> QED BY <1>t, <1>q, <2>1, <2>2, <2>5
<1>7. ASSUME NEW w \in Workers, NoTransfer(w) \/ AllCreated(w) PROVE TypeOK'
  BY <1>7, <1>return DEF NoTransfer, AllCreated, At
(* A step that writes nothing but its record.                              *)
<1>step. ASSUME NEW w \in Workers, NEW l \in {"typed", "listed", "create"},
                NEW t \in Types, NEW S \in SUBSET Users, ~At(w, "idle"),
                Works(w, [worker[w] EXCEPT !.at = l, !.type = t, !.left = S]),
                UNCHANGED <<row, users, queue, faults>>,
                unread' \subseteq notes', notes' \subseteq Users \X Types
         PROVE  TypeOK'
  <2>1. l \in Points /\ t \in Types \cup {"none"}
    BY DEF Points
  <2>2. LET r == [worker[w] EXCEPT !.at = l, !.type = t, !.left = S]
        IN  r \in Record /\ Fits(r, submitted)
    BY <1>step, <1>r, <2>1
  <2>3. /\ worker' \in [Workers -> Record]
        /\ \A v \in Workers : Fits(worker'[v], submitted)
    BY <1>step, <1>w, <2>2
  <2> QED BY <1>t, <1>q, <1>step, <2>3
<1>same. ASSUME NEW w \in Workers
         PROVE  worker[w] = [at |-> worker[w].at, event |-> worker[w].event,
                             type |-> worker[w].type, left |-> worker[w].left]
  BY <1>t DEF Record
<1>8. ASSUME NEW w \in Workers, GetTransfer(w) PROVE TypeOK'
  <2>1. /\ ~At(w, "idle") /\ UNCHANGED <<row, users, queue, notes, unread, faults>>
        /\ Works(w, [worker[w] EXCEPT !.at = "typed", !.type = kind])
    BY <1>8 DEF GetTransfer, At, Step, Works
  <2>2. kind \in Types
    BY <2>1, <1>t DEF At
  <2>3. [worker[w] EXCEPT !.at = "typed", !.type = kind]
          = [worker[w] EXCEPT !.at = "typed", !.type = kind, !.left = worker[w].left]
    BY <1>same
  <2>4. worker[w].left \in SUBSET Users /\ unread' \subseteq notes' /\ notes' \subseteq Users \X Types
    BY <1>t, <2>1 DEF Record
  <2> QED BY <1>step, <2>1, <2>2, <2>3, <2>4
<1>9. ASSUME NEW w \in Workers, FindUsers(w) PROVE TypeOK'
  <2>1. /\ ~At(w, "idle") /\ UNCHANGED <<row, users, queue, notes, unread, faults>>
        /\ Works(w, [worker[w] EXCEPT !.at = "listed", !.left = follows \ {Reporter}])
        /\ worker[w].type \in Types
    BY <1>9, <1>t DEF FindUsers, At, Step, Works
  <2>2. [worker[w] EXCEPT !.at = "listed", !.left = follows \ {Reporter}]
          = [worker[w] EXCEPT !.at = "listed", !.type = worker[w].type,
                              !.left = follows \ {Reporter}]
    BY <1>same
  <2> QED BY <1>step, <1>t, <2>1, <2>2
<1>10. ASSUME NEW w \in Workers, DropOptedOut(w) PROVE TypeOK'
  <2> DEFINE S == worker[w].left \ optedOut[worker[w].type]
  <2>1. /\ ~At(w, "idle") /\ UNCHANGED <<row, users, queue, notes, unread, faults>>
        /\ Works(w, [worker[w] EXCEPT !.at = "create", !.left = S])
        /\ worker[w].type \in Types
    BY <1>10, <1>t DEF DropOptedOut, At, Step, Works
  <2>2. S \in SUBSET Users
    BY <1>t DEF Record
  <2> HIDE DEF S
  <2>3. [worker[w] EXCEPT !.at = "create", !.left = S]
          = [worker[w] EXCEPT !.at = "create", !.type = worker[w].type, !.left = S]
    BY <1>same
  <2> QED BY <1>step, <1>t, <2>1, <2>2, <2>3
<1>11. ASSUME NEW w \in Workers, NEW u \in Users, CreateNotification(w, u)
       PROVE  TypeOK'
  <2> DEFINE S == worker[w].left \ {u}
  <2>1. /\ ~At(w, "idle") /\ UNCHANGED <<row, users, queue, faults>>
        /\ Works(w, [worker[w] EXCEPT !.left = S])
        /\ worker[w].type \in Types /\ worker[w].at = "create"
        /\ notes' = notes \cup {<<u, worker[w].type>>}
        /\ unread' \subseteq unread \cup {<<u, worker[w].type>>}
    BY <1>11, <1>t DEF CreateNotification, At, Step, Works
  <2>2. S \in SUBSET Users
    BY <1>t DEF Record
  <2> HIDE DEF S
  <2>3. [worker[w] EXCEPT !.left = S]
          = [worker[w] EXCEPT !.at = "create", !.type = worker[w].type, !.left = S]
    BY <1>same, <2>1
  <2>4. unread' \subseteq notes' /\ notes' \subseteq Users \X Types
    BY <1>t, <2>1
  <2> QED BY <1>step, <1>t, <2>1, <2>2, <2>3, <2>4
(* A worker that begins or ends.                                           *)
<1>begin. ASSUME NEW w \in Workers, NEW r \in {Idle} \cup
                   {[Idle EXCEPT !.at = "begin", !.event = e] : e \in submitted},
                 Works(w, r), UNCHANGED <<row, users, notes, unread>>,
                 UNCHANGED <<submitted, effects>>, acknowledged' \subseteq submitted,
                 faults' \in Nat
          PROVE  TypeOK'
  <2>1. r \in Record /\ Fits(r, submitted)
    <3>1. ASSUME NEW e \in submitted, r = [Idle EXCEPT !.at = "begin", !.event = e]
          PROVE  r \in Record /\ Fits(r, submitted)
      <4>1. e \in Events /\ r = [at |-> "begin", event |-> e, type |-> "none", left |-> {}]
        BY <1>t, <3>1 DEF Idle
      <4> QED BY <4>1 DEF Record, Points
    <3> QED BY <1>idle, <3>1
  <2>2. /\ worker' \in [Workers -> Record]
        /\ \A v \in Workers : Fits(worker'[v], submitted)
    BY <1>begin, <1>w, <2>1
  <2> QED BY <1>q, <1>begin, <1>t, <2>2
<1>12. ASSUME NEW w \in Workers, Mark(w) PROVE TypeOK'
  <2>1. /\ Works(w, Idle) /\ UNCHANGED <<row, users, notes, unread, faults>>
        /\ UNCHANGED <<submitted, effects>>
        /\ acknowledged' = acknowledged \cup {worker[w].event}
        /\ worker[w].at = "mark"
    BY <1>12 DEF Mark, At, Step, Works, Queue!Acknowledge
  <2>2. acknowledged' \subseteq submitted
    BY <2>1, <1>t
  <2> QED BY <1>begin, <1>t, <2>1, <2>2
<1>13. ASSUME NEW w \in Workers, NEW e \in Events, Take(w, e) PROVE TypeOK'
  <2>1. /\ Works(w, [Idle EXCEPT !.at = "begin", !.event = e])
        /\ UNCHANGED <<row, users, notes, unread, queue>> /\ e \in submitted
    BY <1>13 DEF Take, Step, Works
  <2>2. faults' \in Nat
    BY <1>13, <1>t, <1>f DEF Take
  <2> QED BY <1>begin, <1>t, <2>1, <2>2
<1>14. ASSUME NEW w \in Workers, Fail(w) PROVE TypeOK'
  <2>1. Works(w, Idle) /\ UNCHANGED <<row, users, notes, unread, queue>> /\ faults' \in Nat
    BY <1>14, <1>f DEF Fail, Step, Works
  <2> QED BY <1>begin, <1>t, <2>1
<1>15. CASE UNCHANGED vars
  BY <1>15 DEF TypeOK, vars
<1> QED
  BY <1>1, <1>2, <1>3, <1>4, <1>5, <1>6, <1>7, <1>8, <1>9, <1>10, <1>11, <1>12,
     <1>13, <1>14, <1>15 DEF Next, WorkerStep

LEMMA InitTypeOK == Init => TypeOK
<1> SUFFICES ASSUME Init PROVE TypeOK
  OBVIOUS
<1>1. Idle \in [at : Points, event : Events \cup {0},
                type : Types \cup {"none"}, left : SUBSET Users]
  BY DEF Idle, Points
<1> QED
  BY <1>1, ConstantsAssumption DEF Init, TypeOK, Queue!Init, Idle

(* Type correctness; a worker's event is in the outbox, and a worker that  *)
(* looks for users has read a type.                                        *)
THEOREM TypeCorrect == Spec => []TypeOK
BY InitTypeOK, NextTypeOK, PTL DEF Spec

-----------------------------------------------------------------------------
(***************************************************************************)
(* How the row and its events go together.                                 *)
(***************************************************************************)
RowInv ==
  /\ kind = "none" => submitted = {}
  /\ \A e \in Events \ submitted : kindOf[e] = "none"
  /\ \A e \in submitted : /\ 1 \in submitted /\ kind \in {kindOf[1], "transfer"}
                          /\ kindOf[e] \in Types \cap {kindOf[1], kind}

(* The row, once there is one, only turns from a rumour into a transfer.   *)
RowMoves ==
  /\ \A e \in submitted : kindOf'[e] = kindOf[e]
  /\ \/ kind' = kind
     \/ /\ kind = "rumour" /\ kind' = "transfer"
        /\ \A e \in submitted : kindOf[e] = "rumour"
  /\ deleted => deleted'

(* Users change what they are asked for, and only they.                    *)
UsersMove ==
  /\ moved \subseteq moved'
  /\ \A u \in Users \ moved' : /\ u \in follows' <=> u \in follows
                               /\ \A t \in Types : u \in optedOut'[t] <=> u \in optedOut[t]

WorkerNext(w) == \/ WorkerStep(w) \/ Fail(w)
                 \/ \E e \in Events : Take(w, e)

(* A worker leaves the row and the users alone.                            *)
LEMMA WorkersLeave ==
  ASSUME NEW w \in Workers, WorkerNext(w)
  PROVE  /\ UNCHANGED <<kind, deleted, kindOf, submitted, users>>
         /\ notes \subseteq notes'
<1> USE DEF row, queue, Step
<1>1. ASSUME Return(w) PROVE /\ UNCHANGED <<kind, deleted, kindOf, submitted, users>>
                             /\ notes \subseteq notes'
  BY <1>1 DEF Return, Queue!Effect
<1>2. CASE NoTransfer(w) \/ AllCreated(w)
  BY <1>1, <1>2 DEF NoTransfer, AllCreated
<1>3. CASE GetTransfer(w)
  BY <1>3 DEF GetTransfer
<1>4. CASE FindUsers(w)
  BY <1>4 DEF FindUsers
<1>5. CASE DropOptedOut(w)
  BY <1>5 DEF DropOptedOut
<1>6. ASSUME NEW u \in Users, CreateNotification(w, u)
      PROVE  /\ UNCHANGED <<kind, deleted, kindOf, submitted, users>>
             /\ notes \subseteq notes'
  BY <1>6 DEF CreateNotification
<1>7. CASE Mark(w)
  BY <1>7 DEF Mark, Queue!Acknowledge
<1>8. CASE Fail(w)
  BY <1>8 DEF Fail
<1>9. ASSUME NEW e \in Events, Take(w, e)
      PROVE  /\ UNCHANGED <<kind, deleted, kindOf, submitted, users>>
             /\ notes \subseteq notes'
  BY <1>9 DEF Take
<1> QED
  BY <1>2, <1>3, <1>4, <1>5, <1>6, <1>7, <1>8, <1>9 DEF WorkerNext, WorkerStep

LEMMA RowSteps ==
  ASSUME TypeOK, RowInv, [Next]_vars
  PROVE  RowInv' /\ (submitted # {} => RowMoves)
<1> USE ConstantsAssumption DEF row, queue, users
<1>t. /\ kind \in Types \cup {"none"} /\ kindOf \in [Events -> Types \cup {"none"}]
      /\ submitted \subseteq Events /\ (submitted # {} => kind # "none")
  BY DEF TypeOK
<1>same. ASSUME UNCHANGED <<kind, kindOf, submitted>>, deleted => deleted'
         PROVE  RowInv' /\ RowMoves
  BY <1>same DEF RowInv, RowMoves
<1>1. CASE Delete
  BY <1>1, <1>same DEF Delete
<1>2. ASSUME NEW k \in Types, CreateRow(k) PROVE RowInv' /\ submitted = {}
  <2>1. /\ submitted = {} /\ 1 \in Events /\ kind' = k
        /\ kindOf' = [kindOf EXCEPT ![1] = k] /\ submitted' = {1}
    BY <1>2, <1>t DEF CreateRow, Notify, Queue!Submit, RowInv
  <2> QED BY <2>1, <1>t DEF RowInv, Types
<1>3. ASSUME NEW e \in Events, Confirm(e) PROVE RowInv' /\ RowMoves
  <2>1. /\ e \notin submitted /\ kindOf[1] = "rumour" /\ kind' = "transfer"
        /\ kindOf' = [kindOf EXCEPT ![e] = "transfer"] /\ submitted' = submitted \cup {e}
        /\ deleted' = deleted
    BY <1>3 DEF Confirm, Notify, Queue!Submit
  <2>2. 1 \in Events
    BY DEF Events
  <2>3. 1 \in submitted /\ e # 1 /\ kindOf'[1] = "rumour" /\ kindOf'[e] = "transfer"
    BY <2>1, <2>2, <1>t DEF RowInv
  <2>4. \A f \in Events \ {e} : kindOf'[f] = kindOf[f]
    BY <2>1, <1>t
  <2>5. kind \in Types
    BY <2>3, <1>t DEF Types
  <2>6. \A f \in submitted : kindOf[f] \in {"rumour", kind}
    BY <2>1 DEF RowInv
  <2>7. RowMoves
    BY <2>1, <2>4, <2>5, <2>6, <1>t DEF RowMoves, Types
  <2>8. RowInv'
    BY <2>1, <2>3, <2>4, <2>5, <2>6, <1>t DEF RowInv, Types
  <2> QED BY <2>7, <2>8
<1>4. ASSUME NEW u \in Users, MarkRead(u) PROVE RowInv' /\ RowMoves
  BY <1>4, <1>same DEF MarkRead
<1>5. ASSUME NEW u \in Users, NEW match \in BOOLEAN, SetFavourites(u, match)
      PROVE  RowInv' /\ RowMoves
  BY <1>5, <1>same DEF SetFavourites, Change
<1>6. ASSUME NEW u \in Users, NEW out \in SUBSET Types, SetPreferences(u, out)
      PROVE  RowInv' /\ RowMoves
  BY <1>6, <1>same DEF SetPreferences, Change
<1>7. ASSUME NEW w \in Workers, WorkerNext(w) PROVE RowInv' /\ RowMoves
  BY <1>7, <1>same, WorkersLeave
<1>8. CASE UNCHANGED vars
  BY <1>8, <1>same DEF vars
<1> QED
  BY <1>1, <1>2, <1>3, <1>4, <1>5, <1>6, <1>7, <1>8, <1>same DEF Next, WorkerNext

LEMMA UserSteps ==
  ASSUME TypeOK, RowInv, [Next]_vars, submitted # {}
  PROVE  UsersMove /\ notes \subseteq notes'
<1> USE DEF row, queue, users
<1>t. kind # "none" /\ optedOut \in [Types -> SUBSET Users]
  BY DEF TypeOK
<1>same. ASSUME UNCHANGED users PROVE UsersMove
  BY <1>same DEF UsersMove
<1>1. CASE Delete \/ UNCHANGED vars
  BY <1>1, <1>same DEF Delete, vars
<1>2. ASSUME NEW e, NEW k, Notify(e, k) PROVE UsersMove /\ notes \subseteq notes'
  BY <1>2, <1>same DEF Notify
<1>3. ASSUME NEW u \in Users, MarkRead(u) PROVE UsersMove /\ notes \subseteq notes'
  BY <1>3 DEF MarkRead, UsersMove
<1>4. ASSUME NEW u \in Users, NEW match \in BOOLEAN, SetFavourites(u, match)
      PROVE  UsersMove /\ notes \subseteq notes'
  BY <1>4, <1>t DEF SetFavourites, Change, UsersMove
<1>5. ASSUME NEW u \in Users, NEW out \in SUBSET Types, SetPreferences(u, out)
      PROVE  UsersMove /\ notes \subseteq notes'
  BY <1>5, <1>t DEF SetPreferences, Change, UsersMove
<1>6. ASSUME NEW w \in Workers, WorkerNext(w) PROVE UsersMove /\ notes \subseteq notes'
  BY <1>6, <1>same, WorkersLeave
<1> QED
  BY <1>1, <1>2, <1>3, <1>4, <1>5, <1>6 DEF Next, CreateRow, Confirm, WorkerNext

-----------------------------------------------------------------------------
(***************************************************************************)
(* What a worker carries with it is still true of everybody who has not    *)
(* changed anything, and what it has done stays done.                      *)
(***************************************************************************)
Done(e) ==
  deleted \/ \A u \in Users \ moved :
               \E t \in {kindOf[e], kind} : u \in Audience(t) => <<u, t>> \in notes

RecordInv(r) ==
  /\ r.at \in {"typed", "listed", "create"} => r.type \in {kindOf[r.event], kind}
  /\ r.at \in {"listed", "create"} => Reporter \notin r.left
  /\ r.at = "listed" =>
       \A u \in Users \ moved : u \in r.left <=> u \in follows \ {Reporter}
  /\ r.at = "create" =>
       \A u \in Users \ moved :
         /\ u \in r.left => u \in Audience(r.type)
         /\ u \in Audience(r.type) => u \in r.left \/ <<u, r.type>> \in notes
  /\ r.at = "mark" => Done(r.event)

ToldInv ==
  /\ RowInv
  /\ \A w \in Workers : RecordInv(worker[w])
  /\ \A e \in acknowledged : Done(e)
  /\ OnlyAsked /\ (notes # {} => submitted # {})

LEMMA AudienceStays ==
  ASSUME UsersMove, NEW u \in Users \ moved', NEW t \in Types
  PROVE  u \in Audience(t)' <=> u \in Audience(t)
BY DEF UsersMove, Audience

LEMMA DoneStays ==
  ASSUME TypeOK, RowInv, [Next]_vars, NEW e \in submitted, Done(e)
  PROVE  Done(e)'
<1>1. RowMoves /\ UsersMove /\ notes \subseteq notes'
  BY RowSteps, UserSteps
<1>2. kindOf[e] \in Types /\ kind \in Types
  BY DEF RowInv, TypeOK
<1>3. CASE deleted
  BY <1>1, <1>3 DEF RowMoves, Done
<1>4. ASSUME ~deleted, NEW u \in Users \ moved'
      PROVE  \E t \in {kindOf'[e], kind'} : u \in Audience(t)' => <<u, t>> \in notes'
  <2>1. u \in Users \ moved
    BY <1>1 DEF UsersMove
  <2>2. PICK t \in {kindOf[e], kind} : u \in Audience(t) => <<u, t>> \in notes
    BY <1>4, <2>1 DEF Done
  <2>3. t \in {kindOf'[e], kind'}
    BY <1>1, <2>2 DEF RowMoves
  <2>4. u \in Audience(t)' => <<u, t>> \in notes'
    BY <1>1, <1>2, <2>2, AudienceStays
  <2> QED BY <2>3, <2>4
<1> QED
  BY <1>3, <1>4 DEF Done

LEMMA RecordStays ==
  ASSUME TypeOK, RowInv, [Next]_vars, NEW r, r.event \in submitted, RecordInv(r),
         r.at \in {"typed", "listed", "create"} => r.type \in Types
  PROVE  RecordInv(r)'
<1>1. RowMoves /\ UsersMove /\ notes \subseteq notes'
  BY RowSteps, UserSteps
<1>2. r.at \in {"typed", "listed", "create"} => r.type \in {kindOf'[r.event], kind'}
  BY <1>1 DEF RowMoves, RecordInv
<1>3. r.at = "listed" =>
        \A u \in Users \ moved' : u \in r.left <=> u \in follows' \ {Reporter}
  BY <1>1 DEF UsersMove, RecordInv
<1>4. ASSUME r.at = "create", NEW u \in Users \ moved'
      PROVE  /\ u \in r.left => u \in Audience(r.type)'
             /\ u \in Audience(r.type)' => u \in r.left \/ <<u, r.type>> \in notes'
  <2>1. u \in Users \ moved /\ r.type \in Types
    BY <1>1, <1>4 DEF UsersMove
  <2>2. u \in Audience(r.type)' <=> u \in Audience(r.type)
    BY <1>1, <2>1, AudienceStays
  <2> QED BY <1>1, <1>4, <2>1, <2>2 DEF RecordInv
<1>5. r.at = "mark" => Done(r.event)'
  BY DoneStays DEF RecordInv
<1> QED
  BY <1>2, <1>3, <1>4, <1>5 DEF RecordInv

(* The record that a worker's step leaves.                                 *)
LEMMA WorkerSteps ==
  ASSUME TypeOK, ToldInv, NEW w \in Workers, WorkerNext(w)
  PROVE  RecordInv(worker[w])' /\ \A v \in Workers \ {w} : worker'[v] = worker[v]
<1> DEFINE new == worker'[w]
<1>t. /\ worker \in [Workers -> [at : Points, event : Events \cup {0},
                                 type : Types \cup {"none"}, left : SUBSET Users]]
      /\ (worker[w].at # "idle" => worker[w].event \in submitted)
      /\ (worker[w].at \in {"typed", "listed", "create"} => worker[w].type \in Types)
  BY DEF TypeOK
<1>l. UNCHANGED <<kind, deleted, kindOf, submitted, users>> /\ notes \subseteq notes'
  BY WorkersLeave
<1>i. RecordInv(worker[w])
  BY DEF ToldInv
<1>step. ASSUME NEW r, Step(w, r)
         PROVE  worker'[w] = r /\ \A v \in Workers \ {w} : worker'[v] = worker[v]
  BY <1>step, <1>t DEF Step
<1>idle. ASSUME Step(w, Idle) PROVE RecordInv(worker[w])'
  BY <1>idle, <1>t DEF RecordInv, Idle, Step
<1>return. ASSUME Return(w), Done(worker[w].event) PROVE RecordInv(worker[w])'
  <2>1. new.at = "mark" /\ new.event = worker[w].event
    BY <1>return, <1>t DEF Return, Step
  <2>2. UNCHANGED <<follows, optedOut, moved>>
    BY <1>l DEF users
  <2>3. Done(worker[w].event)'
    BY <1>return, <1>l, <2>1, <2>2 DEF Done, Audience
  <2> QED BY <2>1, <2>3 DEF RecordInv
<1>1. ASSUME NoTransfer(w) PROVE RecordInv(worker[w])'
  BY <1>1, <1>return DEF NoTransfer, Done
<1>2. ASSUME AllCreated(w) PROVE RecordInv(worker[w])'
  <2>1. worker[w].at = "create" /\ worker[w].left = {}
    BY <1>2 DEF AllCreated, At
  <2>2. Done(worker[w].event)
    BY <2>1, <1>i DEF RecordInv, Done
  <2> QED BY <1>2, <2>2, <1>return DEF AllCreated
<1>3. ASSUME GetTransfer(w) PROVE RecordInv(worker[w])'
  <2>1. new.at = "typed" /\ new.type = kind
    BY <1>3, <1>t DEF GetTransfer, Step
  <2> QED BY <2>1, <1>l DEF RecordInv
<1>4. ASSUME FindUsers(w) PROVE RecordInv(worker[w])'
  <2>1. worker[w].at = "typed"
    BY <1>4 DEF FindUsers, At
  <2>2. /\ new.at = "listed" /\ new.type = worker[w].type
        /\ new.event = worker[w].event /\ new.left = follows \ {Reporter}
    BY <1>4, <1>t DEF FindUsers, Step
  <2> QED BY <2>1, <2>2, <1>i, <1>l DEF RecordInv, users
<1>5. ASSUME DropOptedOut(w) PROVE RecordInv(worker[w])'
  <2>1. worker[w].at = "listed"
    BY <1>5 DEF DropOptedOut, At
  <2>2. /\ new.at = "create" /\ new.type = worker[w].type
        /\ new.event = worker[w].event
        /\ new.left = worker[w].left \ optedOut[worker[w].type]
    BY <1>5, <1>t DEF DropOptedOut, Step
  <2>3. UNCHANGED <<follows, optedOut, moved>>
    BY <1>l DEF users
  <2> QED BY <2>1, <2>2, <2>3, <1>i, <1>l DEF RecordInv, Audience
<1>6. ASSUME NEW u \in Users, CreateNotification(w, u) PROVE RecordInv(worker[w])'
  <2>1. worker[w].at = "create" /\ notes' = notes \cup {<<u, worker[w].type>>}
    BY <1>6 DEF CreateNotification, At
  <2>2. /\ new.at = "create" /\ new.type = worker[w].type
        /\ new.event = worker[w].event /\ new.left = worker[w].left \ {u}
    BY <1>6, <1>t, <2>1 DEF CreateNotification, Step
  <2>3. UNCHANGED <<follows, optedOut, moved>>
    BY <1>l DEF users
  <2> QED BY <2>1, <2>2, <2>3, <1>i, <1>l DEF RecordInv, Audience
<1>7. ASSUME Mark(w) PROVE RecordInv(worker[w])'
  BY <1>7, <1>idle DEF Mark
<1>8. ASSUME Fail(w) PROVE RecordInv(worker[w])'
  BY <1>8, <1>idle DEF Fail
<1>9. ASSUME NEW e \in Events, Take(w, e) PROVE RecordInv(worker[w])'
  <2>1. new.at = "begin"
    BY <1>9, <1>t DEF Take, Idle, Step
  <2> QED BY <2>1 DEF RecordInv
<1>10. \E r : Step(w, r)
  BY DEF WorkerNext, WorkerStep, NoTransfer, AllCreated, Return, GetTransfer, FindUsers,
         DropOptedOut, CreateNotification, Mark, Fail, Take
<1> QED
  BY <1>1, <1>2, <1>3, <1>4, <1>5, <1>6, <1>7, <1>8, <1>9, <1>10, <1>step
  DEF WorkerNext, WorkerStep

(* An event is acknowledged by a worker that has done it.                  *)
LEMMA Acknowledged ==
  ASSUME TypeOK, ToldInv, [Next]_vars, NEW e \in acknowledged' PROVE Done(e)'
<1>t. acknowledged \subseteq submitted /\ \A w \in Workers : worker[w].at = "mark" =>
        worker[w].event \in submitted
  BY DEF TypeOK
<1>1. ASSUME NEW w \in Workers, Mark(w) PROVE e \in acknowledged \/
        (worker[w].at = "mark" /\ e = worker[w].event)
  BY <1>1 DEF Mark, At, Queue!Acknowledge
<1>2. ASSUME NEW w \in Workers, WorkerNext(w), ~Mark(w) PROVE acknowledged' = acknowledged
  <2>1. CASE NoTransfer(w) \/ AllCreated(w)
    BY <2>1 DEF NoTransfer, AllCreated, Return, Queue!Effect
  <2>2. CASE GetTransfer(w) \/ FindUsers(w) \/ DropOptedOut(w) \/ Fail(w)
    BY <2>2 DEF GetTransfer, FindUsers, DropOptedOut, Fail, queue
  <2>3. CASE \E u \in Users : CreateNotification(w, u)
    BY <2>3 DEF CreateNotification, queue
  <2>4. CASE \E f \in Events : Take(w, f)
    BY <2>4 DEF Take, queue
  <2> QED BY <1>2, <2>1, <2>2, <2>3, <2>4 DEF WorkerNext, WorkerStep
<1>3. ASSUME ~\E w \in Workers : WorkerNext(w) PROVE acknowledged' = acknowledged
  BY <1>3 DEF Next, WorkerNext, Delete, CreateRow, Confirm, Notify, MarkRead,
              SetFavourites, SetPreferences, Change, vars, queue, Queue!Submit
<1>4. CASE e \in acknowledged
  BY <1>4, <1>t, DoneStays DEF ToldInv
<1>5. CASE e \notin acknowledged
  <2>1. PICK w \in Workers : Mark(w)
    BY <1>2, <1>3, <1>5
  <2>2. worker[w].at = "mark" /\ e = worker[w].event
    BY <1>1, <1>5, <2>1
  <2>3. Done(e)
    BY <2>2 DEF ToldInv, RecordInv
  <2> QED BY <1>t, <2>2, <2>3, DoneStays DEF ToldInv
<1> QED
  BY <1>4, <1>5

(* Notifications appear only where a worker creates one.                   *)
LEMMA NewNotes ==
  ASSUME [Next]_vars, NEW n \in notes' \ notes
  PROVE  \E w \in Workers, u \in Users :
           At(w, "create") /\ u \in worker[w].left /\ n = <<u, worker[w].type>>
<1>1. ASSUME NEW w \in Workers, WorkerNext(w)
      PROVE  \E u \in Users : At(w, "create") /\ u \in worker[w].left /\ n = <<u, worker[w].type>>
  <2>1. CASE NoTransfer(w) \/ AllCreated(w)
    BY <2>1 DEF NoTransfer, AllCreated, Return
  <2>2. CASE GetTransfer(w) \/ FindUsers(w) \/ DropOptedOut(w) \/ Fail(w) \/ Mark(w)
    BY <2>2 DEF GetTransfer, FindUsers, DropOptedOut, Fail, Mark
  <2>3. ASSUME NEW u \in Users, CreateNotification(w, u)
        PROVE  At(w, "create") /\ u \in worker[w].left /\ n = <<u, worker[w].type>>
    BY <2>3 DEF CreateNotification
  <2>4. CASE \E f \in Events : Take(w, f)
    BY <2>4 DEF Take
  <2> QED BY <1>1, <2>1, <2>2, <2>3, <2>4 DEF WorkerNext, WorkerStep
<1>2. ASSUME ~\E w \in Workers : WorkerNext(w) PROVE notes' = notes
  BY <1>2 DEF Next, WorkerNext, Delete, CreateRow, Confirm, Notify, MarkRead,
              SetFavourites, SetPreferences, Change, vars
<1> QED
  BY <1>1, <1>2

LEMMA NotesSteps ==
  ASSUME TypeOK, ToldInv, [Next]_vars
  PROVE  OnlyAsked' /\ (notes' # {} => submitted' # {})
<1> DEFINE Asked(n) == /\ n[1] \in Users /\ n[2] \in Types /\ n[1] # Reporter
                       /\ n[1] \notin moved => n[1] \in Audience(n[2])
                       /\ n[2] \in {kind, kindOf[1]}
<1>old. ASSUME NEW n \in notes PROVE submitted # {} /\ Asked(n)
  BY DEF TypeOK, ToldInv, OnlyAsked
<1>new. ASSUME NEW n \in notes' \ notes PROVE submitted # {} /\ Asked(n)
  <2>1. PICK w \in Workers, u \in Users :
          At(w, "create") /\ u \in worker[w].left /\ n = <<u, worker[w].type>>
    BY NewNotes
  <2>2. worker[w].event \in submitted /\ worker[w].type \in Types /\ RecordInv(worker[w])
    BY <2>1 DEF TypeOK, ToldInv, At
  <2>3. worker[w].type \in {kindOf[worker[w].event], kind} /\ u # Reporter
        /\ (u \notin moved => u \in Audience(worker[w].type))
    BY <2>1, <2>2 DEF RecordInv, At
  <2>4. kindOf[worker[w].event] \in {kindOf[1], kind}
    BY <2>2 DEF ToldInv, RowInv
  <2> QED BY <2>1, <2>2, <2>3, <2>4
<1>stays. ASSUME NEW n, submitted # {}, Asked(n)
          PROVE  /\ n[1] \notin moved' => n[1] \in Audience(n[2])'
                 /\ n[1] # Reporter
                 /\ n[2] \in {kind', kindOf'[1]}
  <2>1. RowMoves /\ UsersMove /\ 1 \in submitted
    BY <1>stays, RowSteps, UserSteps DEF ToldInv, RowInv
  <2>2. n[1] \notin moved' => n[1] \in Audience(n[2])'
    BY <1>stays, <2>1, AudienceStays DEF UsersMove
  <2>3. n[2] \in {kind', kindOf'[1]}
    BY <1>stays, <2>1 DEF RowMoves
  <2> QED BY <1>stays, <2>2, <2>3
<1>1. \A n \in notes' : submitted # {} /\ Asked(n)
  BY <1>old, <1>new
<1>2. submitted # {} => submitted' # {}
  <2>1. ASSUME NEW w \in Workers, WorkerNext(w) PROVE submitted' = submitted
    BY <2>1, WorkersLeave
  <2> QED
    BY <2>1 DEF Next, WorkerNext, Delete, CreateRow, Confirm, Notify, MarkRead,
                SetFavourites, SetPreferences, Change, vars, queue, Queue!Submit
<1> HIDE DEF Asked
<1> QED
  BY <1>1, <1>2, <1>stays DEF OnlyAsked

LEMMA NextToldInv ==
  ASSUME TypeOK, ToldInv, [Next]_vars PROVE ToldInv'
<1>1. RowInv' /\ OnlyAsked' /\ (notes' # {} => submitted' # {})
  BY RowSteps, NotesSteps DEF ToldInv
<1>2. (\A e \in acknowledged : Done(e))'
  BY Acknowledged
<1>3. ASSUME NEW v \in Workers, worker'[v] = worker[v] PROVE RecordInv(worker[v])'
  <2>1. CASE worker[v].at = "idle"
    BY <1>3, <2>1 DEF RecordInv
  <2>2. CASE worker[v].at # "idle"
    <3> DEFINE r == worker[v]
    <3>1. PICK q : q = r
      OBVIOUS
    <3>2. q.event \in submitted /\ RecordInv(q)
          /\ (q.at \in {"typed", "listed", "create"} => q.type \in Types)
      BY <2>2, <3>1 DEF TypeOK, ToldInv
    <3>3. RecordInv(q)'
      BY <3>2, RecordStays DEF ToldInv
    <3> QED BY <1>3, <3>1, <3>3 DEF RecordInv, Done
  <2> QED BY <2>1, <2>2
<1>4. ASSUME NEW w \in Workers, WorkerNext(w) PROVE \A v \in Workers : RecordInv(worker[v])'
  <2>1. RecordInv(worker[w])' /\ \A v \in Workers \ {w} : worker'[v] = worker[v]
    BY <1>4, WorkerSteps
  <2> QED BY <1>3, <2>1
<1>5. ASSUME ~\E w \in Workers : WorkerNext(w) PROVE worker' = worker
  BY <1>5 DEF Next, WorkerNext, Delete, CreateRow, Confirm, Notify, MarkRead,
              SetFavourites, SetPreferences, Change, vars
<1>6. (\A w \in Workers : RecordInv(worker[w]))'
  BY <1>3, <1>4, <1>5
<1> QED
  BY <1>1, <1>2, <1>6 DEF ToldInv

LEMMA Always == Spec => [](TypeOK /\ ToldInv)
<1>1. Init => TypeOK /\ ToldInv
  <2> SUFFICES ASSUME Init PROVE ToldInv
    BY InitTypeOK
  <2>1. RowInv /\ acknowledged = {} /\ notes = {}
    BY DEF Init, Queue!Init, RowInv
  <2>2. \A w \in Workers : RecordInv(worker[w])
    BY DEF Init, Idle, RecordInv
  <2> QED BY <2>1, <2>2 DEF ToldInv, OnlyAsked
<1>2. TypeOK /\ ToldInv /\ [Next]_vars => (TypeOK /\ ToldInv)'
  BY NextTypeOK, NextToldInv
<1> QED
  BY <1>1, <1>2, PTL DEF Spec

(* An acknowledged event has told everybody it was for who has not changed *)
(* anything since, whatever failed on the way.                             *)
THEOREM EventsAreTold == Spec => []Told
<1>1. TypeOK /\ ToldInv => Told
  BY DEF ToldInv, Done, Told
<1> QED
  BY <1>1, Always, PTL

(* Nobody is told what they did not ask for or what the row never was.     *)
THEOREM NobodyElseIsTold == Spec => []OnlyAsked
<1>1. TypeOK /\ ToldInv => OnlyAsked
  BY DEF ToldInv
<1> QED
  BY <1>1, Always, PTL

LEMMA ReadStep ==
  ASSUME [Next]_vars, NEW n \in notes \ unread PROVE n \in notes' \ unread'
<1>1. ASSUME NEW w \in Workers, WorkerNext(w) PROVE n \notin unread'
  <2>1. CASE NoTransfer(w) \/ AllCreated(w)
    BY <2>1 DEF NoTransfer, AllCreated, Return
  <2>2. CASE GetTransfer(w) \/ FindUsers(w) \/ DropOptedOut(w) \/ Fail(w) \/ Mark(w)
    BY <2>2 DEF GetTransfer, FindUsers, DropOptedOut, Fail, Mark
  <2>3. CASE \E u \in Users : CreateNotification(w, u)
    BY <2>3 DEF CreateNotification
  <2>4. CASE \E f \in Events : Take(w, f)
    BY <2>4 DEF Take
  <2> QED BY <1>1, <2>1, <2>2, <2>3, <2>4 DEF WorkerNext, WorkerStep
<1>2. ASSUME ~\E w \in Workers : WorkerNext(w) PROVE n \notin unread' /\ notes' = notes
  BY <1>2 DEF Next, WorkerNext, Delete, CreateRow, Confirm, Notify, MarkRead,
              SetFavourites, SetPreferences, Change, vars
<1> QED
  BY <1>1, <1>2, WorkersLeave

(* What a user has read does not become unread when its event is handled   *)
(* again.                                                                  *)
THEOREM ReadNotesStayRead == Spec => ReadStaysRead
<1>1. [Next]_vars => [\A n \in notes \ unread : n \in notes' \ unread']_vars
  BY ReadStep
<1> QED
  BY <1>1, PTL DEF Spec, ReadStaysRead

-----------------------------------------------------------------------------
(***************************************************************************)
(* Broadcast and Launch.  Users and addresses are numbers, and a page is   *)
(* the first of some of them.                                              *)
(***************************************************************************)
LEMMA MailingsCount ==
  \A S : B!Cardinality(S) = Cardinality(S) /\ L!Cardinality(S) = Cardinality(S)
<1>1. \A S : B!Cardinality(S) = Cardinality(S)
  BY Zenon DEF B!Cardinality, Cardinality
<1>2. \A S : L!Cardinality(S) = Cardinality(S)
  BY Zenon DEF L!Cardinality, Cardinality
<1> QED BY <1>1, <1>2, Zenon

LEMMA FiniteNumbers ==
  ASSUME NEW S \in SUBSET (1 .. N)
  PROVE  /\ IsFiniteSet(S) /\ Cardinality(S) \in Nat
         /\ \A T \in SUBSET S : IsFiniteSet(T) /\ Cardinality(T) <= Cardinality(S)
<1>n. N \in Int /\ 1 \in Int
  BY BatchesAssumption
<1>1. IsFiniteSet(1 .. N)
  BY ONLY <1>n, FS_Interval
<1>2. IsFiniteSet(S)
  BY <1>1, FS_Subset
<1> QED BY <1>2, FS_Subset, FS_CardinalityType

LEMMA LeastAndGreatest ==
  ASSUME NEW S \in SUBSET (1 .. N), S # {}
  PROVE  /\ B!Min(S) \in S /\ \A x \in S : B!Min(S) <= x
         /\ L!Min(S) \in S /\ \A x \in S : L!Min(S) <= x
         /\ B!Max(S) \in S /\ \A x \in S : x <= B!Max(S)
<1>1. S \in SUBSET Int /\ IsFiniteSet(S)
  BY FiniteNumbers
<1>2. \E p \in S : \A c \in S : p <= c
  <2> DEFINE rank == [x \in S |-> -x]
  <2>1. \A p \in S : rank[p] \in Int /\ rank[p] = -p
    BY <1>1
  <2> HIDE DEF rank
  <2>2. PICK p \in S : \A c \in S : ~Outranks(rank, c, p)
    BY <1>1, <2>1, FirstInRank
  <2>3. ASSUME NEW c \in S PROVE p <= c
    <3>1. c \in Int /\ p \in Int /\ ~(rank[c] > rank[p])
      BY <1>1, <2>2 DEF Outranks
    <3> QED BY <2>1, <3>1
  <2> QED BY <2>3
<1>3. \E p \in S : \A c \in S : c <= p
  <2> DEFINE rank == [x \in S |-> 0]
  <2>1. \A p \in S : rank[p] \in Int /\ rank[p] = 0
    OBVIOUS
  <2> HIDE DEF rank
  <2>2. PICK p \in S : \A c \in S : ~Outranks(rank, c, p)
    BY <1>1, <2>1, FirstInRank
  <2>3. ASSUME NEW c \in S PROVE c <= p
    <3>1. c \in Int /\ p \in Int /\ ~(rank[c] = rank[p] /\ c > p)
      BY <1>1, <2>2 DEF Outranks
    <3> QED BY <2>1, <3>1
  <2> QED BY <2>3
<1> QED BY <1>2, <1>3 DEF B!Min, L!Min, B!Max

(* FirstOf, in both modules.                                               *)
Firsts(S, n) == {u \in S : Cardinality({v \in S : v < u}) < n}

LEMMA FirstsAreFirst ==
  \A S, n : B!FirstOf(S, n) = Firsts(S, n) /\ L!FirstOf(S, n) = Firsts(S, n)
  BY MailingsCount, Zenon DEF B!FirstOf, L!FirstOf, Firsts

LEMMA FirstsFacts ==
  ASSUME NEW S \in SUBSET (1 .. N), NEW n \in Nat \ {0}
  PROVE  /\ Firsts(S, n) \subseteq S
         /\ \A x \in Firsts(S, n), y \in S : y < x => y \in Firsts(S, n)
         /\ Cardinality(Firsts(S, n)) < n => Firsts(S, n) = S
         /\ S # {} => Firsts(S, n) # {}
<1> DEFINE F == Firsts(S, n)
           Under(x) == {v \in S : v < x}
<1>1. F \subseteq S /\ \A x : x \in F <=> x \in S /\ Cardinality(Under(x)) < n
  BY DEF Firsts
<1>2. \A x : IsFiniteSet(Under(x)) /\ Cardinality(Under(x)) \in Nat
  <2>1. \A x : Under(x) \in SUBSET (1 .. N)
    OBVIOUS
  <2> QED BY <2>1, FiniteNumbers
<1>3. ASSUME NEW x \in F, NEW y \in S, y < x PROVE y \in F
  <2>1. x \in S /\ Cardinality(Under(x)) < n
    BY <1>1
  <2>2. Under(y) \subseteq Under(x)
    <3>1. \A v \in S : v \in Int
      OBVIOUS
    <3>2. \A v \in S : v < y => v < x
      BY <1>3, <2>1, <3>1
    <3> QED BY <3>2
  <2>3. Cardinality(Under(y)) <= Cardinality(Under(x))
    BY <1>2, <2>2, FS_Subset
  <2>4. Cardinality(Under(y)) < n
    BY <1>2, <2>1, <2>3
  <2> QED BY <1>1, <2>4
<1> HIDE DEF F
<1>4. ASSUME Cardinality(F) < n, S \ F # {} PROVE FALSE
  <2> DEFINE m == B!Min(S \ F)
  <2>1. m \in S \ F /\ \A x \in S \ F : m <= x
    BY <1>4, LeastAndGreatest
  <2> HIDE DEF m
  <2>2. Under(m) \subseteq F
    <3>1. \A x \in S : x \in Int
      OBVIOUS
    <3>2. \A x \in S : x < m => x \in F
      BY <2>1, <3>1
    <3> QED BY <3>2
  <2>3. Cardinality(Under(m)) <= Cardinality(F) /\ Cardinality(F) \in Nat
    BY <1>1, <2>2, FiniteNumbers
  <2>4. Cardinality(Under(m)) < n
    BY <1>2, <1>4, <2>3
  <2> QED BY <1>1, <2>1, <2>4
<1>5. F = {} => Cardinality(F) < n
  BY FS_EmptySet
<1>6. /\ Cardinality(F) < n => F = S
      /\ S # {} => F # {}
  BY <1>1, <1>4, <1>5
<1> QED BY <1>1, <1>3, <1>6 DEF F

-----------------------------------------------------------------------------
(***************************************************************************)
(* Broadcast.  A run may still tell a user whose page it has not written,  *)
(* and a job that waits stands for the run that takes it: with what the    *)
(* user has been told that is one, and one more for every fault.           *)
(***************************************************************************)
TellingRuns ==
  [at : {"idle", "start", "begin", "read", "write", "done", "fail"},
   cursor : 0 .. N, page : SUBSET (1 .. N), sent : Nat,
   steady : SUBSET (1 .. N), skips : Nat, lost : BOOLEAN, late : BOOLEAN]
TellingJobs ==
  [at : {"none", "waiting", "active", "completed", "failed"}, made : Nat, stalled : Nat]

Might(r, u) ==
  IF \/ r.at \in {"start", "begin", "fail"}
     \/ r.at \in {"read", "write"} /\ u > r.cursor
  THEN 1 ELSE 0
WhoMight(u) == {w \in Processes : Might(broadcastRun[w], u) = 1}
MayBegin == IF message = "none" \/ broadcastJob.at = "waiting" THEN 1 ELSE 0

(* Whom a run has left behind: at its end everybody steady without the     *)
(* announcement, before that those up to its page.                         *)
Passed(r, u) ==
  \/ r.at = "read" /\ u <= r.cursor
  \/ r.at = "write" /\ u \notin r.page /\ (Cardinality(r.page) < BROADCAST_BATCH_SIZE \/ u <= B!Max(r.page))
  \/ r.at = "done"
Missed(r, T) == {u \in r.steady : T[u] = 0 /\ Passed(r, u)}
InOrder(r, T, U) ==
  /\ \A u \in r.steady : U[u] = "active"
  /\ r.at \in {"start", "begin"} => r.cursor = 0
  /\ r.at = "write" => r.page # {} /\ \A u \in r.page : u > r.cursor
  /\ r.at \in {"read", "write", "done"} /\ ~r.lost => Cardinality(Missed(r, T)) <= r.skips

BroadcastTypes ==
  /\ user \in [1 .. N -> {"none", "active", "banned"}]
  /\ message \in {"none", "Queued", "Sending", "Done", "Failed"}
  /\ told \in [1 .. N -> Nat]
  /\ broadcastJob \in TellingJobs /\ broadcastRun \in [Processes -> TellingRuns]
  /\ moves \in Nat /\ broadcastFaults \in Nat
NotYet ==
  message = "none" =>
    broadcastJob.at = "none" /\ \A w \in Processes : broadcastRun[w].at = "idle"
AllTold ==
  \A u \in 1 .. N :
    told[u] + MayBegin + Cardinality(WhoMight(u)) <= 1 + broadcastFaults
BroadcastInv ==
  /\ BroadcastTypes /\ NotYet /\ AllTold
  /\ \A w \in Processes : InOrder(broadcastRun[w], told, user)

LEMMA MightCounts ==
  \A u : /\ IsFiniteSet(WhoMight(u)) /\ Cardinality(WhoMight(u)) \in Nat
         /\ \A r : Might(r, u) \in {0, 1}
<1>1. IsFiniteSet(Processes)
  BY BatchesAssumption
<1>2. ASSUME NEW u PROVE IsFiniteSet(WhoMight(u)) /\ Cardinality(WhoMight(u)) \in Nat
  <2>1. WhoMight(u) \in SUBSET Processes
    BY DEF WhoMight
  <2> QED BY <1>1, <2>1, FS_Subset, FS_CardinalityType
<1>3. \A u, r : Might(r, u) \in {0, 1}
  BY DEF Might
<1> QED BY <1>2, <1>3

LEMMA MissedCounts ==
  ASSUME NEW r \in TellingRuns, NEW T
  PROVE  IsFiniteSet(Missed(r, T)) /\ Cardinality(Missed(r, T)) \in Nat
<1>1. Missed(r, T) \in SUBSET (1 .. N)
  BY DEF Missed, TellingRuns
<1> QED BY <1>1, FiniteNumbers

(* What others are told leaves a run in order.                             *)
LEMMA InOrderStays ==
  ASSUME NEW r \in TellingRuns, NEW T, NEW Q, NEW U, InOrder(r, T, U),
         \A u \in r.steady : Q[u] = 0 => T[u] = 0
  PROVE  InOrder(r, Q, U)
<1>1. Missed(r, Q) \subseteq Missed(r, T)
  BY DEF Missed
<1>2. /\ Cardinality(Missed(r, Q)) <= Cardinality(Missed(r, T))
      /\ Cardinality(Missed(r, Q)) \in Nat /\ Cardinality(Missed(r, T)) \in Nat
  BY <1>1, MissedCounts, FS_Subset
<1>3. r.skips \in Nat
  BY DEF TellingRuns
<1>4. Cardinality(Missed(r, T)) <= r.skips => Cardinality(Missed(r, Q)) <= r.skips
  BY <1>2, <1>3
<1> QED BY <1>4 DEF InOrder

(* A step of one run.                                                      *)
LEMMA OneTellingRun ==
  ASSUME BroadcastInv, NEW w \in Processes, NEW r \in TellingRuns,
         broadcastRun' = [broadcastRun EXCEPT ![w] = r],
         UNCHANGED user, moves' = moves,
         message' \in {"Queued", "Sending", "Done", "Failed"},
         told' \in [1 .. N -> Nat], \A u \in 1 .. N : told[u] <= told'[u],
         broadcastJob' \in TellingJobs, broadcastFaults' \in Nat,
         InOrder(r, told', user'),
         \A u \in 1 .. N :
           told'[u] + MayBegin' + Might(r, u) + broadcastFaults
             <= told[u] + MayBegin + Might(broadcastRun[w], u) + broadcastFaults'
  PROVE  BroadcastInv'
<1>1. BroadcastTypes /\ AllTold /\ \A v \in Processes : InOrder(broadcastRun[v], told, user)
  BY DEF BroadcastInv
<1>2. /\ broadcastRun \in [Processes -> TellingRuns]
      /\ broadcastRun' \in [Processes -> TellingRuns]
      /\ broadcastRun'[w] = r
      /\ \A v \in Processes \ {w} : broadcastRun'[v] = broadcastRun[v]
  BY <1>1 DEF BroadcastTypes
<1>3. BroadcastTypes'
  BY <1>1, <1>2 DEF BroadcastTypes
<1>4. NotYet'
  BY DEF NotYet
<1>5. ASSUME NEW u \in 1 .. N
      PROVE  told'[u] + MayBegin' + Cardinality(WhoMight(u)') <= 1 + broadcastFaults'
  <2>1. WhoMight(u) \ {w} = WhoMight(u)' \ {w}
    BY <1>2 DEF WhoMight
  <2>2. /\ Cardinality(WhoMight(u)') = Cardinality(WhoMight(u)) + In(w, WhoMight(u)') - In(w, WhoMight(u))
        /\ Cardinality(WhoMight(u)) \in Nat
    BY <2>1, MightCounts, OneElement
  <2>3. In(w, WhoMight(u)) = Might(broadcastRun[w], u) /\ In(w, WhoMight(u)') = Might(r, u)
    BY <1>2, MightCounts DEF In, WhoMight
  <2>4. told[u] + MayBegin + Cardinality(WhoMight(u)) <= 1 + broadcastFaults
    BY <1>1 DEF AllTold
  <2>5. MayBegin \in Nat /\ MayBegin' \in Nat
    BY DEF MayBegin
  <2>6. told[u] \in Nat /\ told'[u] \in Nat /\ broadcastFaults \in Nat /\ broadcastFaults' \in Nat
    BY <1>1, <1>3 DEF BroadcastTypes
  <2>7. Might(r, u) \in {0, 1} /\ Might(broadcastRun[w], u) \in {0, 1}
    BY MightCounts, Zenon
  <2>8. told'[u] + MayBegin' + Might(r, u) + broadcastFaults
          <= told[u] + MayBegin + Might(broadcastRun[w], u) + broadcastFaults'
    OBVIOUS
  <2>9. \A t, q, b, a, f, g, c, d \in Nat : \A i, j \in {0, 1} :
          /\ d = c + j - i
          /\ t + b + c <= 1 + f
          /\ q + a + j + f <= t + b + i + g
          => q + a + d <= 1 + g
    OBVIOUS
  <2>10. Cardinality(WhoMight(u)') = Cardinality(WhoMight(u)) + Might(r, u) - Might(broadcastRun[w], u)
    BY <2>2, <2>3
  <2>11. Cardinality(WhoMight(u)') \in Nat
    <3>1. WhoMight(u)' \in SUBSET Processes /\ IsFiniteSet(Processes)
      BY BatchesAssumption DEF WhoMight
    <3> QED BY <3>1, FS_Subset, FS_CardinalityType
  <2> QED BY ONLY <2>2, <2>4, <2>5, <2>6, <2>7, <2>8, <2>9, <2>10, <2>11
<1>6. ASSUME NEW v \in Processes PROVE InOrder(broadcastRun'[v], told', user')
  <2>1. CASE v = w
    BY <1>2, <2>1
  <2>2. CASE v # w
    <3>1. broadcastRun[v] \in TellingRuns /\ InOrder(broadcastRun[v], told, user)
      BY <1>1, <1>2
    <3>2. \A u \in broadcastRun[v].steady : told'[u] = 0 => told[u] = 0
      <4>1. \A u \in broadcastRun[v].steady : u \in 1 .. N
        BY <3>1 DEF TellingRuns
      <4>2. \A u \in 1 .. N : told[u] \in Nat /\ told'[u] \in Nat
        BY <1>1 DEF BroadcastTypes
      <4> QED BY <4>1, <4>2
    <3>3. InOrder(broadcastRun[v], told', user)
      BY <3>1, <3>2, InOrderStays
    <3> QED BY <1>2, <2>2, <3>3
  <2> QED BY <2>1, <2>2
<1>7. AllTold'
  BY <1>5 DEF AllTold
<1> QED BY <1>3, <1>4, <1>6, <1>7 DEF BroadcastInv

(* Who is between two pages owes nothing.                                  *)
LEMMA InOrderElsewhere ==
  ASSUME NEW r, NEW T, NEW U, \A u \in r.steady : U[u] = "active",
         r.at \in {"idle", "start", "begin", "fail"},
         r.at \in {"start", "begin"} => r.cursor = 0
  PROVE  InOrder(r, T, U)
  BY DEF InOrder

LEMMA NoRunInOrder ==
  /\ B!NoRun \in TellingRuns /\ \A u : Might(B!NoRun, u) = 0
  /\ \A T, U : InOrder(B!NoRun, T, U)
<1>1. B!NoRun \in TellingRuns
  BY BatchesAssumption DEF B!NoRun, TellingRuns
<1>2. \A u : Might(B!NoRun, u) = 0
  BY DEF B!NoRun, Might
<1>3. \A T, U : InOrder(B!NoRun, T, U)
  BY DEF B!NoRun, InOrder
<1> QED BY <1>1, <1>2, <1>3

(* What a step of a run starts from.                                       *)
LEMMA TellingFacts ==
  ASSUME BroadcastInv, NEW w \in Processes
  PROVE  /\ broadcastRun \in [Processes -> TellingRuns]
         /\ broadcastRun[w] \in TellingRuns /\ InOrder(broadcastRun[w], told, user)
         /\ broadcastJob \in TellingJobs /\ broadcastFaults \in Nat /\ moves \in Nat
         /\ told \in [1 .. N -> Nat] /\ \A u \in 1 .. N : told[u] \in Nat
         /\ message \in {"none", "Queued", "Sending", "Done", "Failed"}
         /\ broadcastRun[w].at # "idle" => message # "none"
         /\ broadcastJob.at # "none" => message # "none"
         /\ B!Fault => broadcastFaults' \in Nat /\ broadcastFaults' = broadcastFaults + 1
         /\ MayBegin \in {0, 1} /\ MayBegin' \in {0, 1}
         /\ \A r, u : Might(r, u) \in {0, 1}
<1>1. /\ MayBegin \in {0, 1} /\ MayBegin' \in {0, 1}
      /\ \A r, u : Might(r, u) \in {0, 1}
  BY DEF MayBegin, Might
<1> QED BY <1>1 DEF BroadcastInv, BroadcastTypes, NotYet, B!Fault

(* A run that neither reads nor writes.                                    *)
LEMMA QuietTellingStep ==
  ASSUME BroadcastInv, NEW w \in Processes, NEW r \in TellingRuns,
         broadcastRun' = [broadcastRun EXCEPT ![w] = r],
         UNCHANGED <<user, moves, told>>,
         message' \in {"Queued", "Sending", "Done", "Failed"},
         broadcastJob' \in TellingJobs, broadcastFaults' \in Nat,
         InOrder(r, told, user),
         \A u \in 1 .. N :
           MayBegin' + Might(r, u) + broadcastFaults
             <= MayBegin + Might(broadcastRun[w], u) + broadcastFaults'
  PROVE  BroadcastInv'
<1>1. /\ \A u \in 1 .. N : told[u] \in Nat /\ told[u] <= told'[u]
      /\ told' \in [1 .. N -> Nat] /\ InOrder(r, told', user')
  BY TellingFacts
<1>2. ASSUME NEW u \in 1 .. N
      PROVE  told'[u] + MayBegin' + Might(r, u) + broadcastFaults
               <= told[u] + MayBegin + Might(broadcastRun[w], u) + broadcastFaults'
  <2>1. /\ MayBegin \in {0, 1} /\ MayBegin' \in {0, 1}
        /\ Might(r, u) \in {0, 1} /\ Might(broadcastRun[w], u) \in {0, 1}
        /\ broadcastFaults \in Nat /\ broadcastFaults' \in Nat
        /\ told[u] \in Nat /\ told'[u] = told[u]
    BY TellingFacts
  <2>2. MayBegin' + Might(r, u) + broadcastFaults
          <= MayBegin + Might(broadcastRun[w], u) + broadcastFaults'
    OBVIOUS
  <2> QED BY ONLY <2>1, <2>2
<1> QED BY <1>1, <1>2, OneTellingRun

LEMMA TakeTells ==
  ASSUME BroadcastInv, NEW w \in Processes, B!Take(w)
  PROVE  BroadcastInv'
<1> DEFINE r == [B!NoRun EXCEPT !.at = "start"]
<1>1. /\ broadcastRun[w].at = "idle" /\ broadcastJob.at = "waiting"
      /\ broadcastJob' = [broadcastJob EXCEPT !.at = "active"]
      /\ broadcastRun' = [broadcastRun EXCEPT ![w] = r]
      /\ UNCHANGED <<user, moves, message, told, broadcastFaults>>
  BY DEF B!Take, B!Becomes, B!users
<1>2. r \in TellingRuns /\ r.at = "start" /\ r.cursor = 0 /\ r.steady = {}
  <2>1. r \in TellingRuns /\ r.at = "start" /\ r.cursor = B!NoRun.cursor /\ r.steady = B!NoRun.steady
    BY NoRunInOrder DEF TellingRuns
  <2>2. B!NoRun.cursor = 0 /\ B!NoRun.steady = {}
    BY DEF B!NoRun
  <2> QED BY <2>1, <2>2
<1>3. broadcastJob' \in TellingJobs /\ broadcastJob'.at = "active"
  BY <1>1, TellingFacts DEF TellingJobs
<1>4. message' = message /\ message # "none" /\ MayBegin = 1 /\ MayBegin' = 0
  BY <1>1, <1>3, TellingFacts DEF MayBegin
<1> HIDE DEF r
<1>5. InOrder(r, told, user)
  BY <1>2, InOrderElsewhere
<1>6. \A u \in 1 .. N : MayBegin' + Might(r, u) + broadcastFaults
                          <= MayBegin + Might(broadcastRun[w], u) + broadcastFaults'
  BY <1>1, <1>4, TellingFacts
<1>7. message' \in {"Queued", "Sending", "Done", "Failed"} /\ broadcastFaults' \in Nat
  BY <1>1, <1>4, TellingFacts
<1> QED BY <1>1, <1>2, <1>3, <1>5, <1>6, <1>7, QuietTellingStep

(* An error: the run is over, its job may wait again.                      *)
LEMMA ThrownTells ==
  ASSUME BroadcastInv, NEW w \in Processes, B!Thrown(w),
         broadcastRun[w].at \in {"start", "begin", "fail"},
         UNCHANGED <<user, moves, told>>,
         message' = message \/ message' \in {"Sending", "Done", "Failed"},
         broadcastFaults' = broadcastFaults \/ B!Fault
  PROVE  BroadcastInv'
<1>1. broadcastRun' = [broadcastRun EXCEPT ![w] = B!NoRun] /\ broadcastJob' \in TellingJobs
  <2> DEFINE next == IF broadcastJob.made + 1 < Attempts THEN "waiting" ELSE "failed"
  <2>1. /\ broadcastRun' = [broadcastRun EXCEPT ![w] = B!NoRun]
        /\ \/ broadcastJob' = broadcastJob
           \/ broadcastJob' = [broadcastJob EXCEPT !.made = broadcastJob.made + 1, !.at = next]
    BY DEF B!Thrown, B!Moved, B!Becomes
  <2>2. next \in {"waiting", "failed"}
    OBVIOUS
  <2> HIDE DEF next
  <2>3. broadcastJob \in TellingJobs /\ broadcastJob.made + 1 \in Nat
    BY TellingFacts DEF TellingJobs
  <2>4. \A n \in Nat : \A x \in {"waiting", "failed"} :
          [broadcastJob EXCEPT !.made = n, !.at = x] \in TellingJobs
    BY <2>3 DEF TellingJobs
  <2> QED BY <2>1, <2>2, <2>3, <2>4
<1>2. \A u \in 1 .. N : Might(broadcastRun[w], u) = 1
  BY DEF Might
<1>3. message # "none"
  BY TellingFacts
<1>4. /\ message' \in {"Queued", "Sending", "Done", "Failed"}
      /\ broadcastFaults' \in Nat /\ broadcastFaults <= broadcastFaults'
  BY <1>3, TellingFacts
<1>5. \A u \in 1 .. N : MayBegin' + Might(B!NoRun, u) + broadcastFaults
                          <= MayBegin + Might(broadcastRun[w], u) + broadcastFaults'
  BY <1>2, <1>4, NoRunInOrder, TellingFacts
<1> QED BY <1>1, <1>4, <1>5, NoRunInOrder, QuietTellingStep

(* The end of a job.                                                       *)
LEMMA EndsTells ==
  ASSUME BroadcastInv, NEW w \in Processes, B!Ends(w, "completed"),
         broadcastRun[w].at # "idle",
         UNCHANGED <<user, moves, told, broadcastFaults>>,
         message' = message \/ message' = "Done"
  PROVE  BroadcastInv'
<1>1. /\ broadcastRun' = [broadcastRun EXCEPT ![w] = B!NoRun] /\ broadcastJob' \in TellingJobs
      /\ broadcastJob' = broadcastJob \/ broadcastJob'.at = "completed"
  BY TellingFacts DEF B!Ends, B!Moved, B!Becomes, TellingJobs
<1>2. /\ message' \in {"Queued", "Sending", "Done", "Failed"}
      /\ broadcastFaults' \in Nat /\ broadcastFaults' = broadcastFaults
      /\ MayBegin' <= MayBegin
  BY <1>1, TellingFacts DEF MayBegin
<1>3. \A u \in 1 .. N : MayBegin' + Might(B!NoRun, u) + broadcastFaults
                          <= MayBegin + Might(broadcastRun[w], u) + broadcastFaults'
  BY <1>2, NoRunInOrder, TellingFacts
<1> QED BY <1>1, <1>2, <1>3, NoRunInOrder, QuietTellingStep

(* An error inside the try.                                                *)
LEMMA ToFailTells ==
  ASSUME BroadcastInv, NEW w \in Processes, B!To(w, "fail"), B!Fault,
         broadcastRun[w].at # "idle",
         UNCHANGED <<user, moves, told, message, broadcastJob>>
  PROVE  BroadcastInv'
<1> DEFINE r == [broadcastRun[w] EXCEPT !.at = "fail"]
<1>1. broadcastRun' = [broadcastRun EXCEPT ![w] = r]
  BY DEF B!To, B!Becomes
<1>2. r \in TellingRuns /\ r.at = "fail" /\ r.steady = broadcastRun[w].steady
  BY TellingFacts DEF TellingRuns
<1> HIDE DEF r
<1>3. InOrder(r, told, user)
  BY <1>2, TellingFacts, InOrderElsewhere DEF InOrder
<1>4. /\ message' \in {"Queued", "Sending", "Done", "Failed"}
      /\ broadcastFaults' \in Nat /\ broadcastFaults' = broadcastFaults + 1
      /\ MayBegin' = MayBegin /\ broadcastJob' \in TellingJobs
  BY TellingFacts DEF MayBegin
<1>5. \A u \in 1 .. N : MayBegin' + Might(r, u) + broadcastFaults
                          <= MayBegin + Might(broadcastRun[w], u) + broadcastFaults'
  BY <1>4, TellingFacts
<1> QED BY <1>1, <1>2, <1>3, <1>4, <1>5, QuietTellingStep

LEMMA StartTells ==
  ASSUME BroadcastInv, NEW w \in Processes, B!Start(w)
  PROVE  BroadcastInv'
<1>1. /\ broadcastRun[w].at = "start"
      /\ UNCHANGED <<user, moves, message, told>>
  BY DEF B!Start, B!users
<1>2. CASE message = "Done" /\ B!Ends(w, "completed") /\ UNCHANGED broadcastFaults
  BY <1>1, <1>2, EndsTells
<1>3. CASE B!To(w, "begin") /\ UNCHANGED <<broadcastJob, broadcastFaults>>
  <2> DEFINE r == [broadcastRun[w] EXCEPT !.at = "begin"]
  <2>1. broadcastRun' = [broadcastRun EXCEPT ![w] = r]
    BY <1>3 DEF B!To, B!Becomes
  <2>2. /\ r \in TellingRuns /\ r.at = "begin" /\ r.steady = broadcastRun[w].steady
        /\ r.cursor = broadcastRun[w].cursor
    BY TellingFacts DEF TellingRuns
  <2> HIDE DEF r
  <2>3. InOrder(broadcastRun[w], told, user)
    BY TellingFacts
  <2>4. InOrder(r, told, user)
    BY <1>1, <2>2, <2>3, InOrderElsewhere DEF InOrder
  <2>5. /\ message' \in {"Queued", "Sending", "Done", "Failed"}
        /\ broadcastFaults' \in Nat /\ broadcastFaults' = broadcastFaults
        /\ MayBegin' = MayBegin /\ broadcastJob' \in TellingJobs
    BY <1>1, <1>3, TellingFacts DEF MayBegin
  <2>6. \A u : Might(r, u) = 1 /\ Might(broadcastRun[w], u) = 1
    BY <1>1, <2>2 DEF Might
  <2>7. \A u \in 1 .. N : MayBegin' + Might(r, u) + broadcastFaults
                            <= MayBegin + Might(broadcastRun[w], u) + broadcastFaults'
    BY <2>5, <2>6, TellingFacts
  <2> QED BY <1>1, <2>1, <2>2, <2>4, <2>5, <2>7, QuietTellingStep
<1>4. CASE B!Fault /\ B!Thrown(w)
  BY <1>1, <1>4, ThrownTells
<1> QED BY <1>2, <1>3, <1>4 DEF B!Start

LEMMA BeginTells ==
  ASSUME BroadcastInv, NEW w \in Processes, B!Begin(w)
  PROVE  BroadcastInv'
<1>1. broadcastRun[w].at = "begin" /\ UNCHANGED <<user, moves, told>>
  BY DEF B!Begin, B!users
<1>2. CASE /\ message' = "Sending" /\ UNCHANGED <<broadcastJob, broadcastFaults>>
           /\ B!Becomes(w, [broadcastRun[w] EXCEPT !.at = "read", !.steady = B!Active])
  <2> DEFINE r == [broadcastRun[w] EXCEPT !.at = "read", !.steady = B!Active]
  <2>1. broadcastRun' = [broadcastRun EXCEPT ![w] = r]
    BY <1>2 DEF B!Becomes
  <2>2. B!Active \in SUBSET (1 .. N) /\ \A u \in B!Active : user[u] = "active"
    BY DEF B!Active, B!Users
  <2>3. /\ r \in TellingRuns /\ r.at = "read" /\ r.steady = B!Active
        /\ r.cursor = broadcastRun[w].cursor /\ r.skips = broadcastRun[w].skips
    BY <2>2, TellingFacts DEF TellingRuns
  <2>4. r.cursor = 0 /\ r.skips \in Nat
    BY <1>1, <2>3, TellingFacts DEF InOrder, TellingRuns
  <2> HIDE DEF r
  <2>5. Missed(r, told) = {}
    <3>1. ASSUME NEW u \in B!Active, Passed(r, u) PROVE FALSE
      <4>1. u <= 0 /\ u \in 1 .. N
        BY <2>2, <2>3, <2>4, <3>1 DEF Passed
      <4> QED BY <4>1, BatchesAssumption
    <3> QED BY <2>3, <3>1 DEF Missed
  <2>6. InOrder(r, told, user)
    <3>1. Cardinality(Missed(r, told)) <= r.skips
      BY <2>4, <2>5, FS_EmptySet
    <3>2. r.at = "read" /\ \A u \in r.steady : user[u] = "active"
      BY <2>2, <2>3
    <3> QED BY <3>1, <3>2 DEF InOrder
  <2>7. /\ message' \in {"Queued", "Sending", "Done", "Failed"}
        /\ broadcastFaults' \in Nat /\ broadcastFaults' = broadcastFaults
        /\ MayBegin' \in {0, 1} /\ MayBegin' <= MayBegin /\ broadcastJob' \in TellingJobs
    BY <1>2, TellingFacts DEF MayBegin
  <2>8. \A u : Might(broadcastRun[w], u) = 1
    BY <1>1 DEF Might
  <2>9. \A u \in 1 .. N : MayBegin' + Might(r, u) + broadcastFaults
                            <= MayBegin + Might(broadcastRun[w], u) + broadcastFaults'
    BY <2>7, <2>8, TellingFacts
  <2> QED BY <1>1, <2>1, <2>3, <2>6, <2>7, <2>9, QuietTellingStep
<1>3. CASE B!Fault /\ B!Thrown(w) /\ UNCHANGED <<message, broadcastOrphaned>>
  BY <1>1, <1>3, ThrownTells
<1> QED BY <1>2, <1>3 DEF B!Begin, B!Writes

LEMMA DoneTells ==
  ASSUME BroadcastInv, NEW w \in Processes, B!Done(w)
  PROVE  BroadcastInv'
<1>1. broadcastRun[w].at = "done" /\ UNCHANGED <<user, moves, told>>
  BY DEF B!Done, B!users
<1>2. CASE message' = "Done" /\ B!Ends(w, "completed") /\ UNCHANGED broadcastFaults
  BY <1>1, <1>2, EndsTells
<1>3. CASE B!Fault /\ B!To(w, "fail") /\ UNCHANGED <<message, sentCount, broadcastJob, broadcastOrphaned>>
  BY <1>1, <1>3, ToFailTells
<1> QED BY <1>2, <1>3 DEF B!Done, B!Writes

LEMMA FailTells ==
  ASSUME BroadcastInv, NEW w \in Processes, B!Fail(w)
  PROVE  BroadcastInv'
<1>1. broadcastRun[w].at = "fail" /\ UNCHANGED <<user, moves, told>> /\ B!Thrown(w)
  BY DEF B!Fail, B!users
<1>2. CASE message' = "Failed" /\ UNCHANGED broadcastFaults
  BY <1>1, <1>2, ThrownTells
<1>3. CASE B!Fault /\ UNCHANGED message
  BY <1>1, <1>3, ThrownTells
<1> QED BY <1>2, <1>3 DEF B!Fail, B!Writes

LEMMA StalledTells ==
  ASSUME BroadcastInv, NEW w \in Processes, NEW alive \in BOOLEAN, B!Stalled(w, alive)
  PROVE  BroadcastInv'
<1> DEFINE slow == [broadcastRun[w] EXCEPT !.late = TRUE]
           r == IF alive THEN slow ELSE B!NoRun
           next == IF broadcastJob.stalled < MaxStalled THEN "waiting" ELSE "failed"
           times == IF broadcastJob.stalled < MaxStalled THEN broadcastJob.stalled + 1
                                                         ELSE broadcastJob.stalled
<1>1. /\ broadcastRun[w].at # "idle" /\ B!Fault
      /\ broadcastJob' = [broadcastJob EXCEPT !.at = next, !.stalled = times]
      /\ UNCHANGED <<user, moves, told, message>>
  BY DEF B!Stalled, B!users
<1>2. broadcastRun' = [broadcastRun EXCEPT ![w] = r]
  BY DEF B!Stalled, B!Becomes
<1>3. /\ r \in TellingRuns /\ InOrder(r, told, user)
      /\ \A u : Might(r, u) <= Might(broadcastRun[w], u)
  <2>1. \A u : Might(B!NoRun, u) = 0 /\ Might(broadcastRun[w], u) \in {0, 1}
    BY NoRunInOrder, TellingFacts
  <2>2. broadcastRun[w] \in TellingRuns /\ InOrder(broadcastRun[w], told, user)
    BY TellingFacts
  <2>3. /\ slow \in TellingRuns /\ slow.at = broadcastRun[w].at /\ slow.cursor = broadcastRun[w].cursor
        /\ slow.page = broadcastRun[w].page /\ slow.steady = broadcastRun[w].steady
        /\ slow.skips = broadcastRun[w].skips /\ slow.lost = broadcastRun[w].lost
    BY <2>2 DEF TellingRuns
  <2> HIDE DEF slow
  <2>4. \A u : Might(slow, u) = Might(broadcastRun[w], u)
    BY <2>3 DEF Might
  <2>5. Missed(slow, told) = Missed(broadcastRun[w], told)
    BY <2>3 DEF Missed, Passed
  <2>6. InOrder(slow, told, user)
    BY <2>2, <2>3, <2>5 DEF InOrder
  <2> QED BY <2>1, <2>3, <2>4, <2>6, NoRunInOrder
<1>4. broadcastJob' \in TellingJobs
  <2>1. broadcastJob \in TellingJobs /\ next \in {"waiting", "failed"} /\ times \in Nat
    BY TellingFacts DEF TellingJobs
  <2> HIDE DEF next, times
  <2>2. \A n \in Nat : \A x \in {"waiting", "failed"} :
          [broadcastJob EXCEPT !.at = x, !.stalled = n] \in TellingJobs
    BY <2>1 DEF TellingJobs
  <2> QED BY <1>1, <2>1, <2>2
<1> HIDE DEF r, next, times
<1>5. /\ message' \in {"Queued", "Sending", "Done", "Failed"}
      /\ broadcastFaults' \in Nat /\ broadcastFaults' = broadcastFaults + 1
      /\ MayBegin \in {0, 1} /\ MayBegin' \in {0, 1}
  <2>1. message # "none"
    BY <1>1, TellingFacts
  <2> QED BY <1>1, <2>1, TellingFacts
<1>6. \A u \in 1 .. N : MayBegin' + Might(r, u) + broadcastFaults
                          <= MayBegin + Might(broadcastRun[w], u) + broadcastFaults'
  BY <1>3, <1>5, TellingFacts
<1> QED BY <1>1, <1>2, <1>3, <1>4, <1>5, <1>6, QuietTellingStep

(* A late run ends, and nothing else changes.                              *)
LEMMA DiesTells ==
  ASSUME BroadcastInv, NEW w \in Processes, B!Dies(w)
  PROVE  BroadcastInv'
<1>1. /\ broadcastRun[w].at # "idle" /\ B!Fault
      /\ broadcastRun' = [broadcastRun EXCEPT ![w] = B!NoRun]
      /\ UNCHANGED <<user, moves, told, message, broadcastJob>>
  BY DEF B!Dies, B!Becomes, B!users
<1>2. /\ message' \in {"Queued", "Sending", "Done", "Failed"}
      /\ broadcastFaults' \in Nat /\ broadcastFaults' = broadcastFaults + 1
      /\ MayBegin' = MayBegin /\ broadcastJob' \in TellingJobs
  BY <1>1, TellingFacts DEF MayBegin
<1>3. \A u \in 1 .. N : MayBegin' + Might(B!NoRun, u) + broadcastFaults
                          <= MayBegin + Might(broadcastRun[w], u) + broadcastFaults'
  BY <1>2, NoRunInOrder, TellingFacts
<1> QED BY <1>1, <1>2, <1>3, NoRunInOrder, QuietTellingStep

(* A page goes on behind the cursor and leaves nobody out, but the first   *)
(* one when the cursor's user is not active.                               *)
LEMMA Pages ==
  ASSUME user \in [1 .. N -> {"none", "active", "banned"}], NEW c \in 0 .. N,
         NEW p, p = B!PageAfter(c)
  PROVE  LET gone == c # 0 /\ user[c] = "none"
             left == {u \in B!Active : /\ u > c /\ u \notin p
                                       /\ \/ Cardinality(p) < BROADCAST_BATCH_SIZE
                                          \/ u <= B!Max(p)}
         IN  /\ p \subseteq B!Active /\ \A u \in p : u > c
             /\ c = 0 \/ c \in B!Active => left = {}
             /\ ~gone => \E x : left \subseteq {x}
<1> DEFINE gone == c # 0 /\ user[c] = "none"
           left == {u \in B!Active : /\ u > c /\ u \notin p
                                     /\ \/ Cardinality(p) < BROADCAST_BATCH_SIZE
                                        \/ u <= B!Max(p)}
           from == {u \in B!Active : u >= c}
           rest == IF c = 0 THEN B!Active ELSE from \ {B!Min(from)}
<1>n. BROADCAST_BATCH_SIZE \in Nat \ {0} /\ N \in Nat
  BY BatchesAssumption
<1>1. B!Active \in SUBSET (1 .. N) /\ \A u \in B!Active : user[u] = "active" /\ u \in Nat /\ u > 0
  <2>1. B!Active = {u \in 1 .. N : user[u] = "active"}
    BY DEF B!Active, B!Users
  <2> QED BY <2>1, <1>n
<1>c. c \in Nat
  BY <1>n
<1>2. rest \in SUBSET (1 .. N) /\ rest \subseteq B!Active
  BY <1>1
<1>3. c # 0 /\ from # {} => B!Min(from) \in from /\ \A u \in from : B!Min(from) <= u
  <2>1. from \in SUBSET (1 .. N)
    BY <1>1
  <2> QED BY <2>1, LeastAndGreatest
<1>4. \A u \in rest : u > c
  <2>1. CASE c = 0
    BY <2>1, <1>1
  <2>2. ASSUME c # 0, NEW u \in rest PROVE u > c
    <3>1. u \in from /\ u # B!Min(from) /\ u >= c /\ u \in B!Active
      BY <2>2
    <3>2. c \in from => B!Min(from) = c
      <4>1. c \in from => B!Min(from) \in Nat /\ B!Min(from) >= c /\ B!Min(from) <= c
        BY <1>1, <1>3, <2>2
      <4> QED BY <4>1, <1>c
    <3>3. u # c
      BY <3>1, <3>2
    <3> QED BY <1>1, <1>c, <3>1, <3>3
  <2> QED BY <2>1, <2>2
<1> DEFINE first == Firsts(rest, BROADCAST_BATCH_SIZE)
<1>5. /\ first \subseteq rest
      /\ \A x \in first, y \in rest : y < x => y \in first
      /\ Cardinality(first) < BROADCAST_BATCH_SIZE => first = rest
  <2> HIDE DEF rest
  <2> QED BY <1>2, <1>n, FirstsFacts
<1>6. p = IF c # 0 /\ (user[c] = "none" \/ from = {}) THEN {} ELSE first
  <2>1. c = 0 => p = B!FirstOf(B!Active, BROADCAST_BATCH_SIZE)
    BY DEF B!PageAfter
  <2>2. c # 0 /\ (user[c] = "none" \/ from = {}) => p = {}
    BY DEF B!PageAfter
  <2>3. c # 0 /\ ~(user[c] = "none" \/ from = {})
          => p = B!FirstOf(from \ {B!Min(from)}, BROADCAST_BATCH_SIZE)
    BY DEF B!PageAfter
  <2>4. \A S : B!FirstOf(S, BROADCAST_BATCH_SIZE) = Firsts(S, BROADCAST_BATCH_SIZE)
    BY FirstsAreFirst
  <2> QED BY <2>1, <2>2, <2>3, <2>4
<1> HIDE DEF first
<1>7. p \subseteq rest
  BY <1>5, <1>6
(* Nobody of the rest is left behind.                                      *)
<1>8. ASSUME ~gone, NEW u \in rest, u \in left PROVE FALSE
  <2>1. u \notin p /\ (Cardinality(p) < BROADCAST_BATCH_SIZE \/ u <= B!Max(p)) /\ u \in Nat
    BY <1>1, <1>8
  <2>2. CASE p = first
    <3>1. CASE Cardinality(p) < BROADCAST_BATCH_SIZE
      BY <1>5, <1>8, <2>1, <2>2, <3>1
    <3>2. CASE ~(Cardinality(p) < BROADCAST_BATCH_SIZE)
      <4>1. p # {}
        BY <3>2, <1>n, FS_EmptySet
      <4>2. p \in SUBSET (1 .. N)
        BY <1>2, <1>7
      <4>3. B!Max(p) \in p
        BY <4>1, <4>2, LeastAndGreatest
      <4>4. u < B!Max(p)
        <5>1. u <= B!Max(p) /\ u # B!Max(p)
          BY <2>1, <3>2, <4>3
        <5>2. B!Max(p) \in Nat
          BY <1>1, <1>2, <1>7, <4>3
        <5> QED BY <2>1, <5>1, <5>2
      <4> QED BY <1>5, <1>8, <2>1, <2>2, <4>3, <4>4
    <3> QED BY <3>1, <3>2
  <2>3. CASE p # first
    <3>1. c # 0 /\ from = {}
      BY <1>6, <1>8, <2>3
    <3> QED BY <1>2, <1>8, <3>1
  <2> QED BY <2>2, <2>3
<1>9. \A u \in left : u \in rest \/ (c # 0 /\ u = B!Min(from))
  <2>1. ASSUME NEW u \in left PROVE u \in B!Active /\ u > c /\ u >= c
    BY <1>1, <1>c
  <2> QED BY <2>1
<1>10. ~gone => left \subseteq {B!Min(from)}
  BY <1>8, <1>9
<1>11. c = 0 \/ c \in B!Active => left = {}
  <2>1. c \in B!Active => ~gone
    BY <1>1
  <2>2. CASE c = 0
    BY <1>8, <1>9, <2>2
  <2>3. ASSUME c # 0, c \in B!Active, NEW u \in left PROVE FALSE
    <3>0. c \in from
      BY <1>1, <2>3
    <3>1. c \in from /\ B!Min(from) <= c /\ B!Min(from) \in Nat
      BY <1>1, <1>3, <2>3, <3>0
    <3>2. u > c /\ u \in Nat
      BY <1>1, <2>3
    <3>3. u # B!Min(from)
      BY <1>c, <3>1, <3>2
    <3> QED BY <1>8, <1>9, <2>1, <2>3, <3>3
  <2> QED BY <2>2, <2>3
<1>12. p \subseteq B!Active /\ \A u \in p : u > c
  BY <1>2, <1>4, <1>7
<1> HIDE DEF left, from
<1>13. ~gone => \E x : left \subseteq {x}
  BY <1>10
<1> QED BY <1>11, <1>12, <1>13 DEF left

LEMMA ReadTells ==
  ASSUME BroadcastInv, NEW w \in Processes, B!Read(w)
  PROVE  BroadcastInv'
<1>1. broadcastRun[w].at = "read" /\ UNCHANGED <<user, moves, told, message, broadcastJob>>
  BY DEF B!Read, B!users
<1>2. CASE B!Fault /\ B!To(w, "fail")
  BY <1>1, <1>2, ToFailTells
<1>3. CASE ~(B!Fault /\ B!To(w, "fail"))
  <2> DEFINE o == broadcastRun[w]
             c == o.cursor
             p == B!PageAfter(c)
             gone == c # 0 /\ user[c] = "none"
             lost == c # 0 /\ c \notin B!Active
             r == [o EXCEPT !.at = IF p = {} THEN "done" ELSE "write",
                            !.page = p,
                            !.skips = IF lost THEN o.skips + 1 ELSE o.skips,
                            !.lost = o.lost \/ gone]
  <2>1. broadcastRun' = [broadcastRun EXCEPT ![w] = r] /\ UNCHANGED broadcastFaults
    BY <1>3 DEF B!Read, B!Becomes
  <2>2. o \in TellingRuns /\ InOrder(o, told, user) /\ c \in 0 .. N /\ o.skips \in Nat
    BY TellingFacts DEF TellingRuns
  <2>3. user \in [1 .. N -> {"none", "active", "banned"}]
    BY DEF BroadcastInv, BroadcastTypes
  <2> DEFINE left == {u \in B!Active : /\ u > c /\ u \notin p
                                       /\ \/ Cardinality(p) < BROADCAST_BATCH_SIZE
                                          \/ u <= B!Max(p)}
  <2>4. /\ p \subseteq B!Active /\ \A u \in p : u > c
        /\ ~lost => left = {}
        /\ ~gone => \E x : left \subseteq {x}
    BY <2>2, <2>3, Pages
  <2>5. B!Active = {u \in 1 .. N : user[u] = "active"}
    BY DEF B!Active, B!Users
  <2> HIDE DEF p
  <2> DEFINE at == IF p = {} THEN "done" ELSE "write"
             k == IF lost THEN o.skips + 1 ELSE o.skips
  <2>6. at \in {"done", "write"} /\ p \in SUBSET (1 .. N) /\ k \in Nat
    BY <2>2, <2>4, <2>5
  <2>7. /\ r \in TellingRuns /\ r.at = at /\ r.page = p /\ r.skips = k
        /\ r.cursor = c /\ r.steady = o.steady /\ (o.lost => r.lost) /\ (gone => r.lost)
    <3> DEFINE b == o.lost \/ gone
    <3>1. b \in BOOLEAN /\ (o.lost => b) /\ (gone => b)
      OBVIOUS
    <3>2. r = [o EXCEPT !.at = at, !.page = p, !.skips = k, !.lost = b]
      OBVIOUS
    <3>3. o \in TellingRuns
      BY <2>2
    <3> HIDE DEF b, at, k, r, o, gone
    <3>4. CASE b = TRUE
      <4>1. r = [o EXCEPT !.at = at, !.page = p, !.skips = k, !.lost = TRUE]
        BY <3>2, <3>4, Zenon
      <4>2. at \in {"done", "write", "read"}
        BY <2>6
      <4>3. /\ r \in TellingRuns /\ r.at = at /\ r.page = p /\ r.skips = k
            /\ r.cursor = o.cursor /\ r.steady = o.steady /\ r.lost
        BY ONLY <2>6, <3>3, <4>1, <4>2 DEF TellingRuns
      <4> QED BY <4>3
    <3>5. CASE b = FALSE
      <4>1. r = [o EXCEPT !.at = at, !.page = p, !.skips = k, !.lost = FALSE]
        BY <3>2, <3>5, Zenon
      <4>2. at \in {"done", "write", "read"}
        BY <2>6
      <4>3. /\ r \in TellingRuns /\ r.at = at /\ r.page = p /\ r.skips = k
            /\ r.cursor = o.cursor /\ r.steady = o.steady /\ ~r.lost
        BY ONLY <2>6, <3>3, <4>1, <4>2 DEF TellingRuns
      <4> QED BY <3>1, <3>5, <4>3
    <3> QED BY <3>1, <3>4, <3>5
  <2> HIDE DEF r
  <2>8. ASSUME ~r.lost PROVE Cardinality(Missed(r, told)) <= r.skips
    <3>1. ~o.lost /\ ~gone
      BY <2>7, <2>8
    <3>2. Cardinality(Missed(o, told)) <= o.skips
      BY <1>1, <2>2, <3>1 DEF InOrder
    <3>3. PICK x : left \subseteq {x}
      BY <2>4, <3>1
    <3>4. Missed(r, told) \subseteq Missed(o, told) \cup left
      <4>1. ASSUME NEW u \in Missed(r, told) PROVE u \in Missed(o, told) \cup left
        <5>1. /\ u \in o.steady /\ told[u] = 0 /\ u \in B!Active /\ u \in Nat /\ c \in Nat
              /\ u \in 1 .. N
          <6>1. u \in o.steady /\ told[u] = 0
            BY <2>7 DEF Missed
          <6>2. u \in 1 .. N /\ user[u] = "active"
            BY <2>2, <6>1 DEF TellingRuns, InOrder
          <6> QED BY <2>2, <2>5, <6>1, <6>2, BatchesAssumption
        <5>2. u \notin p /\ (Cardinality(p) < BROADCAST_BATCH_SIZE \/ u <= B!Max(p))
          <6>1. Passed(r, u)
            BY DEF Missed
          <6>2. CASE p = {}
            BY <6>2, FS_EmptySet, BatchesAssumption
          <6>3. CASE p # {}
            BY <2>7, <6>1, <6>3 DEF Passed
          <6> QED BY <6>2, <6>3
        <5>3. CASE u <= c
          <6>1. Passed(o, u)
            BY <1>1, <5>3 DEF Passed
          <6> QED BY <5>1, <6>1 DEF Missed
        <5>4. CASE u > c
          BY <5>1, <5>2, <5>4
        <5> QED BY <5>1, <5>3, <5>4
      <4> QED BY <4>1
    <3> HIDE DEF left, o
    <3>5. IsFiniteSet(Missed(o, told)) /\ Cardinality(Missed(o, told)) \in Nat
      BY <2>2, MissedCounts
    <3>6. CASE lost
      <4>1. Missed(r, told) \subseteq Missed(o, told) \cup {x}
        BY <3>3, <3>4
      <4>2. /\ IsFiniteSet(Missed(o, told) \cup {x})
            /\ Cardinality(Missed(o, told) \cup {x}) <= Cardinality(Missed(o, told)) + 1
            /\ Cardinality(Missed(o, told) \cup {x}) \in Nat
        BY <3>5, FS_AddElement, FS_CardinalityType
      <4>3. Cardinality(Missed(r, told)) <= Cardinality(Missed(o, told) \cup {x})
        BY <4>1, <4>2, FS_Subset
      <4>4. Cardinality(Missed(r, told)) \in Nat
        BY <2>7, MissedCounts
      <4>5. r.skips = o.skips + 1
        BY <2>7, <3>6
      <4> QED BY <2>2, <3>2, <3>5, <4>2, <4>3, <4>4, <4>5
    <3>7. CASE ~lost
      <4>1. Missed(r, told) \subseteq Missed(o, told)
        BY <2>4, <3>4, <3>7
      <4>2. Cardinality(Missed(r, told)) <= Cardinality(Missed(o, told))
        BY <3>5, <4>1, FS_Subset
      <4>3. Cardinality(Missed(r, told)) \in Nat
        BY <2>7, MissedCounts
      <4>4. r.skips = o.skips
        BY <2>7, <3>7
      <4> QED BY <2>2, <3>2, <3>5, <4>2, <4>3, <4>4
    <3> QED BY <3>6, <3>7
  <2>9. InOrder(r, told, user)
    <3>1. \A u \in r.steady : user[u] = "active"
      BY <2>2, <2>7 DEF InOrder
    <3>2. r.at \in {"done", "write"} /\ (r.at = "write" => r.page # {} /\ \A u \in r.page : u > r.cursor)
      BY <2>4, <2>6, <2>7
    <3> QED BY <2>8, <3>1, <3>2 DEF InOrder
  <2>10. /\ message' \in {"Queued", "Sending", "Done", "Failed"}
         /\ broadcastFaults' \in Nat /\ broadcastFaults' = broadcastFaults
         /\ MayBegin' = MayBegin /\ broadcastJob' \in TellingJobs
    <3>1. message # "none"
      BY <1>1, TellingFacts
    <3> QED BY <1>1, <2>1, <3>1, TellingFacts DEF MayBegin
  <2>11. \A u \in 1 .. N : Might(r, u) <= Might(o, u)
    <3>1. r.at \in {"done", "write"} /\ r.cursor = o.cursor /\ o.at = "read"
      BY <1>1, <2>6, <2>7
    <3> QED BY <3>1 DEF Might
  <2>12. \A u \in 1 .. N : MayBegin' + Might(r, u) + broadcastFaults
                             <= MayBegin + Might(broadcastRun[w], u) + broadcastFaults'
    BY <2>10, <2>11, TellingFacts
  <2> QED BY <1>1, <2>1, <2>7, <2>9, <2>10, <2>12, QuietTellingStep
<1> QED BY <1>2, <1>3

LEMMA WriteTells ==
  ASSUME BroadcastInv, NEW w \in Processes, B!Write(w)
  PROVE  BroadcastInv'
<1> DEFINE o == broadcastRun[w]
           p == o.page
           one(u) == IF u \in p THEN 1 ELSE 0
           written == told' = [u \in 1 .. N |-> told[u] + one(u)]
<1>1. o.at = "write" /\ UNCHANGED <<user, moves, message, broadcastJob>>
  BY DEF B!Write, B!users
<1>2. /\ o \in TellingRuns /\ InOrder(o, told, user)
      /\ \A u \in 1 .. N : told[u] \in Nat
      /\ message # "none" /\ told \in [1 .. N -> Nat] /\ broadcastFaults \in Nat
  BY <1>1, TellingFacts
<1>3. p \in SUBSET (1 .. N) /\ p # {} /\ \A u \in p : u > o.cursor
  BY <1>1, <1>2 DEF InOrder, TellingRuns
<1>4. /\ message' \in {"Queued", "Sending", "Done", "Failed"}
      /\ MayBegin' = MayBegin /\ broadcastJob' \in TellingJobs
  BY <1>1, <1>2, TellingFacts DEF MayBegin
<1>5. written => /\ told' \in [1 .. N -> Nat]
                 /\ \A u \in 1 .. N : told'[u] = told[u] + one(u) /\ told[u] <= told'[u]
  BY <1>2
<1>6. CASE /\ written /\ UNCHANGED broadcastFaults
           /\ B!Becomes(w, [o EXCEPT !.at = IF B!Last(p) THEN "done" ELSE "read",
                                     !.sent = @ + B!Cardinality(p),
                                     !.cursor = B!Max(p), !.page = {}])
  <2> DEFINE at == IF B!Last(p) THEN "done" ELSE "read"
             r == [o EXCEPT !.at = at, !.sent = o.sent + B!Cardinality(p),
                            !.cursor = B!Max(p), !.page = {}]
  <2>1. broadcastRun' = [broadcastRun EXCEPT ![w] = r]
    BY <1>6 DEF B!Becomes
  <2>2. B!Max(p) \in p /\ \A u \in p : u <= B!Max(p)
    BY <1>3, LeastAndGreatest
  <2>3. o.sent + B!Cardinality(p) \in Nat
    <3>1. o.sent \in Nat /\ Cardinality(p) \in Nat /\ B!Cardinality(p) = Cardinality(p)
      BY <1>2, <1>3, FiniteNumbers, MailingsCount DEF TellingRuns
    <3> QED BY <3>1
  <2>4. B!Last(p) <=> Cardinality(p) < BROADCAST_BATCH_SIZE
    BY MailingsCount DEF B!Last
  <2>5. /\ r \in TellingRuns /\ r.at = at /\ r.cursor = B!Max(p)
        /\ r.steady = o.steady /\ r.skips = o.skips /\ r.lost = o.lost
    <3>1. at \in {"done", "read"} /\ B!Max(p) \in 0 .. N
      BY <1>3, <2>2, BatchesAssumption
    <3> HIDE DEF at, p
    <3>2. o \in TellingRuns /\ {} \in SUBSET (1 .. N) /\ at \in {"done", "write", "read"}
      BY <1>2, <3>1
    <3> DEFINE n == o.sent + B!Cardinality(p)
    <3>3. r = [o EXCEPT !.at = at, !.sent = n, !.cursor = B!Max(p), !.page = {}] /\ n \in Nat
      BY <2>3
    <3> HIDE DEF o, n, r
    <3> QED BY ONLY <3>1, <3>2, <3>3 DEF TellingRuns
  <2> HIDE DEF r
  <2>6. Missed(r, told') \subseteq Missed(o, told)
    <3>1. ASSUME NEW u \in o.steady, told'[u] = 0, Passed(r, u)
          PROVE  told[u] = 0 /\ Passed(o, u)
      <4>1. u \in 1 .. N
        BY <1>2 DEF TellingRuns
      <4>2. told[u] = 0 /\ u \notin p
        BY <1>2, <1>5, <1>6, <3>1, <4>1
      <4>3. CASE B!Last(p)
        BY <1>1, <2>4, <4>2, <4>3 DEF Passed
      <4>4. CASE ~B!Last(p)
        <5>1. r.at = "read" /\ u <= B!Max(p)
          BY <2>5, <3>1, <4>4 DEF Passed
        <5> QED BY <1>1, <4>2, <5>1 DEF Passed
      <4> QED BY <4>2, <4>3, <4>4
    <3> QED BY <2>5, <3>1 DEF Missed
  <2>7. Cardinality(Missed(r, told')) <= Cardinality(Missed(o, told))
    BY <1>2, <2>6, MissedCounts, FS_Subset
  <2>8. Cardinality(Missed(o, told)) \in Nat /\ Cardinality(Missed(r, told')) \in Nat /\ o.skips \in Nat
    BY <1>2, <2>5, MissedCounts DEF TellingRuns
  <2>9. InOrder(r, told', user')
    <3>1. ~r.lost => Cardinality(Missed(o, told)) <= o.skips
      BY <1>1, <1>2, <2>5 DEF InOrder
    <3>2. ~r.lost => Cardinality(Missed(r, told')) <= r.skips
      BY <2>5, <2>7, <2>8, <3>1
    <3>3. \A u \in r.steady : user'[u] = "active"
      BY <1>1, <1>2, <2>5 DEF InOrder
    <3>4. r.at \in {"done", "read"}
      BY <2>5
    <3> QED BY <3>2, <3>3, <3>4 DEF InOrder
  <2>10. ASSUME NEW u \in 1 .. N
         PROVE  told'[u] + MayBegin' + Might(r, u) + broadcastFaults
                  <= told[u] + MayBegin + Might(broadcastRun[w], u) + broadcastFaults'
    <3>1. one(u) + Might(r, u) <= Might(o, u)
      <4>0. B!Max(p) \in Nat /\ u \in Nat /\ o.cursor \in Nat /\ B!Max(p) > o.cursor
        <5>1. o.cursor \in 0 .. N /\ B!Max(p) \in 1 .. N
          BY <1>2, <1>3, <2>2 DEF TellingRuns
        <5> QED BY <1>3, <2>2, <5>1, BatchesAssumption
      <4>1. CASE u \in p
        <5>1. Might(o, u) = 1
          BY <1>1, <1>3, <4>1 DEF Might
        <5>2. Might(r, u) = 0
          <6>1. u <= B!Max(p)
            BY <2>2, <4>1
          <6> QED BY <2>5, <4>0, <6>1 DEF Might
        <5> QED BY <4>1, <5>1, <5>2
      <4>2. CASE u \notin p
        <5>1. u > B!Max(p) => u > o.cursor
          BY <4>0
        <5>2. Might(r, u) <= Might(o, u)
          BY <1>1, <2>5, <5>1 DEF Might
        <5>3. Might(r, u) \in {0, 1} /\ one(u) = 0
          BY <4>2, TellingFacts
        <5> QED BY <5>2, <5>3
      <4> QED BY <4>1, <4>2
    <3>2. told'[u] = told[u] + one(u) /\ told[u] \in Nat /\ one(u) \in {0, 1}
      BY <1>2, <1>5, <1>6
    <3>3. /\ MayBegin' = MayBegin /\ MayBegin \in {0, 1} /\ broadcastFaults' = broadcastFaults
          /\ Might(r, u) \in {0, 1} /\ Might(o, u) \in {0, 1}
      BY <1>4, <1>6, TellingFacts
    <3> HIDE DEF one
    <3> QED BY <1>2, <3>1, <3>2, <3>3
  <2>11. broadcastFaults' \in Nat /\ user' = user /\ moves' = moves
    BY <1>1, <1>2, <1>6
  <2> QED BY <1>4, <1>5, <1>6, <2>1, <2>5, <2>9, <2>10, <2>11, OneTellingRun
<1>7. CASE B!Fault /\ B!To(w, "fail") /\ (written \/ UNCHANGED told)
  <2> DEFINE r == [o EXCEPT !.at = "fail"]
  <2>1. broadcastRun' = [broadcastRun EXCEPT ![w] = r]
    BY <1>7 DEF B!To, B!Becomes
  <2>2. r \in TellingRuns /\ r.at = "fail" /\ r.steady = o.steady
    BY <1>2 DEF TellingRuns
  <2> HIDE DEF r
  <2>3. InOrder(r, told', user')
    <3>1. \A u \in r.steady : user'[u] = "active"
      BY <1>1, <1>2, <2>2 DEF InOrder
    <3> QED BY <2>2, <3>1, InOrderElsewhere
  <2>4. broadcastFaults' \in Nat /\ broadcastFaults' = broadcastFaults + 1
    BY <1>7, TellingFacts
  <2>5. /\ told' \in [1 .. N -> Nat]
        /\ \A u \in 1 .. N : told[u] <= told'[u] /\ told'[u] <= told[u] + one(u) /\ told'[u] \in Nat
    <3>1. CASE written
      BY <1>2, <1>5, <3>1
    <3>2. CASE UNCHANGED told
      BY <1>2, <3>2
    <3> QED BY <1>7, <3>1, <3>2
  <2>6. ASSUME NEW u \in 1 .. N
        PROVE  told'[u] + MayBegin' + Might(r, u) + broadcastFaults
                 <= told[u] + MayBegin + Might(broadcastRun[w], u) + broadcastFaults'
    <3>1. one(u) <= Might(o, u) /\ one(u) \in {0, 1} /\ Might(o, u) \in {0, 1}
      <4>1. u \in p => Might(o, u) = 1
        BY <1>1, <1>3 DEF Might
      <4> QED BY <4>1, TellingFacts
    <3>2. Might(r, u) = 1
      BY <2>2 DEF Might
    <3>3. MayBegin' = MayBegin /\ MayBegin \in {0, 1}
      BY <1>4, TellingFacts
    <3> HIDE DEF one
    <3> QED BY <1>2, <2>4, <2>5, <3>1, <3>2, <3>3
  <2>7. user' = user /\ moves' = moves
    BY <1>1
  <2> QED BY <1>4, <2>1, <2>2, <2>3, <2>4, <2>5, <2>6, <2>7, OneTellingRun
<1>8. \/ /\ written /\ UNCHANGED broadcastFaults
         /\ B!Becomes(w, [o EXCEPT !.at = IF B!Last(p) THEN "done" ELSE "read",
                                   !.sent = @ + B!Cardinality(p),
                                   !.cursor = B!Max(p), !.page = {}])
      \/ B!Fault /\ B!To(w, "fail") /\ (written \/ UNCHANGED told)
  BY DEF B!Write, B!Users
<1> QED BY <1>6, <1>7, <1>8

LEMMA ChangeTells ==
  ASSUME BroadcastInv, NEW x \in 1 .. N, NEW s \in {"none", "active", "banned"}, B!Change(x, s)
  PROVE  BroadcastInv'
<1> DEFINE after(r) == [r EXCEPT !.steady = r.steady \ {x}]
<1>1. /\ UNCHANGED <<message, told, broadcastJob, broadcastFaults>>
      /\ moves' = moves + 1 /\ user' = [user EXCEPT ![x] = s]
      /\ broadcastRun' = [w \in Processes |-> after(broadcastRun[w])]
  BY DEF B!Change
<1>2. BroadcastTypes /\ NotYet /\ AllTold
  BY DEF BroadcastInv
<1>3. \A r \in TellingRuns :
        /\ after(r) \in TellingRuns /\ after(r).steady = r.steady \ {x}
        /\ after(r).at = r.at /\ after(r).cursor = r.cursor /\ after(r).page = r.page
        /\ after(r).skips = r.skips /\ after(r).lost = r.lost
  BY DEF TellingRuns
<1> HIDE DEF after
<1>4. /\ broadcastRun' \in [Processes -> TellingRuns]
      /\ \A w \in Processes : /\ broadcastRun[w] \in TellingRuns
                              /\ broadcastRun'[w] = after(broadcastRun[w])
  BY <1>1, <1>2, <1>3 DEF BroadcastTypes
<1>5. BroadcastTypes'
  <2>1. moves' \in Nat /\ user' \in [1 .. N -> {"none", "active", "banned"}]
    BY <1>1, <1>2 DEF BroadcastTypes
  <2> QED BY <1>1, <1>2, <1>4, <2>1 DEF BroadcastTypes
<1>6. NotYet'
  BY <1>1, <1>2, <1>3, <1>4 DEF NotYet
<1>7. AllTold'
  <2>1. ASSUME NEW u PROVE WhoMight(u)' = WhoMight(u)
    <3>1. \A w \in Processes : Might(broadcastRun'[w], u) = Might(broadcastRun[w], u)
      BY <1>3, <1>4 DEF Might
    <3> QED BY <3>1 DEF WhoMight
  <2>2. MayBegin' = MayBegin
    BY <1>1 DEF MayBegin
  <2> QED BY <1>1, <1>2, <2>1, <2>2 DEF AllTold
<1>8. ASSUME NEW w \in Processes PROVE InOrder(broadcastRun'[w], told', user')
  <2> DEFINE o == broadcastRun[w]
             r == after(o)
  <2>1. InOrder(o, told, user) /\ o \in TellingRuns
    BY <1>4 DEF BroadcastInv
  <2>2. /\ r \in TellingRuns /\ r.steady = o.steady \ {x}
        /\ r.at = o.at /\ r.cursor = o.cursor /\ r.page = o.page
        /\ r.skips = o.skips /\ r.lost = o.lost
    BY <1>3, <2>1
  <2> HIDE DEF r
  <2>3. \A u \in r.steady : user'[u] = "active"
    <3>1. \A u \in o.steady : u \in 1 .. N /\ user[u] = "active"
      BY <2>1 DEF TellingRuns, InOrder
    <3> QED BY <1>1, <1>2, <2>2, <3>1 DEF BroadcastTypes
  <2>4. \A u : Passed(r, u) <=> Passed(o, u)
    BY <2>2 DEF Passed
  <2>5. Missed(r, told) \subseteq Missed(o, told)
    BY <2>2, <2>4 DEF Missed
  <2>6. /\ Cardinality(Missed(r, told)) <= Cardinality(Missed(o, told))
        /\ Cardinality(Missed(r, told)) \in Nat /\ Cardinality(Missed(o, told)) \in Nat
        /\ o.skips \in Nat
    BY <2>1, <2>2, <2>5, MissedCounts, FS_Subset DEF TellingRuns
  <2>7. Cardinality(Missed(o, told)) <= o.skips => Cardinality(Missed(r, told)) <= r.skips
    BY <2>2, <2>6
  <2>8. InOrder(r, told, user')
    BY <2>1, <2>2, <2>3, <2>7 DEF InOrder
  <2> QED BY <1>1, <1>4, <2>8 DEF r
<1> QED BY <1>5, <1>6, <1>7, <1>8 DEF BroadcastInv

LEMMA EnqueueTells ==
  ASSUME BroadcastInv, B!Enqueue
  PROVE  BroadcastInv'
<1>1. /\ message = "none" /\ message' = "Queued" /\ UNCHANGED <<user, moves, told, broadcastRun>>
      /\ \/ broadcastJob' = [broadcastJob EXCEPT !.at = "waiting"] /\ UNCHANGED broadcastFaults
         \/ B!Fault /\ UNCHANGED broadcastJob
  BY DEF B!Enqueue, B!users
<1>2. BroadcastTypes /\ NotYet /\ AllTold
  BY DEF BroadcastInv
<1>3. /\ broadcastJob' \in TellingJobs /\ broadcastFaults' \in Nat
      /\ broadcastFaults \in Nat /\ broadcastFaults <= broadcastFaults'
  BY <1>1, <1>2 DEF BroadcastTypes, TellingJobs, B!Fault
<1>4. BroadcastTypes'
  BY <1>1, <1>2, <1>3 DEF BroadcastTypes
<1>5. NotYet'
  BY <1>1 DEF NotYet
<1>6. ASSUME NEW u \in 1 .. N
      PROVE  told'[u] + MayBegin' + Cardinality(WhoMight(u)') <= 1 + broadcastFaults'
  <2>1. MayBegin = 1 /\ MayBegin' \in {0, 1}
    BY <1>1 DEF MayBegin
  <2>2. WhoMight(u)' = WhoMight(u) /\ told'[u] = told[u] /\ told[u] \in Nat
    BY <1>1, <1>2 DEF WhoMight, BroadcastTypes
  <2>3. told[u] + MayBegin + Cardinality(WhoMight(u)) <= 1 + broadcastFaults
    BY <1>2 DEF AllTold
  <2>4. Cardinality(WhoMight(u)) \in Nat
    BY MightCounts
  <2> QED BY <1>3, <2>1, <2>2, <2>3, <2>4
<1>7. AllTold'
  BY <1>6 DEF AllTold
<1>8. \A w \in Processes : InOrder(broadcastRun'[w], told', user')
  BY <1>1 DEF BroadcastInv
<1> QED BY <1>4, <1>5, <1>7, <1>8 DEF BroadcastInv

LEMMA BroadcastInvStarts == B!Init => BroadcastInv
<1> SUFFICES ASSUME B!Init PROVE BroadcastInv
  OBVIOUS
<1>1. /\ message = "none" /\ told = [u \in 1 .. N |-> 0]
      /\ user \in [1 .. N -> {"none", "active", "banned"}]
      /\ broadcastJob = [at |-> "none", made |-> 0, stalled |-> 0]
      /\ broadcastRun = [w \in Processes |-> B!NoRun] /\ moves = 0 /\ broadcastFaults = 0
  BY DEF B!Init, B!Users
<1>2. BroadcastTypes
  BY <1>1, NoRunInOrder DEF BroadcastTypes, TellingJobs
<1>3. NotYet
  BY <1>1 DEF NotYet, B!NoRun
<1>4. ASSUME NEW u \in 1 .. N
      PROVE  told[u] + MayBegin + Cardinality(WhoMight(u)) <= 1 + broadcastFaults
  <2>1. WhoMight(u) = {}
    BY <1>1, NoRunInOrder DEF WhoMight
  <2>2. MayBegin = 1 /\ told[u] = 0 /\ Cardinality({}) = 0
    BY <1>1, FS_EmptySet DEF MayBegin
  <2> QED BY <1>1, <2>1, <2>2
<1>5. AllTold
  BY <1>4 DEF AllTold
<1>6. \A w \in Processes : InOrder(broadcastRun[w], told, user)
  BY <1>1, NoRunInOrder
<1> QED BY <1>2, <1>3, <1>5, <1>6 DEF BroadcastInv

LEMMA BroadcastInvStays == BroadcastInv /\ [B!Next]_broadcastVars => BroadcastInv'
<1> SUFFICES ASSUME BroadcastInv, [B!Next]_broadcastVars PROVE BroadcastInv'
  OBVIOUS
<1>1. CASE UNCHANGED broadcastVars
  <2>1. UNCHANGED <<user, message, told, broadcastJob, broadcastRun, moves, broadcastFaults>>
    BY <1>1 DEF broadcastVars
  <2>2. \A u : WhoMight(u)' = WhoMight(u)
    BY <2>1 DEF WhoMight
  <2>3. BroadcastTypes' /\ NotYet' /\ AllTold'
    BY <2>1, <2>2 DEF BroadcastInv, BroadcastTypes, NotYet, AllTold, MayBegin
  <2> QED BY <2>1, <2>3 DEF BroadcastInv
<1>2. ASSUME NEW x \in B!Users, NEW s \in {"none", "active", "banned"}, B!Change(x, s)
      PROVE  BroadcastInv'
  BY <1>2, ChangeTells DEF B!Users
<1>3. CASE B!Enqueue
  BY <1>3, EnqueueTells
<1>4. ASSUME NEW w \in Processes, B!Work(w) PROVE BroadcastInv'
  BY <1>4, TakeTells, StartTells, BeginTells, ReadTells, WriteTells, DoneTells, FailTells DEF B!Work
<1>5. ASSUME NEW w \in Processes, NEW alive \in BOOLEAN, B!Stalled(w, alive) PROVE BroadcastInv'
  BY <1>5, StalledTells
<1>6. ASSUME NEW w \in Processes, B!Dies(w) PROVE BroadcastInv'
  BY <1>6, DiesTells
<1> QED BY <1>1, <1>2, <1>3, <1>4, <1>5, <1>6 DEF B!Next

LEMMA BroadcastsKeepTheirPromises == BroadcastInv => B!ToldBounded /\ B!NobodyLeftOut
<1> SUFFICES ASSUME BroadcastInv PROVE B!ToldBounded /\ B!NobodyLeftOut
  OBVIOUS
<1>1. ASSUME NEW u \in 1 .. N PROVE told[u] <= 1 + broadcastFaults
  <2>1. told[u] + MayBegin + Cardinality(WhoMight(u)) <= 1 + broadcastFaults
    BY DEF BroadcastInv, AllTold
  <2>2. told[u] \in Nat /\ broadcastFaults \in Nat
    BY DEF BroadcastInv, BroadcastTypes
  <2>3. MayBegin \in Nat /\ Cardinality(WhoMight(u)) \in Nat
    BY MightCounts DEF MayBegin
  <2> QED BY <2>1, <2>2, <2>3
<1>2. ASSUME NEW w \in Processes, broadcastRun[w].at = "done", ~broadcastRun[w].lost
      PROVE  B!Cardinality({u \in broadcastRun[w].steady : told[u] = 0}) <= broadcastRun[w].skips
  <2>1. Missed(broadcastRun[w], told) = {u \in broadcastRun[w].steady : told[u] = 0}
    BY <1>2 DEF Missed, Passed
  <2>2. Cardinality(Missed(broadcastRun[w], told)) <= broadcastRun[w].skips
    BY <1>2 DEF BroadcastInv, InOrder
  <2> QED BY <2>1, <2>2, MailingsCount
<1> QED BY <1>1, <1>2 DEF B!ToldBounded, B!NobodyLeftOut, B!Users

-----------------------------------------------------------------------------
(***************************************************************************)
(* Launch.  Each campaign may mail an address once before it is marked: it *)
(* has not begun, or its job waits, or a run may still come to it.  With   *)
(* the mails sent that is one for each campaign, and one for each fault.   *)
(***************************************************************************)
LaunchRuns ==
  [at : {"idle", "start", "begin", "read", "send", "mark", "count", "done", "fail"},
   campaign : Campaigns \cup {NoCampaign}, batch : SUBSET (1 .. N), to : 0 .. N,
   late : BOOLEAN]
LaunchJobs ==
  [at : {"none", "waiting", "active", "completed", "failed"}, made : Nat, stalled : Nat]

(* marked is launchEmailSentAt.                                            *)
Comes(r, a, marked) ==
  IF \/ a \in r.batch
     \/ r.at # "idle" /\ ~marked[a] /\ ~(r.at = "mark" /\ r.to = a)
  THEN 1 ELSE 0
WhoComes(a) == {w \in Processes : Comes(launchRun[w], a, launchEmailSentAt) = 1}
Pending(c, a) == ~launchEmailSentAt[a] /\ (campaign[c] = "none" \/ launchJob[c].at = "waiting")
WhatPends(a) == {c \in Campaigns : Pending(c, a)}

LaunchTypes ==
  /\ launchEmailSentAt \in [1 .. N -> BOOLEAN]
  /\ launchJob \in [Campaigns -> LaunchJobs] /\ launchRun \in [Processes -> LaunchRuns]
  /\ mails \in [1 .. N -> Nat] /\ launchFaults \in Nat
  /\ campaign \in [Campaigns -> {"none", "Queued", "Sending", "Done", "Failed"}]
AtWork(r, C) ==
  /\ r.at # "idle" => r.campaign \in Campaigns /\ C[r.campaign] # "none"
  /\ r.at = "send" => r.batch # {}
  /\ r.at \notin {"send", "mark"} => r.batch = {}
NotBegun == \A c \in Campaigns : campaign[c] = "none" => launchJob[c].at = "none"
AllMailed ==
  \A a \in 1 .. N :
    mails[a] + Cardinality(WhatPends(a)) + Cardinality(WhoComes(a))
      <= Cardinality(Campaigns) + launchFaults
LaunchInv ==
  /\ LaunchTypes /\ NotBegun /\ AllMailed
  /\ \A w \in Processes : AtWork(launchRun[w], campaign)

(* A set that grows by one element at most.                                *)
LEMMA OneElementMore ==
  ASSUME NEW S, NEW T, NEW x, IsFiniteSet(S), T \ {x} \subseteq S
  PROVE  /\ IsFiniteSet(T) /\ Cardinality(S) \in Nat /\ Cardinality(T) \in Nat
         /\ Cardinality(T) <= Cardinality(S) + In(x, T) - In(x, S)
<1> DEFINE U == IF x \in T THEN S \cup {x} ELSE S \ {x}
<1>1. U \ {x} = S \ {x} /\ T \subseteq U /\ (x \in U <=> x \in T)
  OBVIOUS
<1> HIDE DEF U
<1>2. /\ IsFiniteSet(U) /\ Cardinality(S) \in Nat
      /\ Cardinality(U) = Cardinality(S) + In(x, U) - In(x, S)
  BY <1>1, OneElement
<1>3. In(x, U) = In(x, T)
  BY <1>1 DEF In
<1>4. IsFiniteSet(T) /\ Cardinality(T) <= Cardinality(U) /\ Cardinality(T) \in Nat
  BY <1>1, <1>2, FS_Subset, FS_CardinalityType
<1> QED BY <1>2, <1>3, <1>4

LEMMA LaunchFacts ==
  ASSUME LaunchInv
  PROVE  /\ launchEmailSentAt \in [1 .. N -> BOOLEAN]
         /\ launchJob \in [Campaigns -> LaunchJobs] /\ launchRun \in [Processes -> LaunchRuns]
         /\ mails \in [1 .. N -> Nat] /\ launchFaults \in Nat
         /\ campaign \in [Campaigns -> {"none", "Queued", "Sending", "Done", "Failed"}]
         /\ \A w \in Processes : launchRun[w] \in LaunchRuns /\ AtWork(launchRun[w], campaign)
         /\ \A c \in Campaigns : launchJob[c].at # "none" => campaign[c] # "none"
         /\ \A a \in 1 .. N : mails[a] \in Nat
         /\ \A a : IsFiniteSet(WhoComes(a)) /\ IsFiniteSet(WhatPends(a))
         /\ L!Fault => launchFaults' \in Nat /\ launchFaults' = launchFaults + 1
<1>1. LaunchTypes /\ NotBegun /\ \A w \in Processes : AtWork(launchRun[w], campaign)
  BY DEF LaunchInv
<1>2. \A a : IsFiniteSet(WhoComes(a)) /\ IsFiniteSet(WhatPends(a))
  <2>1. /\ IsFiniteSet(Processes) /\ IsFiniteSet(Campaigns)
        /\ \A a : WhoComes(a) \subseteq Processes /\ WhatPends(a) \subseteq Campaigns
    BY BatchesAssumption DEF WhoComes, WhatPends
  <2> QED BY <2>1, FS_Subset
<1>3. L!Fault => launchFaults' \in Nat /\ launchFaults' = launchFaults + 1
  BY <1>1 DEF LaunchTypes, L!Fault
<1> QED BY <1>1, <1>2, <1>3 DEF LaunchTypes, NotBegun

LEMMA ComesIsOneOrNone == \A r, a, m : Comes(r, a, m) \in {0, 1}
  BY DEF Comes
LEMMA InIsOneOrNone == \A x, S : In(x, S) \in {0, 1}
  BY DEF In

(* A step of one run, for its campaign.                                    *)
LEMMA OneLaunchRun ==
  ASSUME LaunchInv, NEW w \in Processes, NEW c \in Campaigns, NEW r \in LaunchRuns,
         launchRun' = [launchRun EXCEPT ![w] = r],
         launchJob' \in [Campaigns -> LaunchJobs],
         \A d \in Campaigns \ {c} : launchJob'[d] = launchJob[d],
         campaign' \in [Campaigns -> {"none", "Queued", "Sending", "Done", "Failed"}],
         \A d \in Campaigns \ {c} : campaign'[d] = campaign[d],
         campaign[c] # "none", campaign'[c] # "none",
         launchEmailSentAt' \in [1 .. N -> BOOLEAN],
         \A a \in 1 .. N : launchEmailSentAt[a] => launchEmailSentAt'[a],
         mails' \in [1 .. N -> Nat], launchFaults' \in Nat,
         AtWork(r, campaign'),
         \A a \in 1 .. N :
           mails'[a] + In(c, WhatPends(a)') + Comes(r, a, launchEmailSentAt') + launchFaults
             <= mails[a] + In(c, WhatPends(a)) + Comes(launchRun[w], a, launchEmailSentAt) + launchFaults'
  PROVE  LaunchInv'
<1>1. /\ launchRun \in [Processes -> LaunchRuns] /\ launchFaults \in Nat
      /\ \A v \in Processes : AtWork(launchRun[v], campaign)
      /\ \A a \in 1 .. N : mails[a] \in Nat
      /\ \A d \in Campaigns : launchJob[d].at # "none" => campaign[d] # "none"
  BY LaunchFacts
<1>2. /\ launchRun' \in [Processes -> LaunchRuns] /\ launchRun'[w] = r
      /\ \A v \in Processes \ {w} : launchRun'[v] = launchRun[v]
  BY <1>1
<1>3. LaunchTypes'
  BY <1>2 DEF LaunchTypes
<1>4. NotBegun'
  BY <1>1 DEF NotBegun
<1>5. ASSUME NEW a \in 1 .. N
      PROVE  mails'[a] + Cardinality(WhatPends(a)') + Cardinality(WhoComes(a)')
               <= Cardinality(Campaigns) + launchFaults'
  <2>1. WhoComes(a)' \ {w} \subseteq WhoComes(a)
    <3>1. ASSUME NEW v \in Processes \ {w}, Comes(launchRun'[v], a, launchEmailSentAt') = 1
          PROVE  Comes(launchRun[v], a, launchEmailSentAt) = 1
      <4>1. launchRun'[v] = launchRun[v] /\ (launchEmailSentAt[a] => launchEmailSentAt'[a])
        BY <1>2
      <4> QED BY <3>1, <4>1 DEF Comes
    <3> QED BY <3>1 DEF WhoComes
  <2>2. WhatPends(a)' \ {c} \subseteq WhatPends(a)
    BY DEF WhatPends, Pending
  <2>3. IsFiniteSet(WhoComes(a)) /\ IsFiniteSet(WhatPends(a))
    BY LaunchFacts
  <2>4. /\ Cardinality(WhoComes(a)) \in Nat /\ Cardinality(WhoComes(a)') \in Nat
        /\ Cardinality(WhoComes(a)') <= Cardinality(WhoComes(a)) + In(w, WhoComes(a)') - In(w, WhoComes(a))
    BY <2>1, <2>3, OneElementMore
  <2>5. /\ Cardinality(WhatPends(a)) \in Nat /\ Cardinality(WhatPends(a)') \in Nat
        /\ Cardinality(WhatPends(a)') <= Cardinality(WhatPends(a)) + In(c, WhatPends(a)') - In(c, WhatPends(a))
    BY <2>2, <2>3, OneElementMore
  <2>6. /\ In(w, WhoComes(a)) = Comes(launchRun[w], a, launchEmailSentAt)
        /\ In(w, WhoComes(a)') = Comes(r, a, launchEmailSentAt')
    BY <1>2, ComesIsOneOrNone DEF In, WhoComes
  <2>7. mails[a] + Cardinality(WhatPends(a)) + Cardinality(WhoComes(a)) <= Cardinality(Campaigns) + launchFaults
    BY DEF LaunchInv, AllMailed
  <2>8. /\ Cardinality(Campaigns) \in Nat /\ mails[a] \in Nat /\ mails'[a] \in Nat
        /\ launchFaults \in Nat /\ launchFaults' \in Nat
    BY <1>1, BatchesAssumption, FS_CardinalityType
  <2>9. /\ In(c, WhatPends(a)) \in {0, 1} /\ In(c, WhatPends(a)') \in {0, 1}
        /\ In(w, WhoComes(a)) \in {0, 1} /\ In(w, WhoComes(a)') \in {0, 1}
    BY InIsOneOrNone, Zenon
  <2>10. mails'[a] + In(c, WhatPends(a)') + In(w, WhoComes(a)') + launchFaults
           <= mails[a] + In(c, WhatPends(a)) + In(w, WhoComes(a)) + launchFaults'
    BY <2>6
  <2> QED BY ONLY <2>4, <2>5, <2>7, <2>8, <2>9, <2>10
<1>6. ASSUME NEW v \in Processes PROVE AtWork(launchRun'[v], campaign')
  <2>1. CASE v = w
    BY <1>2, <2>1
  <2>2. CASE v # w
    <3>1. AtWork(launchRun[v], campaign) /\ launchRun'[v] = launchRun[v]
      BY <1>1, <1>2, <2>2
    <3> QED BY <3>1 DEF AtWork
  <2> QED BY <2>1, <2>2
<1>7. AllMailed'
  BY <1>5 DEF AllMailed
<1> QED BY <1>3, <1>4, <1>6, <1>7 DEF LaunchInv

LEMMA NoLaunchRun ==
  /\ L!NoRun \in LaunchRuns /\ L!NoRun.at = "idle" /\ L!NoRun.batch = {}
  /\ \A a, m : Comes(L!NoRun, a, m) = 0
  /\ \A C : AtWork(L!NoRun, C)
<1>1. L!NoRun \in LaunchRuns
  BY BatchesAssumption DEF L!NoRun, LaunchRuns
<1>2. L!NoRun.at = "idle" /\ L!NoRun.batch = {}
  BY DEF L!NoRun
<1> QED BY <1>1, <1>2 DEF Comes, AtWork

(* A run that neither mails nor marks.                                     *)
LEMMA QuietLaunchStep ==
  ASSUME LaunchInv, NEW w \in Processes, NEW c \in Campaigns, NEW r \in LaunchRuns,
         launchRun' = [launchRun EXCEPT ![w] = r],
         launchJob' \in [Campaigns -> LaunchJobs],
         \A d \in Campaigns \ {c} : launchJob'[d] = launchJob[d],
         campaign' = campaign \/ \E s \in {"Sending", "Done", "Failed"} : campaign' = [campaign EXCEPT ![c] = s],
         campaign[c] # "none",
         UNCHANGED <<launchEmailSentAt, mails>>, launchFaults' \in Nat,
         AtWork(r, campaign'),
         \A a \in 1 .. N :
           In(c, WhatPends(a)') + Comes(r, a, launchEmailSentAt) + launchFaults
             <= In(c, WhatPends(a)) + Comes(launchRun[w], a, launchEmailSentAt) + launchFaults'
  PROVE  LaunchInv'
<1>1. /\ launchEmailSentAt \in [1 .. N -> BOOLEAN] /\ mails \in [1 .. N -> Nat]
      /\ campaign \in [Campaigns -> {"none", "Queued", "Sending", "Done", "Failed"}]
      /\ launchFaults \in Nat /\ \A a \in 1 .. N : mails[a] \in Nat
  BY LaunchFacts
<1>2. /\ campaign' \in [Campaigns -> {"none", "Queued", "Sending", "Done", "Failed"}]
      /\ campaign'[c] # "none"
      /\ \A d \in Campaigns \ {c} : campaign'[d] = campaign[d]
  BY <1>1
<1>3. ASSUME NEW a \in 1 .. N
      PROVE  mails'[a] + In(c, WhatPends(a)') + Comes(r, a, launchEmailSentAt') + launchFaults
               <= mails[a] + In(c, WhatPends(a)) + Comes(launchRun[w], a, launchEmailSentAt) + launchFaults'
  <2>1. /\ In(c, WhatPends(a)) \in {0, 1} /\ In(c, WhatPends(a)') \in {0, 1}
        /\ Comes(r, a, launchEmailSentAt) \in {0, 1}
        /\ Comes(launchRun[w], a, launchEmailSentAt) \in {0, 1}
    BY InIsOneOrNone, ComesIsOneOrNone, Zenon
  <2>2. Comes(r, a, launchEmailSentAt') = Comes(r, a, launchEmailSentAt) /\ mails'[a] = mails[a]
    OBVIOUS
  <2>3. In(c, WhatPends(a)') + Comes(r, a, launchEmailSentAt) + launchFaults
          <= In(c, WhatPends(a)) + Comes(launchRun[w], a, launchEmailSentAt) + launchFaults'
    OBVIOUS
  <2>4. launchFaults \in Nat /\ launchFaults' \in Nat /\ mails[a] \in Nat
    BY <1>1
  <2> QED BY ONLY <2>1, <2>2, <2>3, <2>4
<1>4. /\ launchEmailSentAt' \in [1 .. N -> BOOLEAN] /\ mails' \in [1 .. N -> Nat]
      /\ \A a \in 1 .. N : launchEmailSentAt[a] => launchEmailSentAt'[a]
  BY <1>1
<1> QED BY <1>2, <1>3, <1>4, OneLaunchRun

(* From one point to the next.                                             *)
LEMMA ToComes ==
  ASSUME LaunchInv, NEW w \in Processes, launchRun[w].at \notin {"idle", "send", "mark"},
         NEW x \in {"begin", "read", "count", "done", "fail"}, L!To(w, x),
         UNCHANGED <<launchEmailSentAt, mails, launchJob>>,
         \/ campaign' = campaign
         \/ \E s \in {"Sending", "Done", "Failed"} :
              campaign' = [campaign EXCEPT ![launchRun[w].campaign] = s],
         launchFaults' = launchFaults \/ L!Fault
  PROVE  LaunchInv'
<1> DEFINE o == launchRun[w]
           c == o.campaign
           r == [o EXCEPT !.at = x]
<1>1. launchRun' = [launchRun EXCEPT ![w] = r]
  BY DEF L!To, L!Becomes
<1>2. /\ o \in LaunchRuns /\ AtWork(o, campaign) /\ launchFaults \in Nat
      /\ launchJob \in [Campaigns -> LaunchJobs]
      /\ campaign \in [Campaigns -> {"none", "Queued", "Sending", "Done", "Failed"}]
  BY LaunchFacts
<1>3. c \in Campaigns /\ campaign[c] # "none" /\ o.batch = {}
  BY <1>2 DEF AtWork
<1>4. r \in LaunchRuns /\ r.at = x /\ r.batch = {} /\ r.campaign = c
  BY <1>2, <1>3 DEF LaunchRuns
<1> HIDE DEF r
<1>5. campaign'[c] # "none"
  BY <1>2, <1>3
<1>6. AtWork(r, campaign')
  BY <1>3, <1>4, <1>5 DEF AtWork
<1>7. launchFaults' \in Nat /\ launchFaults <= launchFaults'
  BY <1>2, LaunchFacts
<1>8. ASSUME NEW a \in 1 .. N
      PROVE  In(c, WhatPends(a)') + Comes(r, a, launchEmailSentAt) + launchFaults
               <= In(c, WhatPends(a)) + Comes(launchRun[w], a, launchEmailSentAt) + launchFaults'
  <2>1. In(c, WhatPends(a)') = In(c, WhatPends(a))
    BY <1>3, <1>5 DEF In, WhatPends, Pending
  <2>2. Comes(r, a, launchEmailSentAt) = Comes(o, a, launchEmailSentAt)
    BY <1>3, <1>4 DEF Comes
  <2>3. In(c, WhatPends(a)) \in {0, 1} /\ Comes(o, a, launchEmailSentAt) \in {0, 1}
    BY InIsOneOrNone, ComesIsOneOrNone, Zenon
  <2> QED BY <1>2, <1>7, <2>1, <2>2, <2>3
<1>9. \A d \in Campaigns \ {c} : launchJob'[d] = launchJob[d]
  OBVIOUS
<1> QED BY <1>1, <1>2, <1>3, <1>4, <1>6, <1>7, <1>8, <1>9, QuietLaunchStep

(* The job of a run moves on, the run is over.                             *)
LEMMA OverComes ==
  ASSUME LaunchInv, NEW w \in Processes, launchRun[w].at # "idle",
         NEW j \in LaunchJobs,
         launchJob' = [launchJob EXCEPT ![launchRun[w].campaign] = j],
         L!Becomes(w, L!NoRun),
         UNCHANGED <<launchEmailSentAt, mails>>,
         \/ campaign' = campaign
         \/ \E s \in {"Sending", "Done", "Failed"} :
              campaign' = [campaign EXCEPT ![launchRun[w].campaign] = s],
         \/ j.at # "waiting" /\ launchFaults' = launchFaults
         \/ launchRun[w].at \in {"start", "begin", "fail"} /\ launchFaults' = launchFaults
         \/ L!Fault
  PROVE  LaunchInv'
<1> DEFINE o == launchRun[w]
           c == o.campaign
<1>1. launchRun' = [launchRun EXCEPT ![w] = L!NoRun]
  BY DEF L!Becomes
<1>2. /\ o \in LaunchRuns /\ AtWork(o, campaign) /\ launchFaults \in Nat
      /\ launchJob \in [Campaigns -> LaunchJobs]
      /\ campaign \in [Campaigns -> {"none", "Queued", "Sending", "Done", "Failed"}]
  BY LaunchFacts
<1>3. c \in Campaigns /\ campaign[c] # "none"
  BY <1>2 DEF AtWork
<1>4. /\ launchJob' \in [Campaigns -> LaunchJobs] /\ launchJob'[c] = j
      /\ \A d \in Campaigns \ {c} : launchJob'[d] = launchJob[d]
  BY <1>2, <1>3
<1>5. campaign'[c] # "none"
  BY <1>2, <1>3
<1>6. AtWork(L!NoRun, campaign') /\ L!NoRun \in LaunchRuns
  BY NoLaunchRun
<1>7. launchFaults' \in Nat /\ launchFaults <= launchFaults' /\ (L!Fault => launchFaults' = launchFaults + 1)
  BY <1>2, LaunchFacts
<1>8. ASSUME NEW a \in 1 .. N
      PROVE  In(c, WhatPends(a)') + Comes(L!NoRun, a, launchEmailSentAt) + launchFaults
               <= In(c, WhatPends(a)) + Comes(launchRun[w], a, launchEmailSentAt) + launchFaults'
  <2>1. Comes(L!NoRun, a, launchEmailSentAt) = 0
    BY NoLaunchRun
  <2>2. /\ In(c, WhatPends(a)) \in {0, 1} /\ Comes(o, a, launchEmailSentAt) \in {0, 1}
        /\ In(c, WhatPends(a)') \in {0, 1}
    BY InIsOneOrNone, ComesIsOneOrNone, Zenon
  <2>3. j.at # "waiting" => In(c, WhatPends(a)') = 0
    BY <1>4, <1>5 DEF In, WhatPends, Pending
  <2>4. o.at \in {"start", "begin", "fail"} => In(c, WhatPends(a)') <= Comes(o, a, launchEmailSentAt)
    BY DEF In, WhatPends, Pending, Comes
  <2> HIDE DEF o, c
  <2> QED BY <1>2, <1>7, <2>1, <2>2, <2>3, <2>4 DEF o
<1> QED BY <1>1, <1>3, <1>4, <1>6, <1>7, <1>8, QuietLaunchStep

(* A run that is over says nothing of a job that is no longer its own.     *)
LEMMA LateComes ==
  ASSUME LaunchInv, NEW w \in Processes, launchRun[w].at # "idle",
         L!Becomes(w, L!NoRun),
         UNCHANGED <<launchEmailSentAt, mails, launchJob>>,
         \/ campaign' = campaign
         \/ \E s \in {"Sending", "Done", "Failed"} :
              campaign' = [campaign EXCEPT ![launchRun[w].campaign] = s],
         launchFaults' = launchFaults \/ L!Fault
  PROVE  LaunchInv'
<1> DEFINE o == launchRun[w]
           c == o.campaign
<1>1. launchRun' = [launchRun EXCEPT ![w] = L!NoRun]
  BY DEF L!Becomes
<1>2. /\ AtWork(o, campaign) /\ launchFaults \in Nat
      /\ launchJob \in [Campaigns -> LaunchJobs]
      /\ campaign \in [Campaigns -> {"none", "Queued", "Sending", "Done", "Failed"}]
  BY LaunchFacts
<1>3. c \in Campaigns /\ campaign[c] # "none"
  BY <1>2 DEF AtWork
<1>4. campaign'[c] # "none"
  BY <1>2, <1>3
<1>5. AtWork(L!NoRun, campaign') /\ L!NoRun \in LaunchRuns
  BY NoLaunchRun
<1>6. launchFaults' \in Nat /\ launchFaults <= launchFaults'
  BY <1>2, LaunchFacts
<1>7. ASSUME NEW a \in 1 .. N
      PROVE  In(c, WhatPends(a)') + Comes(L!NoRun, a, launchEmailSentAt) + launchFaults
               <= In(c, WhatPends(a)) + Comes(launchRun[w], a, launchEmailSentAt) + launchFaults'
  <2>1. Comes(L!NoRun, a, launchEmailSentAt) = 0
    BY NoLaunchRun
  <2>2. In(c, WhatPends(a)) \in {0, 1} /\ Comes(o, a, launchEmailSentAt) \in {0, 1}
    BY InIsOneOrNone, ComesIsOneOrNone, Zenon
  <2>3. In(c, WhatPends(a)') = In(c, WhatPends(a))
    BY <1>3, <1>4 DEF In, WhatPends, Pending
  <2> HIDE DEF o, c
  <2> QED BY <1>2, <1>6, <2>1, <2>2, <2>3 DEF o
<1>8. \A d \in Campaigns \ {c} : launchJob'[d] = launchJob[d]
  OBVIOUS
<1> QED BY <1>1, <1>2, <1>3, <1>5, <1>6, <1>7, <1>8, QuietLaunchStep

LEMMA DiesComes ==
  ASSUME LaunchInv, NEW w \in Processes, L!Dies(w)
  PROVE  LaunchInv'
<1>1. /\ launchRun[w].at # "idle" /\ L!Becomes(w, L!NoRun) /\ L!Fault
      /\ UNCHANGED <<launchEmailSentAt, campaign, launchJob, mails>>
  BY DEF L!Dies, L!rows
<1> QED BY <1>1, LateComes

LEMMA ThrownComes ==
  ASSUME LaunchInv, NEW w \in Processes, L!Thrown(w),
         launchRun[w].at \in {"start", "begin", "fail"},
         UNCHANGED <<launchEmailSentAt, mails>>,
         \/ campaign' = campaign
         \/ campaign' = [campaign EXCEPT ![launchRun[w].campaign] = "Failed"],
         launchFaults' = launchFaults \/ L!Fault
  PROVE  LaunchInv'
<1> DEFINE c == launchRun[w].campaign
           next == IF launchJob[c].made + 1 < Attempts THEN "waiting" ELSE "failed"
           j == [launchJob[c] EXCEPT !.made = launchJob[c].made + 1, !.at = next]
<1>1. /\ launchJob \in [Campaigns -> LaunchJobs] /\ c \in Campaigns
  BY LaunchFacts DEF AtWork
<1>2. j \in LaunchJobs
  <2>1. launchJob[c] \in LaunchJobs /\ launchJob[c].made + 1 \in Nat
    BY <1>1 DEF LaunchJobs
  <2>2. \A n \in Nat : \A x \in {"waiting", "failed"} :
          [launchJob[c] EXCEPT !.made = n, !.at = x] \in LaunchJobs
    BY <2>1 DEF LaunchJobs
  <2> QED BY <2>1, <2>2
<1>3. /\ L!Becomes(w, L!NoRun)
      /\ launchJob' = launchJob \/ launchJob' = [launchJob EXCEPT ![c] = j]
  BY <1>1 DEF L!Thrown, L!Moved
<1> HIDE DEF j
<1> QED BY <1>2, <1>3, OverComes, LateComes

LEMMA EndsComes ==
  ASSUME LaunchInv, NEW w \in Processes, L!Ends(w, "completed"),
         launchRun[w].at # "idle",
         UNCHANGED <<launchEmailSentAt, mails, launchFaults>>,
         \/ campaign' = campaign
         \/ campaign' = [campaign EXCEPT ![launchRun[w].campaign] = "Done"]
  PROVE  LaunchInv'
<1> DEFINE c == launchRun[w].campaign
           j == [launchJob[c] EXCEPT !.at = "completed"]
<1>1. launchJob \in [Campaigns -> LaunchJobs] /\ c \in Campaigns
  BY LaunchFacts DEF AtWork
<1>2. j \in LaunchJobs /\ j.at = "completed"
  BY <1>1 DEF LaunchJobs
<1>3. /\ L!Becomes(w, L!NoRun)
      /\ launchJob' = launchJob \/ launchJob' = [launchJob EXCEPT ![c] = j]
  BY <1>1 DEF L!Ends, L!Moved
<1> HIDE DEF j
<1> QED BY <1>2, <1>3, OverComes, LateComes

LEMMA TakeComes ==
  ASSUME LaunchInv, NEW w \in Processes, NEW c \in Campaigns, L!Take(w, c)
  PROVE  LaunchInv'
<1> DEFINE r == [L!NoRun EXCEPT !.at = "start", !.campaign = c]
           j == [launchJob[c] EXCEPT !.at = "active"]
<1>1. /\ launchRun[w].at = "idle" /\ launchJob[c].at = "waiting"
      /\ launchRun' = [launchRun EXCEPT ![w] = r]
      /\ UNCHANGED <<launchEmailSentAt, campaign, mails, launchFaults>>
  BY DEF L!Take, L!Becomes, L!rows
<1>2. /\ launchJob \in [Campaigns -> LaunchJobs] /\ campaign[c] # "none" /\ launchFaults \in Nat
      /\ launchRun[w] \in LaunchRuns /\ AtWork(launchRun[w], campaign)
  BY <1>1, LaunchFacts
<1>3. j \in LaunchJobs /\ j.at = "active" /\ launchJob' = [launchJob EXCEPT ![c] = j]
  BY <1>2 DEF LaunchJobs, L!Take
<1>4. r \in LaunchRuns /\ r.at = "start" /\ r.campaign = c /\ r.batch = {}
  BY NoLaunchRun DEF LaunchRuns
<1> HIDE DEF r, j
<1>5. /\ launchJob' \in [Campaigns -> LaunchJobs] /\ launchJob'[c].at = "active"
      /\ \A d \in Campaigns \ {c} : launchJob'[d] = launchJob[d]
  BY <1>2, <1>3
<1>6. AtWork(r, campaign')
  BY <1>1, <1>2, <1>4 DEF AtWork
<1>7. ASSUME NEW a \in 1 .. N
      PROVE  In(c, WhatPends(a)') + Comes(r, a, launchEmailSentAt) + launchFaults
               <= In(c, WhatPends(a)) + Comes(launchRun[w], a, launchEmailSentAt) + launchFaults'
  <2>1. In(c, WhatPends(a)') = 0
    BY <1>1, <1>2, <1>5 DEF In, WhatPends, Pending
  <2>2. Comes(r, a, launchEmailSentAt) <= In(c, WhatPends(a))
    BY <1>1, <1>4 DEF In, WhatPends, Pending, Comes
  <2>3. /\ In(c, WhatPends(a)) \in {0, 1} /\ Comes(launchRun[w], a, launchEmailSentAt) \in {0, 1}
        /\ Comes(r, a, launchEmailSentAt) \in {0, 1}
    BY InIsOneOrNone, ComesIsOneOrNone, Zenon
  <2> QED BY <1>1, <1>2, <2>1, <2>2, <2>3
<1>8. launchFaults' \in Nat
  BY <1>1, <1>2
<1> QED BY <1>1, <1>2, <1>4, <1>5, <1>6, <1>7, <1>8, QuietLaunchStep

LEMMA StalledComes ==
  ASSUME LaunchInv, NEW w \in Processes, NEW alive \in BOOLEAN, L!Stalled(w, alive)
  PROVE  LaunchInv'
<1> DEFINE o == launchRun[w]
           c == o.campaign
           next == IF launchJob[c].stalled < MaxStalled THEN "waiting" ELSE "failed"
           times == IF launchJob[c].stalled < MaxStalled THEN launchJob[c].stalled + 1
                                                         ELSE launchJob[c].stalled
           j == [launchJob[c] EXCEPT !.at = next, !.stalled = times]
           slow == [o EXCEPT !.late = TRUE]
           r == IF alive THEN slow ELSE L!NoRun
<1>1. /\ o.at # "idle" /\ L!Fault
      /\ UNCHANGED <<launchEmailSentAt, campaign, mails>>
  BY DEF L!Stalled, L!rows
<1>2. /\ launchJob \in [Campaigns -> LaunchJobs] /\ launchRun \in [Processes -> LaunchRuns]
      /\ launchFaults \in Nat /\ launchFaults' \in Nat /\ launchFaults' = launchFaults + 1
      /\ o \in LaunchRuns /\ AtWork(o, campaign) /\ c \in Campaigns /\ campaign[c] # "none"
  BY <1>1, LaunchFacts DEF AtWork
<1>3. launchRun' = [launchRun EXCEPT ![w] = r]
  BY <1>2 DEF L!Stalled, L!Becomes
<1>4. j \in LaunchJobs
  <2>1. launchJob[c] \in LaunchJobs /\ next \in {"waiting", "failed"} /\ times \in Nat
    BY <1>2 DEF LaunchJobs
  <2> HIDE DEF next, times
  <2>2. \A n \in Nat : \A x \in {"waiting", "failed"} :
          [launchJob[c] EXCEPT !.at = x, !.stalled = n] \in LaunchJobs
    BY <2>1 DEF LaunchJobs
  <2> QED BY <2>1, <2>2
<1>5. launchJob' = [launchJob EXCEPT ![c] = j]
  BY <1>2 DEF L!Stalled
<1> HIDE DEF j
<1>6. /\ launchJob' \in [Campaigns -> LaunchJobs]
      /\ \A d \in Campaigns \ {c} : launchJob'[d] = launchJob[d]
  BY <1>2, <1>4, <1>5
<1>s. /\ slow \in LaunchRuns /\ slow.at = o.at /\ slow.campaign = o.campaign
      /\ slow.batch = o.batch /\ slow.to = o.to
  BY <1>2 DEF LaunchRuns
<1> HIDE DEF slow
<1>7. r \in LaunchRuns /\ AtWork(r, campaign')
  <2>1. AtWork(slow, campaign')
    BY <1>1, <1>2, <1>s DEF AtWork
  <2> QED BY <1>s, <2>1, NoLaunchRun
<1>8. ASSUME NEW a \in 1 .. N
      PROVE  In(c, WhatPends(a)') + Comes(r, a, launchEmailSentAt) + launchFaults
               <= In(c, WhatPends(a)) + Comes(launchRun[w], a, launchEmailSentAt) + launchFaults'
  <2>1. Comes(r, a, launchEmailSentAt) <= Comes(o, a, launchEmailSentAt)
    <3>1. Comes(L!NoRun, a, launchEmailSentAt) = 0 /\ Comes(o, a, launchEmailSentAt) \in {0, 1}
      BY NoLaunchRun, ComesIsOneOrNone
    <3>2. Comes(slow, a, launchEmailSentAt) = Comes(o, a, launchEmailSentAt)
      BY <1>s DEF Comes
    <3> QED BY <3>1, <3>2
  <2>2. /\ In(c, WhatPends(a)) \in {0, 1} /\ In(c, WhatPends(a)') \in {0, 1}
        /\ Comes(r, a, launchEmailSentAt) \in {0, 1} /\ Comes(o, a, launchEmailSentAt) \in {0, 1}
    BY InIsOneOrNone, ComesIsOneOrNone, Zenon
  <2> HIDE DEF o, c, r
  <2> QED BY <1>2, <2>1, <2>2 DEF o
<1> QED BY <1>1, <1>2, <1>3, <1>6, <1>7, <1>8, QuietLaunchStep

LEMMA ReadComes ==
  ASSUME LaunchInv, NEW w \in Processes, L!Read(w)
  PROVE  LaunchInv'
<1> DEFINE o == launchRun[w]
           c == o.campaign
           b == Firsts(L!Unsent, LAUNCH_BATCH_SIZE)
           r == [o EXCEPT !.at = "send", !.batch = b]
<1>1. /\ o.at = "read"
      /\ UNCHANGED <<launchEmailSentAt, campaign, launchJob, mails>>
  BY DEF L!Read, L!rows
<1>2. CASE UNCHANGED launchFaults /\ L!To(w, "done")
  BY <1>1, <1>2, ToComes
<1>3. CASE L!Fault /\ L!To(w, "fail")
  BY <1>1, <1>3, ToComes
<1>4. CASE UNCHANGED launchFaults /\ L!Unsent # {} /\ launchRun' = [launchRun EXCEPT ![w] = r]
  <2>1. /\ o \in LaunchRuns /\ AtWork(o, campaign) /\ launchFaults \in Nat
        /\ launchJob \in [Campaigns -> LaunchJobs]
    BY LaunchFacts
  <2>2. c \in Campaigns /\ campaign[c] # "none" /\ o.batch = {}
    BY <1>1, <2>1 DEF AtWork
  <2>3. L!Unsent \in SUBSET (1 .. N) /\ \A a \in L!Unsent : ~launchEmailSentAt[a]
    BY DEF L!Unsent, L!Addresses
  <2>4. b \subseteq L!Unsent /\ b # {}
    <3>1. LAUNCH_BATCH_SIZE \in Nat \ {0}
      BY BatchesAssumption
    <3> QED BY <1>4, <2>3, <3>1, FirstsFacts
  <2> HIDE DEF b
  <2>5. r \in LaunchRuns /\ r.at = "send" /\ r.batch = b /\ r.campaign = c
    BY <2>1, <2>3, <2>4 DEF LaunchRuns
  <2> HIDE DEF r
  <2>6. AtWork(r, campaign')
    BY <1>1, <2>2, <2>4, <2>5 DEF AtWork
  <2>7. ASSUME NEW a \in 1 .. N
        PROVE  In(c, WhatPends(a)') + Comes(r, a, launchEmailSentAt) + launchFaults
                 <= In(c, WhatPends(a)) + Comes(launchRun[w], a, launchEmailSentAt) + launchFaults'
    <3>1. In(c, WhatPends(a)') = In(c, WhatPends(a))
      BY <1>1 DEF In, WhatPends, Pending
    <3>2. Comes(r, a, launchEmailSentAt) <= Comes(o, a, launchEmailSentAt)
      <4>1. Comes(r, a, launchEmailSentAt) = 1 => ~launchEmailSentAt[a]
        BY <2>3, <2>4, <2>5 DEF Comes
      <4>2. ~launchEmailSentAt[a] => Comes(o, a, launchEmailSentAt) = 1
        BY <1>1 DEF Comes
      <4> QED BY <4>1, <4>2, ComesIsOneOrNone
    <3>3. /\ In(c, WhatPends(a)) \in {0, 1}
          /\ Comes(r, a, launchEmailSentAt) \in {0, 1} /\ Comes(o, a, launchEmailSentAt) \in {0, 1}
      BY InIsOneOrNone, ComesIsOneOrNone, Zenon
    <3> HIDE DEF o, c
    <3> QED BY <1>4, <2>1, <3>1, <3>2, <3>3 DEF o
  <2>8. launchFaults' \in Nat
    BY <1>4, <2>1
  <2> QED BY <1>1, <1>4, <2>1, <2>2, <2>5, <2>6, <2>7, <2>8, QuietLaunchStep
<1>5. L!FirstOf(L!Unsent, LAUNCH_BATCH_SIZE) = b
  BY FirstsAreFirst
<1> QED BY <1>2, <1>3, <1>4, <1>5 DEF L!Read, L!Becomes

(* An address leaves its batch, with a mail or without.                    *)
LEMMA SendComes ==
  ASSUME LaunchInv, NEW w \in Processes, L!Send(w)
  PROVE  LaunchInv'
<1> DEFINE o == launchRun[w]
           c == o.campaign
           x == L!Min(o.batch)
           b == o.batch \ {x}
           sent == [o EXCEPT !.batch = b, !.to = x, !.at = "mark"]
           at == IF b = {} THEN "count" ELSE "send"
           skipped == [o EXCEPT !.batch = b, !.to = 0, !.at = at]
           more == [mails EXCEPT ![x] = mails[x] + 1]
<1>1. /\ o.at = "send"
      /\ UNCHANGED <<launchEmailSentAt, campaign, launchJob>>
  BY DEF L!Send, L!rows
<1>2. /\ o \in LaunchRuns /\ AtWork(o, campaign) /\ launchFaults \in Nat
      /\ launchJob \in [Campaigns -> LaunchJobs] /\ mails \in [1 .. N -> Nat]
      /\ launchEmailSentAt \in [1 .. N -> BOOLEAN]
      /\ campaign \in [Campaigns -> {"none", "Queued", "Sending", "Done", "Failed"}]
  BY LaunchFacts
<1>3. c \in Campaigns /\ campaign[c] # "none" /\ o.batch # {} /\ o.batch \in SUBSET (1 .. N)
  BY <1>1, <1>2 DEF AtWork, LaunchRuns
<1>4. x \in o.batch /\ x \in 1 .. N
  BY <1>3, LeastAndGreatest
<1>5. \/ launchRun' = [launchRun EXCEPT ![w] = sent] /\ mails' \in {mails, more} /\ UNCHANGED launchFaults
      \/ /\ launchRun' = [launchRun EXCEPT ![w] = skipped] /\ mails' = mails
         /\ launchFaults' = launchFaults \/ L!Fault
  <2>1. L!Skipped(w) => launchRun' = [launchRun EXCEPT ![w] = skipped]
    <3> DEFINE q == [o EXCEPT !.batch = b]
    <3>1. q.batch = b /\ [q EXCEPT !.to = 0, !.at = at] = skipped
      BY <1>2 DEF LaunchRuns
    <3>2. L!Skipped(w) <=> L!Onward(w, q)
      BY DEF L!Skipped
    <3>3. L!Onward(w, q) => launchRun' = [launchRun EXCEPT ![w] =
                              [q EXCEPT !.to = 0, !.at = IF q.batch = {} THEN "count" ELSE "send"]]
      BY DEF L!Onward, L!Becomes
    <3> QED BY <3>1, <3>2, <3>3
  <2>2. L!Becomes(w, sent) => launchRun' = [launchRun EXCEPT ![w] = sent]
    BY DEF L!Becomes
  <2>3. \/ L!Becomes(w, sent) /\ UNCHANGED <<mails, launchFaults>>
        \/ L!Becomes(w, sent) /\ mails' = more /\ UNCHANGED launchFaults
        \/ L!Skipped(w) /\ UNCHANGED <<mails, launchFaults>>
        \/ L!Fault /\ L!Skipped(w) /\ UNCHANGED mails
    BY DEF L!Send
  <2> HIDE DEF sent, skipped, more
  <2> QED BY <2>1, <2>2, <2>3
<1>6. /\ sent \in LaunchRuns /\ sent.at = "mark" /\ sent.batch = b /\ sent.to = x /\ sent.campaign = c
      /\ skipped \in LaunchRuns /\ skipped.at = at /\ skipped.batch = b /\ skipped.campaign = c
  <2>1. b \in SUBSET (1 .. N) /\ x \in 0 .. N /\ 0 \in 0 .. N /\ at \in {"count", "send"}
    BY <1>3, <1>4, BatchesAssumption
  <2> HIDE DEF b, at, x
  <2> QED BY <1>2, <2>1 DEF LaunchRuns
<1>7. AtWork(sent, campaign') /\ AtWork(skipped, campaign')
  BY <1>1, <1>3, <1>6 DEF AtWork
<1> DEFINE r == IF launchRun' = [launchRun EXCEPT ![w] = sent] /\ mails' \in {mails, more} /\ UNCHANGED launchFaults
                THEN sent ELSE skipped
<1>8. /\ r \in {sent, skipped} /\ launchRun' = [launchRun EXCEPT ![w] = r]
      /\ r = sent => mails' \in {mails, more} /\ launchFaults' = launchFaults
      /\ r = skipped => mails' = mails
      /\ launchFaults' = launchFaults \/ L!Fault
  <2>1. sent # skipped
    <3>1. sent.at = "mark" /\ skipped.at # "mark"
      BY <1>6
    <3> HIDE DEF sent, skipped
    <3> QED BY <3>1
  <2> HIDE DEF sent, skipped, more
  <2> QED BY <1>5, <2>1
<1> HIDE DEF r
<1>9. /\ mails' \in [1 .. N -> Nat] /\ \A a \in 1 .. N : mails[a] \in Nat
      /\ \A a \in 1 .. N : mails'[a] = mails[a] \/ (a = x /\ mails'[a] = mails[a] + 1 /\ r = sent)
  <2>1. CASE mails' = mails
    BY <1>2, <2>1
  <2>2. CASE mails' = more /\ r = sent
    BY <1>2, <1>4, <2>2
  <2> HIDE DEF sent, skipped, more
  <2> QED BY <1>8, <2>1, <2>2
<1>10. launchFaults' \in Nat /\ launchFaults <= launchFaults'
  BY <1>2, <1>8, LaunchFacts
<1>11. ASSUME NEW a \in 1 .. N
       PROVE  mails'[a] + In(c, WhatPends(a)') + Comes(r, a, launchEmailSentAt') + launchFaults
                <= mails[a] + In(c, WhatPends(a)) + Comes(launchRun[w], a, launchEmailSentAt) + launchFaults'
  <2>1. In(c, WhatPends(a)') = In(c, WhatPends(a)) /\ In(c, WhatPends(a)) \in {0, 1}
    BY <1>1 DEF In, WhatPends, Pending
  <2>2. Comes(r, a, launchEmailSentAt') = Comes(r, a, launchEmailSentAt)
    BY <1>1
  <2>3. Comes(r, a, launchEmailSentAt) \in {0, 1} /\ Comes(o, a, launchEmailSentAt) \in {0, 1}
    BY ComesIsOneOrNone, Zenon
  <2>4. r.batch = b /\ r.at # "idle" /\ (r = sent => r.at = "mark" /\ r.to = x)
    <3> HIDE DEF sent, skipped
    <3> QED BY <1>6, <1>8
  <2>5. CASE a = x
    <3>1. Comes(o, a, launchEmailSentAt) = 1
      BY <1>4, <2>5 DEF Comes
    <3>2. r = sent => Comes(r, a, launchEmailSentAt) = 0
      BY <2>4, <2>5 DEF Comes
    <3> HIDE DEF o, c, sent, x
    <3> QED BY <1>2, <1>9, <1>10, <2>1, <2>2, <2>3, <2>5, <3>1, <3>2 DEF o
  <2>6. CASE a # x
    <3>1. Comes(r, a, launchEmailSentAt) <= Comes(o, a, launchEmailSentAt)
      BY <1>1, <2>4, <2>6 DEF Comes
    <3> HIDE DEF o, c, sent, x
    <3> QED BY <1>2, <1>9, <1>10, <2>1, <2>2, <2>3, <2>6, <3>1 DEF o
  <2> QED BY <2>5, <2>6
<1>12. /\ r \in LaunchRuns /\ AtWork(r, campaign')
  <2> HIDE DEF sent, skipped
  <2> QED BY <1>6, <1>7, <1>8
<1>13. /\ campaign' \in [Campaigns -> {"none", "Queued", "Sending", "Done", "Failed"}]
       /\ campaign'[c] # "none" /\ \A d \in Campaigns \ {c} : campaign'[d] = campaign[d]
       /\ launchJob' \in [Campaigns -> LaunchJobs]
       /\ \A d \in Campaigns \ {c} : launchJob'[d] = launchJob[d]
       /\ launchEmailSentAt' \in [1 .. N -> BOOLEAN]
       /\ \A a \in 1 .. N : launchEmailSentAt[a] => launchEmailSentAt'[a]
  BY <1>1, <1>2, <1>3
<1> HIDE DEF c
<1> QED BY <1>3, <1>8, <1>9, <1>10, <1>11, <1>12, <1>13, OneLaunchRun

LEMMA MarkComes ==
  ASSUME LaunchInv, NEW w \in Processes, L!Mark(w)
  PROVE  LaunchInv'
<1> DEFINE o == launchRun[w]
           c == o.campaign
           at == IF o.batch = {} THEN "count" ELSE "send"
           r == [o EXCEPT !.to = 0, !.at = at]
<1>1. /\ o.at = "mark" /\ launchRun' = [launchRun EXCEPT ![w] = r]
      /\ UNCHANGED <<campaign, launchJob, mails>>
      /\ \/ /\ launchEmailSentAt' = [launchEmailSentAt EXCEPT ![o.to] = TRUE]
            /\ UNCHANGED launchFaults
         \/ L!Fault /\ UNCHANGED launchEmailSentAt
  BY DEF L!Mark, L!Onward, L!Becomes
<1>2. /\ o \in LaunchRuns /\ AtWork(o, campaign) /\ launchFaults \in Nat
      /\ launchJob \in [Campaigns -> LaunchJobs] /\ mails \in [1 .. N -> Nat]
      /\ launchEmailSentAt \in [1 .. N -> BOOLEAN]
      /\ campaign \in [Campaigns -> {"none", "Queued", "Sending", "Done", "Failed"}]
  BY LaunchFacts
<1>3. c \in Campaigns /\ campaign[c] # "none"
  BY <1>1, <1>2 DEF AtWork
<1>4. r \in LaunchRuns /\ r.at = at /\ r.batch = o.batch /\ r.campaign = c /\ at \in {"count", "send"}
  <2>1. 0 \in 0 .. N /\ at \in {"count", "send"}
    BY BatchesAssumption
  <2> HIDE DEF at
  <2> QED BY <1>2, <2>1 DEF LaunchRuns
<1> HIDE DEF r
<1>5. AtWork(r, campaign')
  BY <1>1, <1>3, <1>4 DEF AtWork
<1>6. /\ launchEmailSentAt' \in [1 .. N -> BOOLEAN]
      /\ \A a \in 1 .. N : launchEmailSentAt[a] => launchEmailSentAt'[a]
      /\ \A a \in 1 .. N : a # o.to => launchEmailSentAt'[a] = launchEmailSentAt[a]
      /\ launchFaults' \in Nat /\ launchFaults <= launchFaults'
      /\ \/ o.to \in 1 .. N => launchEmailSentAt'[o.to]
         \/ launchFaults' = launchFaults + 1
  <2>1. CASE /\ launchEmailSentAt' = [launchEmailSentAt EXCEPT ![o.to] = TRUE]
             /\ UNCHANGED launchFaults
    <3> DEFINE t == o.to
    <3>1. launchEmailSentAt' = [launchEmailSentAt EXCEPT ![t] = TRUE]
      BY <2>1
    <3>2. launchEmailSentAt \in [1 .. N -> BOOLEAN]
      BY <1>2
    <3> HIDE DEF t
    <3>3. launchEmailSentAt' \in [1 .. N -> BOOLEAN]
      BY ONLY <3>1, <3>2
    <3>4. t \in 1 .. N => launchEmailSentAt'[t]
      BY ONLY <3>1, <3>2
    <3>5. \A a \in 1 .. N : a # t => launchEmailSentAt'[a] = launchEmailSentAt[a]
      BY ONLY <3>1, <3>2, Zenon
    <3>6. \A a \in 1 .. N : launchEmailSentAt[a] => launchEmailSentAt'[a]
      BY <3>4, <3>5, Zenon
    <3>7. launchFaults' \in Nat /\ launchFaults <= launchFaults'
      BY <1>2, <2>1
    <3> QED BY <3>3, <3>4, <3>5, <3>6, <3>7 DEF t
  <2>2. CASE L!Fault /\ UNCHANGED launchEmailSentAt
    BY <1>2, <2>2, LaunchFacts
  <2> QED BY <1>1, <2>1, <2>2
<1>7. ASSUME NEW a \in 1 .. N
      PROVE  mails'[a] + In(c, WhatPends(a)') + Comes(r, a, launchEmailSentAt') + launchFaults
               <= mails[a] + In(c, WhatPends(a)) + Comes(launchRun[w], a, launchEmailSentAt) + launchFaults'
  <2>1. In(c, WhatPends(a)') <= In(c, WhatPends(a))
    BY <1>1, <1>6 DEF In, WhatPends, Pending
  <2>2. In(c, WhatPends(a)') \in {0, 1} /\ In(c, WhatPends(a)) \in {0, 1}
    BY InIsOneOrNone, Zenon
  <2>3. Comes(r, a, launchEmailSentAt') \in {0, 1} /\ Comes(o, a, launchEmailSentAt) \in {0, 1}
    BY ComesIsOneOrNone, Zenon
  <2>4. mails'[a] = mails[a] /\ mails[a] \in Nat
    BY <1>1, <1>2
  <2>5. \/ Comes(r, a, launchEmailSentAt') <= Comes(o, a, launchEmailSentAt)
        \/ launchFaults' = launchFaults + 1
    <3>1. CASE a # o.to
      BY <1>1, <1>4, <1>6, <3>1 DEF Comes
    <3>2. CASE a = o.to /\ launchEmailSentAt'[a]
      <4>1. Comes(r, a, launchEmailSentAt') = 1 => a \in o.batch
        BY <1>4, <3>2 DEF Comes
      <4>2. a \in o.batch => Comes(o, a, launchEmailSentAt) = 1
        BY DEF Comes
      <4> QED BY <2>3, <4>1, <4>2
    <3>3. CASE launchFaults' = launchFaults + 1
      BY <3>3
    <3> QED BY <1>6, <3>1, <3>2, <3>3
  <2> HIDE DEF o, c
  <2> QED BY <1>2, <1>6, <2>1, <2>2, <2>3, <2>4, <2>5 DEF o
<1>8. /\ campaign' \in [Campaigns -> {"none", "Queued", "Sending", "Done", "Failed"}]
      /\ campaign'[c] # "none" /\ \A d \in Campaigns \ {c} : campaign'[d] = campaign[d]
      /\ launchJob' \in [Campaigns -> LaunchJobs]
      /\ \A d \in Campaigns \ {c} : launchJob'[d] = launchJob[d]
      /\ mails' \in [1 .. N -> Nat]
  BY <1>1, <1>2, <1>3
<1> HIDE DEF c
<1> QED BY <1>1, <1>3, <1>4, <1>5, <1>6, <1>7, <1>8, OneLaunchRun

LEMMA OtherPointsComes ==
  ASSUME LaunchInv, NEW w \in Processes, L!Start(w) \/ L!Begin(w) \/ L!Count(w) \/ L!Done(w) \/ L!Fail(w)
  PROVE  LaunchInv'
<1>1. UNCHANGED <<launchEmailSentAt, mails>>
  BY DEF L!Start, L!Begin, L!Count, L!Done, L!Fail, L!rows
<1>2. CASE L!Start(w)
  <2>1. launchRun[w].at = "start" /\ UNCHANGED campaign
    BY <1>2 DEF L!Start
  <2>2. CASE L!Ends(w, "completed") /\ UNCHANGED launchFaults
    BY <1>1, <2>1, <2>2, EndsComes
  <2>3. CASE L!To(w, "begin") /\ UNCHANGED <<launchJob, launchFaults>>
    BY <1>1, <2>1, <2>3, ToComes
  <2>4. CASE L!Fault /\ L!Thrown(w)
    BY <1>1, <2>1, <2>4, ThrownComes
  <2> QED BY <1>2, <2>2, <2>3, <2>4 DEF L!Start
<1>3. CASE L!Begin(w)
  <2>1. launchRun[w].at = "begin"
    BY <1>3 DEF L!Begin
  <2>2. CASE /\ campaign' = [campaign EXCEPT ![launchRun[w].campaign] = "Sending"]
             /\ L!To(w, "read") /\ UNCHANGED <<launchJob, launchFaults>>
    BY <1>1, <2>1, <2>2, ToComes
  <2>3. CASE L!Fault /\ L!Thrown(w) /\ UNCHANGED campaign
    BY <1>1, <2>1, <2>3, ThrownComes
  <2> QED BY <1>3, <2>2, <2>3 DEF L!Begin, L!Writes
<1>4. CASE L!Count(w)
  <2>1. launchRun[w].at = "count" /\ UNCHANGED <<campaign, launchJob>>
    BY <1>4 DEF L!Count
  <2>2. CASE L!To(w, "read") /\ UNCHANGED launchFaults
    BY <1>1, <2>1, <2>2, ToComes
  <2>3. CASE L!Fault /\ L!To(w, "fail")
    BY <1>1, <2>1, <2>3, ToComes
  <2> QED BY <1>4, <2>2, <2>3 DEF L!Count
<1>5. CASE L!Done(w)
  <2>1. launchRun[w].at = "done"
    BY <1>5 DEF L!Done
  <2>2. CASE /\ campaign' = [campaign EXCEPT ![launchRun[w].campaign] = "Done"]
             /\ L!Ends(w, "completed") /\ UNCHANGED launchFaults
    BY <1>1, <2>1, <2>2, EndsComes
  <2>3. CASE L!Fault /\ L!To(w, "fail") /\ UNCHANGED <<campaign, launchJob>>
    BY <1>1, <2>1, <2>3, ToComes
  <2> QED BY <1>5, <2>2, <2>3 DEF L!Done, L!Writes
<1>6. CASE L!Fail(w)
  <2>1. /\ launchRun[w].at = "fail" /\ L!Thrown(w)
        /\ \/ /\ campaign' = [campaign EXCEPT ![launchRun[w].campaign] = "Failed"]
              /\ launchFaults' = launchFaults
           \/ L!Fault /\ campaign' = campaign
    BY <1>6 DEF L!Fail, L!Writes
  <2> QED BY <1>1, <2>1, ThrownComes
<1> QED BY <1>2, <1>3, <1>4, <1>5, <1>6

LEMMA NothingComes ==
  ASSUME LaunchInv,
         UNCHANGED <<launchEmailSentAt, campaign, launchJob, launchRun, mails, launchFaults>>
  PROVE  LaunchInv'
<1>1. \A a : WhoComes(a)' = WhoComes(a) /\ WhatPends(a)' = WhatPends(a)
  BY DEF WhoComes, WhatPends, Pending
<1>2. LaunchTypes' /\ NotBegun' /\ AllMailed'
  BY <1>1 DEF LaunchInv, LaunchTypes, NotBegun, AllMailed
<1> QED BY <1>2 DEF LaunchInv

LEMMA EnqueueComes ==
  ASSUME LaunchInv, NEW c \in Campaigns, L!EnqueueLaunch(c)
  PROVE  LaunchInv'
<1> DEFINE j == [launchJob[c] EXCEPT !.at = "waiting"]
<1>1. /\ campaign[c] = "none" /\ campaign' = [campaign EXCEPT ![c] = "Queued"]
      /\ UNCHANGED <<launchEmailSentAt, launchRun, mails>>
  BY DEF L!EnqueueLaunch, L!rows
<1>2. /\ launchJob \in [Campaigns -> LaunchJobs] /\ launchFaults \in Nat
      /\ campaign \in [Campaigns -> {"none", "Queued", "Sending", "Done", "Failed"}]
  BY LaunchFacts
<1>3. \/ launchJob' = [launchJob EXCEPT ![c] = j] /\ UNCHANGED launchFaults
      \/ L!Fault /\ launchJob' = launchJob
  BY <1>2 DEF L!EnqueueLaunch
<1>4. j \in LaunchJobs
  BY <1>2 DEF LaunchJobs
<1> HIDE DEF j
<1>5. /\ launchJob' \in [Campaigns -> LaunchJobs]
      /\ \A d \in Campaigns \ {c} : launchJob'[d] = launchJob[d]
  BY <1>2, <1>3, <1>4
<1>6. /\ campaign' \in [Campaigns -> {"none", "Queued", "Sending", "Done", "Failed"}]
      /\ campaign'[c] = "Queued" /\ \A d \in Campaigns \ {c} : campaign'[d] = campaign[d]
  BY <1>1, <1>2
<1>7. launchFaults' \in Nat /\ launchFaults <= launchFaults'
  BY <1>2, <1>3, LaunchFacts
<1>8. LaunchTypes'
  BY <1>1, <1>5, <1>6, <1>7 DEF LaunchInv, LaunchTypes
<1>9. NotBegun'
  <2>1. \A d \in Campaigns : launchJob[d].at # "none" => campaign[d] # "none"
    BY LaunchFacts
  <2> QED BY <1>5, <1>6, <2>1 DEF NotBegun
<1>10. ASSUME NEW a \in 1 .. N
       PROVE  mails'[a] + Cardinality(WhatPends(a)') + Cardinality(WhoComes(a)')
                <= Cardinality(Campaigns) + launchFaults'
  <2>1. WhoComes(a)' = WhoComes(a) /\ mails' = mails
    BY <1>1 DEF WhoComes
  <2>2. WhatPends(a)' \subseteq WhatPends(a)
    <3>1. ASSUME NEW d \in Campaigns, Pending(d, a)' PROVE Pending(d, a)
      <4>1. CASE d = c
        BY <1>1, <3>1, <4>1 DEF Pending
      <4>2. CASE d # c
        BY <1>1, <1>5, <1>6, <3>1, <4>2 DEF Pending
      <4> QED BY <4>1, <4>2
    <3> QED BY <3>1 DEF WhatPends
  <2>3. /\ Cardinality(WhatPends(a)') <= Cardinality(WhatPends(a))
        /\ Cardinality(WhatPends(a)') \in Nat /\ Cardinality(WhatPends(a)) \in Nat
        /\ Cardinality(WhoComes(a)) \in Nat
    BY <2>2, LaunchFacts, FS_Subset, FS_CardinalityType
  <2>4. mails[a] + Cardinality(WhatPends(a)) + Cardinality(WhoComes(a)) <= Cardinality(Campaigns) + launchFaults
    BY DEF LaunchInv, AllMailed
  <2>5. mails[a] \in Nat /\ Cardinality(Campaigns) \in Nat
    BY LaunchFacts, BatchesAssumption, FS_CardinalityType
  <2> QED BY <1>2, <1>7, <2>1, <2>3, <2>4, <2>5
<1>11. \A w \in Processes : AtWork(launchRun'[w], campaign')
  <2>1. ASSUME NEW w \in Processes PROVE AtWork(launchRun[w], campaign')
    <3>1. AtWork(launchRun[w], campaign)
      BY LaunchFacts
    <3> QED BY <1>6, <3>1 DEF AtWork
  <2> QED BY <1>1, <2>1
<1>12. AllMailed'
  BY <1>10 DEF AllMailed
<1> QED BY <1>8, <1>9, <1>11, <1>12 DEF LaunchInv

LEMMA LaunchInvStarts == L!Init => LaunchInv
<1> SUFFICES ASSUME L!Init PROVE LaunchInv
  OBVIOUS
<1>1. /\ launchEmailSentAt = [a \in 1 .. N |-> FALSE] /\ campaign = [c \in Campaigns |-> "none"]
      /\ launchJob = [c \in Campaigns |-> [at |-> "none", made |-> 0, stalled |-> 0]]
      /\ launchRun = [w \in Processes |-> L!NoRun]
      /\ mails = [a \in 1 .. N |-> 0] /\ launchFaults = 0
  BY DEF L!Init, L!Addresses
<1>2. LaunchTypes
  BY <1>1, NoLaunchRun DEF LaunchTypes, LaunchJobs
<1>3. NotBegun
  BY <1>1 DEF NotBegun
<1>4. ASSUME NEW a \in 1 .. N
      PROVE  mails[a] + Cardinality(WhatPends(a)) + Cardinality(WhoComes(a)) <= Cardinality(Campaigns) + launchFaults
  <2>1. WhoComes(a) = {}
    BY <1>1, NoLaunchRun DEF WhoComes
  <2>2. IsFiniteSet(Campaigns) /\ WhatPends(a) \subseteq Campaigns
    BY BatchesAssumption DEF WhatPends
  <2>3. /\ Cardinality(WhatPends(a)) <= Cardinality(Campaigns)
        /\ Cardinality(WhatPends(a)) \in Nat /\ Cardinality(Campaigns) \in Nat
    BY <2>2, FS_Subset, FS_CardinalityType
  <2>4. mails[a] = 0 /\ launchFaults = 0 /\ Cardinality(WhoComes(a)) = 0
    BY <1>1, <2>1, FS_EmptySet
  <2> QED BY <2>3, <2>4
<1>5. AllMailed
  BY <1>4 DEF AllMailed
<1>6. \A w \in Processes : AtWork(launchRun[w], campaign)
  BY <1>1, NoLaunchRun
<1> QED BY <1>2, <1>3, <1>5, <1>6 DEF LaunchInv

LEMMA LaunchInvStays == LaunchInv /\ [L!Next]_launchVars => LaunchInv'
<1> SUFFICES ASSUME LaunchInv, [L!Next]_launchVars PROVE LaunchInv'
  OBVIOUS
<1>1. CASE UNCHANGED launchVars
  BY <1>1, NothingComes DEF launchVars
<1>2. ASSUME NEW a, L!Subscribe(a) \/ L!OptOut(a) \/ L!Unsubscribe(a) PROVE LaunchInv'
  BY <1>2, NothingComes DEF L!Subscribe, L!OptOut, L!Unsubscribe
<1>3. ASSUME NEW c \in Campaigns, L!EnqueueLaunch(c) PROVE LaunchInv'
  BY <1>3, EnqueueComes
<1>4. ASSUME NEW w \in Processes, L!Work(w) PROVE LaunchInv'
  BY <1>4, TakeComes, ReadComes, SendComes, MarkComes, OtherPointsComes DEF L!Work
<1>5. ASSUME NEW w \in Processes, NEW alive \in BOOLEAN, L!Stalled(w, alive) PROVE LaunchInv'
  BY <1>5, StalledComes
<1>6. ASSUME NEW w \in Processes, L!Dies(w) PROVE LaunchInv'
  BY <1>6, DiesComes
<1> QED BY <1>1, <1>2, <1>3, <1>4, <1>5, <1>6 DEF L!Next

LEMMA LaunchesKeepTheirPromise == LaunchInv => L!MailsBounded
<1> SUFFICES ASSUME LaunchInv, NEW a \in 1 .. N
             PROVE  mails[a] <= L!Cardinality(Campaigns) + launchFaults
  BY DEF L!MailsBounded, L!Addresses
<1>1. mails[a] + Cardinality(WhatPends(a)) + Cardinality(WhoComes(a)) <= Cardinality(Campaigns) + launchFaults
  BY DEF LaunchInv, AllMailed
<1>2. /\ mails[a] \in Nat /\ launchFaults \in Nat /\ Cardinality(Campaigns) \in Nat
      /\ Cardinality(WhatPends(a)) \in Nat /\ Cardinality(WhoComes(a)) \in Nat
  BY LaunchFacts, BatchesAssumption, FS_CardinalityType
<1>3. mails[a] <= Cardinality(Campaigns) + launchFaults
  BY <1>1, <1>2
<1> QED BY <1>3, MailingsCount

-----------------------------------------------------------------------------
(***************************************************************************)
(* "Sending".  A step writes the row, or leaves it to the runs it had; a   *)
(* run that has written "Sending" and ends leaves an orphan.               *)
(***************************************************************************)
LEMMA BroadcastStepExplained ==
  ASSUME BroadcastInv, B!SendingExplained, NEW w \in Processes, NEW r,
         broadcastRun' = [broadcastRun EXCEPT ![w] = r],
         \/ message' # "Sending" \/ B!Sending(r) \/ broadcastOrphaned'
         \/ /\ message' = message /\ ~B!Sending(broadcastRun[w])
            /\ broadcastOrphaned => broadcastOrphaned'
  PROVE  B!SendingExplained'
<1>1. /\ broadcastRun'[w] = r
      /\ \A v \in Processes \ {w} : broadcastRun'[v] = broadcastRun[v]
  BY TellingFacts
<1> QED BY <1>1 DEF B!SendingExplained, B!Sending

LEMMA BroadcastExplains ==
  BroadcastInv /\ B!SendingExplained /\ [B!Next]_broadcastVars => B!SendingExplained'
<1> SUFFICES ASSUME BroadcastInv, B!SendingExplained, [B!Next]_broadcastVars
             PROVE  B!SendingExplained'
  OBVIOUS
<1>1. CASE UNCHANGED broadcastVars
  BY <1>1 DEF broadcastVars, B!SendingExplained, B!Sending
<1>2. ASSUME NEW x, NEW s, B!Change(x, s) PROVE B!SendingExplained'
  <2>1. \A v \in Processes : broadcastRun'[v].at = broadcastRun[v].at
    <3>1. ASSUME NEW v \in Processes PROVE broadcastRun'[v].at = broadcastRun[v].at
      <4>1. broadcastRun'[v] = [broadcastRun[v] EXCEPT !.steady = broadcastRun[v].steady \ {x}]
        BY <1>2 DEF B!Change
      <4>2. broadcastRun[v] \in TellingRuns
        BY TellingFacts
      <4> QED BY <4>1, <4>2 DEF TellingRuns
    <3> QED BY <3>1
  <2>2. message' = message /\ broadcastOrphaned' = broadcastOrphaned
    BY <1>2 DEF B!Change
  <2> QED BY <2>1, <2>2 DEF B!SendingExplained, B!Sending
<1>3. CASE B!Enqueue
  BY <1>3 DEF B!Enqueue, B!SendingExplained
<1>4. ASSUME NEW w \in Processes,
             B!Work(w) \/ B!Dies(w) \/ \E alive \in BOOLEAN : B!Stalled(w, alive)
      PROVE  B!SendingExplained'
  <2> DEFINE o == broadcastRun[w]
  <2>1. o \in TellingRuns /\ ~B!Sending(B!NoRun)
    BY TellingFacts DEF B!NoRun, B!Sending
  <2>2. \A x : [o EXCEPT !.at = x].at = x
    BY <2>1 DEF TellingRuns
  <2>3. CASE B!Take(w) \/ B!Start(w)
    <3>1. /\ ~B!Sending(o) /\ message' = message /\ broadcastOrphaned' = broadcastOrphaned
          /\ \E r : broadcastRun' = [broadcastRun EXCEPT ![w] = r]
      BY <2>3 DEF B!Take, B!Start, B!Sending, B!Ends, B!Thrown, B!To, B!Becomes
    <3> QED BY <3>1, BroadcastStepExplained
  <2>4. CASE B!Begin(w)
    <3>1. CASE B!Thrown(w) /\ UNCHANGED <<message, broadcastOrphaned>>
      <4>1. ~B!Sending(o) /\ broadcastRun' = [broadcastRun EXCEPT ![w] = B!NoRun]
        BY <2>4, <3>1 DEF B!Begin, B!Sending, B!Thrown, B!Becomes
      <4> QED BY <3>1, <4>1, BroadcastStepExplained
    <3>2. CASE B!Becomes(w, [o EXCEPT !.at = "read", !.steady = B!Active])
      <4> DEFINE r == [o EXCEPT !.at = "read", !.steady = B!Active]
      <4>1. B!Sending(r) /\ broadcastRun' = [broadcastRun EXCEPT ![w] = r]
        BY <2>1, <3>2 DEF B!Sending, B!Becomes, TellingRuns
      <4> QED BY <4>1, BroadcastStepExplained
    <3> QED BY <2>4, <3>1, <3>2 DEF B!Begin
  <2>5. CASE B!Read(w) \/ B!Write(w)
    <3>1. \E r : B!Sending(r) /\ broadcastRun' = [broadcastRun EXCEPT ![w] = r]
      <4>1. CASE B!To(w, "fail")
        BY <2>2, <4>1 DEF B!To, B!Becomes, B!Sending
      <4>2. CASE B!Read(w) /\ ~B!To(w, "fail")
        <5> DEFINE at == IF B!PageAfter(o.cursor) = {} THEN "done" ELSE "write"
                   k == IF o.cursor # 0 /\ o.cursor \notin B!Active THEN o.skips + 1 ELSE o.skips
                   l == o.lost \/ (o.cursor # 0 /\ user[o.cursor] = "none")
                   r == [o EXCEPT !.at = at, !.page = B!PageAfter(o.cursor), !.skips = k, !.lost = l]
        <5>1. broadcastRun' = [broadcastRun EXCEPT ![w] = r]
          BY <4>2 DEF B!Read, B!Becomes
        <5>2. at \in {"done", "write"}
          OBVIOUS
        <5> HIDE DEF at, k, l
        <5>3. r.at = at
          BY <2>1 DEF TellingRuns
        <5> QED BY <5>1, <5>2, <5>3 DEF B!Sending
      <4>3. CASE B!Write(w) /\ ~B!To(w, "fail")
        <5> DEFINE at == IF B!Last(o.page) THEN "done" ELSE "read"
                   n == o.sent + B!Cardinality(o.page)
                   r == [o EXCEPT !.at = at, !.sent = n, !.cursor = B!Max(o.page), !.page = {}]
        <5>1. broadcastRun' = [broadcastRun EXCEPT ![w] = r]
          BY <4>3 DEF B!Write, B!Becomes
        <5>2. at \in {"done", "read"}
          OBVIOUS
        <5> HIDE DEF at, n
        <5>3. r.at = at
          BY <2>1 DEF TellingRuns
        <5> QED BY <5>1, <5>2, <5>3 DEF B!Sending
      <4> QED BY <2>5, <4>1, <4>2, <4>3
    <3> QED BY <3>1, BroadcastStepExplained
  <2>6. CASE B!Done(w) \/ B!Fail(w) \/ B!Dies(w) \/ \E alive \in BOOLEAN : B!Stalled(w, alive)
    <3>1. \/ /\ broadcastRun' = [broadcastRun EXCEPT ![w] = B!NoRun]
             /\ message' # "Sending" \/ (message' = message /\ B!Orphans(w))
          \/ B!To(w, "fail")
          \/ /\ broadcastRun' = [broadcastRun EXCEPT ![w] = [o EXCEPT !.late = TRUE]]
             /\ UNCHANGED <<message, broadcastOrphaned>>
      BY <2>6 DEF B!Done, B!Fail, B!Dies, B!Stalled, B!Writes, B!Ends, B!Thrown, B!Becomes
    <3>2. CASE /\ broadcastRun' = [broadcastRun EXCEPT ![w] = B!NoRun]
               /\ message' # "Sending" \/ (message' = message /\ B!Orphans(w))
      BY <3>2, BroadcastStepExplained DEF B!Orphans
    <3>3. CASE B!To(w, "fail")
      <4>1. broadcastRun' = [broadcastRun EXCEPT ![w] = [o EXCEPT !.at = "fail"]]
        BY <3>3 DEF B!To, B!Becomes
      <4>2. B!Sending([o EXCEPT !.at = "fail"])
        BY <2>2 DEF B!Sending
      <4> QED BY <4>1, <4>2, BroadcastStepExplained
    <3>4. CASE /\ broadcastRun' = [broadcastRun EXCEPT ![w] = [o EXCEPT !.late = TRUE]]
               /\ UNCHANGED <<message, broadcastOrphaned>>
      <4>1. [o EXCEPT !.late = TRUE].at = o.at
        BY <2>1 DEF TellingRuns
      <4>2. B!Sending([o EXCEPT !.late = TRUE]) <=> B!Sending(o)
        BY <4>1 DEF B!Sending
      <4> QED BY <3>4, <4>2, BroadcastStepExplained
    <3> QED BY <3>1, <3>2, <3>3, <3>4
  <2> QED BY <1>4, <2>3, <2>4, <2>5, <2>6 DEF B!Work
<1> QED BY <1>1, <1>2, <1>3, <1>4 DEF B!Next

LEMMA LaunchStepExplained ==
  ASSUME LaunchInv, L!SendingExplained, NEW w \in Processes, NEW r, NEW c \in Campaigns,
         launchRun' = [launchRun EXCEPT ![w] = r],
         L!Sending(launchRun[w]) => launchRun[w].campaign = c,
         \A d \in Campaigns \ {c} : /\ campaign'[d] = campaign[d]
                                    /\ d \in launchOrphans => d \in launchOrphans',
         \/ campaign'[c] # "Sending" \/ (L!Sending(r) /\ r.campaign = c) \/ c \in launchOrphans'
         \/ /\ campaign'[c] = campaign[c] /\ ~L!Sending(launchRun[w])
            /\ c \in launchOrphans => c \in launchOrphans'
  PROVE  L!SendingExplained'
<1>1. /\ launchRun'[w] = r
      /\ \A v \in Processes \ {w} : launchRun'[v] = launchRun[v]
  BY LaunchFacts
<1>2. ASSUME NEW d \in Campaigns, campaign'[d] = "Sending"
      PROVE  d \in launchOrphans' \/ \E v \in Processes : launchRun'[v].campaign = d /\ L!Sending(launchRun'[v])
  <2>1. CASE d = c
    BY <1>1, <1>2, <2>1 DEF L!SendingExplained
  <2>2. CASE d # c
    BY <1>1, <1>2, <2>2 DEF L!SendingExplained
  <2> QED BY <2>1, <2>2
<1> QED BY <1>2 DEF L!SendingExplained, L!Sending

LEMMA LaunchExplains ==
  LaunchInv /\ L!SendingExplained /\ [L!Next]_launchVars => L!SendingExplained'
<1> SUFFICES ASSUME LaunchInv, L!SendingExplained, [L!Next]_launchVars
             PROVE  L!SendingExplained'
  OBVIOUS
<1>1. CASE UNCHANGED <<campaign, launchRun, launchOrphans>>
  BY <1>1 DEF L!SendingExplained, L!Sending
<1>2. ASSUME NEW c \in Campaigns, L!EnqueueLaunch(c) PROVE L!SendingExplained'
  <2>1. /\ campaign' = [campaign EXCEPT ![c] = "Queued"] /\ campaign \in [Campaigns ->
              {"none", "Queued", "Sending", "Done", "Failed"}]
        /\ UNCHANGED <<launchRun, launchOrphans>>
    BY <1>2, LaunchFacts DEF L!EnqueueLaunch
  <2>2. \A d \in Campaigns : campaign'[d] = "Sending" => campaign[d] = "Sending"
    BY <2>1
  <2> QED BY <2>1, <2>2 DEF L!SendingExplained, L!Sending
<1>3. ASSUME NEW w \in Processes, NEW c \in Campaigns, L!Take(w, c) PROVE L!SendingExplained'
  <2>1. /\ ~L!Sending(launchRun[w]) /\ campaign' = campaign /\ launchOrphans' = launchOrphans
        /\ launchRun' = [launchRun EXCEPT ![w] = [L!NoRun EXCEPT !.at = "start", !.campaign = c]]
    BY <1>3 DEF L!Take, L!Sending, L!Becomes
  <2> QED BY <2>1, LaunchStepExplained
<1>4. ASSUME NEW w \in Processes, launchRun[w].at # "idle",
             \/ L!Start(w) \/ L!Begin(w) \/ L!Read(w) \/ L!Send(w) \/ L!Mark(w) \/ L!Count(w)
             \/ L!Done(w) \/ L!Fail(w) \/ L!Dies(w) \/ \E alive \in BOOLEAN : L!Stalled(w, alive)
      PROVE  L!SendingExplained'
  <2> DEFINE o == launchRun[w]
             c == o.campaign
  <2>1. /\ o \in LaunchRuns /\ c \in Campaigns /\ ~L!Sending(L!NoRun)
        /\ campaign \in [Campaigns -> {"none", "Queued", "Sending", "Done", "Failed"}]
    BY <1>4, LaunchFacts DEF AtWork, L!NoRun, L!Sending
  <2>2. \A x : [o EXCEPT !.at = x].at = x /\ [o EXCEPT !.at = x].campaign = c
    BY <2>1 DEF LaunchRuns
  <2>3. CASE L!Start(w)
    <3>1. ~L!Sending(o) /\ UNCHANGED <<campaign, launchOrphans>>
      BY <2>3 DEF L!Start, L!Sending
    <3>2. \/ launchRun' = [launchRun EXCEPT ![w] = L!NoRun]
          \/ launchRun' = [launchRun EXCEPT ![w] = [o EXCEPT !.at = "begin"]]
      BY <2>3 DEF L!Start, L!Ends, L!Thrown, L!To, L!Becomes
    <3>3. CASE launchRun' = [launchRun EXCEPT ![w] = L!NoRun]
      BY <2>1, <3>1, <3>3, LaunchStepExplained
    <3>4. CASE launchRun' = [launchRun EXCEPT ![w] = [o EXCEPT !.at = "begin"]]
      BY <2>1, <3>1, <3>4, LaunchStepExplained
    <3> QED BY <3>2, <3>3, <3>4
  <2>4. CASE L!Begin(w)
    <3>1. CASE L!Thrown(w) /\ UNCHANGED <<campaign, launchOrphans>>
      <4>1. ~L!Sending(o) /\ launchRun' = [launchRun EXCEPT ![w] = L!NoRun]
        BY <2>4, <3>1 DEF L!Begin, L!Sending, L!Thrown, L!Becomes
      <4> QED BY <2>1, <3>1, <4>1, LaunchStepExplained
    <3>2. CASE L!Writes(w, "Sending") /\ L!To(w, "read")
      <4> DEFINE r == [o EXCEPT !.at = "read"]
      <4>1. L!Sending(r) /\ r.campaign = c /\ launchRun' = [launchRun EXCEPT ![w] = r]
        BY <2>2, <3>2 DEF L!Sending, L!To, L!Becomes
      <4>2. \A d \in Campaigns \ {c} : /\ campaign'[d] = campaign[d]
                                       /\ d \in launchOrphans => d \in launchOrphans'
        BY <2>1, <3>2 DEF L!Writes
      <4> HIDE DEF r
      <4> QED BY <2>1, <4>1, <4>2, LaunchStepExplained
    <3> QED BY <2>4, <3>1, <3>2 DEF L!Begin
  <2>5. CASE L!Read(w) \/ L!Send(w) \/ L!Mark(w) \/ L!Count(w)
    <3>1. campaign' = campaign /\ launchOrphans' = launchOrphans
      BY <2>5 DEF L!Read, L!Send, L!Mark, L!Count
    <3>2. \A q : q \in LaunchRuns /\ q.campaign = c /\ L!Onward(w, q) =>
            \E r : L!Sending(r) /\ r.campaign = c /\ launchRun' = [launchRun EXCEPT ![w] = r]
      <4>1. ASSUME NEW q \in LaunchRuns, q.campaign = c, L!Onward(w, q)
            PROVE  \E r : L!Sending(r) /\ r.campaign = c /\ launchRun' = [launchRun EXCEPT ![w] = r]
        <5> DEFINE at == IF q.batch = {} THEN "count" ELSE "send"
                   r == [q EXCEPT !.to = 0, !.at = at]
        <5>1. launchRun' = [launchRun EXCEPT ![w] = r]
          BY <4>1 DEF L!Onward, L!Becomes
        <5>2. at \in {"count", "send"}
          OBVIOUS
        <5> HIDE DEF at
        <5>3. r.at = at /\ r.campaign = c
          BY <4>1 DEF LaunchRuns
        <5> QED BY <5>1, <5>2, <5>3 DEF L!Sending
      <4> QED BY <4>1
    <3>3. \E r : L!Sending(r) /\ r.campaign = c /\ launchRun' = [launchRun EXCEPT ![w] = r]
      <4>1. CASE \E x \in {"done", "fail", "read"} : L!To(w, x)
        BY <2>2, <4>1 DEF L!To, L!Becomes, L!Sending
      <4>2. CASE L!Becomes(w, [o EXCEPT !.at = "send", !.batch = L!FirstOf(L!Unsent, LAUNCH_BATCH_SIZE)])
        <5> DEFINE b == L!FirstOf(L!Unsent, LAUNCH_BATCH_SIZE)
                   r == [o EXCEPT !.at = "send", !.batch = b]
        <5>1. launchRun' = [launchRun EXCEPT ![w] = r]
          BY <4>2 DEF L!Becomes
        <5> HIDE DEF b
        <5>2. r.at = "send" /\ r.campaign = c
          BY <2>1 DEF LaunchRuns
        <5> QED BY <5>1, <5>2 DEF L!Sending
      <4>3. CASE L!Mark(w)
        BY <2>1, <3>2, <4>3 DEF L!Mark
      <4>4. CASE L!Send(w)
        <5> DEFINE x == L!Min(o.batch)
                   b == o.batch \ {x}
                   sent == [o EXCEPT !.batch = b, !.to = x, !.at = "mark"]
                   q == [o EXCEPT !.batch = b]
        <5>1. launchRun' = [launchRun EXCEPT ![w] = sent] \/ L!Onward(w, q)
          BY <4>4 DEF L!Send, L!Skipped, L!Becomes
        <5>2. b \in SUBSET (1 .. N)
          BY <2>1 DEF LaunchRuns
        <5> HIDE DEF b, x
        <5>3. /\ sent.at = "mark" /\ sent.campaign = c
              /\ q \in LaunchRuns /\ q.campaign = c
          BY <2>1, <5>2 DEF LaunchRuns
        <5> QED BY <3>2, <5>1, <5>3 DEF L!Sending
      <4> QED BY <2>5, <4>1, <4>2, <4>3, <4>4 DEF L!Read, L!Count
    <3>4. PICK r : L!Sending(r) /\ r.campaign = c /\ launchRun' = [launchRun EXCEPT ![w] = r]
      BY <3>3
    <3> QED BY <2>1, <3>1, <3>4, LaunchStepExplained
  <2>6. CASE L!Done(w) \/ L!Fail(w) \/ L!Dies(w) \/ \E alive \in BOOLEAN : L!Stalled(w, alive)
    <3>1. \/ /\ launchRun' = [launchRun EXCEPT ![w] = L!NoRun]
             /\ L!Writes(w, "Done") \/ L!Writes(w, "Failed") \/ (campaign' = campaign /\ L!Orphans(w))
          \/ L!To(w, "fail") /\ UNCHANGED <<campaign, launchOrphans>>
          \/ /\ launchRun' = [launchRun EXCEPT ![w] = [o EXCEPT !.late = TRUE]]
             /\ UNCHANGED <<campaign, launchOrphans>>
      BY <2>6 DEF L!Done, L!Fail, L!Dies, L!Stalled, L!Ends, L!Thrown, L!Becomes
    <3>2. CASE /\ launchRun' = [launchRun EXCEPT ![w] = L!NoRun]
               /\ L!Writes(w, "Done") \/ L!Writes(w, "Failed")
      <4>1. campaign'[c] # "Sending" /\ \A d \in Campaigns \ {c} :
              campaign'[d] = campaign[d] /\ (d \in launchOrphans => d \in launchOrphans')
        BY <2>1, <3>2 DEF L!Writes
      <4> QED BY <2>1, <3>2, <4>1, LaunchStepExplained
    <3>3. CASE /\ launchRun' = [launchRun EXCEPT ![w] = L!NoRun]
               /\ campaign' = campaign /\ L!Orphans(w)
      BY <2>1, <3>3, LaunchStepExplained DEF L!Orphans
    <3>4. CASE L!To(w, "fail") /\ UNCHANGED <<campaign, launchOrphans>>
      <4> DEFINE r == [o EXCEPT !.at = "fail"]
      <4>1. L!Sending(r) /\ r.campaign = c /\ launchRun' = [launchRun EXCEPT ![w] = r]
        BY <2>2, <3>4 DEF L!Sending, L!To, L!Becomes
      <4> HIDE DEF r
      <4> QED BY <2>1, <3>4, <4>1, LaunchStepExplained
    <3>5. CASE /\ launchRun' = [launchRun EXCEPT ![w] = [o EXCEPT !.late = TRUE]]
               /\ UNCHANGED <<campaign, launchOrphans>>
      <4> DEFINE r == [o EXCEPT !.late = TRUE]
      <4>1. r.at = o.at /\ r.campaign = c
        BY <2>1 DEF LaunchRuns
      <4> HIDE DEF r
      <4>2. L!Sending(r) <=> L!Sending(o)
        BY <4>1 DEF L!Sending
      <4>3. launchRun' = [launchRun EXCEPT ![w] = r]
        BY <3>5 DEF r
      <4> QED BY <2>1, <3>5, <4>1, <4>2, <4>3, LaunchStepExplained
    <3> QED BY <3>1, <3>2, <3>3, <3>4, <3>5
  <2> QED BY <1>4, <2>3, <2>4, <2>5, <2>6
<1>5. ASSUME NEW w \in Processes,
             L!Work(w) \/ L!Dies(w) \/ \E alive \in BOOLEAN : L!Stalled(w, alive)
      PROVE  L!SendingExplained'
  <2>1. CASE \E c \in Campaigns : L!Take(w, c)
    BY <1>3, <2>1
  <2>2. CASE ~\E c \in Campaigns : L!Take(w, c)
    <3>1. launchRun[w].at # "idle"
      BY <1>5, <2>2 DEF L!Work, L!Start, L!Begin, L!Read, L!Send, L!Mark, L!Count, L!Done, L!Fail,
                        L!Dies, L!Stalled
    <3> QED BY <1>4, <1>5, <2>2, <3>1 DEF L!Work
  <2> QED BY <2>1, <2>2
<1>6. ASSUME NEW a, L!Subscribe(a) \/ L!OptOut(a) \/ L!Unsubscribe(a) PROVE L!SendingExplained'
  BY <1>1, <1>6 DEF L!Subscribe, L!OptOut, L!Unsubscribe
<1>7. CASE UNCHANGED launchVars
  BY <1>1, <1>7 DEF launchVars
<1> QED BY <1>2, <1>5, <1>6, <1>7 DEF L!Next

-----------------------------------------------------------------------------
LEMMA MailingsInvHolds == MailingsSpec => [](BroadcastInv /\ LaunchInv)
<1>1. MailingsInit => BroadcastInv /\ LaunchInv
  BY BroadcastInvStarts, LaunchInvStarts DEF MailingsInit
<1>2. BroadcastInv /\ LaunchInv /\ [MailingsNext]_mailingsVars => (BroadcastInv /\ LaunchInv)'
  <2> SUFFICES ASSUME BroadcastInv, LaunchInv, [MailingsNext]_mailingsVars
               PROVE  BroadcastInv' /\ LaunchInv'
    OBVIOUS
  <2>1. [B!Next]_broadcastVars /\ [L!Next]_launchVars
    BY DEF MailingsNext, mailingsVars
  <2> QED BY <2>1, BroadcastInvStays, LaunchInvStays
<1> QED BY <1>1, <1>2, PTL DEF MailingsSpec

(* A campaign mails each address once, an announcement is made to each     *)
(* user once, but for the other campaigns and for one more with every      *)
(* fault: a mark that fails, a job handed out twice or begun again         *)
(* (launch.processor.ts:60-69, broadcast.processor.ts:54-63).              *)
THEOREM NobodyHearsTwice == MailingsSpec => []OncePerCause
<1>1. BroadcastInv /\ LaunchInv => OncePerCause
  BY BroadcastsKeepTheirPromises, LaunchesKeepTheirPromise DEF OncePerCause
<1> QED BY <1>1, MailingsInvHolds, PTL

(* When an announcement has come to its end, whoever was active all the    *)
(* time has it, but for one user for each page whose cursor had been       *)
(* banned, and unless a cursor's user was deleted                          *)
(* (broadcast.processor.ts:43-68).                                         *)
THEOREM SteadyUsersAreTold == MailingsSpec => []NobodyLeftOut
<1>1. BroadcastInv => NobodyLeftOut
  BY BroadcastsKeepTheirPromises DEF NobodyLeftOut
<1> QED BY <1>1, MailingsInvHolds, PTL

(* A row says "Sending" only while a run that wrote it is under way, or    *)
(* since one ended without writing it again, its process or its last       *)
(* update having failed (launch.processor.ts:40-43, :85-99;                *)
(* broadcast.processor.ts:35-38, :70-81).                                  *)
THEOREM SendingIsExplained == MailingsSpec => []SendingExplained
<1>1. MailingsInit => SendingExplained
  <2>1. B!Init => B!SendingExplained
    BY DEF B!Init, B!SendingExplained
  <2>2. L!Init => L!SendingExplained
    BY DEF L!Init, L!SendingExplained
  <2> QED BY <2>1, <2>2 DEF MailingsInit, SendingExplained
<1>2. BroadcastInv /\ LaunchInv /\ SendingExplained /\ [MailingsNext]_mailingsVars
        => SendingExplained'
  <2> SUFFICES ASSUME BroadcastInv, LaunchInv, SendingExplained, [MailingsNext]_mailingsVars
               PROVE  SendingExplained'
    OBVIOUS
  <2>1. [B!Next]_broadcastVars /\ [L!Next]_launchVars
    BY DEF MailingsNext, mailingsVars
  <2> QED BY <2>1, BroadcastExplains, LaunchExplains DEF SendingExplained
<1> QED BY <1>1, <1>2, MailingsInvHolds, PTL DEF MailingsSpec
=============================================================================
