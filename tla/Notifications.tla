--------------------------- MODULE Notifications ---------------------------
(***************************************************************************)
(* The notifications of one transfer: a row that appears as a rumour or as *)
(* a transfer and may be confirmed (in a race more than once), each time   *)
(* with an event in the outbox, or deleted, without one; workers that make *)
(* a notification for every user whose favourites match; users who change  *)
(* their favourites and preferences meanwhile.                             *)
(*                                                                         *)
(* Of the outbox only AtLeastOnce is used, which Outbox implements: an     *)
(* event is handled any number of times before it is acknowledged.         *)
(***************************************************************************)
EXTENDS Naturals

CONSTANTS
  Users,          \* users; favourites of any of the four types are one
  Reporter,       \* the user who created the row
  Followers,      \* users whose favourites match at first
  OptOuts,        \* users who are opted out of a type at first
  Workers,        \* processes that run ReactionProcessor
  MaxEvents,      \* bound: events about the row
  MaxChanges,     \* bound: what users do
  MaxFaults       \* bound: failures, and events taken by a second worker

Events == 1 .. MaxEvents
Types  == {"rumour", "transfer"}

ASSUME ConstantsAssumption ==
  /\ Reporter \in Users /\ Followers \subseteq Users
  /\ OptOuts \in [Types -> SUBSET Users]
  /\ MaxEvents \in Nat /\ MaxChanges \in Nat /\ MaxFaults \in Nat

VARIABLES
  kind,           \* isRumour of the row, "none" before there is one
  deleted,        \* isDeleted
  kindOf,         \* ghost: what the row was when an event was written
  submitted, effects, acknowledged,    \* the outbox, as AtLeastOnce sees it
  follows,        \* users with a favourite that matches
  optedOut,       \* user_notification_preference rows with enabled = false
  notes,          \* notification rows: <<user, event type>>
  unread,         \* those with isRead = false
  worker,         \* where a worker is, its event, the type and users it read
  moved,          \* ghost: users who changed something since there is a row
  changes, faults

queue == <<submitted, effects, acknowledged>>
row   == <<kind, deleted, kindOf>>
users == <<follows, optedOut, moved, changes>>
vars  == <<row, queue, users, notes, unread, worker, faults>>

Queue == INSTANCE AtLeastOnce WITH Messages <- Events

Points == {"idle", "begin", "typed", "listed", "create", "mark"}
Idle   == [at |-> "idle", event |-> 0, type |-> "none", left |-> {}]

TypeOK ==
  /\ kind \in Types \cup {"none"} /\ deleted \in BOOLEAN
  /\ kindOf \in [Events -> Types \cup {"none"}]
  /\ submitted \subseteq Events /\ acknowledged \subseteq submitted
  /\ submitted # {} => kind # "none"
  /\ effects \in [Events -> Nat]
  /\ follows \subseteq Users /\ moved \subseteq Users
  /\ optedOut \in [Types -> SUBSET Users]
  /\ unread \subseteq notes /\ notes \subseteq Users \X Types
  /\ worker \in [Workers -> [at : Points, event : Events \cup {0},
                             type : Types \cup {"none"}, left : SUBSET Users]]
  /\ \A w \in Workers :
       /\ worker[w].at # "idle" => worker[w].event \in submitted
       /\ worker[w].at \in {"typed", "listed", "create"} => worker[w].type \in Types
  /\ changes \in Nat /\ faults \in Nat

Init ==
  /\ kind = "none" /\ deleted = FALSE /\ kindOf = [e \in Events |-> "none"]
  /\ Queue!Init
  /\ follows = Followers /\ moved = {}
  /\ optedOut = OptOuts
  /\ notes = {} /\ unread = {}
  /\ worker = [w \in Workers |-> Idle]
  /\ changes = 0 /\ faults = 0

Fault == faults < MaxFaults /\ faults' = faults + 1

-----------------------------------------------------------------------------
(***************************************************************************)
(* The row.  Each write is one transaction with its event.                 *)
(***************************************************************************)
Notify(e, k) ==
  /\ e \in Events \ submitted /\ \A f \in Events : f < e => f \in submitted
  /\ kindOf' = [kindOf EXCEPT ![e] = k]
  /\ kind' = k
  /\ Queue!Submit(e)
  /\ UNCHANGED <<deleted, users, notes, unread, worker, faults>>

CreateRow(k) == kind = "none" /\ Notify(1, k)

(* Variant: the event is forgotten.                                        *)
ConfirmQuietly(e) ==
  /\ e \notin submitted /\ kindOf[1] = "rumour"
  /\ kind' = "transfer"
  /\ UNCHANGED <<deleted, kindOf, queue, users, notes, unread, worker, faults>>

(* A row that was a rumour: a confirmation that has read it before another *)
(* one, or before it was deleted, still writes (see Transfers).            *)
Confirm(e) == kindOf[1] = "rumour" /\ Notify(e, "transfer")

Delete ==
  /\ kind # "none" /\ ~deleted
  /\ deleted' = TRUE
  /\ UNCHANGED <<kind, kindOf, queue, users, notes, unread, worker, faults>>

-----------------------------------------------------------------------------
(***************************************************************************)
(* Users.                                                                  *)
(***************************************************************************)
UserDoes == changes < MaxChanges /\ changes' = changes + 1

Change(u) ==
  /\ UserDoes
  /\ moved' = IF kind = "none" THEN moved ELSE moved \cup {u}
  /\ UNCHANGED <<row, queue, notes, unread, worker, faults>>

(* FavouritesService.add, remove, set: the user matches, or no longer.     *)
SetFavourites(u, match) ==
  /\ Change(u)
  /\ follows' = IF match THEN follows \cup {u} ELSE follows \ {u}
  /\ UNCHANGED optedOut

(* setPreferences: both upserts in one transaction.                        *)
SetPreferences(u, out) ==
  /\ Change(u)
  /\ optedOut' = [t \in Types |-> IF t \in out THEN optedOut[t] \cup {u}
                                               ELSE optedOut[t] \ {u}]
  /\ UNCHANGED follows

(* markRead, markAllRead: some or all of the user's rows.                  *)
MarkRead(u) ==
  /\ UserDoes
  /\ \E t \in SUBSET Types :
       LET mine == unread \cap {<<u, s>> : s \in t} IN
       mine # {} /\ unread' = unread \ mine
  /\ UNCHANGED <<row, queue, follows, optedOut, moved, notes, worker, faults>>

-----------------------------------------------------------------------------
(***************************************************************************)
(* Workers.                                                                *)
(***************************************************************************)
Step(w, r) ==
  /\ worker' = [worker EXCEPT ![w] = r]
  /\ UNCHANGED <<row, users>>

At(w, l) == worker[w].at = l

Free(e) == \A v \in Workers : worker[v].event # e

(* The row is not processed yet.  Another worker may still be at it only   *)
(* if that one's lock has expired.                                         *)
Take(w, e) ==
  /\ At(w, "idle") /\ e \in submitted \ acknowledged
  /\ IF Free(e) THEN UNCHANGED faults ELSE Fault
  /\ Step(w, [Idle EXCEPT !.at = "begin", !.event = e])
  /\ UNCHANGED <<queue, notes, unread>>

Return(w) ==
  /\ Queue!Effect(worker[w].event)
  /\ Step(w, [worker[w] EXCEPT !.at = "mark", !.type = "none", !.left = {}])
  /\ UNCHANGED <<notes, unread, faults>>

(* getTransfer finds no row that is not deleted: nothing to do.            *)
NoTransfer(w) == At(w, "begin") /\ deleted /\ Return(w)

GetTransfer(w) ==
  /\ At(w, "begin") /\ ~deleted
  /\ Step(w, [worker[w] EXCEPT !.at = "typed", !.type = kind])
  /\ UNCHANGED <<queue, notes, unread, faults>>

(* findFavouriteUserIds without the reporter.                              *)
FindUsers(w) ==
  /\ At(w, "typed")
  /\ Step(w, [worker[w] EXCEPT !.at = "listed", !.left = follows \ {Reporter}])
  /\ UNCHANGED <<queue, notes, unread, faults>>

(* Variant: preferences are not asked for.                                 *)
DropNobody(w) ==
  /\ At(w, "listed")
  /\ Step(w, [worker[w] EXCEPT !.at = "create"])
  /\ UNCHANGED <<queue, notes, unread, faults>>

(* getOptedOutUserIds.                                                     *)
DropOptedOut(w) ==
  /\ At(w, "listed")
  /\ Step(w, [worker[w] EXCEPT !.at = "create",
                               !.left = @ \ optedOut[worker[w].type]])
  /\ UNCHANGED <<queue, notes, unread, faults>>

(* Variant: an upsert instead of an insert.                                *)
CreateNotificationAnew(w, u) ==
  LET note == <<u, worker[w].type>> IN
  /\ At(w, "create") /\ u \in worker[w].left
  /\ notes' = notes \cup {note}
  /\ unread' = unread \cup {note}
  /\ Step(w, [worker[w] EXCEPT !.left = @ \ {u}])
  /\ UNCHANGED <<queue, faults>>

(* Variant: the handler gives up at a notification that is there.          *)
CreateNotificationOrEnd(w, u) ==
  LET note == <<u, worker[w].type>> IN
  /\ At(w, "create") /\ u \in worker[w].left
  /\ notes' = notes \cup {note}
  /\ unread' = IF note \in notes THEN unread ELSE unread \cup {note}
  /\ Step(w, [worker[w] EXCEPT !.left = IF note \in notes THEN {} ELSE @ \ {u}])
  /\ UNCHANGED <<queue, faults>>

(* createNotification; a unique violation is swallowed.                    *)
CreateNotification(w, u) ==
  LET note == <<u, worker[w].type>> IN
  /\ At(w, "create") /\ u \in worker[w].left
  /\ notes' = notes \cup {note}
  /\ unread' = IF note \in notes THEN unread ELSE unread \cup {note}
  /\ Step(w, [worker[w] EXCEPT !.left = @ \ {u}])
  /\ UNCHANGED <<queue, faults>>

AllCreated(w) == At(w, "create") /\ worker[w].left = {} /\ Return(w)

(* processedAtUtc is set.                                                  *)
Mark(w) ==
  /\ At(w, "mark")
  /\ Queue!Acknowledge(worker[w].event)
  /\ Step(w, Idle)
  /\ UNCHANGED <<notes, unread, faults>>

(* A query fails or the process ends: the event is handled again.          *)
Fail(w) ==
  /\ ~At(w, "idle")
  /\ Fault
  /\ Step(w, Idle)
  /\ UNCHANGED <<queue, notes, unread>>

WorkerStep(w) ==
  \/ NoTransfer(w) \/ GetTransfer(w) \/ FindUsers(w) \/ DropOptedOut(w)
  \/ AllCreated(w) \/ Mark(w)
  \/ \E u \in Users : CreateNotification(w, u)

Next ==
  \/ Delete
  \/ \E k \in Types : CreateRow(k)
  \/ \E e \in Events : Confirm(e)
  \/ \E u \in Users :
       \/ MarkRead(u)
       \/ \E match \in BOOLEAN : SetFavourites(u, match)
       \/ \E out \in SUBSET Types : SetPreferences(u, out)
  \/ \E w \in Workers :
       \/ WorkerStep(w) \/ Fail(w)
       \/ \E e \in Events : Take(w, e)

Spec == Init /\ [][Next]_vars

(* The outbox gives an event that is not acknowledged to a worker again    *)
(* (EventuallySettled of MCOutbox, whose limits no bound here reaches), and  *)
(* a worker goes on.                                                       *)
Fairness ==
  /\ \A w \in Workers : WF_vars(WorkerStep(w))
  /\ \A e \in Events : WF_vars(\E w \in Workers : Free(e) /\ Take(w, e))

FairSpec == Spec /\ Fairness

-----------------------------------------------------------------------------
(***************************************************************************)
(* Properties.                                                             *)
(***************************************************************************)
(* The users that a notification of type t is for.                         *)
Audience(t) == follows \ (optedOut[t] \cup {Reporter})

(* An acknowledged event has told everybody it was for, even if a handler  *)
(* failed halfway through the list or two handlers shared the work: what   *)
(* the row was when the event was written, or what it has become           *)
(* (notifications.service.ts:63-101).                                      *)
Told ==
  ~deleted =>
    \A e \in acknowledged, u \in Users \ moved :
      \E t \in {kindOf[e], kind} : u \in Audience(t) => <<u, t>> \in notes

(* Nobody is told what they did not ask for, or what the row is not or was *)
(* not: no handler writes 'transfer' before the confirmation has committed *)
(* (notifications.service.ts:68-86).                                       *)
OnlyAsked ==
  \A n \in notes :
    /\ n[1] \notin moved => n[1] \in Audience(n[2])
    /\ n[1] # Reporter
    /\ n[2] \in {kind, kindOf[1]}

(* A notification that was read is not unread again, however often its     *)
(* event is handled (prisma-notification.repository.ts:153-175).           *)
ReadStaysRead == [][\A n \in notes \ unread : n \in notes' \ unread']_vars

(* Whoever is waiting for the transfer hears of it once it is confirmed    *)
(* (faz-6b-rumour-write.md, confirm), unless it is deleted.                *)
EventuallyTold ==
  \A u \in Users :
    kind = "transfer" ~>
      deleted \/ u \in moved \/ u \notin Audience("transfer")
              \/ <<u, "transfer">> \in notes
=============================================================================
