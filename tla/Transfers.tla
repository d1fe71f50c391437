----------------------------- MODULE Transfers -----------------------------
(***************************************************************************)
(* The transfer rows of one deal (one player, from one team to another):   *)
(* rumours that reporters write, transfers that administrators create, and *)
(* what the ingestion of bot posts makes of them.  A rumour is a row with  *)
(* isRumour; confirming it clears the flag; deleting sets isDeleted.  Each *)
(* handler reads first and writes by id later, so that another request may *)
(* have changed the row in between.                                        *)
(***************************************************************************)
EXTENDS Naturals

CONSTANTS
  MaxRows,        \* bound: rows of the deal
  Sources,        \* tweets the bot sends, each perhaps more than once
  Procs,          \* requests that run at the same time
  None            \* no row, no tweet

ASSUME ConstantsAssumption ==
  /\ MaxRows \in Nat
  /\ None \notin (0 .. MaxRows) \cup Sources \cup Procs

VARIABLES
  rows,           \* how many rows there are; a row is its number, the newest last
  kind,           \* isRumour: "rumour" or "transfer"
  deleted,        \* isDeleted
  dated,          \* rows with the date that was announced for the deal
  said,           \* rows whose fee is a rumour's
  posts,          \* tweets that have a post row
  req,            \* a request: where it is, the row it found, its tweet
  origin,         \* sourceId of a row that ingestion made
  official,       \* ghost: the row that was answered for an official tweet
  withdrawn,      \* ghost: transfers deleted by an administrator
  dirty,          \* ghost: requests whose row another one has written since
  overlapped      \* ghost: rows such a request has written

row    == <<rows, kind, deleted, dated, said, origin>>
ghosts == <<official, withdrawn, dirty, overlapped>>
vars   == <<row, posts, req, ghosts>>

Ids == 1 .. MaxRows
Idle == [at |-> "idle", id |-> None, src |-> None]

Requests ==
  {Idle} \cup [at : {"confirm", "update", "remove"}, id : Ids, src : {None}]
         \cup [at : {"create"}, id : {None}, src : {None}]
         \cup [at : {"ingest"}, id : Ids \cup {None}, src : Sources]

TypeOK ==
  /\ rows \in 0 .. MaxRows
  /\ kind \in [Ids -> {"rumour", "transfer"}]
  /\ deleted \subseteq 1 .. rows /\ dated \subseteq 1 .. rows /\ said \subseteq 1 .. rows
  /\ posts \subseteq Sources
  /\ req \in [Procs -> Requests]
  /\ \A p \in Procs : req[p].id # None => req[p].id <= rows
  /\ origin \in [Ids -> Sources \cup {None}]
  /\ official \in [Sources -> Ids \cup {None}]
  /\ withdrawn \subseteq Ids /\ overlapped \subseteq Ids /\ dirty \subseteq Procs

Init ==
  /\ rows = 0
  /\ kind = [i \in Ids |-> "rumour"]
  /\ deleted = {} /\ dated = {} /\ said = {} /\ posts = {}
  /\ req = [p \in Procs |-> Idle]
  /\ origin = [i \in Ids |-> None]
  /\ official = [s \in Sources |-> None]
  /\ withdrawn = {} /\ dirty = {} /\ overlapped = {}

Live == 1 .. rows \ deleted
OpenRumours == {i \in Live : kind[i] = "rumour"}

(* A new row, inserted with its outbox event. *)
Insert(k, d, s) ==
  /\ rows < MaxRows
  /\ rows' = rows + 1
  /\ kind' = [kind EXCEPT ![rows + 1] = k]
  /\ dated' = IF d THEN dated \cup {rows + 1} ELSE dated
  /\ said' = IF k = "rumour" THEN said \cup {rows + 1} ELSE said
  /\ origin' = [origin EXCEPT ![rows + 1] = s]
  /\ UNCHANGED deleted

(* Row i is written by p, or by a request of one query: who has read it    *)
(* has read something old.                                                 *)
Touch(i, p) ==
  /\ dirty' = (dirty \cup {q \in Procs : req[q].id = i}) \ {p}
  /\ overlapped' = IF p \in dirty THEN overlapped \cup {i} ELSE overlapped

Begin(p, at, i, s) ==
  /\ req[p] = Idle
  /\ req' = [req EXCEPT ![p] = [at |-> at, id |-> i, src |-> s]]
  /\ UNCHANGED <<row, posts, ghosts>>

End(p) == req' = [req EXCEPT ![p] = Idle]

-----------------------------------------------------------------------------
(***************************************************************************)
(* Rumours.                                                                *)
(***************************************************************************)
CreateRumour ==
  /\ Insert("rumour", FALSE, None)
  /\ UNCHANGED <<posts, req, ghosts>>

(* getRumourMeta: the row is a rumour and not deleted. *)
FindRumour(p, i) ==
  /\ i \in OpenRumours
  /\ \E at \in {"confirm", "update", "remove"} : Begin(p, at, i, None)

(* Variant: confirming leaves the rumour's fee. *)
ConfirmFlagOnly(i) ==
  /\ kind' = [kind EXCEPT ![i] = "transfer"]
  /\ dated' = dated \cup {i}
  /\ UNCHANGED <<rows, deleted, said, origin>>

(* confirmRumour: update by id, deleted or not, rumour or not. *)
ConfirmRow(i) ==
  /\ kind' = [kind EXCEPT ![i] = "transfer"]
  /\ dated' = dated \cup {i}
  /\ said' = said \ {i}
  /\ UNCHANGED <<rows, deleted, origin>>

Confirm(p) ==
  /\ req[p].at = "confirm"
  /\ ConfirmRow(req[p].id)
  /\ Touch(req[p].id, p)
  /\ End(p)
  /\ UNCHANGED <<posts, official, withdrawn>>

(* updateRumour: the fee is the rumour's again. *)
Update(p) ==
  /\ req[p].at = "update"
  /\ said' = said \cup {req[p].id}
  /\ Touch(req[p].id, p)
  /\ End(p)
  /\ UNCHANGED <<rows, kind, deleted, dated, origin, posts, official, withdrawn>>

Remove(p) ==
  /\ req[p].at = "remove"
  /\ deleted' = deleted \cup {req[p].id}
  /\ Touch(req[p].id, p)
  /\ End(p)
  /\ UNCHANGED <<rows, kind, dated, said, origin, posts, official, withdrawn>>

-----------------------------------------------------------------------------
(***************************************************************************)
(* Administrators: writes by id on any row.                                *)
(***************************************************************************)
(* existsDuplicate: no row of the deal has the date. *)
CheckDuplicate(p) ==
  /\ Live \cap dated = {}
  /\ Begin(p, "create", None, None)

Create(p) ==
  /\ req[p].at = "create"
  /\ Insert("transfer", TRUE, None)
  /\ End(p)
  /\ UNCHANGED <<posts, ghosts>>

(* updateTransfer, patchTransfer: d if the date becomes the announced one. *)
AdminUpdate(i, d) ==
  /\ i \in 1 .. rows
  /\ dated' = IF d THEN dated \cup {i} ELSE dated \ {i}
  /\ said' = said \ {i}
  /\ Touch(i, None)
  /\ UNCHANGED <<rows, kind, deleted, origin, posts, req, official, withdrawn>>

AdminRemove(i) ==
  /\ i \in 1 .. rows
  /\ deleted' = deleted \cup {i}
  /\ withdrawn' = IF kind[i] = "transfer" THEN withdrawn \cup {i} ELSE withdrawn
  /\ Touch(i, None)
  /\ UNCHANGED <<rows, kind, dated, said, origin, posts, req, official>>

-----------------------------------------------------------------------------
(***************************************************************************)
(* Ingestion of a tweet about the deal.  The post row is inserted first,   *)
(* its sourceId is unique: a second transaction with the same tweet waits  *)
(* for the first and fails when that commits.                              *)
(***************************************************************************)
(* Variant: only posts that are committed are looked at. *)
NewTweetCommitted(s) == s \notin posts

NewTweet(s) == s \notin posts /\ \A p \in Procs : req[p].src # s

IngestRumour(s) ==
  /\ NewTweet(s)
  /\ Insert("rumour", FALSE, s)
  /\ posts' = posts \cup {s}
  /\ UNCHANGED <<req, ghosts>>

(* findOpenRumour, on another connection than the transaction: the newest. *)
FindOpenRumour(p, s) ==
  /\ NewTweet(s)
  /\ \/ OpenRumours = {} /\ Begin(p, "ingest", None, s)
     \/ \E i \in OpenRumours :
          (\A j \in OpenRumours : j <= i) /\ Begin(p, "ingest", i, s)

(* The rumour that was found is confirmed and the transaction commits ... *)
IngestConfirms(p) ==
  LET i == req[p].id   s == req[p].src IN
  /\ req[p].at = "ingest" /\ i # None
  /\ ConfirmRow(i)
  /\ Touch(i, p)
  /\ posts' = posts \cup {s}
  /\ official' = [official EXCEPT ![s] = i]
  /\ End(p)
  /\ UNCHANGED withdrawn

(* ... or a transfer is inserted, with the tweet's date or the present. *)
IngestCreates(p, d) ==
  LET s == req[p].src IN
  /\ req[p].at = "ingest" /\ req[p].id = None
  /\ Insert("transfer", d, s)
  /\ posts' = posts \cup {s}
  /\ official' = [official EXCEPT ![s] = rows + 1]
  /\ End(p)
  /\ UNCHANGED <<withdrawn, dirty, overlapped>>

(* A query fails or the process ends; a transaction leaves nothing. *)
Fail(p) ==
  /\ req[p] # Idle
  /\ End(p)
  /\ dirty' = dirty \ {p}
  /\ UNCHANGED <<row, posts, official, withdrawn, overlapped>>

Next ==
  \/ CreateRumour
  \/ \E i \in Ids : AdminRemove(i) \/ \E d \in BOOLEAN : AdminUpdate(i, d)
  \/ \E s \in Sources : IngestRumour(s) \/ \E p \in Procs : FindOpenRumour(p, s)
  \/ \E p \in Procs :
       \/ Confirm(p) \/ Update(p) \/ Remove(p) \/ CheckDuplicate(p) \/ Create(p)
       \/ IngestConfirms(p) \/ Fail(p)
       \/ \E i \in Ids : FindRumour(p, i)
       \/ \E d \in BOOLEAN : IngestCreates(p, d)

Spec == Init /\ [][Next]_vars

-----------------------------------------------------------------------------
(***************************************************************************)
(* Properties.                                                             *)
(***************************************************************************)
(* A tweet, however often it is sent and by how many requests at once,     *)
(* leaves one trace: a row of its own or a rumour it confirmed, and only   *)
(* with its post (ingestion.service.ts:30-120).                            *)
IngestOnce ==
  \A s \in Sources :
    /\ s \in posts <=> official[s] # None \/ \E i \in 1 .. rows : origin[i] = s
    /\ \A i, j \in 1 .. rows : origin[i] = s /\ origin[j] = s => i = j
    /\ \A i \in 1 .. rows : origin[i] = s /\ official[s] # None => i = official[s]

(* Unless requests overlapped on it, a transfer has the fee that was       *)
(* confirmed, and is deleted only if an administrator deleted it           *)
(* (rumour-write.service.ts:52-89, ingest-projection.service.ts:111-152).  *)
TransferIntact ==
  \A i \in 1 .. rows :
    kind[i] = "transfer" /\ i \notin overlapped =>
      i \notin said /\ (i \in deleted => i \in withdrawn)
=============================================================================
