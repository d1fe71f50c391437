-------------------------- MODULE TransfersProofs --------------------------
(***************************************************************************)
(* Theorems about Transfers, for any number of rows and any sets of tweets *)
(* and requests, and about the two mails that tell of transfers            *)
(* (TransferAlerts, WeeklyDigest), for any number of users and processes.  *)
(***************************************************************************)
EXTENDS MCTransfers, CardinalityFacts, TLAPS

LEMMA NextTypeOK == TypeOK /\ [Next]_vars => TypeOK'
<1> SUFFICES ASSUME TypeOK, [Next]_vars PROVE TypeOK'
  OBVIOUS
<1> USE ConstantsAssumption DEF TypeOK, Requests, Idle, Ids, row, ghosts
<1>type. rows \in Nat /\ MaxRows \in Nat /\ None \notin Ids /\ None \notin Sources
  OBVIOUS
(* A new row widens the range the other columns speak of.                  *)
<1>insert. ASSUME NEW k \in {"rumour", "transfer"}, NEW d \in BOOLEAN,
                  NEW s \in Sources \cup {None}, Insert(k, d, s)
           PROVE  /\ rows + 1 \in Ids /\ rows' = rows + 1 /\ rows' \in 0 .. MaxRows
                  /\ kind' \in [Ids -> {"rumour", "transfer"}]
                  /\ deleted' \subseteq 1 .. rows' /\ dated' \subseteq 1 .. rows'
                  /\ said' \subseteq 1 .. rows'
                  /\ origin' \in [Ids -> Sources \cup {None}]
                  /\ \A p \in Procs : req[p].id # None => req[p].id <= rows'
  BY <1>insert DEF Insert
(* A request takes a row that is there, or ends.                           *)
<1>touch. ASSUME NEW i, NEW p, i \in Ids, Touch(i, p)
          PROVE  dirty' \subseteq Procs /\ overlapped' \subseteq Ids
  BY <1>touch DEF Touch
<1>end. ASSUME NEW p \in Procs, End(p)
        PROVE  /\ req' \in [Procs -> Requests]
               /\ \A q \in Procs : req'[q].id # None => req'[q].id = req[q].id
  BY <1>end DEF End
<1>1. CASE CreateRumour
  BY <1>1, <1>insert DEF CreateRumour
<1>2. ASSUME NEW i \in Ids, AdminRemove(i) PROVE TypeOK'
  BY <1>2, <1>touch DEF AdminRemove
<1>3. ASSUME NEW i \in Ids, NEW d \in BOOLEAN, AdminUpdate(i, d) PROVE TypeOK'
  BY <1>3, <1>touch DEF AdminUpdate
<1>4. ASSUME NEW s \in Sources, IngestRumour(s) PROVE TypeOK'
  BY <1>4, <1>insert DEF IngestRumour
<1>begin. ASSUME NEW p \in Procs, NEW r \in Requests,
                 r.id # None => r.id <= rows,
                 req' = [req EXCEPT ![p] = r], UNCHANGED <<row, posts, ghosts>>
          PROVE  TypeOK'
  BY <1>begin
<1>5. ASSUME NEW s \in Sources, NEW p \in Procs, FindOpenRumour(p, s) PROVE TypeOK'
  <2>1. CASE Begin(p, "ingest", None, s)
    BY <2>1, <1>begin DEF Begin
  <2>2. CASE \E i \in OpenRumours : Begin(p, "ingest", i, s)
    BY <2>2, <1>begin DEF Begin, OpenRumours, Live
  <2> QED BY <1>5, <2>1, <2>2 DEF FindOpenRumour
<1>6. ASSUME NEW p \in Procs, NEW i \in Ids, FindRumour(p, i) PROVE TypeOK'
  BY <1>6, <1>begin DEF FindRumour, Begin, OpenRumours, Live
<1>7. ASSUME NEW p \in Procs, Confirm(p) PROVE TypeOK'
  <2>1. req[p].id \in Ids /\ req[p].id <= rows
    BY <1>7 DEF Confirm
  <2>2. dirty' \subseteq Procs /\ overlapped' \subseteq Ids
    BY <1>7, <2>1, <1>touch DEF Confirm
  <2>3. /\ req' \in [Procs -> Requests] /\ rows' = rows
        /\ \A q \in Procs : req'[q].id # None => req'[q].id <= rows'
    BY <1>7, <1>end DEF Confirm, ConfirmRow
  <2>4. req[p].id \in 1 .. rows
    BY <2>1
  <2> HIDE DEF Requests, Idle
  <2>5. /\ kind' \in [Ids -> {"rumour", "transfer"}]
        /\ deleted' \subseteq 1 .. rows /\ dated' \subseteq 1 .. rows
        /\ said' \subseteq 1 .. rows
    BY <1>7, <2>4 DEF Confirm, ConfirmRow
  <2> QED BY <1>7, <2>1, <2>2, <2>3, <2>5 DEF Confirm, ConfirmRow
<1>8. ASSUME NEW p \in Procs, Update(p) PROVE TypeOK'
  <2>1. req[p].id \in Ids /\ req[p].id <= rows
    BY <1>8 DEF Update
  <2>2. dirty' \subseteq Procs /\ overlapped' \subseteq Ids
    BY <1>8, <2>1, <1>touch DEF Update
  <2>3. /\ req' \in [Procs -> Requests] /\ rows' = rows
        /\ \A q \in Procs : req'[q].id # None => req'[q].id <= rows'
    BY <1>8, <1>end DEF Update
  <2>4. req[p].id \in 1 .. rows
    BY <2>1
  <2> HIDE DEF Requests, Idle
  <2>5. /\ kind' \in [Ids -> {"rumour", "transfer"}]
        /\ deleted' \subseteq 1 .. rows /\ dated' \subseteq 1 .. rows
        /\ said' \subseteq 1 .. rows
    BY <1>8, <2>4 DEF Update
  <2> QED BY <1>8, <2>1, <2>2, <2>3, <2>5 DEF Update
<1>9. ASSUME NEW p \in Procs, Remove(p) PROVE TypeOK'
  <2>1. req[p].id \in Ids /\ req[p].id <= rows
    BY <1>9 DEF Remove
  <2>2. dirty' \subseteq Procs /\ overlapped' \subseteq Ids
    BY <1>9, <2>1, <1>touch DEF Remove
  <2>3. /\ req' \in [Procs -> Requests] /\ rows' = rows
        /\ \A q \in Procs : req'[q].id # None => req'[q].id <= rows'
    BY <1>9, <1>end DEF Remove
  <2>4. req[p].id \in 1 .. rows
    BY <2>1
  <2> HIDE DEF Requests, Idle
  <2>5. /\ kind' \in [Ids -> {"rumour", "transfer"}]
        /\ deleted' \subseteq 1 .. rows /\ dated' \subseteq 1 .. rows
        /\ said' \subseteq 1 .. rows
    BY <1>9, <2>4 DEF Remove
  <2> QED BY <1>9, <2>1, <2>2, <2>3, <2>5 DEF Remove
<1>10. ASSUME NEW p \in Procs, CheckDuplicate(p) PROVE TypeOK'
  BY <1>10, <1>begin DEF CheckDuplicate, Begin
<1>11. ASSUME NEW p \in Procs, Create(p) PROVE TypeOK'
  <2>1. Insert("transfer", TRUE, None) /\ End(p) /\ UNCHANGED <<posts, ghosts>>
    BY <1>11 DEF Create
  <2> QED BY <2>1, <1>insert, <1>end
<1>12. ASSUME NEW p \in Procs, IngestConfirms(p) PROVE TypeOK'
  <2>1. req[p].id \in Ids /\ req[p].src \in Sources /\ req[p].id <= rows
    BY <1>12 DEF IngestConfirms
  <2>2. dirty' \subseteq Procs /\ overlapped' \subseteq Ids
    BY <1>12, <2>1, <1>touch DEF IngestConfirms
  <2>3. /\ req' \in [Procs -> Requests] /\ rows' = rows
        /\ \A q \in Procs : req'[q].id # None => req'[q].id <= rows'
    BY <1>12, <1>end DEF IngestConfirms, ConfirmRow
  <2>4. req[p].id \in 1 .. rows
    BY <2>1
  <2> HIDE DEF Requests, Idle
  <2>5. /\ kind' \in [Ids -> {"rumour", "transfer"}]
        /\ deleted' \subseteq 1 .. rows /\ dated' \subseteq 1 .. rows
        /\ said' \subseteq 1 .. rows
    BY <1>12, <2>4 DEF IngestConfirms, ConfirmRow
  <2> QED BY <1>12, <2>1, <2>2, <2>3, <2>5 DEF IngestConfirms, ConfirmRow
<1>13. ASSUME NEW p \in Procs, NEW d \in BOOLEAN, IngestCreates(p, d) PROVE TypeOK'
  <2>1. req[p].src \in Sources
    BY <1>13 DEF IngestCreates
  <2> QED BY <1>13, <2>1, <1>insert, <1>end DEF IngestCreates
<1>14. ASSUME NEW p \in Procs, Fail(p) PROVE TypeOK'
  BY <1>14, <1>end DEF Fail
<1>15. CASE UNCHANGED vars
  BY <1>15 DEF vars
<1> HIDE DEF TypeOK
<1> QED
  BY <1>1, <1>2, <1>3, <1>4, <1>5, <1>6, <1>7, <1>8, <1>9, <1>10, <1>11,
     <1>12, <1>13, <1>14, <1>15
  DEF Next

(* Every variable keeps its type; a request refers to a row that is there. *)
THEOREM TypeCorrect == Spec => []TypeOK
<1>1. Init => TypeOK
  BY ConstantsAssumption DEF Init, TypeOK, Requests, Idle, Ids
<1> QED BY <1>1, NextTypeOK, PTL DEF Spec

-----------------------------------------------------------------------------
(***************************************************************************)
(* What a request has read still holds when it writes, unless another one  *)
(* has written the row.                                                    *)
(***************************************************************************)
RowAsRead ==
  \A p \in Procs :
    req[p].id # None /\ p \notin dirty =>
      kind[req[p].id] = "rumour" /\ req[p].id \notin deleted

IntactInv == TransferIntact /\ RowAsRead

LEMMA NextIntact == TypeOK /\ IntactInv /\ [Next]_vars => IntactInv'
<1> SUFFICES ASSUME TypeOK, IntactInv, [Next]_vars PROVE IntactInv'
  OBVIOUS
<1> USE ConstantsAssumption DEF row, ghosts, Ids
<1>type. /\ rows \in 0 .. MaxRows /\ rows \in Nat /\ MaxRows \in Nat /\ None \notin Ids
         /\ kind \in [Ids -> {"rumour", "transfer"}]
         /\ deleted \subseteq 1 .. rows /\ said \subseteq 1 .. rows
         /\ \A p \in Procs : req[p].id # None => req[p].id \in 1 .. rows
         /\ req \in [Procs -> Requests] /\ dirty \subseteq Procs
  BY DEF TypeOK, Requests, Idle
<1> USE DEF IntactInv
(* A new row is neither deleted nor, as a transfer, of a rumour's fee; and *)
(* no request has read it.                                                 *)
<1>insert. ASSUME NEW k, NEW d, NEW s, Insert(k, d, s),
                  UNCHANGED <<withdrawn, dirty, overlapped>>,
                  \A q \in Procs : req'[q].id # None => req'[q].id = req[q].id
           PROVE  IntactInv'
  <2>1. /\ rows' = rows + 1 /\ deleted' = deleted /\ rows + 1 \in Ids
        /\ rows + 1 \notin deleted /\ rows + 1 \notin said
        /\ kind' = [kind EXCEPT ![rows + 1] = k]
        /\ k # "rumour" => said' = said
        /\ \A i \in 1 .. rows : i \in said' => i \in said
    BY <1>insert, <1>type DEF Insert
  <2>2. TransferIntact'
    <3> SUFFICES ASSUME NEW i \in 1 .. rows', kind'[i] = "transfer", i \notin overlapped'
                 PROVE  i \notin said' /\ (i \in deleted' => i \in withdrawn')
      BY DEF TransferIntact
    <3>1. CASE i = rows + 1
      BY <2>1, <3>1, <1>type
    <3>2. CASE i # rows + 1
      <4>1. i \in 1 .. rows /\ kind'[i] = kind[i]
        BY <2>1, <3>2, <1>type
      <4> QED BY <2>1, <4>1, <1>insert DEF TransferIntact
    <3> QED BY <3>1, <3>2
  <2>3. RowAsRead'
    <3> SUFFICES ASSUME NEW q \in Procs, req'[q].id # None, q \notin dirty'
                 PROVE  kind'[req'[q].id] = "rumour" /\ req'[q].id \notin deleted'
      BY DEF RowAsRead
    <3>1. req'[q].id = req[q].id /\ req[q].id \in 1 .. rows
      BY <1>insert, <1>type
    <3>2. kind'[req[q].id] = kind[req[q].id]
      BY <2>1, <3>1, <1>type
    <3> QED BY <2>1, <3>1, <3>2, <1>insert DEF RowAsRead
  <2> QED BY <2>2, <2>3
(* Requests that begin on an open rumour, or on no row.                    *)
<1>begin. ASSUME NEW p \in Procs, NEW r, req' = [req EXCEPT ![p] = r],
                 r.id # None => r.id \in OpenRumours,
                 UNCHANGED <<row, ghosts>>
          PROVE  IntactInv'
  <2>1. TransferIntact'
    BY <1>begin DEF TransferIntact
  <2>2. RowAsRead'
    BY <1>begin, <1>type DEF RowAsRead, OpenRumours, Live
  <2> QED BY <2>1, <2>2
(* A write of row i: the other requests that have read it become dirty.    *)
<1>write. ASSUME NEW i \in 1 .. rows, NEW p, Touch(i, p), rows' = rows,
                 \A q \in Procs : q # p => req'[q] = req[q],
                 p \in Procs => req'[p].id = None,
                 \A j \in Ids : j # i =>
                   /\ kind'[j] = kind[j] /\ (j \in deleted' <=> j \in deleted)
                   /\ (j \in said' <=> j \in said)
                   /\ (j \in withdrawn' <=> j \in withdrawn),
                 i \notin overlapped' /\ kind'[i] = "transfer" =>
                   i \notin said' /\ (i \in deleted' => i \in withdrawn')
          PROVE  IntactInv'
  <2>1. i \in Ids /\ overlapped \subseteq overlapped'
    BY <1>write, <1>type DEF Touch
  <2>2. TransferIntact'
    <3> SUFFICES ASSUME NEW j \in 1 .. rows, kind'[j] = "transfer", j \notin overlapped'
                 PROVE  j \notin said' /\ (j \in deleted' => j \in withdrawn')
      BY <1>write DEF TransferIntact
    <3>1. j \in Ids
      BY <1>type
    <3>2. CASE j = i
      BY <3>2, <1>write
    <3>3. CASE j # i
      BY <2>1, <3>1, <3>3, <1>write DEF TransferIntact
    <3> QED BY <3>2, <3>3
  <2>3. RowAsRead'
    <3> SUFFICES ASSUME NEW q \in Procs, req'[q].id # None, q \notin dirty'
                 PROVE  kind'[req'[q].id] = "rumour" /\ req'[q].id \notin deleted'
      BY DEF RowAsRead
    <3>1. q # p /\ req'[q] = req[q]
      BY <1>write
    <3>2. q \notin dirty /\ req[q].id # i
      BY <3>1, <1>write DEF Touch
    <3>3. req[q].id \in Ids
      BY <3>1, <1>type
    <3> QED BY <3>1, <3>2, <3>3, <1>write DEF RowAsRead
  <2> QED BY <2>2, <2>3
<1>1. CASE CreateRumour
  BY <1>1, <1>insert DEF CreateRumour
<1>2. ASSUME NEW i \in Ids, AdminRemove(i) PROVE IntactInv'
  <2>1. TransferIntact'
    BY <1>2 DEF AdminRemove, Touch, TransferIntact
  <2>2. RowAsRead'
    BY <1>2, <1>type DEF AdminRemove, Touch, RowAsRead
  <2> QED BY <2>1, <2>2
<1>3. ASSUME NEW i \in Ids, NEW d \in BOOLEAN, AdminUpdate(i, d) PROVE IntactInv'
  <2>1. TransferIntact'
    BY <1>3 DEF AdminUpdate, Touch, TransferIntact
  <2>2. RowAsRead'
    BY <1>3 DEF AdminUpdate, Touch, RowAsRead
  <2> QED BY <2>1, <2>2
<1>4. ASSUME NEW s \in Sources, IngestRumour(s) PROVE IntactInv'
  BY <1>4, <1>insert DEF IngestRumour
<1>5. ASSUME NEW s \in Sources, NEW p \in Procs, FindOpenRumour(p, s) PROVE IntactInv'
  <2>1. CASE Begin(p, "ingest", None, s)
    BY <2>1, <1>begin DEF Begin
  <2>2. CASE \E i \in OpenRumours : Begin(p, "ingest", i, s)
    BY <2>2, <1>begin DEF Begin
  <2> QED BY <1>5, <2>1, <2>2 DEF FindOpenRumour
<1>6. ASSUME NEW p \in Procs, NEW i \in Ids, FindRumour(p, i) PROVE IntactInv'
  BY <1>6, <1>begin DEF FindRumour, Begin
(* The row of a request whose reads hold is an open rumour.                *)
<1>own. ASSUME NEW p \in Procs, req[p].id # None,
               req' = [req EXCEPT ![p] = Idle], Touch(req[p].id, p)
        PROVE  /\ req[p].id \in 1 .. rows /\ req[p].id \in Ids
               /\ req'[p].id = None /\ \A q \in Procs : q # p => req'[q] = req[q]
               /\ req[p].id \notin overlapped' =>
                    kind[req[p].id] = "rumour" /\ req[p].id \notin deleted
  <2>1. req[p].id \in 1 .. rows /\ req[p].id \in Ids
    BY <1>own, <1>type
  <2>2. req'[p].id = None /\ \A q \in Procs : q # p => req'[q] = req[q]
    BY <1>own, <1>type DEF Idle
  <2>3. req[p].id \notin overlapped' => p \notin dirty
    BY <1>own DEF Touch
  <2> QED BY <1>own, <2>1, <2>2, <2>3 DEF RowAsRead
<1>7. ASSUME NEW p \in Procs, Confirm(p) \/ IngestConfirms(p) PROVE IntactInv'
  <2>1. /\ req[p].id # None /\ req' = [req EXCEPT ![p] = Idle]
        /\ Touch(req[p].id, p) /\ ConfirmRow(req[p].id) /\ withdrawn' = withdrawn
    BY <1>7, <1>type DEF Confirm, IngestConfirms, End, Requests, Idle
  <2> DEFINE i == req[p].id
  <2>2. i \in 1 .. rows /\ i \in Ids
    BY <2>1, <1>own
  <2>3. i \notin overlapped' => i \notin deleted
    BY <2>1, <1>own
  <2>4. /\ rows' = rows /\ deleted' = deleted /\ said' = said \ {i}
        /\ kind' = [kind EXCEPT ![i] = "transfer"]
    BY <2>1 DEF ConfirmRow
  <2>5. req'[p].id = None /\ \A q \in Procs : q # p => req'[q] = req[q]
    BY <2>1, <1>own
  <2> HIDE DEF i
  <2>6. Touch(i, p)
    BY <2>1 DEF i
  <2> QED BY <2>1, <2>2, <2>3, <2>4, <2>5, <2>6, <1>type, <1>write
<1>8. ASSUME NEW p \in Procs, Update(p) PROVE IntactInv'
  <2>1. /\ req[p].id # None /\ req' = [req EXCEPT ![p] = Idle]
        /\ Touch(req[p].id, p) /\ withdrawn' = withdrawn
    BY <1>8, <1>type DEF Update, End, Requests, Idle
  <2> DEFINE i == req[p].id
  <2>2. i \in 1 .. rows /\ i \in Ids
    BY <2>1, <1>own
  <2>3. i \notin overlapped' => kind[i] = "rumour"
    BY <2>1, <1>own
  <2>4. rows' = rows /\ deleted' = deleted /\ said' = said \cup {i} /\ kind' = kind
    BY <1>8 DEF Update
  <2>5. req'[p].id = None /\ \A q \in Procs : q # p => req'[q] = req[q]
    BY <2>1, <1>own
  <2> HIDE DEF i
  <2>6. Touch(i, p)
    BY <2>1 DEF i
  <2> QED BY <2>1, <2>2, <2>3, <2>4, <2>5, <2>6, <1>type, <1>write
<1>9. ASSUME NEW p \in Procs, Remove(p) PROVE IntactInv'
  <2>1. /\ req[p].id # None /\ req' = [req EXCEPT ![p] = Idle]
        /\ Touch(req[p].id, p) /\ withdrawn' = withdrawn
    BY <1>9, <1>type DEF Remove, End, Requests, Idle
  <2> DEFINE i == req[p].id
  <2>2. i \in 1 .. rows /\ i \in Ids
    BY <2>1, <1>own
  <2>3. i \notin overlapped' => kind[i] = "rumour"
    BY <2>1, <1>own
  <2>4. rows' = rows /\ deleted' = deleted \cup {i} /\ said' = said /\ kind' = kind
    BY <1>9 DEF Remove
  <2>5. req'[p].id = None /\ \A q \in Procs : q # p => req'[q] = req[q]
    BY <2>1, <1>own
  <2> HIDE DEF i
  <2>6. Touch(i, p)
    BY <2>1 DEF i
  <2> QED BY <2>1, <2>2, <2>3, <2>4, <2>5, <2>6, <1>type, <1>write
<1>10. ASSUME NEW p \in Procs, CheckDuplicate(p) PROVE IntactInv'
  BY <1>10, <1>begin DEF CheckDuplicate, Begin
<1>end. ASSUME NEW p \in Procs, End(p)
        PROVE  \A q \in Procs : req'[q].id # None => req'[q].id = req[q].id
  BY <1>end, <1>type DEF End, Idle
<1>11. ASSUME NEW p \in Procs, Create(p) PROVE IntactInv'
  BY <1>11, <1>insert, <1>end DEF Create
<1>12. ASSUME NEW p \in Procs, NEW d \in BOOLEAN, IngestCreates(p, d) PROVE IntactInv'
  BY <1>12, <1>insert, <1>end DEF IngestCreates
<1>13. ASSUME NEW p \in Procs, Fail(p) PROVE IntactInv'
  <2>1. TransferIntact'
    BY <1>13 DEF Fail, TransferIntact
  <2>2. RowAsRead'
    BY <1>13, <1>type DEF Fail, End, Idle, RowAsRead
  <2> QED BY <2>1, <2>2
<1>14. CASE UNCHANGED vars
  BY <1>14 DEF vars, TransferIntact, RowAsRead
<1> HIDE DEF IntactInv
<1> QED
  BY <1>1, <1>2, <1>3, <1>4, <1>5, <1>6, <1>7, <1>8, <1>9, <1>10, <1>11,
     <1>12, <1>13, <1>14
  DEF Next

(* Unless requests overlapped on it, a transfer has the fee that was       *)
(* confirmed, and is deleted only if an administrator deleted it           *)
(* (rumour-write.service.ts:52-89, ingest-projection.service.ts:111-152).  *)
THEOREM TransfersStayIntact == Spec => []TransferIntact
<1>1. Init => IntactInv
  BY DEF Init, IntactInv, TransferIntact, RowAsRead, Idle
<1>2. Spec => []IntactInv
  BY <1>1, TypeCorrect, NextIntact, PTL DEF Spec
<1> QED BY <1>2, PTL DEF IntactInv

-----------------------------------------------------------------------------
(***************************************************************************)
(* One trace per tweet.  While one transaction has a tweet, no post has it *)
(* and no other transaction.                                               *)
(***************************************************************************)
TweetHeldOnce ==
  \A p \in Procs :
    req[p].src # None =>
      /\ req[p].src \notin posts
      /\ \A q \in Procs : req[q].src = req[p].src => q = p

OnceInv == IngestOnce /\ TweetHeldOnce

LEMMA NextOnce == TypeOK /\ OnceInv /\ [Next]_vars => OnceInv'
<1> SUFFICES ASSUME TypeOK, OnceInv, [Next]_vars PROVE OnceInv'
  OBVIOUS
<1> USE ConstantsAssumption DEF row, ghosts, Ids, OnceInv
<1>type. /\ rows \in Nat /\ MaxRows \in Nat /\ None \notin Ids /\ None \notin Sources
         /\ origin \in [Ids -> Sources \cup {None}] /\ rows <= MaxRows
         /\ official \in [Sources -> Ids \cup {None}]
         /\ req \in [Procs -> Requests] /\ posts \subseteq Sources
         /\ \A p \in Procs : req[p].src # None => req[p].src \in Sources
  BY DEF TypeOK, Requests, Idle
(* Tweets are let go, or taken up as NewTweet allows.                      *)
<1>held. ASSUME posts' = posts,
                \A p \in Procs : req'[p].src # None => req'[p].src = req[p].src
         PROVE  TweetHeldOnce'
  BY <1>held DEF TweetHeldOnce
<1>same. ASSUME UNCHANGED <<rows, origin, official, posts>>
         PROVE  IngestOnce'
  BY <1>same DEF IngestOnce
<1>end. ASSUME NEW p \in Procs, End(p)
        PROVE  /\ req'[p].src = None
               /\ \A q \in Procs : q # p => req'[q] = req[q]
               /\ \A q \in Procs : req'[q].src # None => req'[q].src = req[q].src
  BY <1>end, <1>type DEF End, Idle
(* A new row that is nobody's tweet.                                       *)
<1>plain. ASSUME NEW k, NEW d, Insert(k, d, None), UNCHANGED <<official, posts>>
          PROVE  IngestOnce'
  <2>1. /\ rows' = rows + 1 /\ rows + 1 \in Ids
        /\ origin' = [origin EXCEPT ![rows + 1] = None]
    BY <1>plain, <1>type DEF Insert
  <2>2. \A s \in Sources, i \in 1 .. rows' :
          origin'[i] = s => i \in 1 .. rows /\ origin[i] = s
    BY <2>1, <1>type
  <2>3. \A s \in Sources, i \in 1 .. rows :
          i \in 1 .. rows' /\ (origin[i] = s => origin'[i] = s)
    BY <2>1, <1>type
  <2> QED BY <2>2, <2>3, <1>plain DEF IngestOnce
(* A new row for a tweet without a post.                                   *)
<1>tweet. ASSUME NEW k, NEW d, NEW s \in Sources, Insert(k, d, s), s \notin posts,
                 posts' = posts \cup {s},
                 \/ official' = official
                 \/ official' = [official EXCEPT ![s] = rows + 1]
          PROVE  IngestOnce'
  <2>1. /\ rows' = rows + 1 /\ rows + 1 \in Ids /\ rows + 1 \in 1 .. rows'
        /\ origin' = [origin EXCEPT ![rows + 1] = s]
    BY <1>tweet, <1>type DEF Insert
  <2>2. official[s] = None /\ \A i \in 1 .. rows : origin[i] # s
    BY <1>tweet DEF IngestOnce
  <2>3. \A t \in Sources \ {s}, i \in 1 .. rows' :
          origin'[i] = t => i \in 1 .. rows /\ origin[i] = t
    BY <2>1, <1>type
  <2>4. \A t \in Sources, i \in 1 .. rows :
          i \in 1 .. rows' /\ (origin[i] = t => origin'[i] = t)
    BY <2>1, <1>type
  <2>5. \A i \in 1 .. rows' : origin'[i] = s <=> i = rows + 1
    BY <2>1, <2>2, <1>type
  <2>6. /\ official'[s] \in {None, rows + 1}
        /\ \A t \in Sources \ {s} : official'[t] = official[t]
    BY <1>tweet, <2>2, <1>type
  <2> SUFFICES ASSUME NEW t \in Sources
               PROVE  /\ t \in posts' <=>
                           official'[t] # None \/ \E i \in 1 .. rows' : origin'[i] = t
                      /\ \A i, j \in 1 .. rows' :
                           origin'[i] = t /\ origin'[j] = t => i = j
                      /\ \A i \in 1 .. rows' :
                           origin'[i] = t /\ official'[t] # None => i = official'[t]
    BY DEF IngestOnce
  <2>7. CASE t = s
    BY <2>1, <2>5, <2>6, <2>7, <1>tweet
  <2>8. CASE t # s
    BY <2>3, <2>4, <2>6, <2>8, <1>tweet DEF IngestOnce
  <2> QED BY <2>7, <2>8
(* The transaction that holds a tweet stores it.                           *)
<1>stored. ASSUME NEW p \in Procs, req[p].src # None, End(p),
                  posts' = posts \cup {req[p].src}
           PROVE  TweetHeldOnce'
  BY <1>stored, <1>end DEF TweetHeldOnce
<1>1. CASE CreateRumour
  BY <1>1, <1>plain, <1>held DEF CreateRumour
<1>2. ASSUME NEW i \in Ids, AdminRemove(i) PROVE OnceInv'
  BY <1>2, <1>same, <1>held DEF AdminRemove
<1>3. ASSUME NEW i \in Ids, NEW d \in BOOLEAN, AdminUpdate(i, d) PROVE OnceInv'
  BY <1>3, <1>same, <1>held DEF AdminUpdate
<1>4. ASSUME NEW s \in Sources, IngestRumour(s) PROVE OnceInv'
  <2>1. IngestOnce'
    BY <1>4, <1>tweet DEF IngestRumour, NewTweet
  <2>2. TweetHeldOnce'
    BY <1>4 DEF IngestRumour, NewTweet, TweetHeldOnce
  <2> QED BY <2>1, <2>2
<1>5. ASSUME NEW s \in Sources, NEW p \in Procs, FindOpenRumour(p, s) PROVE OnceInv'
  <2>1. \E i : req' = [req EXCEPT ![p] = [at |-> "ingest", id |-> i, src |-> s]]
    BY <1>5 DEF FindOpenRumour, Begin
  <2>2. UNCHANGED <<row, posts, ghosts>>
    BY <1>5 DEF FindOpenRumour, Begin
  <2>3. TweetHeldOnce'
    BY <1>5, <2>1, <2>2, <1>type DEF FindOpenRumour, NewTweet, TweetHeldOnce
  <2> QED BY <2>2, <2>3, <1>same
<1>6. ASSUME NEW p \in Procs, NEW i \in Ids, FindRumour(p, i) PROVE OnceInv'
  <2>1. \A q \in Procs : req'[q].src # None => req'[q].src = req[q].src
    BY <1>6, <1>type DEF FindRumour, Begin
  <2> QED BY <1>6, <2>1, <1>same, <1>held DEF FindRumour, Begin
<1>7. ASSUME NEW p \in Procs, Confirm(p) \/ Update(p) \/ Remove(p) PROVE OnceInv'
  <2>1. End(p) /\ UNCHANGED <<rows, origin, official, posts>>
    BY <1>7 DEF Confirm, Update, Remove, ConfirmRow
  <2> QED BY <2>1, <1>same, <1>held, <1>end
<1>8. ASSUME NEW p \in Procs, CheckDuplicate(p) PROVE OnceInv'
  <2>1. \A q \in Procs : req'[q].src # None => req'[q].src = req[q].src
    BY <1>8, <1>type DEF CheckDuplicate, Begin
  <2> QED BY <1>8, <2>1, <1>same, <1>held DEF CheckDuplicate, Begin
<1>9. ASSUME NEW p \in Procs, Create(p) PROVE OnceInv'
  BY <1>9, <1>plain, <1>held, <1>end DEF Create
<1>src. ASSUME NEW p \in Procs, req[p].at = "ingest"
        PROVE  req[p].src \in Sources /\ req[p].src \notin posts
  <2>1. req[p].src \in Sources
    BY <1>src, <1>type DEF Requests, Idle
  <2> QED BY <2>1, <1>type DEF TweetHeldOnce
<1>10. ASSUME NEW p \in Procs, IngestConfirms(p) PROVE OnceInv'
  <2> DEFINE s == req[p].src
             i == req[p].id
  <2>1. /\ s \in Sources /\ s \notin posts /\ i # None /\ End(p)
        /\ rows' = rows /\ origin' = origin
        /\ posts' = posts \cup {s} /\ official' = [official EXCEPT ![s] = i]
    BY <1>10, <1>src DEF IngestConfirms, ConfirmRow
  <2>2. TweetHeldOnce'
    BY <2>1, <1>stored, <1>type
  <2> HIDE DEF s, i
  <2>3. \A j \in 1 .. rows : origin[j] # s
    BY <2>1 DEF IngestOnce
  <2>4. official'[s] = i /\ \A t \in Sources \ {s} : official'[t] = official[t]
    BY <2>1, <1>type
  <2>5. IngestOnce'
    BY <2>1, <2>3, <2>4 DEF IngestOnce
  <2> QED BY <2>2, <2>5
<1>11. ASSUME NEW p \in Procs, NEW d \in BOOLEAN, IngestCreates(p, d) PROVE OnceInv'
  <2>1. req[p].src \in Sources /\ req[p].src \notin posts
    BY <1>11, <1>src DEF IngestCreates
  <2>2. TweetHeldOnce'
    BY <1>11, <2>1, <1>stored, <1>type DEF IngestCreates
  <2>3. IngestOnce'
    BY <1>11, <2>1, <1>tweet DEF IngestCreates
  <2> QED BY <2>2, <2>3
<1>12. ASSUME NEW p \in Procs, Fail(p) PROVE OnceInv'
  BY <1>12, <1>same, <1>held, <1>end DEF Fail
<1>13. CASE UNCHANGED vars
  BY <1>13, <1>same, <1>held DEF vars
<1> HIDE DEF OnceInv
<1> QED
  BY <1>1, <1>2, <1>3, <1>4, <1>5, <1>6, <1>7, <1>8, <1>9, <1>10, <1>11,
     <1>12, <1>13
  DEF Next

(* A tweet, however often it is sent, leaves one trace, and that with its  *)
(* post (ingestion.service.ts:30-120).                                     *)
THEOREM TweetsLeaveOneTrace == Spec => []IngestOnce
<1>1. Init => OnceInv
  BY DEF Init, OnceInv, IngestOnce, TweetHeldOnce, Idle
<1>2. Spec => []OnceInv
  BY <1>1, TypeCorrect, NextOnce, PTL DEF Spec
<1> QED BY <1>2, PTL DEF OnceInv

-----------------------------------------------------------------------------
(***************************************************************************)
(* The daily mail about new transfers.                                     *)
(***************************************************************************)
LEMMA AlertsCount == \A S : Alerts!Cardinality(S) = Cardinality(S)
  BY Zenon DEF Alerts!Cardinality, Cardinality

RunTypes(r) ==
  /\ r = [f \in {"at", "runAt", "since", "items"} |-> r[f]]
  /\ r.runAt \in Nat /\ r.runAt <= now /\ r.since \in Nat /\ r.since <= now
AlertTypes ==
  /\ now \in Nat /\ alertFaults \in Nat
  /\ newTransfer \in [NewTransfers -> [at : {"none", "open", "visible", "deleted"}, createdAt : Nat]]
  /\ lastRun \in Nat \cup {None} /\ (lastRun # None => lastRun <= now)
  /\ alertRun = [r \in AlertRuns |-> alertRun[r]]
  /\ \A r \in AlertRuns : RunTypes(alertRun[r])
  /\ alerted \in [NewTransfers -> Nat] /\ back \in [NewTransfers -> Nat]

Stamp(t) == newTransfer[t].createdAt
(* A stamp is of its time; a run that holds items has found them.          *)
StampsOfTheirTime ==
  \A t \in NewTransfers :
    /\ newTransfer[t].at # "none" => 0 < Stamp(t) /\ Stamp(t) <= now
    /\ newTransfer[t].at = "none" =>
         alerted[t] = 0 /\ \A r \in AlertRuns : alertRun[r].at = "mail" => t \notin alertRun[r].items
(* The runs that may tell of t before lastRun is next set back.            *)
MayTell(t, r) ==
  \/ alertRun[r].at \in {"idle", "since"} /\ (lastRun = None \/ lastRun < Stamp(t))
  \/ alertRun[r].at = "query" /\ alertRun[r].since < Stamp(t)
  \/ alertRun[r].at = "mail" /\ t \in alertRun[r].items
Telling(t) == {r \in AlertRuns : MayTell(t, r)}
Allowed(t) == Cardinality(AlertRuns) * (1 + back[t]) + alertFaults
ToldInv == \A t \in NewTransfers : alerted[t] + Cardinality(Telling(t)) <= Allowed(t)

(* A transfer that a run has dealt with, or need not deal with any more,   *)
(* and the runs that are past it.                                          *)
Settled(t) == alerted[t] > 0 \/ t \in excused \/ newTransfer[t].at = "deleted"
SettledInv ==
  \A t \in NewTransfers : newTransfer[t].at # "none" =>
    /\ lastRun # None /\ Stamp(t) <= lastRun => Settled(t)
    /\ \A r \in AlertRuns :
         /\ alertRun[r].at = "query" /\ Stamp(t) <= alertRun[r].since => Settled(t)
         /\ alertRun[r].at = "mail" /\ Stamp(t) <= alertRun[r].runAt
              => Settled(t) \/ t \in alertRun[r].items
         /\ alertRun[r].at = "save" /\ Stamp(t) <= alertRun[r].runAt => Settled(t)
AlertInv == AlertTypes /\ StampsOfTheirTime /\ ToldInv /\ SettledInv

LEMMA AlertInvStarts == Alerts!Init => AlertInv
<1> SUFFICES ASSUME Alerts!Init PROVE AlertInv
  OBVIOUS
<1>1. \A r \in AlertRuns : alertRun[r].at = "idle" /\ RunTypes(alertRun[r])
  BY DEF Alerts!Init, Alerts!NoRun, RunTypes
<1>2. AlertTypes /\ StampsOfTheirTime
  BY <1>1 DEF Alerts!Init, AlertTypes, StampsOfTheirTime
<1>3. ToldInv
  <2> SUFFICES ASSUME NEW t \in NewTransfers
               PROVE  alerted[t] + Cardinality(Telling(t)) <= Allowed(t)
    BY DEF ToldInv
  <2>1. Telling(t) \subseteq AlertRuns
    BY DEF Telling
  <2>2. /\ Cardinality(Telling(t)) \in Nat /\ Cardinality(AlertRuns) \in Nat
        /\ Cardinality(Telling(t)) <= Cardinality(AlertRuns)
    BY <2>1, MailsAssumption, FS_Subset, FS_CardinalityType
  <2> QED BY <2>2 DEF Alerts!Init, Allowed
<1>4. SettledInv
  BY <1>1 DEF Alerts!Init, SettledInv
<1> QED BY <1>2, <1>3, <1>4 DEF AlertInv

(* No more runs are telling than there are.                                *)
LEMMA TellingCounted ==
  ASSUME NEW t
  PROVE  /\ Cardinality(Telling(t)) \in Nat /\ Cardinality(Telling(t))' \in Nat
         /\ Cardinality(AlertRuns) \in Nat
         /\ Cardinality(Telling(t))' <= Cardinality(AlertRuns)
         /\ Telling(t)' \subseteq Telling(t) => Cardinality(Telling(t))' <= Cardinality(Telling(t))
<1>1. Telling(t) \subseteq AlertRuns /\ Telling(t)' \subseteq AlertRuns
  BY DEF Telling
<1>2. IsFiniteSet(Telling(t)) /\ IsFiniteSet(Telling(t)') /\ IsFiniteSet(AlertRuns)
  BY <1>1, MailsAssumption, FS_Subset
<1> QED BY <1>1, <1>2, FS_Subset, FS_CardinalityType

(* What a step of the model may do to the count of one transfer's mails.   *)
ToldStep(t) ==
  \/ /\ alerted'[t] = alerted[t] /\ back'[t] = back[t] /\ alertFaults' \in Nat
     /\ alertFaults' >= alertFaults /\ Telling(t)' \subseteq Telling(t)
  \/ /\ alerted'[t] = alerted[t] /\ back'[t] = back[t] + 1
     /\ alertFaults' \in Nat /\ alertFaults' >= alertFaults
  \/ /\ alerted'[t] = alerted[t] /\ back'[t] = back[t] /\ alertFaults' = alertFaults + 1
     /\ \E r \in AlertRuns : Telling(t)' \subseteq Telling(t) \cup {r}
  \/ /\ alerted'[t] = alerted[t] + 1 /\ back'[t] = back[t] /\ alertFaults' = alertFaults
     /\ \E r \in Telling(t) : Telling(t)' \subseteq Telling(t) \ {r}
  \/ alerted'[t] = 0 /\ back'[t] \in Nat /\ alertFaults' \in Nat

LEMMA ToldStepKeeps ==
  ASSUME AlertTypes, NEW t \in NewTransfers, ToldStep(t),
         alerted[t] + Cardinality(Telling(t)) <= Allowed(t)
  PROVE  alerted'[t] + Cardinality(Telling(t))' <= Allowed(t)'
<1> DEFINE R == Cardinality(AlertRuns)
           c == Cardinality(Telling(t))
           d == Cardinality(Telling(t))'
<1>1. /\ c \in Nat /\ d \in Nat /\ R \in Nat /\ d <= R
      /\ Telling(t)' \subseteq Telling(t) => d <= c
  BY TellingCounted
<1>2. alerted[t] \in Nat /\ back[t] \in Nat /\ alertFaults \in Nat
  BY DEF AlertTypes
<1>3. IsFiniteSet(Telling(t))
  BY MailsAssumption, FS_Subset DEF Telling
<1>4. ASSUME NEW r \in AlertRuns, Telling(t)' \subseteq Telling(t) \cup {r} PROVE d <= c + 1
  <2>1. /\ IsFiniteSet(Telling(t) \cup {r})
        /\ Cardinality(Telling(t) \cup {r}) = (IF r \in Telling(t) THEN c ELSE c + 1)
    BY <1>3, FS_AddElement
  <2>2. d <= Cardinality(Telling(t) \cup {r})
    BY <1>4, <2>1, FS_Subset
  <2> QED BY <1>1, <2>1, <2>2
<1>5. ASSUME NEW r \in Telling(t), Telling(t)' \subseteq Telling(t) \ {r} PROVE d <= c - 1
  <2>1. /\ IsFiniteSet(Telling(t) \ {r})
        /\ Cardinality(Telling(t) \ {r}) = c - 1
    BY <1>3, FS_RemoveElement
  <2>2. d <= Cardinality(Telling(t) \ {r})
    BY <1>5, <2>1, FS_Subset
  <2> QED BY <1>1, <2>1, <2>2
<1>6. /\ Allowed(t) = R * (1 + back[t]) + alertFaults
      /\ Allowed(t)' = R * (1 + back'[t]) + alertFaults'
  BY DEF Allowed
<1>7. \A a, b \in Nat : a * (1 + b) \in Nat /\ a * (1 + (b + 1)) = a * (1 + b) + a
  OBVIOUS
<1>8. alerted[t] + c <= R * (1 + back[t]) + alertFaults /\ R * (1 + back[t]) \in Nat
  BY <1>1, <1>2, <1>6, <1>7
<1> DEFINE Untold == alerted'[t] = 0 /\ back'[t] \in Nat /\ alertFaults' \in Nat
<1>9. CASE back'[t] = back[t] /\ ~Untold
  <2> DEFINE m == R * (1 + back[t])
  <2>1. Allowed(t)' = m + alertFaults' /\ m \in Nat /\ alerted[t] + c <= m + alertFaults
    BY <1>6, <1>8, <1>9
  <2> HIDE DEF m, c, d, R
  <2>2. alerted'[t] + d <= m + alertFaults'
    BY <1>1, <1>2, <1>4, <1>5, <1>9, <2>1 DEF ToldStep
  <2> QED BY <2>1, <2>2 DEF d
<1>10. CASE back'[t] = back[t] + 1 /\ ~Untold
  <2>1. Allowed(t)' = R * (1 + back[t]) + R + alertFaults'
    BY <1>1, <1>2, <1>6, <1>7, <1>10
  <2> HIDE DEF c, d, R
  <2>2. alertFaults' \in Nat /\ alertFaults' >= alertFaults /\ alerted'[t] = alerted[t]
    BY <1>2, <1>10 DEF ToldStep
  <2>3. alerted'[t] + d <= R * (1 + back[t]) + R + alertFaults'
    BY <1>1, <1>2, <1>8, <2>2
  <2> QED BY <2>1, <2>3 DEF d
<1>11. CASE Untold
  <2>1. R * (1 + back'[t]) >= R /\ R * (1 + back'[t]) \in Nat
    <3>1. \A b \in Nat : R * b \in Nat /\ R * (1 + b) = R + R * b
      BY <1>1
    <3> DEFINE b == back'[t]
    <3>2. b \in Nat
      BY <1>11
    <3> HIDE DEF b
    <3>3. R \in Nat /\ R * b \in Nat /\ R * (1 + b) = R + R * b
      BY <1>1, <3>1, <3>2
    <3>4. R * (1 + b) >= R /\ R * (1 + b) \in Nat
      BY <3>3
    <3> QED BY <3>4 DEF b
  <2> QED BY <1>1, <1>6, <1>11, <2>1
<1> QED BY <1>9, <1>10, <1>11 DEF ToldStep

LEMMA OneRunStep ==
  ASSUME AlertTypes, NEW r \in AlertRuns, NEW new, Alerts!Becomes(r, new)
  PROVE  /\ alertRun' = [x \in AlertRuns |-> alertRun'[x]]
         /\ alertRun'[r] = new
         /\ \A x \in AlertRuns \ {r} : alertRun'[x] = alertRun[x]
BY DEF Alerts!Becomes, AlertTypes

(* The clock runs, transfers come and go and the user leaves.              *)
LEMMA WorldKeepsAlerts ==
  ASSUME AlertInv, UNCHANGED <<lastRun, alertRun, alerted, excused, back, alertFaults>>,
         \/ UNCHANGED <<now, newTransfer>>
         \/ \E t \in NewTransfers : Alerts!Create(t) \/ Alerts!Commit(t) \/ Alerts!Remove(t)
  PROVE  AlertInv'
<1>t. AlertTypes
  BY DEF AlertInv
<1>1. /\ now' \in Nat /\ now <= now'
      /\ newTransfer' \in [NewTransfers -> [at : {"none", "open", "visible", "deleted"}, createdAt : Nat]]
      /\ \A t \in NewTransfers :
           \/ newTransfer'[t].at # "none" /\ newTransfer[t].at # "none" /\ Stamp(t)' = Stamp(t)
           \/ newTransfer'[t] = newTransfer[t]
           \/ newTransfer[t].at = "none" /\ newTransfer'[t].at # "none" /\ Stamp(t)' = now' /\ now' = now + 1
      /\ \A t \in NewTransfers : newTransfer[t].at = "deleted" => newTransfer'[t].at = "deleted"
  <2>1. CASE UNCHANGED <<now, newTransfer>>
    BY <1>t, <2>1 DEF AlertTypes
  <2>2. ASSUME NEW x \in NewTransfers, Alerts!Create(x)
        PROVE  /\ now' = now + 1 /\ newTransfer[x].at = "none"
               /\ newTransfer' = [newTransfer EXCEPT ![x] = [at |-> "open", createdAt |-> now + 1]]
    BY <2>2 DEF Alerts!Create
  <2>3. ASSUME NEW x \in NewTransfers, Alerts!Commit(x)
        PROVE  /\ now' = now /\ newTransfer[x].at = "open"
               /\ newTransfer' = [newTransfer EXCEPT ![x].at = "visible"]
    BY <2>3 DEF Alerts!Commit
  <2>4. ASSUME NEW x \in NewTransfers, Alerts!Create(x) PROVE <1>1!:
    BY <1>t, <2>2, <2>4 DEF AlertTypes, Stamp
  <2>5. ASSUME NEW x \in NewTransfers, Alerts!Commit(x) PROVE <1>1!:
    BY <1>t, <2>3, <2>5 DEF AlertTypes, Stamp
  <2>6. ASSUME NEW x \in NewTransfers, Alerts!Remove(x)
        PROVE  /\ now' = now /\ newTransfer[x].at = "visible"
               /\ newTransfer' = [newTransfer EXCEPT ![x].at = "deleted"]
    BY <2>6 DEF Alerts!Remove
  <2>7. ASSUME NEW x \in NewTransfers, Alerts!Remove(x) PROVE <1>1!:
    BY <1>t, <2>6, <2>7 DEF AlertTypes, Stamp
  <2> QED BY <2>1, <2>4, <2>5, <2>7
<1>2. AlertTypes'
  BY <1>t, <1>1 DEF AlertTypes, RunTypes
<1>3. StampsOfTheirTime'
  BY <1>t, <1>1 DEF AlertInv, AlertTypes, StampsOfTheirTime, Stamp
<1>4. ASSUME NEW t \in NewTransfers
      PROVE  alerted'[t] + Cardinality(Telling(t))' <= Allowed(t)'
  <2>1. CASE Stamp(t)' = Stamp(t)
    <3>1. Telling(t)' = Telling(t)
      BY <2>1 DEF Telling, MayTell
    <3> QED BY <3>1 DEF AlertInv, ToldInv, Allowed
  <2>2. CASE newTransfer[t].at = "none"
    <3>1. ToldStep(t)
      BY <1>t, <2>2 DEF ToldStep, AlertInv, StampsOfTheirTime, AlertTypes
    <3> QED BY <1>t, <3>1, ToldStepKeeps DEF AlertInv, ToldInv
  <2> QED BY <1>1, <2>1, <2>2 DEF Stamp
<1>5. SettledInv'
  <2> SUFFICES ASSUME NEW t \in NewTransfers, newTransfer'[t].at # "none"
      PROVE  (/\ lastRun # None /\ Stamp(t) <= lastRun => Settled(t)
              /\ \A r \in AlertRuns :
                   /\ alertRun[r].at = "query" /\ Stamp(t) <= alertRun[r].since => Settled(t)
                   /\ alertRun[r].at = "mail" /\ Stamp(t) <= alertRun[r].runAt
                        => Settled(t) \/ t \in alertRun[r].items
                   /\ alertRun[r].at = "save" /\ Stamp(t) <= alertRun[r].runAt => Settled(t))'
    BY DEF SettledInv
  <2>1. CASE newTransfer[t].at # "none" /\ Stamp(t)' = Stamp(t)
    BY <1>1, <2>1 DEF AlertInv, SettledInv, Settled
  <2>2. CASE newTransfer[t].at = "none"
    <3>1. Stamp(t)' = now + 1
      BY <1>1, <2>2
    <3>2. lastRun # None => lastRun \in Nat /\ lastRun <= now
      BY <1>t DEF AlertTypes
    <3>3. \A r \in AlertRuns : /\ alertRun[r].runAt \in Nat /\ alertRun[r].runAt <= now
                               /\ alertRun[r].since \in Nat /\ alertRun[r].since <= now
      BY <1>t DEF AlertTypes, RunTypes
    <3>4. lastRun' = lastRun /\ alertRun' = alertRun /\ now \in Nat
      BY <1>t DEF AlertTypes
    <3> HIDE DEF AlertInv
    <3> QED BY <3>1, <3>2, <3>3, <3>4
  <2> QED BY <1>1, <2>1, <2>2 DEF Stamp
<1> QED BY <1>2, <1>3, <1>4, <1>5 DEF AlertInv, ToldInv

(* What a step of run r must come to.                                      *)
RunSettles(t, r) ==
  /\ alertRun[r].at = "query" /\ Stamp(t) <= alertRun[r].since => Settled(t)
  /\ alertRun[r].at = "mail" /\ Stamp(t) <= alertRun[r].runAt
       => Settled(t) \/ t \in alertRun[r].items
  /\ alertRun[r].at = "save" /\ Stamp(t) <= alertRun[r].runAt => Settled(t)

LEMMA RunKeepsAlerts ==
  ASSUME AlertInv, NEW r \in AlertRuns, NEW new, RunTypes(new), Alerts!Becomes(r, new),
         UNCHANGED <<now, newTransfer>>, alertFaults' \in Nat,
         lastRun' \in Nat \cup {None}, lastRun' # None => lastRun' <= now,
         alerted' \in [NewTransfers -> Nat], back' \in [NewTransfers -> Nat],
         \A t \in NewTransfers : newTransfer[t].at = "none" =>
           alerted'[t] = 0 /\ (new.at = "mail" => t \notin new.items),
         \A t \in NewTransfers : newTransfer[t].at # "none" =>
           /\ ToldStep(t) /\ (Settled(t) => Settled(t)') /\ RunSettles(t, r)'
           /\ lastRun' # None /\ Stamp(t) <= lastRun' => Settled(t)'
  PROVE  AlertInv'
<1>t. AlertTypes /\ StampsOfTheirTime /\ ToldInv /\ SettledInv
  BY DEF AlertInv
<1>r. /\ alertRun' = [x \in AlertRuns |-> alertRun'[x]] /\ alertRun'[r] = new
      /\ \A x \in AlertRuns \ {r} : alertRun'[x] = alertRun[x]
  BY <1>t, OneRunStep
<1>1. AlertTypes'
  <2>1. \A x \in AlertRuns : RunTypes(alertRun[x]) /\ (x # r => alertRun'[x] = alertRun[x])
    BY <1>t, <1>r DEF AlertTypes
  <2>2. \A x \in AlertRuns : RunTypes(alertRun[x])'
    BY <1>r, <2>1 DEF RunTypes
  <2> QED BY <1>t, <1>r, <2>2 DEF AlertTypes
<1>2. StampsOfTheirTime'
  BY <1>t, <1>r DEF StampsOfTheirTime, Stamp
<1>3. ToldInv'
  <2>1. ASSUME NEW t \in NewTransfers PROVE ToldStep(t)
    <3>1. CASE newTransfer[t].at = "none"
      BY <3>1 DEF ToldStep
    <3> QED BY <3>1
  <2>2. ASSUME NEW t \in NewTransfers
        PROVE  alerted'[t] + Cardinality(Telling(t))' <= Allowed(t)'
    BY <1>t, <2>1, ToldStepKeeps DEF ToldInv
  <2> QED BY <2>2 DEF ToldInv
<1>4. SettledInv'
  <2>1. ASSUME NEW t \in NewTransfers, newTransfer[t].at # "none", NEW x \in AlertRuns
        PROVE  RunSettles(t, x)'
    <3>1. CASE x # r
      <4>1. RunSettles(t, x)
        BY <1>t, <2>1 DEF SettledInv, RunSettles
      <4>2. alertRun'[x] = alertRun[x] /\ Stamp(t)' = Stamp(t) /\ (Settled(t) => Settled(t)')
        BY <1>r, <2>1, <3>1 DEF Stamp
      <4> QED BY <4>1, <4>2 DEF RunSettles
    <3> QED BY <2>1, <3>1
  <2>2. ASSUME NEW t \in NewTransfers, newTransfer[t].at # "none"
        PROVE  lastRun' # None /\ Stamp(t)' <= lastRun' => Settled(t)'
    BY <2>2 DEF Stamp
  <2> QED BY <2>1, <2>2 DEF SettledInv, RunSettles
<1> QED BY <1>1, <1>2, <1>3, <1>4 DEF AlertInv

(* The telling runs after a step of r that changes no lastRun.             *)
LEMMA TellingOthers ==
  ASSUME AlertTypes, NEW r \in AlertRuns, NEW new, Alerts!Becomes(r, new),
         UNCHANGED <<newTransfer, lastRun>>, NEW t
  PROVE  /\ Telling(t)' \subseteq Telling(t) \cup {r}
         /\ (MayTell(t, r)' => MayTell(t, r)) => Telling(t)' \subseteq Telling(t)
         /\ ~MayTell(t, r)' => Telling(t)' \subseteq Telling(t) \ {r}
<1>1. \A x \in AlertRuns \ {r} : alertRun'[x] = alertRun[x]
  BY OneRunStep
<1>2. \A x \in AlertRuns \ {r} : MayTell(t, x)' <=> MayTell(t, x)
  BY <1>1 DEF MayTell, Stamp
<1> QED BY <1>2 DEF Telling

LEMMA FireKeepsAlerts ==
  ASSUME AlertInv, NEW r \in AlertRuns, Alerts!Fire(r) PROVE AlertInv'
<1> DEFINE new == [Alerts!NoRun EXCEPT !.at = "since", !.runAt = now]
<1>t. AlertTypes /\ StampsOfTheirTime /\ SettledInv
  BY DEF AlertInv
<1>1. /\ alertRun[r].at = "idle" /\ Alerts!Becomes(r, new)
      /\ UNCHANGED <<now, newTransfer, lastRun, alerted, excused, back, alertFaults>>
  BY DEF Alerts!Fire, Alerts!ghosts
<1>2. RunTypes(new) /\ new.at = "since"
  <2>1. Alerts!NoRun \in [at : {"idle"}, runAt : {0}, since : {0}, items : {{}}]
    BY DEF Alerts!NoRun
  <2>2. new \in [at : {"since"}, runAt : {now}, since : {0}, items : {{}}]
    BY <2>1
  <2> HIDE DEF new
  <2>3. new = [f \in {"at", "runAt", "since", "items"} |-> new[f]]
    BY <2>2
  <2>5. new.at = "since" /\ new.runAt = now /\ new.since = 0
    BY <2>2
  <2>4. now \in Nat
    BY <1>t DEF AlertTypes
  <2> QED BY <2>3, <2>4, <2>5 DEF RunTypes
<1> HIDE DEF new
<1>3. alertRun'[r] = new
  BY <1>t, <1>1, OneRunStep
<1>4. ASSUME NEW t \in NewTransfers PROVE ToldStep(t) /\ RunSettles(t, r)'
  <2>1. MayTell(t, r)' => MayTell(t, r)
    BY <1>1, <1>2, <1>3 DEF MayTell, Stamp
  <2> QED BY <1>t, <1>1, <1>2, <1>3, <2>1, TellingOthers DEF ToldStep, RunSettles, AlertTypes
<1>5. /\ \A t \in NewTransfers : newTransfer[t].at # "none" =>
           (Settled(t) => Settled(t)') /\ (lastRun' # None /\ Stamp(t) <= lastRun' => Settled(t)')
      /\ \A t \in NewTransfers : newTransfer[t].at = "none" => alerted'[t] = 0
  BY <1>t, <1>1 DEF Settled, SettledInv, StampsOfTheirTime
<1> QED BY <1>t, <1>1, <1>2, <1>4, <1>5, RunKeepsAlerts DEF AlertTypes

LEMMA GetLastRunKeepsAlerts ==
  ASSUME AlertInv, NEW r \in AlertRuns, Alerts!GetLastRun(r) PROVE AlertInv'
<1>t. AlertTypes /\ StampsOfTheirTime /\ SettledInv
  BY DEF AlertInv
<1>0. PICK since \in IF lastRun = None THEN 0 .. alertRun[r].runAt ELSE {lastRun} :
        /\ Alerts!Becomes(r, [alertRun[r] EXCEPT !.at = "query", !.since = since])
        /\ excused' = excused \cup
             {t \in Alerts!Stamped : lastRun = None /\ newTransfer[t].createdAt <= since}
  BY DEF Alerts!GetLastRun
<1> DEFINE new == [alertRun[r] EXCEPT !.at = "query", !.since = since]
<1>1. /\ alertRun[r].at = "since" /\ Alerts!Becomes(r, new)
      /\ UNCHANGED <<now, newTransfer, lastRun, alerted, back, alertFaults>>
  BY <1>0 DEF Alerts!GetLastRun
<1>s. since \in Nat /\ since <= now /\ (lastRun # None => since = lastRun)
  <2>1. RunTypes(alertRun[r]) /\ now \in Nat
    BY <1>t DEF AlertTypes
  <2> QED BY <1>t, <2>1 DEF AlertTypes, RunTypes
<1>2. RunTypes(new) /\ new.at = "query" /\ new.since = since
  BY <1>t, <1>s DEF RunTypes, AlertTypes
<1> HIDE DEF new
<1>3. alertRun'[r] = new
  BY <1>t, <1>1, OneRunStep
<1>4. ASSUME NEW t \in NewTransfers PROVE ToldStep(t)
  <2>1. MayTell(t, r)' => MayTell(t, r)
    BY <1>1, <1>2, <1>3, <1>s DEF MayTell, Stamp
  <2> QED BY <1>t, <1>1, <2>1, TellingOthers DEF ToldStep, AlertTypes
<1>5. /\ \A t \in NewTransfers : newTransfer[t].at # "none" =>
           (Settled(t) => Settled(t)') /\ (lastRun' # None /\ Stamp(t) <= lastRun' => Settled(t)')
      /\ \A t \in NewTransfers : newTransfer[t].at = "none" => alerted'[t] = 0
  BY <1>t, <1>0, <1>1 DEF Settled, SettledInv, StampsOfTheirTime
<1>6. ASSUME NEW t \in NewTransfers, newTransfer[t].at # "none" PROVE RunSettles(t, r)'
  <2> SUFFICES ASSUME Stamp(t) <= since PROVE Settled(t)'
    BY <1>1, <1>2, <1>3 DEF RunSettles, Stamp
  <2>1. CASE lastRun = None
    BY <1>0, <1>6, <2>1 DEF Settled, Stamp, Alerts!Stamped
  <2>2. CASE lastRun # None
    BY <1>1, <1>5, <1>6, <1>s, <2>2
  <2> QED BY <2>1, <2>2
<1> QED BY <1>t, <1>1, <1>2, <1>4, <1>5, <1>6, RunKeepsAlerts DEF AlertTypes

LEMMA QueryKeepsAlerts ==
  ASSUME AlertInv, NEW r \in AlertRuns, Alerts!Query(r) PROVE AlertInv'
<1>t. AlertTypes /\ StampsOfTheirTime /\ SettledInv
  BY DEF AlertInv
<1> DEFINE found == Alerts!Since(alertRun[r].since)
           open == {t \in NewTransfers : newTransfer[t].at = "open"}
<1>0. PICK items :
        /\ items \subseteq found
        /\ Alerts!Becomes(r, [alertRun[r] EXCEPT !.items = items, !.since = 0,
                                !.at = IF items = {} THEN "save" ELSE "mail"])
        /\ excused' = excused \cup open \cup (found \ items)
  <2>1. PICK wanted \in IF eligible THEN Alerts!Wanted(Alerts!NewestOf(found)) ELSE {{}} :
        \E items \in Alerts!kSubset(Alerts!Shown(wanted), wanted) :
          /\ Alerts!Becomes(r, [alertRun[r] EXCEPT !.items = items, !.since = 0,
                                  !.at = IF items = {} THEN "save" ELSE "mail"])
          /\ excused' = excused \cup open \cup (found \ items)
    BY DEF Alerts!Query
  <2>2. wanted \subseteq found
    <3>1. Alerts!NewestOf(found) \subseteq found
      BY DEF Alerts!NewestOf
    <3>2. \A new : \A w \in Alerts!Wanted(new) : w \subseteq new
      BY DEF Alerts!Wanted
    <3>3. wanted = {} \/ wanted \subseteq Alerts!NewestOf(found)
      BY <2>1, <3>2
    <3> QED BY <3>1, <3>3
  <2>3. \A k : \A items \in Alerts!kSubset(k, wanted) : items \subseteq wanted
    BY DEF Alerts!kSubset
  <2> QED BY <2>1, <2>2, <2>3
<1> DEFINE new == [alertRun[r] EXCEPT !.items = items, !.since = 0,
                                      !.at = IF items = {} THEN "save" ELSE "mail"]
<1>1. /\ alertRun[r].at = "query" /\ Alerts!Becomes(r, new)
      /\ UNCHANGED <<now, newTransfer, lastRun, alerted, back, alertFaults>>
  BY <1>0 DEF Alerts!Query
<1>2. /\ RunTypes(new) /\ new.at \in {"save", "mail"} /\ new.items = items
      /\ new.runAt = alertRun[r].runAt /\ (new.at = "save" => items = {})
  <2>1. alertRun[r] = [f \in {"at", "runAt", "since", "items"} |-> alertRun[r][f]]
    BY <1>t DEF AlertTypes, RunTypes
  <2>2. /\ new = [f \in {"at", "runAt", "since", "items"} |-> new[f]]
        /\ new.at = (IF items = {} THEN "save" ELSE "mail") /\ new.items = items
        /\ new.since = 0 /\ new.runAt = alertRun[r].runAt
    BY <2>1
  <2> HIDE DEF new
  <2>3. alertRun[r].runAt \in Nat /\ alertRun[r].runAt <= now /\ now \in Nat
    BY <1>t DEF AlertTypes, RunTypes
  <2> QED BY <2>2, <2>3 DEF RunTypes
<1> HIDE DEF new
<1>3. alertRun'[r] = new
  BY <1>t, <1>1, OneRunStep
<1>f. found = {t \in NewTransfers : newTransfer[t].at = "visible" /\ Stamp(t) > alertRun[r].since}
  BY DEF Alerts!Since, Stamp
<1>s. alertRun[r].since \in Nat /\ \A t \in NewTransfers : Stamp(t) \in Nat
  BY <1>t DEF AlertTypes, RunTypes, Stamp
<1> HIDE DEF found
<1>4. ASSUME NEW t \in NewTransfers PROVE ToldStep(t)
  <2>1. MayTell(t, r)' => MayTell(t, r)
    BY <1>0, <1>1, <1>2, <1>3, <1>f, <1>s DEF MayTell, Stamp
  <2> QED BY <1>t, <1>1, <2>1, TellingOthers DEF ToldStep, AlertTypes
<1>5. /\ \A t \in NewTransfers : newTransfer[t].at # "none" =>
           (Settled(t) => Settled(t)') /\ (lastRun' # None /\ Stamp(t) <= lastRun' => Settled(t)')
      /\ \A t \in NewTransfers : newTransfer[t].at = "none" => alerted'[t] = 0 /\ t \notin items
  BY <1>t, <1>0, <1>1, <1>f DEF Settled, SettledInv, StampsOfTheirTime
<1>6. ASSUME NEW t \in NewTransfers, newTransfer[t].at # "none" PROVE RunSettles(t, r)'
  <2> SUFFICES Settled(t)' \/ t \in items
    BY <1>1, <1>2, <1>3 DEF RunSettles, Stamp
  <2>1. CASE Stamp(t) <= alertRun[r].since
    BY <1>t, <1>1, <1>5, <1>6, <2>1 DEF SettledInv
  <2>2. CASE ~(Stamp(t) <= alertRun[r].since)
    <3>1. newTransfer[t].at \in {"open", "visible", "deleted"}
      BY <1>t, <1>6 DEF AlertTypes
    <3>2. CASE newTransfer[t].at = "deleted"
      BY <1>1, <3>2 DEF Settled
    <3>3. CASE newTransfer[t].at # "deleted"
      <4>1. t \in open \cup found
        BY <1>f, <1>s, <2>2, <3>1, <3>3
      <4> QED BY <1>0, <4>1 DEF Settled
    <3> QED BY <3>2, <3>3
  <2> QED BY <2>1, <2>2
<1> QED BY <1>t, <1>1, <1>2, <1>4, <1>5, <1>6, RunKeepsAlerts DEF AlertTypes

LEMMA MailKeepsAlerts ==
  ASSUME AlertInv, NEW r \in AlertRuns, Alerts!Mail(r) PROVE AlertInv'
<1>t. AlertTypes /\ StampsOfTheirTime /\ SettledInv
  BY DEF AlertInv
<1> DEFINE new == [alertRun[r] EXCEPT !.at = "save", !.items = {}]
           items == alertRun[r].items
<1>1. /\ alertRun[r].at = "mail" /\ Alerts!Becomes(r, new)
      /\ UNCHANGED <<now, newTransfer, lastRun, back>>
  BY DEF Alerts!Mail
<1>c. \/ /\ UNCHANGED <<excused, alertFaults>>
         /\ alerted' = [t \in NewTransfers |-> alerted[t] + (IF t \in items THEN 1 ELSE 0)]
      \/ /\ alertFaults' \in {alertFaults, alertFaults + 1}
         /\ excused' = excused \cup items /\ UNCHANGED alerted
  BY DEF Alerts!Mail, Alerts!Fault
<1>2. RunTypes(new) /\ new.at = "save" /\ new.runAt = alertRun[r].runAt
  BY <1>t DEF RunTypes, AlertTypes
<1> HIDE DEF new
<1>3. alertRun'[r] = new
  BY <1>t, <1>1, OneRunStep
<1>n. alerted \in [NewTransfers -> Nat] /\ alertFaults \in Nat /\ back \in [NewTransfers -> Nat]
  BY <1>t DEF AlertTypes
<1>4. alerted' \in [NewTransfers -> Nat] /\ alertFaults' \in Nat
  BY <1>c, <1>n
<1>5. ASSUME NEW t \in NewTransfers
      PROVE  /\ ToldStep(t) /\ (Settled(t) => Settled(t)') /\ (t \in items => Settled(t)')
             /\ t \notin items => alerted'[t] = alerted[t]
  <2>1. ~MayTell(t, r)' /\ (t \in items => r \in Telling(t))
    BY <1>1, <1>2, <1>3 DEF MayTell, Telling
  <2>2. Telling(t)' \subseteq Telling(t) \ {r}
    BY <1>t, <1>1, <2>1, TellingOthers
  <2>3. CASE /\ UNCHANGED <<excused, alertFaults>>
             /\ alerted' = [x \in NewTransfers |-> alerted[x] + (IF x \in items THEN 1 ELSE 0)]
    <3>1. CASE t \in items
      <4>1. alerted'[t] = alerted[t] + 1
        BY <2>3, <3>1
      <4> QED BY <1>1, <1>n, <2>1, <2>2, <2>3, <3>1, <4>1 DEF ToldStep, Settled
    <3>2. CASE t \notin items
      <4>1. alerted'[t] = alerted[t]
        BY <1>n, <2>3, <3>2
      <4> QED BY <1>1, <1>n, <2>2, <2>3, <3>2, <4>1 DEF ToldStep, Settled
    <3> QED BY <3>1, <3>2
  <2>4. CASE /\ alertFaults' \in {alertFaults, alertFaults + 1}
             /\ excused' = excused \cup items /\ UNCHANGED alerted
    BY <1>1, <1>n, <2>2, <2>4 DEF ToldStep, Settled
  <2> QED BY <1>c, <2>3, <2>4
<1>6. /\ \A t \in NewTransfers : newTransfer[t].at # "none" =>
           (lastRun' # None /\ Stamp(t) <= lastRun' => Settled(t)')
      /\ \A t \in NewTransfers : newTransfer[t].at = "none" => alerted'[t] = 0
  BY <1>t, <1>1, <1>5 DEF SettledInv, StampsOfTheirTime
<1>7. ASSUME NEW t \in NewTransfers, newTransfer[t].at # "none" PROVE RunSettles(t, r)'
  <2> SUFFICES ASSUME Stamp(t) <= alertRun[r].runAt PROVE Settled(t)'
    BY <1>1, <1>2, <1>3 DEF RunSettles, Stamp
  <2>1. Settled(t) \/ t \in items
    BY <1>t, <1>1, <1>7 DEF SettledInv
  <2> QED BY <1>5, <2>1
<1> QED BY <1>t, <1>1, <1>2, <1>4, <1>5, <1>6, <1>7, RunKeepsAlerts DEF AlertTypes

(* lastRun is set, to a time or to nothing, and every transfer stamped     *)
(* later is counted: all the runs may tell of it again.                    *)
LEMMA SetBackCounts ==
  ASSUME AlertTypes, NEW at, Alerts!SetBack(at)
  PROVE  /\ back' \in [NewTransfers -> Nat]
         /\ \A t \in NewTransfers : newTransfer[t].at # "none" =>
              back'[t] = IF at < Stamp(t) THEN back[t] + 1 ELSE back[t]
BY DEF Alerts!SetBack, Alerts!Stamped, AlertTypes, Stamp

LEMMA SaveKeepsAlerts ==
  ASSUME AlertInv, NEW r \in AlertRuns, Alerts!SetLastRun(r) PROVE AlertInv'
<1>t. AlertTypes /\ StampsOfTheirTime /\ SettledInv
  BY DEF AlertInv
<1> DEFINE new == Alerts!NoRun
           at == alertRun[r].runAt
<1>1. /\ alertRun[r].at = "save" /\ Alerts!Becomes(r, new) /\ lastRun' = at
      /\ UNCHANGED <<now, newTransfer, alerted, excused, alertFaults>> /\ Alerts!SetBack(at)
  BY DEF Alerts!SetLastRun
<1>2. RunTypes(new) /\ new.at = "idle"
  BY <1>t DEF Alerts!NoRun, RunTypes, AlertTypes
<1> HIDE DEF new
<1>3. alertRun'[r] = new /\ \A x \in AlertRuns \ {r} : alertRun'[x] = alertRun[x]
  BY <1>t, <1>1, OneRunStep
<1>s. at \in Nat /\ at <= now /\ at # None
  BY <1>t, MailsAssumption DEF AlertTypes, RunTypes
<1>b. /\ back' \in [NewTransfers -> Nat]
      /\ \A t \in NewTransfers : newTransfer[t].at # "none" =>
           back'[t] = IF at < Stamp(t) THEN back[t] + 1 ELSE back[t]
  BY <1>t, <1>1, SetBackCounts
<1>4. ASSUME NEW t \in NewTransfers, newTransfer[t].at # "none" PROVE ToldStep(t)
  <2>1. CASE at < Stamp(t)
    BY <1>t, <1>1, <1>4, <1>b, <2>1 DEF ToldStep, AlertTypes
  <2>2. CASE ~(at < Stamp(t))
    <3>1. ASSUME NEW x \in AlertRuns, MayTell(t, x)' PROVE MayTell(t, x)
      <4>1. Stamp(t)' = Stamp(t) /\ lastRun' = at /\ lastRun' # None /\ ~(lastRun' < Stamp(t))
        BY <1>1, <1>s, <2>2 DEF Stamp
      <4>2. ~(alertRun'[x].at \in {"idle", "since"})
        BY <3>1, <4>1 DEF MayTell
      <4>3. alertRun'[x] = alertRun[x]
        BY <1>2, <1>3, <4>2
      <4> QED BY <3>1, <4>1, <4>2, <4>3 DEF MayTell
    <3>2. Telling(t)' \subseteq Telling(t)
      BY <3>1 DEF Telling
    <3> QED BY <1>t, <1>1, <1>4, <1>b, <2>2, <3>2 DEF ToldStep, AlertTypes
  <2> QED BY <2>1, <2>2
<1>5. ASSUME NEW t \in NewTransfers, newTransfer[t].at # "none"
      PROVE  /\ Settled(t) => Settled(t)'
             /\ Stamp(t) <= lastRun' => Settled(t)'
             /\ RunSettles(t, r)'
  BY <1>t, <1>1, <1>2, <1>3, <1>5 DEF Settled, SettledInv, RunSettles
<1>6. \A t \in NewTransfers : newTransfer[t].at = "none" => alerted'[t] = 0
  BY <1>t, <1>1 DEF StampsOfTheirTime
<1> QED BY <1>t, <1>1, <1>2, <1>b, <1>s, <1>4, <1>5, <1>6, RunKeepsAlerts DEF AlertTypes

LEMMA BreakKeepsAlerts ==
  ASSUME AlertInv, NEW r \in AlertRuns, Alerts!Break(r) PROVE AlertInv'
<1>t. AlertTypes /\ StampsOfTheirTime /\ SettledInv
  BY DEF AlertInv
<1> DEFINE new == Alerts!NoRun
<1>1. /\ Alerts!Becomes(r, new) /\ alertFaults' = alertFaults + 1
      /\ UNCHANGED <<now, newTransfer, lastRun, alerted, excused, back>>
  BY DEF Alerts!Break, Alerts!Fault, Alerts!ghosts
<1>2. RunTypes(new) /\ new.at = "idle"
  BY <1>t DEF Alerts!NoRun, RunTypes, AlertTypes
<1> HIDE DEF new
<1>3. alertRun'[r] = new
  BY <1>t, <1>1, OneRunStep
<1>4. ASSUME NEW t \in NewTransfers PROVE ToldStep(t) /\ RunSettles(t, r)'
  <2>1. Telling(t)' \subseteq Telling(t) \cup {r}
    BY <1>t, <1>1, TellingOthers
  <2> QED BY <1>1, <1>2, <1>3, <2>1 DEF ToldStep, RunSettles
<1>5. /\ \A t \in NewTransfers : newTransfer[t].at # "none" =>
           (Settled(t) => Settled(t)') /\ (lastRun' # None /\ Stamp(t) <= lastRun' => Settled(t)')
      /\ \A t \in NewTransfers : newTransfer[t].at = "none" => alerted'[t] = 0
  BY <1>t, <1>1 DEF Settled, SettledInv, StampsOfTheirTime
<1>6. alertFaults' \in Nat
  BY <1>t, <1>1 DEF AlertTypes
<1> QED BY <1>t, <1>1, <1>2, <1>4, <1>5, <1>6, RunKeepsAlerts DEF AlertTypes

LEMMA ForgetKeepsAlerts ==
  ASSUME AlertInv, Alerts!Forget PROVE AlertInv'
<1>t. AlertTypes /\ StampsOfTheirTime /\ ToldInv /\ SettledInv
  BY DEF AlertInv
<1>1. /\ lastRun' = None /\ alertFaults' = alertFaults + 1 /\ Alerts!SetBack(0)
      /\ UNCHANGED <<now, newTransfer, alertRun, alerted, excused>>
  BY DEF Alerts!Forget, Alerts!Fault
<1>b. /\ back' \in [NewTransfers -> Nat]
      /\ \A t \in NewTransfers : newTransfer[t].at # "none" =>
           back'[t] = IF 0 < Stamp(t) THEN back[t] + 1 ELSE back[t]
  BY <1>t, <1>1, SetBackCounts
<1>2. AlertTypes' /\ StampsOfTheirTime'
  BY <1>t, <1>1, <1>b DEF AlertTypes, StampsOfTheirTime, RunTypes, Stamp
<1>3. ToldInv'
  <2>1. ASSUME NEW t \in NewTransfers PROVE ToldStep(t)
    BY <1>t, <1>1, <1>b, <2>1 DEF ToldStep, AlertTypes, StampsOfTheirTime
  <2>2. ASSUME NEW t \in NewTransfers
        PROVE  alerted'[t] + Cardinality(Telling(t))' <= Allowed(t)'
    BY <1>t, <2>1, ToldStepKeeps DEF ToldInv
  <2> QED BY <2>2 DEF ToldInv
<1>4. SettledInv'
  BY <1>t, <1>1 DEF SettledInv, Settled, Stamp
<1> QED BY <1>2, <1>3, <1>4 DEF AlertInv

LEMMA AlertInvStays == AlertInv /\ [Alerts!Next]_alertVars => AlertInv'
<1> SUFFICES ASSUME AlertInv, [Alerts!Next]_alertVars PROVE AlertInv'
  OBVIOUS
<1>1. ASSUME NEW t \in NewTransfers, Alerts!Create(t) \/ Alerts!Commit(t) \/ Alerts!Remove(t)
      PROVE  AlertInv'
  <2>1. UNCHANGED <<lastRun, alertRun, alerted, excused, back, alertFaults>>
    BY <1>1 DEF Alerts!Create, Alerts!Commit, Alerts!Remove, Alerts!ghosts
  <2> QED BY <1>1, <2>1, WorldKeepsAlerts
<1>2. CASE Alerts!OptOut
  <2>1. UNCHANGED <<now, newTransfer, lastRun, alertRun, alerted, excused, back, alertFaults>>
    BY <1>2 DEF Alerts!OptOut, Alerts!ghosts
  <2> QED BY <2>1, WorldKeepsAlerts
<1>3. CASE UNCHANGED alertVars
  <2>1. UNCHANGED <<now, newTransfer, lastRun, alertRun, alerted, excused, back, alertFaults>>
    BY <1>3 DEF alertVars
  <2> QED BY <2>1, WorldKeepsAlerts
<1> QED BY <1>1, <1>2, <1>3, ForgetKeepsAlerts, FireKeepsAlerts, GetLastRunKeepsAlerts,
       QueryKeepsAlerts, MailKeepsAlerts, SaveKeepsAlerts, BreakKeepsAlerts DEF Alerts!Next

LEMMA AlertInvHolds == DealsAndMailsSpec => []AlertInv
<1>1. DealsAndMails => AlertInv
  BY AlertInvStarts DEF DealsAndMails
<1>2. AlertInv /\ [Step]_<<what, vars, alertVars, digestVars>> => AlertInv'
  <2>1. [Step]_<<what, vars, alertVars, digestVars>> => [Alerts!Next]_alertVars
    BY DEF Step
  <2> QED BY <2>1, AlertInvStays
<1> QED BY <1>1, <1>2, PTL DEF DealsAndMailsSpec

LEMMA AlertsKeepTheirPromises == AlertInv => Alerts!AlertedBounded /\ Alerts!NobodyMisses
<1> SUFFICES ASSUME AlertInv PROVE Alerts!AlertedBounded /\ Alerts!NobodyMisses
  OBVIOUS
<1>1. ASSUME NEW t \in NewTransfers
      PROVE  alerted[t] <= Alerts!Cardinality(AlertRuns) * (1 + back[t]) + alertFaults
  <2>1. alerted[t] \in Nat /\ alerted[t] + Cardinality(Telling(t)) <= Allowed(t)
    BY DEF AlertInv, AlertTypes, ToldInv
  <2>2. Cardinality(Telling(t)) \in Nat /\ Cardinality(AlertRuns) \in Nat
    BY TellingCounted
  <2>3. \A a, b \in Nat : a * (1 + b) \in Nat
    OBVIOUS
  <2>4. Allowed(t) \in Nat
    BY <2>2, <2>3 DEF AlertInv, AlertTypes, Allowed
  <2>5. alerted[t] <= Allowed(t)
    BY <2>1, <2>2, <2>4
  <2> QED BY <2>5, AlertsCount DEF Allowed
<1>2. Alerts!NobodyMisses
  BY DEF AlertInv, SettledInv, Settled, Stamp, Alerts!NobodyMisses
<1> QED BY <1>1, <1>2 DEF Alerts!AlertedBounded

-----------------------------------------------------------------------------
(***************************************************************************)
(* The weekly mail.  A page is what stands between two ranks in the list   *)
(* of the eligible, and everybody's rank moves with the list.              *)
(***************************************************************************)
LEMMA DigestsCount == \A S : Weekly!Cardinality(S) = Cardinality(S)
  BY Zenon DEF Weekly!Cardinality, Cardinality

Rank(E, u) == Cardinality({v \in E : v < u})
First(E, k) == {u \in E : Rank(E, u) < k}

LEMMA Ranks ==
  ASSUME NEW E \in SUBSET (1 .. N)
  PROVE  /\ IsFiniteSet(E) /\ \A u : Rank(E, u) \in Nat
         /\ \A u, w \in E : u < w => Rank(E, u) < Rank(E, w)
<1>n. N \in Int /\ 1 \in Int
  BY MailsAssumption
<1>0. IsFiniteSet(1 .. N)
  BY ONLY <1>n, FS_Interval
<1>1. IsFiniteSet(E) /\ \A u : IsFiniteSet({v \in E : v < u})
  <2>1. \A u : {v \in E : v < u} \subseteq 1 .. N
    OBVIOUS
  <2> QED BY <1>0, <2>1, FS_Subset
<1>2. \A u : Rank(E, u) \in Nat
  BY <1>1, FS_CardinalityType DEF Rank
<1>3. ASSUME NEW u \in E, NEW w \in E, u < w PROVE Rank(E, u) < Rank(E, w)
  <2> DEFINE S == {v \in E : v < u}   T == {v \in E : v < w}
  <2>0. \A v \in E : v \in Int
    OBVIOUS
  <2>1. S \cup {u} \subseteq T /\ u \notin S
    <3>1. u \in Int /\ w \in Int /\ ~(u < u)
      BY <2>0
    <3>2. \A v \in E : v < u => v < w
      BY <1>3, <2>0, <3>1
    <3> QED BY <1>3, <3>1, <3>2
  <2>2. Cardinality(S \cup {u}) = Cardinality(S) + 1
    BY <1>1, <2>1, FS_AddElement
  <2>3. Cardinality(S \cup {u}) <= Cardinality(T)
    BY <1>1, <2>1, FS_Subset
  <2>4. Cardinality(S) \in Nat /\ Cardinality(T) \in Nat
    BY <1>1, FS_CardinalityType
  <2> QED BY <2>2, <2>3, <2>4 DEF Rank
<1> QED BY <1>1, <1>2, <1>3

(* Who joins moves others down the list by one at most ...                 *)
LEMMA RankMoves ==
  ASSUME NEW E \in SUBSET (1 .. N), NEW x \in 1 .. N, NEW u \in 1 .. N
  PROVE  /\ Rank(E \ {x}, u) <= Rank(E, u)
         /\ Rank(E, u) <= Rank(E \ {x}, u) + 1
         /\ Rank(E \ {x}, u) # Rank(E, u) => x < u
<1> DEFINE S == {v \in E : v < u}   T == {v \in E \ {x} : v < u}
<1>1. T = S \ {x} /\ IsFiniteSet(S)
  <2>1. IsFiniteSet(E) /\ S \subseteq E
    BY Ranks
  <2> QED BY <2>1, FS_Subset
<1>2. Cardinality(T) = IF x \in S THEN Cardinality(S) - 1 ELSE Cardinality(S)
  BY <1>1, FS_RemoveElement
<1>3. Cardinality(S) \in Nat /\ Cardinality(T) \in Nat
  BY <1>1, <1>2, FS_CardinalityType, FS_RemoveElement
<1>4. Rank(E, u) = Cardinality(S) /\ Rank(E \ {x}, u) = Cardinality(T)
  BY DEF Rank
<1> HIDE DEF T
<1>5. x \in S => x < u
  OBVIOUS
<1> HIDE DEF S
<1> QED BY <1>2, <1>3, <1>4, <1>5

(* ... so that at most one enters the first k when one leaves ...          *)
LEMMA FirstWhenOneLeaves ==
  ASSUME NEW E \in SUBSET (1 .. N), NEW x \in E, NEW k \in Nat
  PROVE  /\ \E y : First(E \ {x}, k) \subseteq First(E, k) \cup {y}
         /\ First(E, k) \subseteq First(E \ {x}, k) \cup {x}
<1> DEFINE G == E \ {x}   new == First(G, k) \ First(E, k)
<1>g. G \in SUBSET (1 .. N)
  OBVIOUS
<1>t. /\ \A u : Rank(E, u) \in Nat /\ Rank(G, u) \in Nat
      /\ \A u, w \in E : u < w => Rank(E, u) < Rank(E, w)
  BY <1>g, Ranks
<1>m. \A u \in E : Rank(G, u) <= Rank(E, u) /\ Rank(E, u) <= Rank(G, u) + 1
  BY RankMoves
<1>d. First(G, k) = {u \in G : Rank(G, u) < k} /\ First(E, k) = {u \in E : Rank(E, u) < k}
  BY DEF First
<1>e. G \subseteq E
  OBVIOUS
<1> HIDE DEF G
<1>1. ASSUME NEW u \in new PROVE u \in E /\ Rank(E, u) = k
  <2>1. u \in E /\ Rank(G, u) < k /\ ~(Rank(E, u) < k)
    BY <1>d, <1>e
  <2>2. Rank(E, u) \in Nat /\ Rank(G, u) \in Nat /\ Rank(E, u) <= Rank(G, u) + 1
    BY <1>t, <1>m, <2>1
  <2> QED BY <2>1, <2>2
<1>2. ASSUME NEW u \in new, NEW w \in new, u # w PROVE FALSE
  <2>1. u \in E /\ w \in E /\ Rank(E, u) = k /\ Rank(E, w) = k
    BY <1>1
  <2>2. u < w \/ w < u
    BY <1>2, <2>1
  <2> QED BY <1>t, <2>1, <2>2
<1>3. \E y : First(G, k) \subseteq First(E, k) \cup {y}
  <2>1. CASE new = {}
    BY <2>1
  <2>2. CASE new # {}
    <3>1. PICK y : y \in new
      BY <2>2
    <3> QED BY <1>2, <3>1
  <2> QED BY <2>1, <2>2
<1>4. ASSUME NEW u \in First(E, k), u # x PROVE u \in First(G, k)
  <2>1. u \in E /\ u \in G /\ Rank(E, u) < k
    BY <1>4, <1>d DEF G
  <2>2. Rank(E, u) \in Nat /\ Rank(G, u) \in Nat /\ Rank(G, u) <= Rank(E, u)
    BY <1>t, <1>m, <2>1
  <2>3. Rank(G, u) < k
    BY <2>1, <2>2
  <2> QED BY <1>d, <2>1, <2>3
<1> QED BY <1>3, <1>4 DEF G

(* ... and one falls out of them, or is himself behind them, when one      *)
(* joins.                                                                  *)
LEMMA BehindWhenOneJoins ==
  ASSUME NEW G \in SUBSET (1 .. N), NEW x \in (1 .. N) \ G, NEW k \in Nat
  PROVE  /\ \E y : (G \cup {x}) \ First(G \cup {x}, k) \subseteq (G \ First(G, k)) \cup {y}
         /\ First(G \cup {x}, k) \subseteq First(G, k) \cup {x}
<1> DEFINE E == G \cup {x}   new == (E \ First(E, k)) \ (G \ First(G, k))
<1>g. E \in SUBSET (1 .. N) /\ G = E \ {x} /\ x \in E
  OBVIOUS
<1>t. /\ \A u : Rank(E, u) \in Nat /\ Rank(G, u) \in Nat
      /\ \A u, w \in E : u < w => Rank(E, u) < Rank(E, w)
  BY <1>g, Ranks
<1>m. \A u \in E : /\ Rank(G, u) <= Rank(E, u) /\ Rank(E, u) <= Rank(G, u) + 1
                   /\ Rank(G, u) # Rank(E, u) => x < u
  <2> HIDE DEF E
  <2> QED BY <1>g, RankMoves
<1>d. First(G, k) = {u \in G : Rank(G, u) < k} /\ First(E, k) = {u \in E : Rank(E, u) < k}
  BY DEF First
<1>1. \A u \in new : u \in E /\ (u # x => Rank(E, u) = k /\ x < u) /\ Rank(E, u) >= k
  <2>1. \A u \in new : u \in E /\ ~(Rank(E, u) < k) /\ (u # x => Rank(G, u) < k)
    BY <1>d
  <2> HIDE DEF new, E
  <2> QED BY <1>t, <1>m, <2>1
<1>2. \A u, w \in new : u = w
  <2>1. \A u, w \in E : u # w => u < w \/ w < u
    OBVIOUS
  <2> HIDE DEF new, E
  <2>2. ASSUME NEW u \in new, NEW w \in new, u # w PROVE FALSE
    <3>1. u \in E /\ w \in E /\ Rank(E, u) \in Nat /\ Rank(E, w) \in Nat
      BY <1>1, <1>t
    <3>2. CASE u # x /\ w # x
      BY <1>1, <1>t, <2>1, <2>2, <3>1, <3>2
    <3>3. CASE u = x
      BY <1>1, <1>t, <2>2, <3>1, <3>3
    <3>4. CASE w = x
      BY <1>1, <1>t, <2>2, <3>1, <3>4
    <3> QED BY <3>2, <3>3, <3>4
  <2> QED BY <2>2
<1>3. \E y : E \ First(E, k) \subseteq (G \ First(G, k)) \cup {y}
  <2>1. CASE new = {}
    BY <2>1
  <2>2. CASE new # {}
    <3>1. PICK y : y \in new
      BY <2>2
    <3> QED BY <1>2, <3>1
  <2> QED BY <2>1, <2>2
<1>4. ASSUME NEW u \in First(E, k), u # x PROVE u \in First(G, k)
  <2>1. u \in E /\ u \in G /\ Rank(E, u) < k
    BY <1>4, <1>d
  <2>2. Rank(E, u) \in Nat /\ Rank(G, u) \in Nat /\ Rank(G, u) <= Rank(E, u)
    BY <1>t, <1>m, <2>1
  <2>3. Rank(G, u) < k
    BY <2>1, <2>2
  <2> QED BY <1>d, <2>1, <2>3
<1> QED BY <1>3, <1>4

(* A page has no more than its size; a shorter one is the last.            *)
PageOf(E, skip) == {u \in E : Rank(E, u) \in skip .. (skip + RECIPIENT_PAGE - 1)}
LEMMA Pages ==
  ASSUME NEW E \in SUBSET (1 .. N), NEW skip \in Nat
  PROVE  /\ Cardinality(PageOf(E, skip)) \in 0 .. RECIPIENT_PAGE
         /\ Cardinality(PageOf(E, skip)) < RECIPIENT_PAGE
              => E = First(E, skip) \cup PageOf(E, skip)
<1> DEFINE page == PageOf(E, skip)   A == First(E, skip)
<1>t. /\ IsFiniteSet(E) /\ \A u : Rank(E, u) \in Nat
      /\ \A u, w \in E : u < w => Rank(E, u) < Rank(E, w)
  BY Ranks
<1>p. RECIPIENT_PAGE \in Nat /\ RECIPIENT_PAGE > 0
  BY MailsAssumption
<1>f. page \subseteq E /\ A \subseteq E /\ IsFiniteSet(page) /\ IsFiniteSet(A)
  <2>1. page \subseteq E /\ A \subseteq E
    BY DEF PageOf, First
  <2> QED BY <1>t, <2>1, FS_Subset
<1>i. ASSUME NEW S \in SUBSET E, NEW a \in Int, NEW b \in Int, \A u \in S : Rank(E, u) \in a .. b
      PROVE  Cardinality(S) <= IF a > b THEN 0 ELSE b - a + 1
  <2> DEFINE f == [u \in S |-> Rank(E, u)]
  <2>1. f \in Injection(S, a .. b)
    <3>1. f \in [S -> a .. b]
      BY <1>i
    <3>2. \A u, w \in S : u # w => f[u] # f[w]
      <4>1. \A u, w \in S : u # w => u < w \/ w < u
        OBVIOUS
      <4> QED BY <1>t, <4>1
    <3> QED BY <3>1, <3>2 DEF Injection, IsInjective
  <2>2. IsFiniteSet(a .. b) /\ Cardinality(a .. b) = IF a > b THEN 0 ELSE b - a + 1
    BY ONLY a \in Int, b \in Int, FS_Interval
  <2> HIDE DEF f
  <2> QED BY <2>1, <2>2, FS_Injection
<1>1. Cardinality(page) <= RECIPIENT_PAGE /\ Cardinality(page) \in Nat
  <2>1. \A u \in page : Rank(E, u) \in skip .. (skip + RECIPIENT_PAGE - 1)
    BY DEF PageOf
  <2>2. skip + RECIPIENT_PAGE - 1 \in Int /\ skip \in Int
    BY <1>p
  <2>3. Cardinality(page) <= IF skip > skip + RECIPIENT_PAGE - 1 THEN 0
                             ELSE (skip + RECIPIENT_PAGE - 1) - skip + 1
    BY <1>f, <1>i, <2>1, <2>2
  <2>4. Cardinality(page) \in Nat
    BY <1>f, FS_CardinalityType
  <2> HIDE DEF page
  <2> QED BY <1>p, <2>3, <2>4
<1>2. Cardinality(A) <= skip /\ Cardinality(A) \in Nat
  <2>1. \A u \in A : Rank(E, u) \in 0 .. (skip - 1)
    BY <1>t DEF First
  <2>2. Cardinality(A) <= IF 0 > skip - 1 THEN 0 ELSE (skip - 1) - 0 + 1
    BY <1>f, <1>i, <2>1
  <2>3. Cardinality(A) \in Nat
    BY <1>f, FS_CardinalityType
  <2> HIDE DEF A
  <2> QED BY <2>2, <2>3
<1>3. ASSUME Cardinality(page) < RECIPIENT_PAGE PROVE E = A \cup page
  <2> DEFINE out == E \ (A \cup page)
             rank == [u \in out |-> -u]
  <2> SUFFICES ASSUME out # {} PROVE FALSE
    BY <1>f
  <2>1. IsFiniteSet(out) /\ out \in SUBSET Int /\ \A u \in out : rank[u] \in Int
    <3>1. out \subseteq E
      OBVIOUS
    <3>2. IsFiniteSet(out)
      BY <1>t, <3>1, FS_Subset
    <3>3. \A u \in out : u \in Int
      BY <3>1
    <3> HIDE DEF out
    <3>4. \A u \in out : rank[u] \in Int
      BY <3>3
    <3> QED BY <3>2, <3>3, <3>4
  <2>2. PICK u \in out : \A v \in out : ~Outranks(rank, v, u)
    <3> HIDE DEF out, rank
    <3> QED BY <2>1, FirstInRank
  <2>3. \A v \in E : v < u => v \in A \cup page
    BY <2>2 DEF Outranks
  <2>4. {v \in E : v < u} \subseteq A \cup page
    BY <2>3
  <2>5. /\ IsFiniteSet(A \cup page)
        /\ Cardinality(A \cup page) <= Cardinality(A) + Cardinality(page)
        /\ Cardinality(A \cup page) \in Nat
    <3>1. /\ IsFiniteSet(A \cup page) /\ IsFiniteSet(A \cap page)
          /\ Cardinality(A \cup page) = Cardinality(A) + Cardinality(page) - Cardinality(A \cap page)
      BY <1>f, FS_Union, FS_Intersection
    <3>2. Cardinality(A \cap page) \in Nat /\ Cardinality(A \cup page) \in Nat
      BY <3>1, FS_CardinalityType
    <3> HIDE DEF A, page
    <3> QED BY <1>1, <1>2, <3>1, <3>2
  <2>6. Rank(E, u) <= Cardinality(A \cup page)
    BY <2>4, <2>5, FS_Subset DEF Rank
  <2>7. Rank(E, u) < skip + RECIPIENT_PAGE
    <3> HIDE DEF A, page
    <3> QED BY <1>1, <1>2, <1>3, <1>p, <1>t, <2>5, <2>6
  <2>8. ~(Rank(E, u) < skip) /\ ~(Rank(E, u) \in skip .. (skip + RECIPIENT_PAGE - 1))
    BY <2>2 DEF First, PageOf
  <2> QED BY <1>p, <1>t, <2>7, <2>8
<1> QED BY <1>1, <1>3

(***************************************************************************)
(* What is known of a run r whose mails are m, when E are eligible.        *)
(***************************************************************************)
DigestFields == {"at", "skip", "page", "read", "steady", "joined", "left", "failed"}
DigestTypes(r, E) ==
  /\ r = [f \in DigestFields |-> r[f]] /\ r.skip \in Nat
  /\ r.page \subseteq Weekly!Users /\ (r.at # "send" => r.page = {}) /\ (r.at = "send" => r.page # {})
  /\ r.read \in 0 .. RECIPIENT_PAGE /\ r.steady \subseteq E
  /\ r.joined \in Nat /\ r.left \in Nat /\ r.failed \in Nat

(* Where the next page begins, and who stands before it.                   *)
Bound(r) == IF r.at = "send" THEN r.skip + RECIPIENT_PAGE ELSE r.skip
IsLast(r) == r.at = "done" \/ (r.at = "send" /\ r.read < RECIPIENT_PAGE)
(* Those the run has left behind it without a mail.                        *)
LeftOut(r, m, E) ==
  {u \in r.steady \ r.page : m[u] = 0 /\ (IsLast(r) \/ u \in First(E, Bound(r)))}
(* Those it has mailed and will mail again: on this page, or later.        *)
Repeated(r, m) == {u \in r.page : m[u] # 0}
Behind(r, m, E) == {u \in E \ First(E, Bound(r)) : m[u] # 0 \/ u \in r.page}
AgainOf(m) == UNION {{u} \X (2 .. m[u]) : u \in Weekly!Users}

Complete(r, m, E) ==
  r.at \in {"read", "send", "done"} => Cardinality(LeftOut(r, m, E)) <= r.left + r.failed
Economic(r, m, E) ==
  /\ IsFiniteSet(AgainOf(m)) /\ Cardinality(AgainOf(m)) <= r.joined
  /\ r.at \in {"read", "send"} =>
       Cardinality(AgainOf(m)) + Cardinality(Repeated(r, m)) + Cardinality(Behind(r, m, E))
         <= r.joined
RunInv(r, m, E) ==
  /\ DigestTypes(r, E) /\ m \in [Weekly!Users -> Nat]
  /\ r.at = "idle" => m = [u \in Weekly!Users |-> 0]
  /\ Complete(r, m, E) /\ Economic(r, m, E)
DigestInv ==
  /\ user = [u \in Weekly!Users |-> user[u]]
  /\ digestRun = [p \in Processes |-> digestRun[p]]
  /\ mails = [p \in Processes |-> mails[p]]
  /\ \A p \in Processes : RunInv(digestRun[p], mails[p], Weekly!Eligible)

LEMMA ListsAreFinite ==
  /\ Weekly!Users = 1 .. N
  /\ \A S \in SUBSET (1 .. N) : IsFiniteSet(S) /\ Cardinality(S) \in Nat
<1>1. Weekly!Users = 1 .. N
  BY DEF Weekly!Users
<1>2. ASSUME NEW S \in SUBSET (1 .. N) PROVE IsFiniteSet(S) /\ Cardinality(S) \in Nat
  BY Ranks, FS_CardinalityType
<1> QED BY <1>1, <1>2

LEMMA AtMostOneMore ==
  ASSUME NEW A \in SUBSET (1 .. N), NEW B \in SUBSET (1 .. N), NEW y, B \subseteq A \cup {y}
  PROVE  Cardinality(B) <= Cardinality(A) + 1
<1>1. IsFiniteSet(A) /\ Cardinality(A) \in Nat /\ Cardinality(B) \in Nat
  BY ListsAreFinite
<1>2. /\ IsFiniteSet(A \cup {y})
      /\ Cardinality(A \cup {y}) = IF y \in A THEN Cardinality(A) ELSE Cardinality(A) + 1
  BY <1>1, FS_AddElement
<1>3. Cardinality(B) <= Cardinality(A \cup {y})
  BY <1>2, FS_Subset
<1> QED BY <1>1, <1>2, <1>3

LEMMA NoMore ==
  ASSUME NEW A \in SUBSET (1 .. N), NEW B \in SUBSET (1 .. N), B \subseteq A
  PROVE  Cardinality(B) <= Cardinality(A)
BY ListsAreFinite, FS_Subset

LEMMA NobodyYet ==
  ASSUME NEW m, m = [u \in Weekly!Users |-> 0]
  PROVE  AgainOf(m) = {} /\ IsFiniteSet(AgainOf(m)) /\ Cardinality(AgainOf(m)) = 0
<1>1. \A u \in Weekly!Users : 2 .. m[u] = {}
  OBVIOUS
<1>2. AgainOf(m) = {}
  BY <1>1 DEF AgainOf
<1> QED BY <1>2, FS_EmptySet

LEMMA DigestInvStarts == Weekly!Init => DigestInv
<1> SUFFICES ASSUME Weekly!Init PROVE DigestInv
  OBVIOUS
<1>1. ASSUME NEW p \in Processes PROVE RunInv(digestRun[p], mails[p], Weekly!Eligible)
  <2>1. digestRun[p] = Weekly!NoRun /\ mails[p] = [u \in Weekly!Users |-> 0]
    BY DEF Weekly!Init
  <2>2. /\ DigestTypes(Weekly!NoRun, Weekly!Eligible)
        /\ Weekly!NoRun.at = "idle" /\ Weekly!NoRun.joined = 0
    BY MailsAssumption DEF DigestTypes, DigestFields, Weekly!NoRun
  <2> QED BY <2>1, <2>2, NobodyYet DEF RunInv, Complete, Economic
<1> QED BY <1>1 DEF Weekly!Init, DigestInv

(* One user joins or leaves the list.                                      *)
LEMMA ChangeKeepsRun ==
  ASSUME NEW E \in SUBSET (1 .. N), NEW G \in SUBSET (1 .. N), NEW x \in 1 .. N, NEW r, NEW s, NEW m,
         RunInv(r, m, E),
         s = [r EXCEPT !.steady = @ \ {x},
                       !.joined = IF x \in G THEN @ + 1 ELSE @,
                       !.left = IF x \notin G THEN @ + 1 ELSE @],
         \/ x \notin E /\ G = E \cup {x}
         \/ x \in E /\ G = E \ {x}
  PROVE  RunInv(s, m, G)
<1>t. DigestTypes(r, E) /\ m \in [Weekly!Users -> Nat]
  BY DEF RunInv
<1>s. /\ s = [f \in DigestFields |-> s[f]]
      /\ s.at = r.at /\ s.skip = r.skip /\ s.page = r.page /\ s.read = r.read /\ s.failed = r.failed
      /\ s.steady = r.steady \ {x}
      /\ s.joined = (IF x \in G THEN r.joined + 1 ELSE r.joined)
      /\ s.left = (IF x \notin G THEN r.left + 1 ELSE r.left)
  <2>1. r = [f \in DigestFields |-> r[f]]
    BY <1>t DEF DigestTypes
  <2> QED BY <2>1 DEF DigestFields
<1>n. r.joined \in Nat /\ r.left \in Nat /\ r.failed \in Nat
  BY <1>t DEF DigestTypes
<1>1. DigestTypes(s, G)
  <2>1. r.steady \subseteq E
    BY <1>t DEF DigestTypes
  <2>2. s.steady \subseteq G
    BY <1>s, <2>1
  <2>3. s.joined \in Nat /\ s.left \in Nat
    BY <1>s, <1>n
  <2>4. /\ s.skip \in Nat /\ s.page \subseteq Weekly!Users /\ (s.at # "send" => s.page = {})
        /\ (s.at = "send" => s.page # {}) /\ s.read \in 0 .. RECIPIENT_PAGE /\ s.failed \in Nat
    BY <1>t, <1>s DEF DigestTypes
  <2> QED BY <1>s, <2>2, <2>3, <2>4 DEF DigestTypes
<1>b. Bound(r) \in Nat /\ Bound(s) = Bound(r) /\ (IsLast(s) <=> IsLast(r))
  BY <1>t, <1>s, MailsAssumption DEF DigestTypes, Bound, IsLast
<1>2. /\ \E y : LeftOut(s, m, G) \subseteq LeftOut(r, m, E) \cup (IF x \notin G THEN {y} ELSE {})
      /\ \E y : Behind(s, m, G) \subseteq Behind(r, m, E) \cup (IF x \in G THEN {y} ELSE {})
      /\ Repeated(s, m) = Repeated(r, m)
  <2>1. CASE x \notin E /\ G = E \cup {x}
    <3>1. First(G, Bound(r)) \subseteq First(E, Bound(r)) \cup {x}
      BY <1>b, <2>1, BehindWhenOneJoins
    <3>2. \E y : G \ First(G, Bound(r)) \subseteq (E \ First(E, Bound(r))) \cup {y}
      BY <1>b, <2>1, BehindWhenOneJoins
    <3>3. x \in G
      BY <2>1
    <3>4. LeftOut(s, m, G) \subseteq LeftOut(r, m, E)
      BY <1>s, <1>b, <3>1 DEF LeftOut
    <3>5. PICK y : G \ First(G, Bound(r)) \subseteq (E \ First(E, Bound(r))) \cup {y}
      BY <3>2
    <3>6. Behind(s, m, G) \subseteq Behind(r, m, E) \cup {y}
      BY <1>s, <1>b, <3>5 DEF Behind
    <3> QED BY <1>s, <3>3, <3>4, <3>6 DEF Repeated
  <2>2. CASE x \in E /\ G = E \ {x}
    <3>1. PICK y : First(G, Bound(r)) \subseteq First(E, Bound(r)) \cup {y}
      BY <1>b, <2>2, FirstWhenOneLeaves
    <3>2. First(E, Bound(r)) \subseteq First(G, Bound(r)) \cup {x}
      BY <1>b, <2>2, FirstWhenOneLeaves
    <3>3. x \notin G
      BY <2>2
    <3>4. LeftOut(s, m, G) \subseteq LeftOut(r, m, E) \cup {y}
      BY <1>s, <1>b, <3>1 DEF LeftOut
    <3>5. Behind(s, m, G) \subseteq Behind(r, m, E)
      BY <1>s, <1>b, <2>2, <3>2 DEF Behind
    <3> QED BY <1>s, <3>3, <3>4, <3>5 DEF Repeated
  <2> QED BY <2>1, <2>2
<1>f. /\ LeftOut(r, m, E) \in SUBSET (1 .. N) /\ Behind(r, m, E) \in SUBSET (1 .. N)
      /\ LeftOut(s, m, G) \in SUBSET (1 .. N) /\ Behind(s, m, G) \in SUBSET (1 .. N)
      /\ Repeated(r, m) \in SUBSET (1 .. N)
  BY <1>t, <1>1, ListsAreFinite DEF DigestTypes, LeftOut, Behind, Repeated
<1>3. /\ Cardinality(LeftOut(s, m, G)) \in Nat /\ Cardinality(LeftOut(r, m, E)) \in Nat
      /\ Cardinality(Behind(s, m, G)) \in Nat /\ Cardinality(Behind(r, m, E)) \in Nat
      /\ Cardinality(Repeated(r, m)) \in Nat
  BY <1>f, ListsAreFinite
<1>4. Cardinality(LeftOut(s, m, G)) <= Cardinality(LeftOut(r, m, E)) + (IF x \notin G THEN 1 ELSE 0)
  <2>1. CASE x \in G
    <3>1. LeftOut(s, m, G) \subseteq LeftOut(r, m, E)
      BY <1>2, <2>1
    <3> QED BY <1>3, <1>f, <2>1, <3>1, NoMore
  <2>2. CASE x \notin G
    <3>1. PICK y : LeftOut(s, m, G) \subseteq LeftOut(r, m, E) \cup {y}
      BY <1>2, <2>2
    <3> QED BY <1>3, <1>f, <2>2, <3>1, AtMostOneMore
  <2> QED BY <2>1, <2>2
<1>5. Cardinality(Behind(s, m, G)) <= Cardinality(Behind(r, m, E)) + (IF x \in G THEN 1 ELSE 0)
  <2>1. CASE x \notin G
    <3>1. Behind(s, m, G) \subseteq Behind(r, m, E)
      BY <1>2, <2>1
    <3> QED BY <1>3, <1>f, <2>1, <3>1, NoMore
  <2>2. CASE x \in G
    <3>1. PICK y : Behind(s, m, G) \subseteq Behind(r, m, E) \cup {y}
      BY <1>2, <2>2
    <3> QED BY <1>3, <1>f, <2>2, <3>1, AtMostOneMore
  <2> QED BY <2>1, <2>2
<1>6. Complete(s, m, G)
  BY <1>s, <1>n, <1>3, <1>4 DEF RunInv, Complete
<1>7. Economic(s, m, G)
  <2>1. IsFiniteSet(AgainOf(m)) /\ Cardinality(AgainOf(m)) \in Nat
    BY FS_CardinalityType DEF RunInv, Economic
  <2> QED BY <1>s, <1>n, <1>2, <1>3, <1>5, <2>1 DEF RunInv, Economic
<1> QED BY <1>1, <1>6, <1>7, <1>t, <1>s DEF RunInv

(* A run begins, with nobody behind it, or does not come that far.         *)
LEMMA StartKeepsRun ==
  ASSUME NEW E \in SUBSET (1 .. N), NEW m, m = [u \in Weekly!Users |-> 0], NEW s,
         \/ s = [Weekly!NoRun EXCEPT !.at = "read", !.steady = E]
         \/ s = [Weekly!NoRun EXCEPT !.at = "broken"]
  PROVE  RunInv(s, m, E)
<1> DEFINE o == Weekly!NoRun
<1>o. /\ o = [f \in DigestFields |-> o[f]] /\ o.skip = 0 /\ o.page = {} /\ o.read = 0
      /\ o.steady = {} /\ o.joined = 0 /\ o.left = 0 /\ o.failed = 0
  BY DEF Weekly!NoRun, DigestFields
<1> HIDE DEF o
<1>s. /\ s = [f \in DigestFields |-> s[f]] /\ s.skip = 0 /\ s.page = {} /\ s.read = 0
      /\ s.joined = 0 /\ s.left = 0 /\ s.failed = 0 /\ s.steady \subseteq E
      /\ s.at \in {"read", "broken"}
  <2>1. CASE s = [o EXCEPT !.at = "read", !.steady = E]
    BY <1>o, <2>1 DEF DigestFields
  <2>2. CASE s = [o EXCEPT !.at = "broken"]
    BY <1>o, <2>2 DEF DigestFields
  <2> QED BY <2>1, <2>2 DEF o
<1>1. DigestTypes(s, E)
  BY <1>s, MailsAssumption DEF DigestTypes
<1>2. LeftOut(s, m, E) = {}
  <2>1. First(E, 0) = {}
    BY Ranks DEF First
  <2> QED BY <1>s, <2>1 DEF LeftOut, Bound, IsLast
<1>3. Repeated(s, m) = {}
  BY <1>s DEF Repeated
<1>4. Behind(s, m, E) = {}
  BY <1>s, ListsAreFinite DEF Behind
<1>5. Cardinality({}) = 0
  BY FS_EmptySet
<1>6. IsFiniteSet(AgainOf(m)) /\ Cardinality(AgainOf(m)) = 0
  BY NobodyYet
<1>7. Complete(s, m, E) /\ Economic(s, m, E)
  <2>1. /\ Cardinality(LeftOut(s, m, E)) = 0 /\ Cardinality(Repeated(s, m)) = 0
        /\ Cardinality(Behind(s, m, E)) = 0
    BY <1>2, <1>3, <1>4, <1>5
  <2>2. s.left = 0 /\ s.failed = 0 /\ s.joined = 0
    BY <1>s
  <2> QED BY ONLY <1>6, <2>1, <2>2 DEF Complete, Economic
<1>8. m \in [Weekly!Users -> Nat] /\ s.at # "idle"
  BY <1>s
<1> QED BY <1>1, <1>7, <1>8 DEF RunInv

LEMMA ReadKeepsRun ==
  ASSUME NEW E \in SUBSET (1 .. N), NEW m, NEW r, NEW s, RunInv(r, m, E), r.at = "read",
         s = [r EXCEPT !.at = IF PageOf(E, r.skip) = {} THEN "done" ELSE "send",
                       !.page = PageOf(E, r.skip), !.read = Cardinality(PageOf(E, r.skip))]
  PROVE  RunInv(s, m, E)
<1> DEFINE page == PageOf(E, r.skip)
<1>t. /\ DigestTypes(r, E) /\ m \in [Weekly!Users -> Nat] /\ r.skip \in Nat /\ r.page = {}
      /\ RECIPIENT_PAGE \in Nat /\ RECIPIENT_PAGE > 0
  BY MailsAssumption DEF RunInv, DigestTypes
<1>s. /\ s = [f \in DigestFields |-> s[f]]
      /\ s.at = (IF page = {} THEN "done" ELSE "send") /\ s.page = page /\ s.read = Cardinality(page)
      /\ s.skip = r.skip /\ s.steady = r.steady /\ s.joined = r.joined
      /\ s.left = r.left /\ s.failed = r.failed
  <2>1. r = [f \in DigestFields |-> r[f]]
    BY <1>t DEF DigestTypes
  <2> HIDE DEF page
  <2> QED BY <2>1 DEF DigestFields, page
<1>p. /\ page \subseteq E /\ Cardinality(page) \in 0 .. RECIPIENT_PAGE
      /\ Cardinality(page) < RECIPIENT_PAGE => E = First(E, r.skip) \cup page
      /\ page = {} => Cardinality(page) = 0
  BY <1>t, Pages, FS_EmptySet DEF PageOf
<1>k. /\ \A u \in E : u \in First(E, r.skip + RECIPIENT_PAGE) => u \in First(E, r.skip) \cup page
      /\ \A u \in page : u \in First(E, r.skip + RECIPIENT_PAGE) /\ u \notin First(E, r.skip)
      /\ First(E, r.skip) \subseteq First(E, r.skip + RECIPIENT_PAGE)
  <2>1. \A u : Rank(E, u) \in Nat
    BY Ranks
  <2> QED BY <1>t, <2>1 DEF First, PageOf
<1> HIDE DEF page
<1>1. DigestTypes(s, E)
  <2>1. /\ r.steady \subseteq E /\ r.skip \in Nat
        /\ r.joined \in Nat /\ r.left \in Nat /\ r.failed \in Nat
    BY <1>t DEF DigestTypes
  <2>2. s.page \subseteq Weekly!Users
    BY <1>s, <1>p, ListsAreFinite
  <2>3. /\ s.at # "send" => s.page = {}
        /\ s.at = "send" => s.page # {}
    BY <1>s
  <2>4. s.read \in 0 .. RECIPIENT_PAGE
    BY <1>s, <1>p
  <2> QED BY <1>s, <2>1, <2>2, <2>3, <2>4 DEF DigestTypes
<1>2. LeftOut(s, m, E) \subseteq LeftOut(r, m, E)
  <2>1. r.steady \subseteq E
    BY <1>t DEF DigestTypes
  <2> SUFFICES ASSUME NEW u \in LeftOut(s, m, E) PROVE u \in LeftOut(r, m, E)
    OBVIOUS
  <2>2. /\ u \in r.steady /\ u \in E /\ u \notin page /\ m[u] = 0
        /\ IsLast(s) \/ u \in First(E, Bound(s))
    BY <1>s, <2>1 DEF LeftOut
  <2>3. u \in First(E, r.skip)
    <3>1. CASE Cardinality(page) < RECIPIENT_PAGE
      BY <1>p, <2>2, <3>1
    <3>2. CASE ~(Cardinality(page) < RECIPIENT_PAGE)
      <4>1. page # {}
        BY <1>p, <1>t, <3>2
      <4>2. ~IsLast(s) /\ Bound(s) = r.skip + RECIPIENT_PAGE
        BY <1>s, <3>2, <4>1 DEF IsLast, Bound
      <4> QED BY <1>k, <2>2, <4>2
    <3> QED BY <3>1, <3>2
  <2> QED BY <1>t, <2>2, <2>3 DEF LeftOut, Bound
<1>3. s.at = "send" =>
        /\ Repeated(s, m) \cup Behind(s, m, E) \subseteq Behind(r, m, E)
        /\ Repeated(s, m) \cap Behind(s, m, E) = {}
  <2> SUFFICES ASSUME s.at = "send"
               PROVE  /\ Repeated(s, m) \cup Behind(s, m, E) \subseteq Behind(r, m, E)
                      /\ Repeated(s, m) \cap Behind(s, m, E) = {}
    OBVIOUS
  <2>1. Bound(s) = r.skip + RECIPIENT_PAGE /\ Bound(r) = r.skip
    BY <1>s DEF Bound
  <2> QED BY <1>s, <1>p, <1>k, <2>1 DEF Repeated, Behind
<1>f. /\ LeftOut(r, m, E) \in SUBSET (1 .. N) /\ Behind(r, m, E) \in SUBSET (1 .. N)
      /\ LeftOut(s, m, E) \in SUBSET (1 .. N) /\ Behind(s, m, E) \in SUBSET (1 .. N)
      /\ Repeated(s, m) \in SUBSET (1 .. N)
  BY <1>t, <1>1, ListsAreFinite DEF DigestTypes, LeftOut, Behind, Repeated
<1>n. /\ Cardinality(LeftOut(r, m, E)) \in Nat /\ Cardinality(Behind(r, m, E)) \in Nat
      /\ Cardinality(LeftOut(s, m, E)) \in Nat /\ Cardinality(Behind(s, m, E)) \in Nat
      /\ Cardinality(Repeated(s, m)) \in Nat
  BY <1>f, ListsAreFinite
<1>4. Complete(s, m, E)
  <2>1. Cardinality(LeftOut(s, m, E)) <= Cardinality(LeftOut(r, m, E))
    BY <1>2, <1>f, NoMore
  <2>2. Cardinality(LeftOut(r, m, E)) <= r.left + r.failed /\ r.left \in Nat /\ r.failed \in Nat
    BY <1>t DEF RunInv, Complete, DigestTypes
  <2> QED BY <1>s, <1>n, <2>1, <2>2 DEF Complete
<1>5. Economic(s, m, E)
  <2>1. /\ IsFiniteSet(AgainOf(m)) /\ Cardinality(AgainOf(m)) <= r.joined
        /\ Cardinality(AgainOf(m)) + Cardinality(Repeated(r, m)) + Cardinality(Behind(r, m, E)) <= r.joined
        /\ r.joined \in Nat
    BY <1>t DEF RunInv, Economic, DigestTypes
  <2>2. Cardinality(AgainOf(m)) \in Nat
    BY <2>1, FS_CardinalityType
  <2>3. Cardinality(Repeated(r, m)) = 0
    BY <1>t, FS_EmptySet DEF Repeated
  <2>4. ASSUME s.at = "send"
        PROVE  Cardinality(Repeated(s, m)) + Cardinality(Behind(s, m, E)) <= Cardinality(Behind(r, m, E))
    <3> DEFINE A == Repeated(s, m)   B == Behind(s, m, E)
    <3>1. IsFiniteSet(A) /\ IsFiniteSet(B) /\ A \cup B \in SUBSET (1 .. N)
      BY <1>f, ListsAreFinite
    <3>2. Cardinality(A \cup B) = Cardinality(A) + Cardinality(B) - Cardinality(A \cap B)
      BY <3>1, FS_Union
    <3>3. Cardinality(A \cap B) = 0
      BY <1>3, <2>4, FS_EmptySet
    <3>4. Cardinality(A \cup B) <= Cardinality(Behind(r, m, E))
      BY <1>3, <1>f, <2>4, <3>1, NoMore
    <3> HIDE DEF A, B
    <3>5. Cardinality(A) \in Nat /\ Cardinality(B) \in Nat
      BY <1>n DEF A, B
    <3>6. Cardinality(A) + Cardinality(B) <= Cardinality(Behind(r, m, E))
      BY <3>2, <3>3, <3>4, <3>5
    <3> QED BY <3>6 DEF A, B
  <2>5. s.at # "read"
    BY <1>s
  <2>6. ASSUME s.at = "send"
        PROVE  Cardinality(AgainOf(m)) + Cardinality(Repeated(s, m)) + Cardinality(Behind(s, m, E))
                 <= r.joined
    <3>1. Cardinality(Repeated(s, m)) + Cardinality(Behind(s, m, E)) <= Cardinality(Behind(r, m, E))
      BY <2>4, <2>6
    <3> QED BY ONLY <1>n, <2>1, <2>2, <2>3, <3>1
  <2>7. s.joined = r.joined
    BY <1>s
  <2> QED BY <2>1, <2>5, <2>6, <2>7 DEF Economic
<1> QED BY <1>1, <1>4, <1>5, <1>t, <1>s DEF RunInv

(* One user of the page is mailed, or not.                                 *)
LEMMA SendKeepsRun ==
  ASSUME NEW E \in SUBSET (1 .. N), NEW m, NEW n, NEW r, NEW s, RunInv(r, m, E), r.at = "send",
         NEW u \in r.page, NEW d \in {0, 1},
         s = [f \in DigestFields |-> s[f]],
         s.page = r.page \ {u}, s.steady = r.steady, s.joined = r.joined, s.left = r.left,
         s.failed = r.failed + d, s.read = r.read,
         \/ s.at = "send" /\ s.skip = r.skip /\ s.page # {}
         \/ s.at = "done" /\ s.skip = r.skip /\ s.page = {} /\ r.read < RECIPIENT_PAGE
         \/ s.at = "read" /\ s.skip = r.skip + r.read /\ s.page = {} /\ ~(r.read < RECIPIENT_PAGE),
         \/ n = [m EXCEPT ![u] = @ + 1]
         \/ n = m /\ (d = 1 \/ u \notin r.steady)
  PROVE  RunInv(s, n, E)
<1>t. /\ DigestTypes(r, E) /\ m \in [Weekly!Users -> Nat] /\ r.skip \in Nat /\ r.read \in 0 .. RECIPIENT_PAGE
      /\ r.page \subseteq 1 .. N /\ r.steady \subseteq E /\ u \in Weekly!Users
      /\ RECIPIENT_PAGE \in Nat
      /\ r.joined \in Nat /\ r.left \in Nat /\ r.failed \in Nat
  BY MailsAssumption, ListsAreFinite DEF RunInv, DigestTypes
<1>m. /\ n \in [Weekly!Users -> Nat] /\ \A v \in Weekly!Users : v # u => n[v] = m[v]
      /\ n[u] = m[u] \/ n[u] = m[u] + 1
      /\ n[u] = m[u] => n = m /\ (d = 1 \/ u \notin r.steady)
  BY <1>t
<1>1. DigestTypes(s, E)
  <2>1. s.page \subseteq Weekly!Users /\ r.failed + d \in Nat /\ r.skip + r.read \in Nat
    <3>1. s.page \subseteq Weekly!Users
      BY <1>t, ListsAreFinite
    <3>2. r.failed + d \in Nat /\ r.skip + r.read \in Nat
      BY ONLY <1>t, d \in {0, 1}
    <3> QED BY <3>1, <3>2
  <2>2. s.skip \in Nat /\ s.at \in {"send", "done", "read"}
    BY <1>t, <2>1
  <2>3. /\ s.at # "send" => s.page = {}
        /\ s.at = "send" => s.page # {}
    OBVIOUS
  <2> QED BY <1>t, <2>1, <2>2, <2>3 DEF DigestTypes
<1>b. /\ s.at # "done" => Bound(s) = Bound(r)
      /\ (IsLast(s) <=> IsLast(r))
  BY <1>t DEF Bound, IsLast
<1>c. IsLast(s) \/ Bound(s) = Bound(r)
  BY <1>b DEF IsLast
<1>2. LeftOut(s, n, E) \subseteq LeftOut(r, m, E) \cup (IF d = 1 THEN {u} ELSE {})
  <2> SUFFICES ASSUME NEW v \in LeftOut(s, n, E), ~(d = 1 /\ v = u) PROVE v \in LeftOut(r, m, E)
    OBVIOUS
  <2>1. /\ v \in r.steady /\ v \notin r.page \ {u} /\ n[v] = 0
        /\ IsLast(s) \/ v \in First(E, Bound(s))
    BY DEF LeftOut
  <2>2. v \in Weekly!Users
    BY <1>t, <2>1, ListsAreFinite
  <2>3. v # u
    BY <1>m, <1>t, <2>1
  <2> QED BY <1>b, <1>c, <1>m, <2>1, <2>2, <2>3 DEF LeftOut
<1>3. Repeated(s, n) = Repeated(r, m) \ {u}
  BY <1>m, <1>t, ListsAreFinite DEF Repeated
<1>4. s.at \in {"read", "send"} => Behind(s, n, E) \subseteq Behind(r, m, E)
  <2> SUFFICES ASSUME s.at \in {"read", "send"}, NEW v \in Behind(s, n, E) PROVE v \in Behind(r, m, E)
    OBVIOUS
  <2>1. v \in E \ First(E, Bound(r)) /\ (n[v] # 0 \/ v \in r.page)
    BY <1>b DEF Behind
  <2> QED BY <1>m, <2>1, ListsAreFinite DEF Behind
<1>f. /\ LeftOut(r, m, E) \in SUBSET (1 .. N) /\ Behind(r, m, E) \in SUBSET (1 .. N)
      /\ LeftOut(s, n, E) \in SUBSET (1 .. N) /\ Behind(s, n, E) \in SUBSET (1 .. N)
      /\ Repeated(r, m) \in SUBSET (1 .. N) /\ Repeated(s, n) \in SUBSET (1 .. N)
  BY <1>t, <1>1, ListsAreFinite DEF DigestTypes, LeftOut, Behind, Repeated
<1>n. /\ Cardinality(LeftOut(r, m, E)) \in Nat /\ Cardinality(Behind(r, m, E)) \in Nat
      /\ Cardinality(LeftOut(s, n, E)) \in Nat /\ Cardinality(Behind(s, n, E)) \in Nat
      /\ Cardinality(Repeated(r, m)) \in Nat /\ Cardinality(Repeated(s, n)) \in Nat
  BY <1>f, ListsAreFinite
<1>5. Complete(s, n, E)
  <2>1. Cardinality(LeftOut(s, n, E)) <= Cardinality(LeftOut(r, m, E)) + d
    <3>1. CASE d = 1
      <4>1. LeftOut(s, n, E) \subseteq LeftOut(r, m, E) \cup {u}
        BY <1>2
      <4> QED BY <1>f, <3>1, <4>1, AtMostOneMore
    <3>2. CASE d = 0
      <4>1. LeftOut(s, n, E) \subseteq LeftOut(r, m, E)
        BY <1>2, <3>2
      <4>2. Cardinality(LeftOut(s, n, E)) <= Cardinality(LeftOut(r, m, E))
        BY <1>f, <4>1, NoMore
      <4> QED BY <1>n, <3>2, <4>2
    <3> QED BY <3>1, <3>2
  <2>2. Cardinality(LeftOut(r, m, E)) <= r.left + r.failed
    BY DEF RunInv, Complete
  <2> QED BY <1>t, <1>n, <2>1, <2>2 DEF Complete
<1>6. Economic(s, n, E)
  <2>1. /\ IsFiniteSet(AgainOf(m)) /\ Cardinality(AgainOf(m)) <= r.joined
        /\ Cardinality(AgainOf(m)) + Cardinality(Repeated(r, m)) + Cardinality(Behind(r, m, E)) <= r.joined
    BY DEF RunInv, Economic
  <2>2. Cardinality(AgainOf(m)) \in Nat
    BY <2>1, FS_CardinalityType
  <2>3. s.at \in {"read", "send"} => Cardinality(Behind(s, n, E)) <= Cardinality(Behind(r, m, E))
    BY <1>4, <1>f, NoMore
  <2>4. Cardinality(Repeated(s, n)) = Cardinality(Repeated(r, m)) - (IF u \in Repeated(r, m) THEN 1 ELSE 0)
    <3>1. IsFiniteSet(Repeated(r, m))
      BY <1>f, ListsAreFinite
    <3>2. Cardinality(Repeated(r, m) \ {u}) =
            IF u \in Repeated(r, m) THEN Cardinality(Repeated(r, m)) - 1 ELSE Cardinality(Repeated(r, m))
      BY <3>1, FS_RemoveElement
    <3>3. Cardinality(Repeated(s, n)) = Cardinality(Repeated(r, m) \ {u})
      BY <1>3
    <3> QED BY <1>n, <3>2, <3>3
  <2>5. /\ IsFiniteSet(AgainOf(n)) /\ Cardinality(AgainOf(n)) \in Nat
        /\ Cardinality(AgainOf(n)) <= Cardinality(AgainOf(m)) + (IF u \in Repeated(r, m) THEN 1 ELSE 0)
    <3>1. CASE m[u] = 0
      <4>1. 2 .. n[u] = {} /\ 2 .. m[u] = {}
        BY <1>m, <1>t, <3>1
      <4>2. \A v \in Weekly!Users : 2 .. n[v] = 2 .. m[v]
        BY <1>m, <4>1
      <4>3. AgainOf(n) = AgainOf(m)
        BY <4>2 DEF AgainOf
      <4> QED BY <2>1, <2>2, <4>3
    <3>2. CASE m[u] # 0
      <4>1. u \in Repeated(r, m)
        BY <3>2 DEF Repeated
      <4>2. 2 .. n[u] \subseteq (2 .. m[u]) \cup {m[u] + 1}
        BY <1>m, <1>t
      <4>3. AgainOf(n) \subseteq AgainOf(m) \cup {<<u, m[u] + 1>>}
        <5> SUFFICES ASSUME NEW a \in AgainOf(n) PROVE a \in AgainOf(m) \/ a = <<u, m[u] + 1>>
          OBVIOUS
        <5>1. PICK v \in Weekly!Users : a \in {v} \X (2 .. n[v])
          BY DEF AgainOf
        <5>2. PICK k \in 2 .. n[v] : a = <<v, k>>
          BY <5>1
        <5>3. CASE v = u /\ k = m[u] + 1
          BY <5>2, <5>3
        <5>4. CASE k \in 2 .. m[v]
          BY <5>2, <5>4 DEF AgainOf
        <5> QED BY <1>m, <4>2, <5>2, <5>3, <5>4
      <4>4. /\ IsFiniteSet(AgainOf(m) \cup {<<u, m[u] + 1>>})
            /\ Cardinality(AgainOf(m) \cup {<<u, m[u] + 1>>}) =
                 IF <<u, m[u] + 1>> \in AgainOf(m) THEN Cardinality(AgainOf(m))
                 ELSE Cardinality(AgainOf(m)) + 1
        BY <2>1, FS_AddElement
      <4>5. IsFiniteSet(AgainOf(n)) /\ Cardinality(AgainOf(n)) <= Cardinality(AgainOf(m) \cup {<<u, m[u] + 1>>})
        BY <4>3, <4>4, FS_Subset
      <4>6. Cardinality(AgainOf(n)) \in Nat
        BY <4>5, FS_CardinalityType
      <4> QED BY <2>2, <4>1, <4>4, <4>5, <4>6
    <3> QED BY <3>1, <3>2
  <2>6. u \in Repeated(r, m) => Cardinality(Repeated(r, m)) >= 1
    BY <1>n, <2>4
  <2> QED BY <1>n, <1>t, <2>1, <2>2, <2>3, <2>4, <2>5, <2>6 DEF Economic
<1>7. s.at # "idle"
  OBVIOUS
<1> QED BY <1>1, <1>5, <1>6, <1>7, <1>m DEF RunInv

LEMMA ChangeKeepsDigest ==
  ASSUME DigestInv, NEW x \in Weekly!Users, NEW to \in {"eligible", "other", "optedOut"},
         Weekly!Change(x, to)
  PROVE  DigestInv'
<1> DEFINE E == Weekly!Eligible
           G == Weekly!Eligible'
           s(p) == [digestRun[p] EXCEPT !.steady = @ \ {x},
                                        !.joined = IF to = "eligible" THEN @ + 1 ELSE @,
                                        !.left = IF to # "eligible" THEN @ + 1 ELSE @]
<1>1. /\ <<user[x], to>> \in {<<"other", "eligible">>, <<"eligible", "other">>, <<"eligible", "optedOut">>}
      /\ user' = [user EXCEPT ![x] = to] /\ digestRun' = [p \in Processes |-> s(p)] /\ mails' = mails
  BY DEF Weekly!Change
<1>2. user = [u \in Weekly!Users |-> user[u]]
  BY DEF DigestInv
<1>3. E = {u \in Weekly!Users : user[u] = "eligible"} /\ G = {u \in Weekly!Users : user'[u] = "eligible"}
  BY DEF Weekly!Eligible
<1>4. \/ x \notin E /\ G = E \cup {x} /\ to = "eligible"
      \/ x \in E /\ G = E \ {x} /\ to # "eligible"
  <2>1. user'[x] = to /\ \A u \in Weekly!Users \ {x} : user'[u] = user[u]
    BY <1>1, <1>2
  <2>2. CASE to = "eligible" /\ user[x] = "other"
    BY <1>3, <2>1, <2>2
  <2>3. CASE to # "eligible" /\ user[x] = "eligible"
    BY <1>3, <2>1, <2>3
  <2> QED BY <1>1, <2>2, <2>3
<1>5. E \in SUBSET (1 .. N) /\ G \in SUBSET (1 .. N) /\ x \in 1 .. N /\ (x \in G <=> to = "eligible")
  <2>1. E \in SUBSET (1 .. N) /\ G \in SUBSET (1 .. N) /\ x \in 1 .. N
    BY <1>3, ListsAreFinite
  <2> QED BY <1>4, <2>1
<1> HIDE DEF E, G
<1>6. ASSUME NEW p \in Processes PROVE RunInv(digestRun'[p], mails'[p], G)
  <2>1. RunInv(digestRun[p], mails[p], E)
    BY DEF DigestInv, E
  <2>2. s(p) = [digestRun[p] EXCEPT !.steady = @ \ {x},
                                    !.joined = IF x \in G THEN @ + 1 ELSE @,
                                    !.left = IF x \notin G THEN @ + 1 ELSE @]
    <3>1. CASE to = "eligible"
      BY <1>5, <3>1
    <3>2. CASE to # "eligible"
      BY <1>5, <3>2
    <3> QED BY <3>1, <3>2
  <2>3. digestRun'[p] = s(p) /\ mails'[p] = mails[p]
    BY <1>1
  <2> HIDE DEF s
  <2>4. \/ x \notin E /\ G = E \cup {x}
        \/ x \in E /\ G = E \ {x}
    BY <1>4
  <2>5. RunInv(s(p), mails[p], G)
    BY <1>5, <2>1, <2>2, <2>4, ChangeKeepsRun
  <2> QED BY <2>3, <2>5
<1>7. /\ user' = [u \in Weekly!Users |-> user'[u]]
      /\ digestRun' = [p \in Processes |-> digestRun'[p]] /\ mails' = [p \in Processes |-> mails'[p]]
  <2>1. user' = [u \in Weekly!Users |-> user'[u]]
    BY <1>1, <1>2
  <2>2. mails' = [p \in Processes |-> mails'[p]]
    BY <1>1 DEF DigestInv
  <2> HIDE DEF s
  <2>3. digestRun' = [p \in Processes |-> digestRun'[p]]
    BY <1>1
  <2> QED BY <2>1, <2>2, <2>3
<1> QED BY <1>6, <1>7 DEF DigestInv, G

(* One run, and its mails, take a step; the list stands.                   *)
LEMMA OneDigestRun ==
  ASSUME DigestInv, NEW p \in Processes, NEW s, NEW n, UNCHANGED user,
         Weekly!Becomes(p, s), mails' = [mails EXCEPT ![p] = n],
         RunInv(s, n, Weekly!Eligible)
  PROVE  DigestInv'
<1>1. Weekly!Eligible' = Weekly!Eligible
  BY DEF Weekly!Eligible
<1>2. /\ digestRun = [q \in Processes |-> digestRun[q]] /\ mails = [q \in Processes |-> mails[q]]
      /\ digestRun' = [digestRun EXCEPT ![p] = s]
      /\ user = [u \in Weekly!Users |-> user[u]]
  BY DEF DigestInv, Weekly!Becomes
<1>3. ASSUME NEW q \in Processes PROVE RunInv(digestRun'[q], mails'[q], Weekly!Eligible)
  <2>1. RunInv(digestRun[q], mails[q], Weekly!Eligible)
    BY DEF DigestInv
  <2>2. CASE q = p
    <3>1. digestRun'[q] = s /\ mails'[q] = n
      BY <1>2, <2>2
    <3> QED BY <3>1
  <2>3. CASE q # p
    <3>1. digestRun'[q] = digestRun[q] /\ mails'[q] = mails[q]
      BY <1>2, <2>3
    <3> QED BY <2>1, <3>1
  <2> QED BY <2>2, <2>3
<1>4. /\ digestRun' = [q \in Processes |-> digestRun'[q]] /\ mails' = [q \in Processes |-> mails'[q]]
      /\ user' = [u \in Weekly!Users |-> user'[u]]
  BY <1>2
<1> QED BY <1>1, <1>3, <1>4 DEF DigestInv

(* A run that broke off is only asked whom it mailed twice.                *)
LEMMA BrokenRun ==
  ASSUME NEW E, NEW m, NEW r, NEW s, RunInv(r, m, E),
         s = [f \in DigestFields |-> s[f]], s.at = "broken", s.page = {}, s.skip = r.skip,
         s.read = r.read, s.steady = r.steady, s.joined = r.joined, s.left = r.left,
         s.failed = r.failed
  PROVE  RunInv(s, m, E)
<1>1. DigestTypes(s, E)
  BY DEF RunInv, DigestTypes
<1>2. Complete(s, m, E) /\ Economic(s, m, E)
  BY DEF RunInv, Complete, Economic
<1> QED BY <1>1, <1>2 DEF RunInv

LEMMA FireKeepsDigest ==
  ASSUME DigestInv, NEW p \in Processes, Weekly!Fire(p) PROVE DigestInv'
<1> DEFINE E == Weekly!Eligible
<1>1. PICK s : /\ Weekly!Becomes(p, s)
               /\ \/ s = [Weekly!NoRun EXCEPT !.at = "read", !.steady = E]
                  \/ s = [Weekly!NoRun EXCEPT !.at = "broken"]
  BY DEF Weekly!Fire
<1>2. digestRun[p].at = "idle" /\ UNCHANGED <<user, mails>>
  BY DEF Weekly!Fire
<1>3. E \in SUBSET (1 .. N)
  BY ListsAreFinite DEF Weekly!Eligible
<1> HIDE DEF E
<1>4. mails[p] = [u \in Weekly!Users |-> 0] /\ mails = [q \in Processes |-> mails[q]]
  BY <1>2 DEF DigestInv, RunInv
<1>5. RunInv(s, mails[p], E)
  BY <1>1, <1>3, <1>4, StartKeepsRun
<1>6. mails' = [mails EXCEPT ![p] = mails[p]]
  BY <1>2, <1>4
<1> QED BY <1>1, <1>2, <1>5, <1>6, OneDigestRun DEF E

LEMMA ReadKeepsDigest ==
  ASSUME DigestInv, NEW p \in Processes, Weekly!Read(p) PROVE DigestInv'
<1> DEFINE E == Weekly!Eligible
           r == digestRun[p]
           page == Weekly!Page(r.skip, RECIPIENT_PAGE)
           s == [r EXCEPT !.at = IF page = {} THEN "done" ELSE "send",
                          !.page = page, !.read = Weekly!Cardinality(page)]
           b == [r EXCEPT !.at = "broken"]
<1>1. r.at = "read" /\ UNCHANGED <<user, mails>> /\ (Weekly!Becomes(p, s) \/ Weekly!Becomes(p, b))
  BY DEF Weekly!Read
<1>2. page = PageOf(E, r.skip)
  BY DigestsCount DEF Weekly!Page, PageOf, Rank
<1>3. E \in SUBSET (1 .. N)
  BY ListsAreFinite DEF Weekly!Eligible
<1>4. RunInv(r, mails[p], E) /\ mails = [q \in Processes |-> mails[q]]
  BY DEF DigestInv
<1>5. s = [r EXCEPT !.at = IF PageOf(E, r.skip) = {} THEN "done" ELSE "send",
                    !.page = PageOf(E, r.skip), !.read = Cardinality(PageOf(E, r.skip))]
  BY <1>2, DigestsCount
<1> HIDE DEF E, r, page, s
<1>6. RunInv(s, mails[p], E)
  BY <1>1, <1>3, <1>4, <1>5, ReadKeepsRun
<1>7. RunInv(b, mails[p], E)
  <2>1. r = [f \in DigestFields |-> r[f]] /\ r.page = {}
    BY <1>1, <1>4 DEF RunInv, DigestTypes
  <2>2. /\ b = [f \in DigestFields |-> b[f]] /\ b.at = "broken" /\ b.page = {} /\ b.skip = r.skip
        /\ b.read = r.read /\ b.steady = r.steady /\ b.joined = r.joined /\ b.left = r.left
        /\ b.failed = r.failed
    BY <2>1 DEF DigestFields
  <2> HIDE DEF b
  <2> QED BY <1>4, <2>2, BrokenRun
<1> HIDE DEF b
<1>8. mails' = [mails EXCEPT ![p] = mails[p]]
  BY <1>1, <1>4
<1> QED BY <1>1, <1>6, <1>7, <1>8, OneDigestRun DEF E

(* A mail more for a user.                                                 *)
Mailed(m, u) == [m EXCEPT ![u] = @ + 1]

(* After a user of the page: the page, the next one, or the end.           *)
LEMMA AfterOne ==
  ASSUME NEW E \in SUBSET (1 .. N), NEW r, NEW u \in r.page, NEW m, NEW n, NEW d \in {0, 1},
         NEW rest, NEW s, RunInv(r, m, E), r.at = "send",
         rest = [f \in DigestFields |-> rest[f]],
         rest.at = "send", rest.page = r.page \ {u}, rest.steady = r.steady, rest.skip = r.skip,
         rest.joined = r.joined, rest.left = r.left, rest.failed = r.failed + d, rest.read = r.read,
         s = (IF rest.page = {} THEN Weekly!Onward(rest) ELSE rest),
         \/ n = Mailed(m, u)
         \/ n = m /\ (d = 1 \/ u \notin r.steady)
  PROVE  RunInv(s, n, E)
<1>1. CASE rest.page # {}
  BY <1>1, SendKeepsRun DEF Mailed
<1>2. CASE rest.page = {} /\ r.read < RECIPIENT_PAGE
  <2>1. s = [rest EXCEPT !.at = "done"]
    BY <1>2 DEF Weekly!Onward
  <2>2. /\ s = [f \in DigestFields |-> s[f]] /\ s.at = "done" /\ s.skip = r.skip /\ s.page = {}
        /\ s.steady = r.steady /\ s.joined = r.joined /\ s.left = r.left
        /\ s.failed = r.failed + d /\ s.read = r.read
    BY <1>2, <2>1 DEF DigestFields
  <2>3. s.page = r.page \ {u}
    BY <1>2, <2>2
  <2> QED BY <1>2, <2>2, <2>3, SendKeepsRun DEF Mailed
<1>3. CASE rest.page = {} /\ ~(r.read < RECIPIENT_PAGE)
  <2>1. s = [rest EXCEPT !.at = "read", !.skip = @ + rest.read]
    BY <1>3 DEF Weekly!Onward
  <2>2. /\ s = [f \in DigestFields |-> s[f]] /\ s.at = "read" /\ s.skip = r.skip + r.read /\ s.page = {}
        /\ s.steady = r.steady /\ s.joined = r.joined /\ s.left = r.left
        /\ s.failed = r.failed + d /\ s.read = r.read
    BY <1>3, <2>1 DEF DigestFields
  <2>3. s.page = r.page \ {u}
    BY <1>3, <2>2
  <2> QED BY <1>3, <2>2, <2>3, SendKeepsRun DEF Mailed
<1> QED BY <1>1, <1>2, <1>3

LEMMA SendKeepsDigest ==
  ASSUME DigestInv, NEW p \in Processes, Weekly!Send(p) PROVE DigestInv'
<1> DEFINE E == Weekly!Eligible
           r == digestRun[p]
           m == mails[p]
           u == Weekly!Min(r.page)
           rest == [r EXCEPT !.page = @ \ {u}]
           worse == [rest EXCEPT !.failed = @ + 1]
           b == [rest EXCEPT !.at = "broken", !.page = {}]
           next(q) == IF q.page = {} THEN Weekly!Onward(q) ELSE q
<1>1. /\ r.at = "send" /\ UNCHANGED user
      /\ \/ Weekly!Becomes(p, next(rest)) /\ mails' = [mails EXCEPT ![p][u] = @ + 1]
         \/ user[u] = "optedOut" /\ Weekly!Becomes(p, next(rest)) /\ mails' = mails
         \/ Weekly!Becomes(p, next(worse)) /\ mails' = mails
         \/ Weekly!Becomes(p, b) /\ mails' = mails
  BY DEF Weekly!Send, Weekly!Mailable
<1>2. E \in SUBSET (1 .. N)
  BY ListsAreFinite DEF Weekly!Eligible
<1>3. RunInv(r, m, E) /\ mails = [q \in Processes |-> mails[q]]
  BY DEF DigestInv
<1>t. /\ r = [f \in DigestFields |-> r[f]] /\ r.page # {} /\ r.page \subseteq 1 .. N /\ r.steady \subseteq E
      /\ r.failed \in Nat /\ m \in [Weekly!Users -> Nat]
  BY <1>1, <1>3, ListsAreFinite DEF RunInv, DigestTypes
<1>4. u \in r.page
  <2> DEFINE rank == [v \in r.page |-> -v]
  <2>0. \A v \in r.page : v \in Int
    BY <1>t
  <2>1. IsFiniteSet(r.page) /\ r.page \in SUBSET Int /\ \A v \in r.page : rank[v] \in Int
    <3>1. IsFiniteSet(r.page)
      BY <1>t, ListsAreFinite
    <3>2. \A v \in r.page : rank[v] \in Int
      BY <2>0
    <3> QED BY <2>0, <3>1, <3>2
  <2>2. PICK v \in r.page : \A w \in r.page : ~Outranks(rank, w, v)
    <3> HIDE DEF rank, r
    <3> QED BY <1>t, <2>1, FirstInRank
  <2>r. \A w \in r.page : rank[w] = -w
    OBVIOUS
  <2> HIDE DEF rank, r
  <2>3. ASSUME NEW w \in r.page PROVE v <= w
    <3>1. ~(rank[w] > rank[v])
      BY <2>2 DEF Outranks
    <3>2. w \in Int /\ v \in Int /\ rank[w] = -w /\ rank[v] = -v
      BY <2>0, <2>r
    <3> QED BY <3>1, <3>2
  <2> QED BY <2>3 DEF Weekly!Min
<1>5. user[u] = "optedOut" => u \notin r.steady
  BY <1>t DEF Weekly!Eligible
<1> HIDE DEF E, r, m, u, next
<1>6. /\ rest = [f \in DigestFields |-> rest[f]] /\ rest.at = "send" /\ rest.page = r.page \ {u}
      /\ rest.steady = r.steady /\ rest.skip = r.skip /\ rest.joined = r.joined /\ rest.left = r.left
      /\ rest.failed = r.failed + 0 /\ rest.read = r.read
  BY <1>1, <1>t DEF DigestFields
<1> HIDE DEF rest
<1>7. /\ worse = [f \in DigestFields |-> worse[f]] /\ worse.at = "send" /\ worse.page = r.page \ {u}
      /\ worse.steady = r.steady /\ worse.skip = r.skip /\ worse.joined = r.joined /\ worse.left = r.left
      /\ worse.failed = r.failed + 1 /\ worse.read = r.read
  BY <1>6, <1>t DEF DigestFields
<1>8. /\ b = [f \in DigestFields |-> b[f]] /\ b.at = "broken" /\ b.page = {}
      /\ b.steady = r.steady /\ b.skip = r.skip /\ b.joined = r.joined /\ b.left = r.left
      /\ b.failed = r.failed /\ b.read = r.read
  <2>1. rest = [f \in DigestFields |-> rest[f]]
    BY <1>6
  <2>2. DOMAIN b = DigestFields
    BY <2>1
  <2>3. b = [f \in DigestFields |-> b[f]]
    <3>1. b = [f \in DOMAIN b |-> b[f]]
      OBVIOUS
    <3> QED BY <2>2, <3>1
  <2>4. b.at = "broken" /\ b.page = {}
    BY <2>1 DEF DigestFields
  <2>5. /\ b.steady = rest.steady /\ b.skip = rest.skip /\ b.joined = rest.joined
        /\ b.left = rest.left /\ b.failed = rest.failed /\ b.read = rest.read
    BY <2>1 DEF DigestFields
  <2>6. rest.failed = r.failed
    BY <1>6, <1>t
  <2> QED BY <1>6, <2>3, <2>4, <2>5, <2>6
<1> HIDE DEF worse, b
<1>9. /\ next(rest) = (IF rest.page = {} THEN Weekly!Onward(rest) ELSE rest)
      /\ next(worse) = (IF worse.page = {} THEN Weekly!Onward(worse) ELSE worse)
  BY DEF next
<1>10. mails = [mails EXCEPT ![p] = m]
  BY <1>3 DEF m
<1>11. CASE Weekly!Becomes(p, next(rest)) /\ mails' = [mails EXCEPT ![p][u] = @ + 1]
  <2> DEFINE n == Mailed(m, u)
  <2>0. n = Mailed(m, u) /\ 0 \in {0, 1}
    OBVIOUS
  <2>2. mails' = [mails EXCEPT ![p] = n]
    BY <1>11 DEF m, Mailed
  <2> HIDE DEF n
  <2>1. RunInv(next(rest), n, E)
    BY <1>1, <1>2, <1>3, <1>4, <1>6, <1>9, <2>0, AfterOne
  <2> QED BY <1>1, <1>11, <2>1, <2>2, OneDigestRun DEF E
<1>12. CASE user[u] = "optedOut" /\ Weekly!Becomes(p, next(rest)) /\ mails' = mails
  <2>1. RunInv(next(rest), m, E)
    BY <1>1, <1>2, <1>3, <1>4, <1>5, <1>6, <1>9, <1>12, AfterOne
  <2> QED BY <1>1, <1>10, <1>12, <2>1, OneDigestRun DEF E
<1>13. CASE Weekly!Becomes(p, next(worse)) /\ mails' = mails
  <2>1. RunInv(next(worse), m, E)
    BY <1>1, <1>2, <1>3, <1>4, <1>7, <1>9, AfterOne
  <2> QED BY <1>1, <1>10, <1>13, <2>1, OneDigestRun DEF E
<1>14. CASE Weekly!Becomes(p, b) /\ mails' = mails
  <2>1. RunInv(b, m, E)
    BY <1>3, <1>8, BrokenRun
  <2> QED BY <1>1, <1>10, <1>14, <2>1, OneDigestRun DEF E
<1> QED BY <1>1, <1>11, <1>12, <1>13, <1>14

LEMMA DigestInvStays == DigestInv /\ [Weekly!Next]_digestVars => DigestInv'
<1> SUFFICES ASSUME DigestInv, [Weekly!Next]_digestVars PROVE DigestInv'
  OBVIOUS
<1>1. CASE Weekly!Next
  BY <1>1, ChangeKeepsDigest, FireKeepsDigest, ReadKeepsDigest, SendKeepsDigest DEF Weekly!Next
<1>2. CASE UNCHANGED digestVars
  BY <1>2 DEF digestVars, DigestInv, Weekly!Eligible
<1> QED BY <1>1, <1>2

LEMMA DigestInvHolds == DealsAndMailsSpec => []DigestInv
<1>1. DealsAndMails => DigestInv
  BY DigestInvStarts DEF DealsAndMails
<1>2. DigestInv /\ [Step]_<<what, vars, alertVars, digestVars>> => DigestInv'
  <2>1. [Step]_<<what, vars, alertVars, digestVars>> => [Weekly!Next]_digestVars
    BY DEF Step
  <2> QED BY <2>1, DigestInvStays
<1> QED BY <1>1, <1>2, PTL DEF DealsAndMailsSpec

LEMMA DigestsKeepTheirPromises == DigestInv => Weekly!TwiceBounded /\ Weekly!MissedBounded
<1> SUFFICES ASSUME DigestInv, NEW p \in Processes
             PROVE  /\ Weekly!Cardinality(Weekly!Again(p)) <= digestRun[p].joined
                    /\ digestRun[p].at = "done" =>
                         Weekly!Cardinality({u \in digestRun[p].steady : mails[p][u] = 0})
                           <= digestRun[p].left + digestRun[p].failed
  BY DEF Weekly!TwiceBounded, Weekly!MissedBounded
<1>1. RunInv(digestRun[p], mails[p], Weekly!Eligible)
  BY DEF DigestInv
<1>2. Weekly!Again(p) = AgainOf(mails[p])
  BY DEF Weekly!Again, AgainOf
<1>3. Weekly!Cardinality(Weekly!Again(p)) <= digestRun[p].joined
  BY <1>1, <1>2, DigestsCount DEF RunInv, Economic
<1>4. ASSUME digestRun[p].at = "done"
      PROVE  {u \in digestRun[p].steady : mails[p][u] = 0}
               = LeftOut(digestRun[p], mails[p], Weekly!Eligible)
  <2>1. digestRun[p].page = {}
    BY <1>1, <1>4 DEF RunInv, DigestTypes
  <2> QED BY <1>4, <2>1 DEF LeftOut, IsLast
<1>5. ASSUME digestRun[p].at = "done"
      PROVE  Weekly!Cardinality({u \in digestRun[p].steady : mails[p][u] = 0})
               <= digestRun[p].left + digestRun[p].failed
  BY <1>1, <1>4, <1>5, DigestsCount DEF RunInv, Complete
<1> QED BY <1>3, <1>5

-----------------------------------------------------------------------------
(* Each process mails of a transfer once, and again at most for each time  *)
(* that the last run's mark was set back before its stamp, and for each    *)
(* fault; and a run of the weekly mail sends somebody another one only for *)
(* somebody who became eligible while it read the list page by page        *)
(* (transfer-alert.service.ts:42-49, weekly-digest.service.ts:45-57).      *)
THEOREM MailsAreNotRepeated == DealsAndMailsSpec => []NotTooOften
<1>1. AlertInv /\ DigestInv => NotTooOften
  BY AlertsKeepTheirPromises, DigestsKeepTheirPromises DEF NotTooOften
<1> QED BY <1>1, AlertInvHolds, DigestInvHolds, PTL

(* A transfer that a finished run should have told of has been told, is    *)
(* about to be, or was passed over for a limit or a failure; and a digest  *)
(* that came to its end left out at most as many of those eligible all     *)
(* through it as others left meanwhile and mails failed                    *)
(* (transfer-alert.service.ts:127-156, weekly-digest.service.ts:45-81).    *)
THEOREM NobodyIsForgotten == DealsAndMailsSpec => []NobodyMissed
<1>1. AlertInv /\ DigestInv => NobodyMissed
  BY AlertsKeepTheirPromises, DigestsKeepTheirPromises DEF NobodyMissed
<1> QED BY <1>1, AlertInvHolds, DigestInvHolds, PTL
=============================================================================
