--------------------------- MODULE AccountsProofs ---------------------------
(***************************************************************************)
(* Theorems about Accounts, for any finite set of accounts and any sets of *)
(* overlapping requests; about ReadCache, for any lives of the answers;    *)
(* and about Endpoints and Access, for any users and lives of the tokens.  *)
(***************************************************************************)
EXTENDS MCAccess, MCRedis, CardinalityFacts, TLAPS

LEMMA NextTypeOK == TypeOK /\ [Next]_vars => TypeOK'
<1> SUFFICES ASSUME TypeOK, [Next]_vars PROVE TypeOK'
  OBVIOUS
<1> USE ConstantsAssumption
    DEF TypeOK, Statuses, Roles, Values, Checks, Changes, NoCheck, NoOp, account, Fault
<1>1. ASSUME NEW u \in Users, Expire(u) PROVE TypeOK'
  BY <1>1 DEF Expire
<1>2. ASSUME NEW u \in Users, Remove(u) PROVE TypeOK'
  <2>1. removed' \in BOOLEAN
    BY <1>2, Zenon DEF Remove
  <2>2. dirty' \subseteq Ops
    BY <1>2 DEF Remove, Reading
  <2> QED BY <1>2, <2>1, <2>2 DEF Remove
<1>3. ASSUME NEW g \in Guards, ReadRow(g) PROVE TypeOK'
  <2>1. guard' \in [Guards -> Checks]
    BY <1>3 DEF ReadRow
  <2> QED BY <1>3, <2>1 DEF ReadRow
<1>4. ASSUME NEW g \in Guards, Fill(g) PROVE TypeOK'
  <2>1. guard[g].who \in Users /\ guard[g].seen \in Statuses
    BY <1>4 DEF Fill
  <2> QED BY <1>4, <2>1 DEF Fill, WriteCache
<1>5. ASSUME NEW g \in Guards, FillFails(g) PROVE TypeOK'
  BY <1>5 DEF FillFails
<1>6. ASSUME NEW g \in Guards, NEW u \in Users, Miss(g, u) \/ Unreachable(g, u)
      PROVE  TypeOK'
  BY <1>6 DEF Miss, Unreachable, Ask
<1>7. ASSUME NEW a \in Ops, NEW u \in Users, NEW to \in Values, Begin(a, u, to)
      PROVE  TypeOK'
  <2>1. op' \in [Ops -> Changes]
    BY <1>7 DEF Begin
  <2> QED BY <1>7, <2>1 DEF Begin
<1>8. ASSUME NEW a \in Ops, AssertNotLast(a) PROVE TypeOK'
  <2>1. op[a].who \in Users /\ op[a].to \in Values
    BY <1>8 DEF AssertNotLast
  <2>2. op[a] = [at |-> "count", who |-> op[a].who, to |-> op[a].to]
    BY <1>8 DEF AssertNotLast
  <2>3. [op[a] EXCEPT !.at = "write"] \in Changes
    BY <2>1, <2>2
  <2>4. op' \in [Ops -> Changes]
    BY <1>8, <2>3 DEF AssertNotLast
  <2> QED BY <1>8, <2>4 DEF AssertNotLast
<1>9. ASSUME NEW a \in Ops, WriteRow(a) PROVE TypeOK'
  <2>1. op[a].who \in Users /\ op[a].to \in Values
    BY <1>9 DEF WriteRow
  <2>2. op[a] = [at |-> "write", who |-> op[a].who, to |-> op[a].to]
    BY <1>9 DEF WriteRow
  <2>3. op[a].to \in Statuses => [op[a] EXCEPT !.at = "cache"] \in Changes
    BY <2>1, <2>2
  <2>4. op' \in [Ops -> Changes]
    BY <1>9, <2>3 DEF WriteRow
  <2>5. overlapped' \in BOOLEAN
    BY <1>9, Zenon DEF WriteRow
  <2>6. dirty' \subseteq Ops
    BY <1>9 DEF WriteRow, Reading
  <2>7. status' \in [Users -> Statuses] /\ role' \in [Users -> Roles]
    BY <1>9, <2>1 DEF WriteRow
  <2> QED BY <1>9, <2>4, <2>5, <2>6, <2>7 DEF WriteRow
<1>10. ASSUME NEW a \in Ops, SetCache(a) PROVE TypeOK'
  <2>1. op[a].who \in Users /\ op[a].to \in Statuses
    BY <1>10 DEF SetCache
  <2> QED BY <1>10, <2>1 DEF SetCache, WriteCache
<1>11. ASSUME NEW a \in Ops, GiveUp(a) PROVE TypeOK'
  <2>1. stale' \subseteq Users
    BY <1>11 DEF GiveUp
  <2> QED BY <1>11, <2>1 DEF GiveUp
<1>12. CASE UNCHANGED vars
  BY <1>12 DEF vars
<1> HIDE DEF TypeOK
<1> QED
  BY <1>1, <1>2, <1>3, <1>4, <1>5, <1>6, <1>7, <1>8, <1>9, <1>10, <1>11, <1>12
  DEF Next, GuardStep, OpStep

(* Every variable keeps its type; only a status reaches the cache.         *)
THEOREM TypeCorrect == Spec => []TypeOK
<1>1. Init => TypeOK
  <2> SUFFICES ASSUME Init PROVE TypeOK
    OBVIOUS
  <2>1. overlapped \in BOOLEAN /\ removed \in BOOLEAN
    BY Zenon DEF Init
  <2> QED BY <2>1 DEF Init, TypeOK, Statuses, Roles, Checks, Changes
<1> QED BY <1>1, NextTypeOK, PTL DEF Spec

-----------------------------------------------------------------------------
(***************************************************************************)
(* The cache against the row.                                              *)
(***************************************************************************)
LEMMA NextCache == TypeOK /\ CacheExplained /\ [Next]_vars => CacheExplained'
<1> SUFFICES ASSUME TypeOK, CacheExplained, [Next]_vars,
                    NEW x \in users', cache'[x] \notin {None, status'[x]},
                    x \notin stale'
             PROVE  \E a \in Ops : op'[a].at = "cache" /\ op'[a].who = x
  BY DEF CacheExplained
<1> USE DEF TypeOK, account
<1> DEFINE Owed == \E a \in Ops : op'[a].at = "cache" /\ op'[a].who = x
<1>before. ASSUME x \in users, cache[x] \notin {None, status[x]}, x \notin stale
           PROVE  \E a \in Ops : op[a].at = "cache" /\ op[a].who = x
  BY <1>before DEF CacheExplained
<1>1. ASSUME NEW u \in Users, Expire(u) \/ Remove(u) PROVE Owed
  BY <1>1, <1>before DEF Expire, Remove
<1>2. ASSUME NEW g \in Guards, ReadRow(g) \/ FillFails(g) PROVE Owed
  BY <1>2, <1>before DEF ReadRow, FillFails
<1>3. ASSUME NEW g \in Guards, NEW u \in Users, Miss(g, u) \/ Unreachable(g, u)
      PROVE  Owed
  BY <1>3, <1>before DEF Miss, Unreachable, Ask
(* A write leaves an entry that is right, or is recorded as stale.         *)
<1>write. ASSUME NEW u, NEW s, WriteCache(u, s), UNCHANGED <<users, status>>
          PROVE  x # u /\ cache'[x] = cache[x] /\ x \notin stale
  BY <1>write DEF WriteCache
<1>4. ASSUME NEW g \in Guards, Fill(g) PROVE Owed
  BY <1>4, <1>write, <1>before DEF Fill
<1>5. ASSUME NEW a \in Ops, NEW u \in Users, NEW to \in Values, Begin(a, u, to)
      PROVE  Owed
  BY <1>5, <1>before DEF Begin, NoOp
<1>6. ASSUME NEW a \in Ops, AssertNotLast(a) PROVE Owed
  BY <1>6, <1>before DEF AssertNotLast
<1>7. ASSUME NEW a \in Ops, WriteRow(a) PROVE Owed
  <2>1. CASE op[a].who = x /\ op[a].to \in Statuses /\ x \in users
    <3>1. op'[a] = [op[a] EXCEPT !.at = "cache"]
      BY <1>7, <2>1 DEF WriteRow
    <3>2. op'[a].at = "cache" /\ op'[a].who = x
      BY <1>7, <2>1, <3>1 DEF WriteRow, Changes, NoOp
    <3> QED BY <3>2
  <2>2. CASE ~(op[a].who = x /\ op[a].to \in Statuses /\ x \in users)
    <3>1. status'[x] = status[x] /\ cache' = cache /\ stale' = stale /\ x \in users
      BY <1>7, <2>2 DEF WriteRow
    <3>2. PICK b \in Ops : op[b].at = "cache" /\ op[b].who = x
      BY <1>before, <3>1
    <3>3. op'[b] = op[b]
      BY <1>7, <3>2 DEF WriteRow
    <3> QED BY <3>2, <3>3
  <2> QED BY <2>1, <2>2
<1>8. ASSUME NEW a \in Ops, SetCache(a) PROVE Owed
  <2>1. x # op[a].who /\ cache'[x] = cache[x] /\ x \notin stale /\ x \in users
    BY <1>8, <1>write DEF SetCache
  <2>2. PICK b \in Ops : op[b].at = "cache" /\ op[b].who = x
    BY <1>8, <1>before, <2>1 DEF SetCache
  <2>3. op'[b] = op[b]
    BY <1>8, <2>1, <2>2 DEF SetCache
  <2> QED BY <2>2, <2>3
<1>9. ASSUME NEW a \in Ops, GiveUp(a) PROVE Owed
  <2>1. PICK b \in Ops : op[b].at = "cache" /\ op[b].who = x
    BY <1>9, <1>before DEF GiveUp
  <2>2. b # a
    BY <1>9, <2>1 DEF GiveUp
  <2> QED BY <1>9, <2>1, <2>2 DEF GiveUp
<1>10. CASE UNCHANGED vars
  BY <1>10, <1>before DEF vars
<1> QED
  BY <1>1, <1>2, <1>3, <1>4, <1>5, <1>6, <1>7, <1>8, <1>9, <1>10
  DEF Next, GuardStep, OpStep

(* A cached status differs from the row only while an update has still to  *)
(* write it, or after a write that was late or lost and has not expired    *)
(* (user-status.cache.ts:33-80).                                           *)
THEOREM StaleOnlyExplained == Spec => []CacheExplained
<1>1. Init => CacheExplained
  BY DEF Init, CacheExplained, TypeOK
<1> QED BY <1>1, TypeCorrect, NextCache, PTL DEF Spec

-----------------------------------------------------------------------------
(***************************************************************************)
(* The last active administrator.  What a request has read still holds     *)
(* when it writes, unless another one wrote in between.                    *)
(***************************************************************************)
CheckHolds ==
  \A a \in Ops :
    /\ op[a].at = "write" /\ a \notin dirty
    /\ Demotes(op[a].who, op[a].to)
    => \E v \in ActiveAdmins : v # op[a].who

AdminInv == AdminLeft /\ CheckHolds

LEMMA NextAdmin == TypeOK /\ AdminInv /\ [Next]_vars => AdminInv'
<1> SUFFICES ASSUME TypeOK, AdminInv, [Next]_vars PROVE AdminInv'
  OBVIOUS
<1> USE DEF TypeOK, account
(* Steps that leave the rows and the requests alone.                       *)
<1>quiet. ASSUME UNCHANGED <<users, role, status, op, dirty, overlapped, removed>>
          PROVE  AdminInv'
  BY <1>quiet DEF AdminInv, AdminLeft, CheckHolds, Demotes, ActiveAdmins
(* Steps that end a request or take it past its write.                     *)
<1>ends. ASSUME NEW a \in Ops, op'[a].at # "write",
                \A b \in Ops \ {a} : op'[b] = op[b],
                UNCHANGED <<users, role, status, dirty, overlapped, removed>>
         PROVE  AdminInv'
  BY <1>ends DEF AdminInv, AdminLeft, CheckHolds, Demotes, ActiveAdmins
<1>1. ASSUME NEW u \in Users, Expire(u) PROVE AdminInv'
  BY <1>1, <1>quiet DEF Expire
<1>2. ASSUME NEW u \in Users, Remove(u) PROVE AdminInv'
  <2>1. AdminLeft'
    BY <1>2 DEF AdminInv, AdminLeft, Remove, ActiveAdmins
  <2>2. CheckHolds'
    BY <1>2 DEF CheckHolds, Remove, Reading
  <2> QED BY <2>1, <2>2 DEF AdminInv
<1>3. ASSUME NEW g \in Guards, ReadRow(g) \/ Fill(g) \/ FillFails(g) PROVE AdminInv'
  BY <1>3, <1>quiet DEF ReadRow, Fill, FillFails
<1>4. ASSUME NEW g \in Guards, NEW u \in Users, Miss(g, u) \/ Unreachable(g, u)
      PROVE  AdminInv'
  BY <1>4, <1>quiet DEF Miss, Unreachable, Ask
<1>5. ASSUME NEW a \in Ops, NEW u \in Users, NEW to \in Values, Begin(a, u, to)
      PROVE  AdminInv'
  <2>1. op'[a].at = "write" => op'[a].who = u /\ op'[a].to = to /\ ~Demotes(u, to)
    BY <1>5 DEF Begin
  <2>2. AdminLeft'
    BY <1>5 DEF AdminInv, AdminLeft, Begin, ActiveAdmins
  <2>3. CheckHolds'
    BY <1>5, <2>1 DEF AdminInv, CheckHolds, Begin, Demotes, ActiveAdmins
  <2> QED BY <2>2, <2>3 DEF AdminInv
<1>6. ASSUME NEW a \in Ops, AssertNotLast(a) PROVE AdminInv'
  <2>1. CASE Cardinality(ActiveAdmins) > 1
    <3>1. \E v \in ActiveAdmins : v # op[a].who
      <4>1. ASSUME ActiveAdmins \subseteq {op[a].who} PROVE FALSE
        <5>1. ActiveAdmins = {} \/ ActiveAdmins = {op[a].who}
          BY <4>1
        <5>2. Cardinality({op[a].who}) = 1 /\ Cardinality({}) = 0
          BY FS_EmptySet, FS_Singleton
        <5>3. Cardinality(ActiveAdmins) = 1 \/ Cardinality(ActiveAdmins) = 0
          BY <5>1, <5>2
        <5> QED BY <2>1, <5>3
      <4> QED BY <4>1
    <3>2. /\ op'[a].who = op[a].who
          /\ \A b \in Ops \ {a} : op'[b] = op[b]
      <4>1. op[a] = [at |-> "count", who |-> op[a].who, to |-> op[a].to]
        BY <1>6 DEF AssertNotLast, Changes, NoOp
      <4>2. op'[a] = [op[a] EXCEPT !.at = "write"]
        BY <1>6, <2>1 DEF AssertNotLast
      <4>3. op'[a].who = op[a].who
        BY <4>1, <4>2
      <4> QED BY <1>6, <4>3 DEF AssertNotLast
    <3>3. /\ UNCHANGED <<users, role, status, dirty, overlapped, removed>>
          /\ ActiveAdmins' = ActiveAdmins
      BY <1>6 DEF AssertNotLast, ActiveAdmins
    <3>4. AdminLeft'
      BY <3>3 DEF AdminInv, AdminLeft
    <3>5. ASSUME NEW b \in Ops, op'[b].at = "write", b \notin dirty',
                 Demotes(op[b].who, op[b].to)'
          PROVE  \E v \in ActiveAdmins' : v # op'[b].who
      <4>1. CASE b = a
        BY <3>1, <3>2, <3>3, <4>1
      <4>2. CASE b # a
        <5>1. op'[b] = op[b]
          BY <3>2, <4>2
        <5>2. Demotes(op[b].who, op[b].to)
          BY <3>3, <3>5, <5>1 DEF Demotes
        <5> QED BY <3>3, <3>5, <5>1, <5>2 DEF AdminInv, CheckHolds
      <4> QED BY <4>1, <4>2
    <3> QED BY <3>4, <3>5 DEF AdminInv, CheckHolds
  <2>2. CASE ~(Cardinality(ActiveAdmins) > 1)
    BY <1>6, <2>2, <1>ends DEF AssertNotLast, NoOp
  <2> QED BY <2>1, <2>2
<1>7. ASSUME NEW a \in Ops, WriteRow(a) PROVE AdminInv'
  <2> DEFINE u == op[a].who
             to == op[a].to
  <2>1. CASE u \notin users
    BY <1>7, <2>1, <1>ends DEF WriteRow, NoOp
  <2>2. CASE u \in users
    <3>1. AdminLeft'
      <4>1. CASE a \in dirty \/ removed \/ overlapped
        BY <1>7, <2>2, <4>1 DEF WriteRow, AdminLeft
      <4>2. CASE a \notin dirty /\ ~removed /\ ~overlapped
        <5>1. PICK v \in ActiveAdmins : Demotes(u, to) => v # u
          BY <1>7, <4>2 DEF WriteRow, AdminInv, AdminLeft, CheckHolds
        <5>2. v \in ActiveAdmins'
          <6>1. CASE v # u
            BY <1>7, <2>2, <5>1, <6>1 DEF WriteRow, ActiveAdmins
          <6>2. CASE v = u
            <7>1. to \in {"Active", "Admin"}
              BY <1>7, <5>1, <6>2
              DEF WriteRow, Demotes, Changes, NoOp, Values, Statuses, Roles
            <7> QED BY <1>7, <2>2, <5>1, <6>2, <7>1
                DEF WriteRow, ActiveAdmins, Statuses, Roles
          <6> QED BY <6>1, <6>2
        <5> QED BY <5>2 DEF AdminLeft
      <4> QED BY <4>1, <4>2
    <3>2. ASSUME NEW b \in Ops, op'[b].at = "write" PROVE b \in dirty'
      <4>1. b # a
        BY <1>7, <2>2, <3>2 DEF WriteRow, NoOp, Changes
      <4> QED BY <1>7, <2>2, <3>2, <4>1 DEF WriteRow, Reading
    <3> QED BY <3>1, <3>2 DEF AdminInv, CheckHolds
  <2> QED BY <2>1, <2>2
<1>8. ASSUME NEW a \in Ops, SetCache(a) \/ GiveUp(a) PROVE AdminInv'
  BY <1>8, <1>ends DEF SetCache, GiveUp, NoOp
<1>9. CASE UNCHANGED vars
  BY <1>9, <1>quiet DEF vars
<1> QED
  BY <1>1, <1>2, <1>3, <1>4, <1>5, <1>6, <1>7, <1>8, <1>9
  DEF Next, GuardStep, OpStep

(* Counting keeps an active administrator as long as no other request      *)
(* writes between a demotion's reads and its write and none is deleted     *)
(* (users.service.ts:379-389).                                             *)
THEOREM SerialDemotionsSafe == Spec => []AdminLeft
<1>1. Init => AdminInv
  BY DEF Init, AdminInv, AdminLeft, CheckHolds, NoOp
<1>2. Spec => []AdminInv
  BY <1>1, TypeCorrect, NextAdmin, PTL DEF Spec
<1> QED BY <1>2, PTL DEF AdminInv

-----------------------------------------------------------------------------
(***************************************************************************)
(* The answers of the catalogue.                                           *)
(***************************************************************************)
(* All answers with tags live equally long.                                *)
LEMMA TaggedLife ==
  ASSUME NEW r \in C!Reads, r.tags # {} PROVE r.ttl = List
  BY DEF C!Reads, C!LeagueReads, C!TeamReads, C!TeamDetail, C!PlayerReads, C!PlayerProfile,
         C!TransferReads, C!LatestByLeagues, C!Stats, C!Periods, C!Conversions, C!SearchReads, C!Read

LEMMA TaggedReads ==
  ASSUME NEW f \in C!Followed, f.tag # None
  PROVE  f.ttl = List /\ f.table \in DOMAIN C!TagOf /\ f.tag = C!TagOf[f.table]
<1>1. PICK r \in C!Reads : \E t \in r.shows : f = C!Follow(r, t)
  BY DEF C!Followed
<1>t. PICK t \in r.shows : f = C!Follow(r, t)
  BY <1>1
<1>2. /\ f.table = t /\ f.ttl = r.ttl
      /\ f.tag = (IF t \in DOMAIN C!TagOf /\ C!TagOf[t] \in r.tags THEN C!TagOf[t] ELSE None)
  BY <1>t DEF C!Follow
<1>3. t \in DOMAIN C!TagOf /\ C!TagOf[t] \in r.tags /\ f.tag = C!TagOf[t]
  BY <1>2
<1>4. r.ttl = List
  BY <1>3, TaggedLife
<1> QED BY <1>2, <1>3, <1>4

(* Whoever writes one of the four tables, but for the seeding, invalidates *)
(* its tag.                                                                *)
LEMMA WritersPay ==
  ASSUME NEW k \in C!Writes, k \notin C!SeedWrites, NEW t \in k.rows, t \in DOMAIN C!TagOf
  PROVE  C!TagOf[t] \in k.tags
<1>1. CASE k \in C!SyncWrites
  <2>1. PICK rows \in SUBSET DOMAIN C!TagOf :
          k = C!Write(rows \cup {"playerStatistic"}, {C!TagOf[x] : x \in rows})
    BY <1>1 DEF C!SyncWrites
  <2>2. t \in rows
    BY <2>1 DEF C!Write, C!TagOf
  <2> QED BY <2>1, <2>2 DEF C!Write
<1>2. CASE k \notin C!SyncWrites
  BY <1>2 DEF C!Writes, C!LeagueWrites, C!TeamWrites, C!PlayerWrites, C!TransferWrites,
              C!RumourWrites, C!IngestWrites, C!OtherWrites, C!Write, C!TagOf
<1> QED BY <1>1, <1>2

(***************************************************************************)
(* Whoever asks or stores while a tag is being invalidated is marked.  The *)
(* others' key is found in the tag's set, or will be added before the next *)
(* invalidation reads that set.                                            *)
(***************************************************************************)
CacheTypes ==
  /\ read \in C!Followed /\ ver \in Nat /\ due \in Nat /\ member \in Nat
  /\ entry \in [left : Nat, ver : Nat, raced : BOOLEAN]
  /\ request \in [Requests -> [at : {"idle", "read", "set", "tag"}, ver : Nat, raced : BOOLEAN]]
  /\ write \in [Writers -> [at : {"idle", "row", "tag", "delete", "end"}, tagged : BOOLEAN,
                            owes : BOOLEAN, hit : BOOLEAN, mine : Nat]]
Tagged == read.tag # None
Shown  == entry.left > 0 /\ ~entry.raced
Asking(r)  == request[r].at \in {"read", "set"} /\ ~request[r].raced
Holding(r) == request[r].at = "set" /\ ~request[r].raced
(* A version shows what is due, and what is about to be.                   *)
Current(v) ==
  /\ due <= v
  /\ \A w \in Writers : write[w].at = "end" /\ write[w].owes => write[w].mine <= v
Debts == \A w \in Writers : write[w].owes => Tagged /\ write[w].tagged
(* No version is ahead of the table's.                                     *)
Known == due <= ver /\ (\A w \in Writers : write[w].mine <= ver) /\ entry.left <= read.ttl
NobodyDeletes == \A w \in Writers : write[w].at # "delete"
Alone == \A r \in Requests : Asking(r) => NobodyDeletes
KeptInSight ==
  Shown /\ Tagged =>
    /\ \A w \in Writers : write[w].at = "delete" => write[w].hit
    /\ entry.left <= member \/ \E r \in Requests : request[r].at = "tag"
Fresh ==
  /\ \A r \in Requests : Holding(r) => Current(request[r].ver)
  /\ Shown => Current(entry.ver)
CacheInv == CacheTypes /\ Debts /\ Known /\ Alone /\ KeptInSight /\ Fresh

LEMMA LivesOfReads ==
  ASSUME NEW f \in C!Followed
  PROVE  f.ttl \in Nat
<1>1. PICK r \in C!Reads : \E t \in r.shows : f = C!Follow(r, t)
  BY DEF C!Followed
<1>2. f.ttl = r.ttl
  BY <1>1 DEF C!Follow
<1>3. r.ttl \in {List, Search}
  BY DEF C!Reads, C!LeagueReads, C!TeamReads, C!TeamDetail, C!PlayerReads, C!PlayerProfile,
         C!TransferReads, C!LatestByLeagues, C!Stats, C!Periods, C!Conversions, C!SearchReads, C!Read
<1> QED BY <1>2, <1>3, LivesAssumption

LEMMA CacheStarts == C!Init => CacheInv
<1> SUFFICES ASSUME C!Init PROVE CacheInv
  OBVIOUS
<1>1. CacheTypes
  BY DEF C!Init, CacheTypes, C!NoEntry, C!NoRequest, C!NoWrite
<1>2. entry.left = 0 /\ due = 0 /\ ver = 0 /\ \A w \in Writers : write[w] = C!NoWrite
  BY DEF C!Init, C!NoEntry
<1>3. \A r \in Requests : request[r].at = "idle"
  BY DEF C!Init, C!NoRequest
<1>4. Debts /\ Known /\ Alone /\ KeptInSight /\ Fresh
  <2>1. 0 <= read.ttl
    BY <1>1, LivesOfReads DEF CacheTypes
  <2> QED BY <1>2, <1>3, <2>1 DEF Debts, Known, Alone, KeptInSight, Fresh, Shown, Asking, Holding, C!NoWrite
<1> QED BY <1>1, <1>4 DEF CacheInv

LEMMA MissKeeps == ASSUME CacheInv, NEW r \in Requests, C!Miss(r) PROVE CacheInv'
<1> USE DEF CacheInv, C!ghosts
<1>1. /\ UNCHANGED <<read, due, ver, entry, member, write>>
      /\ request' = [request EXCEPT ![r] = request'[r]]
      /\ request'[r].at = "read" /\ request'[r] \in [at : {"read"}, ver : Nat, raced : BOOLEAN]
      /\ ~request'[r].raced => NobodyDeletes
  BY DEF C!Miss, C!NoRequest, CacheTypes, NobodyDeletes
<1>2. CacheTypes'
  BY <1>1 DEF CacheTypes
<1>3. \A q \in Requests : q # r => request'[q] = request[q]
  BY <1>1 DEF CacheTypes
<1>4. Debts' /\ Known'
  BY <1>1 DEF Debts, Known, Tagged
<1>5. Alone'
  BY <1>1, <1>3 DEF Alone, Asking, NobodyDeletes
<1>6. KeptInSight'
  <2>1. C!Miss(r) => request[r].at = "idle"
    BY DEF C!Miss
  <2> QED BY <1>1, <1>3, <2>1 DEF KeptInSight, Shown, Tagged
<1>7. Fresh'
  BY <1>1, <1>3 DEF Fresh, Holding, Shown, Current
<1> QED BY <1>2, <1>4, <1>5, <1>6, <1>7

LEMMA ProduceKeeps == ASSUME CacheInv, NEW r \in Requests, C!Produce(r) PROVE CacheInv'
<1> USE DEF CacheInv, C!ghosts
<1>1. /\ UNCHANGED <<read, due, ver, entry, member, write>>
      /\ request[r].at = "read"
      /\ request'[r].at = "set" /\ request'[r].ver = ver /\ request'[r].raced = request[r].raced
      /\ \A q \in Requests : q # r => request'[q] = request[q]
  BY DEF C!Produce, CacheTypes
<1>2. CacheTypes'
  BY DEF CacheTypes, C!Produce
<1>4. Debts' /\ Known'
  BY <1>1 DEF Debts, Known, Tagged
<1>5. Alone'
  BY <1>1 DEF Alone, Asking, NobodyDeletes
<1>6. KeptInSight'
  BY <1>1 DEF KeptInSight, Shown, Tagged
<1>7. Fresh'
  BY <1>1 DEF Fresh, Holding, Shown, Current, Known
<1> QED BY <1>2, <1>4, <1>5, <1>6, <1>7

LEMMA SetKeeps == ASSUME CacheInv, NEW r \in Requests, C!Set(r) PROVE CacheInv'
<1> USE DEF CacheInv, C!ghosts
<1>1. /\ UNCHANGED <<read, due, ver, member, write>> /\ request[r].at = "set"
      /\ request'[r].at \in {"idle", "tag"} /\ (entry' # entry /\ Tagged => request'[r].at = "tag")
      /\ \A q \in Requests : q # r => request'[q] = request[q]
      /\ \/ entry' = entry
         \/ entry' = [left |-> read.ttl, ver |-> request[r].ver, raced |-> request[r].raced]
  BY DEF C!Set, C!NoRequest, CacheTypes, Tagged
<1>2. CacheTypes'
  <2>1. entry' \in [left : Nat, ver : Nat, raced : BOOLEAN]
    <3>1. read.ttl \in Nat /\ request[r].ver \in Nat /\ request[r].raced \in BOOLEAN
      BY LivesOfReads DEF CacheTypes
    <3> QED BY <1>1, <3>1 DEF CacheTypes
  <2>2. request' \in [Requests -> [at : {"idle", "read", "set", "tag"}, ver : Nat, raced : BOOLEAN]]
    <3>1. \/ request' = [request EXCEPT ![r] = [at |-> "tag", ver |-> 0, raced |-> FALSE]]
          \/ request' = [request EXCEPT ![r] = [at |-> "idle", ver |-> 0, raced |-> FALSE]]
      BY DEF C!Set, C!NoRequest
    <3>2. request \in [Requests -> [at : {"idle", "read", "set", "tag"}, ver : Nat, raced : BOOLEAN]]
      BY DEF CacheTypes
    <3> DEFINE R == [at : {"idle", "read", "set", "tag"}, ver : Nat, raced : BOOLEAN]
    <3>3. [at |-> "tag", ver |-> 0, raced |-> FALSE] \in R /\ [at |-> "idle", ver |-> 0, raced |-> FALSE] \in R
      OBVIOUS
    <3> HIDE DEF R
    <3> QED BY ONLY <3>1, <3>2, <3>3 DEF R
  <2> QED BY <1>1, <2>1, <2>2 DEF CacheTypes
<1>4. Debts' /\ Known'
  <2>1. entry'.left <= read.ttl
    BY <1>1, LivesOfReads DEF Known, CacheTypes
  <2> QED BY <1>1, <2>1 DEF Debts, Known, Tagged
<1>5. Alone'
  BY <1>1 DEF Alone, Asking, NobodyDeletes
<1>6. CASE entry' = entry
  BY <1>1, <1>2, <1>4, <1>5, <1>6 DEF KeptInSight, Fresh, Holding, Shown, Tagged, Current
<1>7. CASE entry' # entry
  <2>1. Shown' => Holding(r)
    BY <1>1, <1>7 DEF Shown, Holding
  <2>2. KeptInSight'
    BY <1>1, <1>7, <2>1 DEF KeptInSight, Holding, Asking, Alone, NobodyDeletes, Tagged
  <2>3. Fresh'
    BY <1>1, <1>7, <2>1 DEF Fresh, Holding, Current
  <2> QED BY <1>2, <1>4, <1>5, <2>2, <2>3
<1> QED BY <1>6, <1>7

LEMMA TagKeeps == ASSUME CacheInv, NEW r \in Requests, C!Tag(r) PROVE CacheInv'
<1> USE DEF CacheInv, C!ghosts
<1>1. /\ UNCHANGED <<read, due, ver, write>> /\ request'[r].at = "idle"
      /\ \A q \in Requests : q # r => request'[q] = request[q]
      /\ \/ entry' = entry /\ member' = read.ttl + TAG_TTL_BUFFER
         \/ /\ entry.left > 0 => entry' = [entry EXCEPT !.raced = TRUE]
            /\ ~(entry.left > 0) => entry' = [entry EXCEPT !.raced = FALSE]
            /\ member' = member
  <2>1. /\ UNCHANGED <<read, due, ver, write>> /\ request'[r].at = "idle"
        /\ \A q \in Requests : q # r => request'[q] = request[q]
    BY DEF C!Tag, C!NoRequest, CacheTypes
  <2>2. \/ entry' = entry /\ member' = read.ttl + TAG_TTL_BUFFER
        \/ entry' = [entry EXCEPT !.raced = (entry.left > 0)] /\ member' = member
    BY DEF C!Tag, C!TagTtl, C!Live
  <2>3. (entry.left > 0) = TRUE \/ (entry.left > 0) = FALSE
    OBVIOUS
  <2> QED BY <2>1, <2>2, <2>3
<1>2. CacheTypes'
  <2>1. read.ttl + TAG_TTL_BUFFER \in Nat
    BY LivesOfReads, LivesAssumption DEF CacheTypes
  <2>2. entry' \in [left : Nat, ver : Nat, raced : BOOLEAN] /\ member' \in Nat
    BY <1>1, <2>1 DEF CacheTypes
  <2>3. request' \in [Requests -> [at : {"idle", "read", "set", "tag"}, ver : Nat, raced : BOOLEAN]]
    BY DEF CacheTypes, C!Tag, C!NoRequest
  <2> QED BY <1>1, <2>2, <2>3 DEF CacheTypes
<1>3. Shown' => Shown /\ entry' = entry /\ entry.left <= member'
  <2>1. CASE entry' = entry /\ member' = read.ttl + TAG_TTL_BUFFER
    <3>1. read.ttl \in Nat /\ entry.left \in Nat
      BY LivesOfReads DEF CacheTypes
    <3>2. entry.left <= read.ttl /\ TAG_TTL_BUFFER \in Nat
      BY LivesAssumption DEF Known
    <3>3. entry.left <= read.ttl + TAG_TTL_BUFFER
      BY <3>1, <3>2
    <3> QED BY <2>1, <3>3 DEF Shown
  <2>2. CASE entry.left > 0 /\ entry' = [entry EXCEPT !.raced = TRUE]
    BY <2>2 DEF Shown, CacheTypes
  <2>3. CASE ~(entry.left > 0) /\ entry' = [entry EXCEPT !.raced = FALSE]
    BY <2>3 DEF Shown, CacheTypes
  <2> QED BY <1>1, <2>1, <2>2, <2>3
<1>4. Debts' /\ Known'
  <2>1. entry'.left = entry.left
    BY <1>1 DEF CacheTypes
  <2> QED BY <1>1, <2>1 DEF Debts, Known, Tagged
<1>5. Alone'
  BY <1>1 DEF Alone, Asking, NobodyDeletes
<1>6. KeptInSight'
  BY <1>1, <1>3 DEF KeptInSight, Tagged
<1>7. Fresh'
  BY <1>1, <1>3 DEF Fresh, Holding, Current
<1> QED BY <1>2, <1>4, <1>5, <1>6, <1>7

LEMMA OthersKeep ==
  ASSUME CacheInv, C!OtherKey \/ C!OtherTag \/ C!Tick PROVE CacheInv'
<1> USE DEF CacheInv, C!ghosts
<1>1. UNCHANGED <<read, due, ver, request, write>>
  BY DEF C!OtherKey, C!OtherTag, C!Tick
<1>2. /\ entry' \in [left : Nat, ver : Nat, raced : BOOLEAN] /\ entry'.left <= entry.left
      /\ Shown' => Shown /\ entry'.ver = entry.ver
  <2>t. entry \in [left : Nat, ver : Nat, raced : BOOLEAN]
    BY DEF CacheTypes
  <2>1. CASE entry' = entry
    BY <2>t, <2>1 DEF Shown
  <2>2. CASE entry' = [left |-> 0, ver |-> 0, raced |-> FALSE]
    BY <2>t, <2>2 DEF Shown
  <2>3. CASE ~(entry.left <= 1) /\ entry' = [entry EXCEPT !.left = @ - 1]
    <3>1. /\ entry'.left = entry.left - 1 /\ entry'.ver = entry.ver /\ entry'.raced = entry.raced
          /\ entry.left - 1 \in Nat
          /\ entry' = [left |-> entry'.left, ver |-> entry'.ver, raced |-> entry'.raced]
      BY <2>t, <2>3
    <3>2. entry' \in [left : Nat, ver : Nat, raced : BOOLEAN] /\ entry'.left <= entry.left
      BY <2>t, <3>1
    <3> QED BY <2>t, <3>1, <3>2 DEF Shown
  <2>4. \/ entry' = entry \/ entry' = [left |-> 0, ver |-> 0, raced |-> FALSE]
        \/ ~(entry.left <= 1) /\ entry' = [entry EXCEPT !.left = @ - 1]
    BY DEF C!OtherKey, C!OtherTag, C!Tick, C!NoEntry
  <2> QED BY <2>1, <2>2, <2>3, <2>4
<1>3. /\ member' \in Nat
      /\ Shown' /\ Tagged /\ entry.left <= member => entry'.left <= member'
  <2>1. CASE C!OtherKey
    <3>1. PICK other \in C!Reads : read.tag \in other.tags /\ member' = other.ttl + TAG_TTL_BUFFER
      BY <2>1 DEF C!OtherKey, C!TagTtl
    <3>2. member' = List + TAG_TTL_BUFFER
      BY <3>1, TaggedLife
    <3>3. Tagged => read.ttl = List
      BY TaggedReads DEF Tagged, CacheTypes
    <3>4. entry' = entry
      BY <2>1 DEF C!OtherKey
    <3>5. entry.left \in Nat /\ entry.left <= read.ttl
      BY DEF CacheTypes, Known
    <3> QED BY <3>2, <3>3, <3>4, <3>5, LivesAssumption
  <2>2. CASE C!OtherTag
    BY <2>2 DEF C!OtherTag, C!NoEntry, Shown, CacheTypes
  <2>3. CASE C!Tick
    <3>1. member \in Nat /\ entry.left \in Nat
      BY DEF CacheTypes
    <3>2. Shown' => entry'.left = entry.left - 1 /\ entry.left > 1
      BY <2>3, <3>1 DEF C!Tick, C!NoEntry, Shown, CacheTypes
    <3>3. member' = (IF member = 0 THEN 0 ELSE member - 1)
      BY <2>3 DEF C!Tick
    <3> QED BY <3>1, <3>2, <3>3
  <2> QED BY <2>1, <2>2, <2>3
<1>4. CacheTypes'
  BY <1>1, <1>2, <1>3 DEF CacheTypes
<1>5. Debts' /\ Known'
  <2>1. entry'.left <= read.ttl
    BY <1>2, LivesOfReads DEF Known, CacheTypes
  <2> QED BY <1>1, <2>1 DEF Debts, Known, Tagged
<1>6. Alone'
  BY <1>1 DEF Alone, Asking, NobodyDeletes
<1>7. KeptInSight'
  BY <1>1, <1>2, <1>3 DEF KeptInSight, Tagged
<1>8. Fresh'
  BY <1>1, <1>2 DEF Fresh, Holding, Current
<1> QED BY <1>4, <1>5, <1>6, <1>7, <1>8

(* A write that begins.                                                    *)
Begun(x, y) == [C!NoWrite EXCEPT !.at = "row", !.tagged = x, !.owes = y]
LEMMA BegunFields ==
  ASSUME NEW x \in BOOLEAN, NEW y \in BOOLEAN
  PROVE  /\ Begun(x, y) \in [at : {"idle", "row", "tag", "end"}, tagged : BOOLEAN,
                             owes : BOOLEAN, hit : BOOLEAN, mine : Nat]
         /\ Begun(x, y).at = "row" /\ Begun(x, y).mine = 0
         /\ Begun(x, y).owes = y /\ Begun(x, y).tagged = x
<1>1. Begun(x, y) \in [at : {"idle", "row", "tag", "end"}, tagged : BOOLEAN,
                       owes : BOOLEAN, hit : BOOLEAN, mine : Nat]
  BY DEF Begun, C!NoWrite
<1>2. Begun(x, y).at = "row" /\ Begun(x, y).mine = 0
  BY DEF Begun, C!NoWrite
<1>3. Begun(x, y).owes = y /\ Begun(x, y).tagged = x
  BY DEF Begun, C!NoWrite
<1> QED BY <1>1, <1>2, <1>3

LEMMA WriteStepKeeps ==
  ASSUME CacheInv, NEW w \in Writers, C!Begin(w) \/ C!WriteRow(w) \/ C!Break(w) PROVE CacheInv'
<1> USE DEF CacheInv, C!ghosts
<1>1. /\ UNCHANGED <<read, due, entry, member, request>>
      /\ ver' \in {ver, ver + 1} /\ ver' >= ver
  <2>1. /\ UNCHANGED <<read, due, entry, member, request>> /\ ver \in Nat
        /\ ver' = ver \/ ver' = ver + 1
    BY DEF C!Begin, C!WriteRow, C!Break, CacheTypes
  <2> QED BY <2>1
<1>2. \A v \in Writers : v # w => write'[v] = write[v]
  BY DEF C!Begin, C!WriteRow, C!Break, CacheTypes
<1>3. /\ write' = [write EXCEPT ![w] = write'[w]]
      /\ write'[w] \in [at : {"idle", "row", "tag", "end"}, tagged : BOOLEAN,
                        owes : BOOLEAN, hit : BOOLEAN, mine : Nat]
      /\ write'[w].mine <= ver'
      /\ write'[w].owes => Tagged /\ write'[w].tagged
      /\ write'[w].at = "end" => ~write'[w].owes
  <2>1. CASE C!Begin(w)
    <3>1. PICK k \in C!Writes :
            /\ read.table \in k.rows
            /\ write' = [write EXCEPT ![w] =
                 [C!NoWrite EXCEPT !.at = "row", !.tagged = read.tag \in k.tags,
                                   !.owes = read.tag # None /\ k \notin C!SeedWrites]]
      BY <2>1 DEF C!Begin
    <3> DEFINE g == read.tag \in k.tags
               o == read.tag # None /\ k \notin C!SeedWrites
    <3>0. write' = [write EXCEPT ![w] = Begun(g, o)]
      BY <3>1 DEF Begun
    <3>2. g \in BOOLEAN /\ o \in BOOLEAN /\ (o => Tagged /\ g)
      BY <3>1, TaggedReads, WritersPay DEF CacheTypes, Tagged
    <3> HIDE DEF g, o
    <3>3. write'[w] = Begun(g, o) /\ write' = [write EXCEPT ![w] = write'[w]]
      BY <3>0 DEF CacheTypes
    <3>5. ver' \in Nat
      BY <1>1 DEF CacheTypes
    <3>b. /\ Begun(g, o).at = "row" /\ Begun(g, o).mine = 0
          /\ Begun(g, o).owes = o /\ Begun(g, o).tagged = g
      BY Zenon, <3>2, BegunFields
    <3>6. /\ write'[w].at = "row" /\ write'[w].mine = 0 /\ write'[w].owes = o /\ write'[w].tagged = g
          /\ write' = [write EXCEPT ![w] = write'[w]]
      BY Zenon, <3>3, <3>b
    <3>7. write'[w].owes => Tagged /\ write'[w].tagged
      BY <3>2, <3>6
    <3>8. write'[w] \in [at : {"idle", "row", "tag", "end"}, tagged : BOOLEAN,
                         owes : BOOLEAN, hit : BOOLEAN, mine : Nat]
      <4>1. Begun(g, o) \in [at : {"idle", "row", "tag", "end"}, tagged : BOOLEAN,
                             owes : BOOLEAN, hit : BOOLEAN, mine : Nat]
        BY Zenon, <3>2, BegunFields
      <4> QED BY ONLY <3>3, <4>1
    <3> QED BY <3>5, <3>6, <3>7, <3>8
  <2>2. CASE C!WriteRow(w)
    <3>1. write' = [write EXCEPT ![w].mine = ver', ![w].at = IF write[w].tagged THEN "tag" ELSE "end"]
      BY <2>2 DEF C!WriteRow
    <3>2. /\ write'[w].mine = ver' /\ write'[w].owes = write[w].owes
          /\ write'[w].tagged = write[w].tagged /\ write'[w].hit = write[w].hit
          /\ write'[w].at = (IF write[w].tagged THEN "tag" ELSE "end")
          /\ write' = [write EXCEPT ![w] = write'[w]]
          /\ write'[w] = [f \in {"at", "tagged", "owes", "hit", "mine"} |-> write'[w][f]]
      BY <3>1 DEF CacheTypes
    <3>3. /\ ver' \in Nat /\ write[w].owes \in BOOLEAN /\ write[w].tagged \in BOOLEAN
          /\ write[w].hit \in BOOLEAN
      BY <1>1 DEF CacheTypes
    <3>4. write[w].owes => Tagged /\ write[w].tagged
      BY DEF Debts
    <3>5. write'[w].at = "end" => ~write'[w].owes
      BY <3>2, <3>4
    <3>6. write'[w].at \in {"tag", "end"}
      BY <3>2
    <3> QED BY <3>2, <3>3, <3>4, <3>5, <3>6
  <2>3. CASE C!Break(w)
    BY <2>3 DEF C!Break, C!NoWrite, CacheTypes
  <2> QED BY <2>1, <2>2, <2>3
<1>4. CacheTypes'
  BY <1>1, <1>3 DEF CacheTypes
<1>5. Debts' /\ Known'
  <2>1. due <= ver' /\ \A v \in Writers : write'[v].mine <= ver'
    <3>1. \A v \in Writers : v # w => write'[v].mine <= ver /\ write'[v].mine \in Nat
      BY <1>2 DEF Known, CacheTypes
    <3> QED BY <1>1, <1>3, <3>1 DEF Known, CacheTypes
  <2> QED BY <1>1, <1>2, <1>3, <2>1 DEF Debts, Known, Tagged
<1>6. Alone'
  BY <1>1, <1>2, <1>3 DEF Alone, Asking, NobodyDeletes
<1>7. KeptInSight'
  BY <1>1, <1>2, <1>3 DEF KeptInSight, Shown, Tagged
<1>8. Fresh'
  BY <1>1, <1>2, <1>3 DEF Fresh, Holding, Shown, Current
<1> QED BY <1>4, <1>5, <1>6, <1>7, <1>8

LEMMA MembersKeeps == ASSUME CacheInv, NEW w \in Writers, C!Members(w) PROVE CacheInv'
<1> USE DEF CacheInv, C!ghosts
<1> DEFINE caught(r) == request[r].at \in {"read", "set"}
           storing == \E r \in Requests : request[r].at = "tag"
<1>1. /\ UNCHANGED <<read, due, ver, member>>
      /\ write[w].at = "tag" /\ write'[w].at = "delete"
      /\ write'[w].hit = (member > 0) /\ write'[w].owes = write[w].owes
      /\ write'[w].tagged = write[w].tagged /\ write'[w].mine = write[w].mine
      /\ \A v \in Writers : v # w => write'[v] = write[v]
  BY DEF C!Members, CacheTypes
<1>2. \A r \in Requests :
        /\ caught(r) => request'[r] = [request[r] EXCEPT !.raced = TRUE]
        /\ ~caught(r) => request'[r] = request[r]
  BY DEF C!Members
<1>3. entry' = [entry EXCEPT !.raced = @ \/ (entry.left > 0 /\ storing)]
  BY DEF C!Members, C!Live
<1>4. entry' \in [left : Nat, ver : Nat, raced : BOOLEAN] /\ entry'.left = entry.left
      /\ entry'.ver = entry.ver /\ (Shown' => Shown /\ ~storing)
  <2>1. CASE entry.raced \/ (entry.left > 0 /\ storing)
    <3>1. entry' = [entry EXCEPT !.raced = TRUE]
      BY <1>3, <2>1
    <3> QED BY <3>1 DEF CacheTypes, Shown
  <2>2. CASE ~(entry.raced \/ (entry.left > 0 /\ storing))
    <3>1. entry' = [entry EXCEPT !.raced = FALSE]
      BY <1>3, <2>2
    <3> QED BY <2>2, <3>1 DEF CacheTypes, Shown
  <2> QED BY <2>1, <2>2
<1>5. CacheTypes'
  <2>1. request' \in [Requests -> [at : {"idle", "read", "set", "tag"}, ver : Nat, raced : BOOLEAN]]
    <3>1. request' = [r \in Requests |-> request'[r]]
      BY DEF C!Members
    <3>2. ASSUME NEW r \in Requests
          PROVE  request'[r] \in [at : {"idle", "read", "set", "tag"}, ver : Nat, raced : BOOLEAN]
      <4>1. request[r] \in [at : {"idle", "read", "set", "tag"}, ver : Nat, raced : BOOLEAN]
        BY DEF CacheTypes
      <4> QED BY <1>2, <4>1
    <3> QED BY <3>1, <3>2
  <2>2. write' \in [Writers -> [at : {"idle", "row", "tag", "delete", "end"}, tagged : BOOLEAN,
                                owes : BOOLEAN, hit : BOOLEAN, mine : Nat]]
    <3>1. \/ write' = [write EXCEPT ![w].at = "delete", ![w].hit = TRUE]
          \/ write' = [write EXCEPT ![w].at = "delete", ![w].hit = FALSE]
      <4>1. write' = [write EXCEPT ![w].at = "delete", ![w].hit = (member > 0)]
        BY DEF C!Members
      <4>2. (member > 0) = TRUE \/ (member > 0) = FALSE
        OBVIOUS
      <4> QED BY <4>1, <4>2
    <3> QED BY <3>1 DEF CacheTypes
  <2> QED BY <1>1, <1>4, <2>1, <2>2 DEF CacheTypes
<1>6. Debts' /\ Known'
  <2>1. \A v \in Writers : /\ write'[v].mine = write[v].mine
                           /\ write'[v].owes => write[v].owes /\ write'[v].tagged = write[v].tagged
    BY <1>1
  <2> QED BY <1>1, <1>4, <2>1 DEF Debts, Known, Tagged
<1>7. Alone'
  <2>1. \A r \in Requests : ~Asking(r)'
    BY <1>2 DEF Asking, CacheTypes
  <2> QED BY <2>1 DEF Alone
<1>8. KeptInSight'
  <2>1. ASSUME Shown', Tagged PROVE entry.left <= member /\ member > 0
    BY <1>4, <2>1 DEF KeptInSight, Shown, CacheTypes
  <2>2. ASSUME Shown', Tagged PROVE \A v \in Writers : write'[v].at = "delete" => write'[v].hit
    BY <1>1, <1>4, <2>1, <2>2 DEF KeptInSight
  <2> QED BY <1>1, <1>4, <2>1, <2>2 DEF KeptInSight, Tagged
<1>9. Fresh'
  <2>1. \A r \in Requests : ~Holding(r)'
    BY <1>2 DEF Holding, CacheTypes
  <2> QED BY <1>1, <1>4, <2>1 DEF Fresh, Current
<1> QED BY <1>5, <1>6, <1>7, <1>8, <1>9

LEMMA DeleteKeeps == ASSUME CacheInv, NEW w \in Writers, C!Delete(w) PROVE CacheInv'
<1> USE DEF CacheInv, C!ghosts
<1>1. /\ UNCHANGED <<read, due, ver, request>>
      /\ write[w].at = "delete" /\ write'[w].at = "end" /\ write'[w].hit = write[w].hit
      /\ write'[w].owes = write[w].owes
      /\ write'[w].tagged = write[w].tagged /\ write'[w].mine = write[w].mine
      /\ \A v \in Writers : v # w => write'[v] = write[v]
      /\ member' = 0
  BY DEF C!Delete, CacheTypes
<1>2. entry' = (IF write[w].hit THEN [left |-> 0, ver |-> 0, raced |-> FALSE] ELSE entry)
  BY DEF C!Delete, C!NoEntry
<1>3. Shown' => Shown /\ entry' = entry /\ ~Tagged
  BY <1>1, <1>2 DEF Shown, KeptInSight
<1>4. entry' \in [left : Nat, ver : Nat, raced : BOOLEAN] /\ entry'.left <= entry.left
  <2>1. entry \in [left : Nat, ver : Nat, raced : BOOLEAN]
    BY DEF CacheTypes
  <2> QED BY <1>2, <2>1
<1>5. CacheTypes'
  <2>2. write' \in [Writers -> [at : {"idle", "row", "tag", "delete", "end"}, tagged : BOOLEAN,
                                owes : BOOLEAN, hit : BOOLEAN, mine : Nat]]
    BY DEF CacheTypes, C!Delete
  <2> QED BY <1>1, <1>4, <2>2 DEF CacheTypes
<1>6. Debts' /\ Known'
  <2>1. \A v \in Writers : /\ write'[v].mine = write[v].mine
                           /\ write'[v].owes => write[v].owes /\ write'[v].tagged = write[v].tagged
    BY <1>1
  <2>2. entry'.left <= read.ttl
    BY <1>4, LivesOfReads DEF Known, CacheTypes
  <2> QED BY <1>1, <2>1, <2>2 DEF Debts, Known, Tagged
<1>7. \A r \in Requests : ~Asking(r)
  BY <1>1 DEF Alone, NobodyDeletes
<1>8. Alone' /\ KeptInSight'
  BY <1>1, <1>3, <1>7 DEF Alone, Asking, KeptInSight, Tagged
<1>9. Fresh'
  <2>1. \A r \in Requests : ~Holding(r)'
    BY <1>1, <1>7 DEF Asking, Holding
  <2>2. Shown' => Current(entry.ver)'
    <3>1. ASSUME Shown' PROVE \A v \in Writers : ~write'[v].owes
      BY <1>3, <1>6, <3>1, <1>1 DEF Debts, Tagged
    <3> QED BY <1>1, <1>3, <3>1 DEF Fresh, Current
  <2> QED BY <2>1, <2>2 DEF Fresh
<1> QED BY <1>5, <1>6, <1>8, <1>9

LEMMA EndKeeps == ASSUME CacheInv, NEW w \in Writers, C!End(w) PROVE CacheInv'
<1> USE DEF CacheInv, C!ghosts
<1>1. /\ UNCHANGED <<read, ver, entry, member, request>>
      /\ write[w].at = "end"
      /\ write' = [write EXCEPT ![w] = C!NoWrite]
      /\ \A v \in Writers : v # w => write'[v] = write[v]
      /\ write'[w].at = "idle" /\ ~write'[w].owes /\ write'[w].mine = 0
  BY DEF C!End, C!NoWrite, CacheTypes
<1>2. due' \in Nat /\ due' <= ver /\ \A v \in Nat : Current(v) => due' <= v
  <2>1. due \in Nat /\ write[w].mine \in Nat /\ ver \in Nat /\ due <= ver /\ write[w].mine <= ver
    BY DEF CacheTypes, Known
  <2>2. CASE write[w].owes /\ write[w].mine > due
    BY <1>1, <2>1, <2>2 DEF C!End, Current
  <2>3. CASE ~(write[w].owes /\ write[w].mine > due)
    BY <2>1, <2>3 DEF C!End, Current
  <2> QED BY <2>2, <2>3
<1>3. \A v \in Nat : Current(v) => Current(v)'
  BY <1>1, <1>2 DEF Current
<1>4. CacheTypes'
  BY <1>1, <1>2 DEF CacheTypes, C!NoWrite
<1>5. Debts' /\ Known'
  <2>1. \A v \in Writers : write'[v].mine <= ver
    BY <1>1 DEF Known, CacheTypes
  <2> QED BY <1>1, <1>2, <2>1 DEF Debts, Known, Tagged
<1>6. Alone'
  BY <1>1 DEF Alone, Asking, NobodyDeletes
<1>7. KeptInSight'
  BY <1>1 DEF KeptInSight, Shown, Tagged
<1>8. Fresh'
  <2>1. entry.ver \in Nat /\ \A r \in Requests : request[r].ver \in Nat
    BY DEF CacheTypes
  <2> QED BY <1>1, <1>3, <2>1 DEF Fresh, Holding, Shown, Current
<1> QED BY <1>4, <1>5, <1>6, <1>7, <1>8

LEMMA CacheInvHolds == BothSpec => []CacheInv
<1>1. BothInit => CacheInv
  BY CacheStarts DEF BothInit
<1>2. CacheInv /\ C!Next => CacheInv'
  BY MissKeeps, ProduceKeeps, SetKeeps, TagKeeps, OthersKeep, WriteStepKeeps, MembersKeeps,
     DeleteKeeps, EndKeeps
  DEF C!Next, C!Answer, C!Change
<1>3. CacheInv /\ UNCHANGED answers => CacheInv'
  BY DEF answers, CacheInv, CacheTypes, Debts, Known, Alone, KeptInSight, Fresh, Tagged, Shown,
         Asking, Holding, Current, NobodyDeletes
<1>4. CacheInv /\ [BothNext]_all => CacheInv'
  BY <1>2, <1>3 DEF BothNext, OfStatus, OfAnswers, all
<1> QED BY <1>1, <1>4, PTL DEF BothSpec

(* No answer of the catalogue is older than a write that has ended and     *)
(* whose tag it has, unless it was asked for or stored while that tag was  *)
(* being invalidated: the tags of the reads and those that the writers     *)
(* invalidate fit together, and no key leaves the sets of its tags before  *)
(* it ends (cache.service.ts:79-95).                                       *)
THEOREM AnswersAreFresh == BothSpec => []FreshUnlessRaced
<1>1. CacheInv => FreshUnlessRaced
  BY DEF CacheInv, CacheTypes, Fresh, Shown, Current, FreshUnlessRaced, C!FreshUnlessRaced, C!Live
<1> QED BY <1>1, CacheInvHolds, PTL

-----------------------------------------------------------------------------
(***************************************************************************)
(* The endpoints.                                                          *)
(***************************************************************************)
(* What the paths of an endpoint ask for, its guards and checks ask for.   *)
Kept(e) ==
  ~e.public =>
    /\ e.path[1] = "admin" \/ e.path = <<"users">> \/ (e.path = <<"rumours">> /\ e.op = "confirm")
         => Required(e) = {"Admin"}
    /\ e.path = <<"rumours">> => Required(e) # {} /\ Required(e) \subseteq {"Admin", "Reporter"}
    /\ /\ e.op \in {"update", "remove", "read"}
       /\ e.path \in {<<"posts">>, <<"comments">>, <<"transfer-comments">>, <<"rumours">>,
                      <<"favourites">>, <<"notifications">>, <<"muted-keywords">>}
       => e.mine # "any"

LEMMA PublicKept == ASSUME NEW path, NEW ops, NEW e \in Public(path, ops) PROVE Kept(e)
  BY DEF Public, Endpoints, Kept
LEMMA AdminsKept ==
  ASSUME NEW path, NEW ops, NEW e \in Admins(path, ops),
         path \notin {<<"posts">>, <<"comments">>, <<"transfer-comments">>, <<"rumours">>,
                     <<"favourites">>, <<"notifications">>, <<"muted-keywords">>}
  PROVE  Kept(e)
  BY DEF Admins, Endpoints, Kept, Required
(* The paths of one word that ask for nothing but a token.                 *)
Plain(path) == path[1] # "admin" /\ path # <<"users">> /\ path # <<"rumours">>
LEMMA SignedInKept ==
  ASSUME NEW path, NEW ops, NEW e \in SignedIn(path, ops), Plain(path),
         ops \cap {"update", "remove", "read"} = {}
           \/ path \notin {<<"posts">>, <<"comments">>, <<"transfer-comments">>, <<"rumours">>,
                          <<"favourites">>, <<"notifications">>, <<"muted-keywords">>}
  PROVE  Kept(e)
  BY DEF SignedIn, Endpoints, Kept, Required, Plain
LEMMA OwnersKept ==
  ASSUME NEW path, NEW ops, NEW e \in OwnersOnly(path, ops), Plain(path) PROVE Kept(e)
  BY DEF OwnersOnly, Endpoints, Kept, Required, Plain

LEMMA RoutesKept == \A e \in Routes : Kept(e)
<1>1. \A e \in AuthController : Kept(e)
  BY PublicKept, SignedInKept DEF AuthController, Plain
<1>2. \A e \in UsersController : Kept(e)
  BY AdminsKept DEF UsersController, CRUD
<1>3. \A e \in AdminUsersController : Kept(e)
  BY AdminsKept DEF AdminUsersController
<1>4. \A e \in ProfilePhotoController : Kept(e)
  BY SignedInKept DEF ProfilePhotoController, ImageOps, Plain
<1>5. \A e \in PostsController : Kept(e)
  BY PublicKept, SignedInKept, OwnersKept DEF PostsController, Plain
<1>6. \A e \in CommentController : Kept(e)
  BY PublicKept, SignedInKept, OwnersKept DEF CommentController, Comments, Plain
<1>7. \A e \in TransferCommentController : Kept(e)
  BY PublicKept, SignedInKept, OwnersKept DEF TransferCommentController, Comments, Plain
<1>8. \A e \in AdminPostsController : Kept(e)
  BY AdminsKept DEF AdminPostsController
<1>9. \A e \in AdminCommentsController : Kept(e)
  BY AdminsKept DEF AdminCommentsController
<1>10. \A e \in AdminTransferCommentsController : Kept(e)
  BY AdminsKept DEF AdminTransferCommentsController
<1>11. \A e \in ReportsController : Kept(e)
  BY SignedInKept DEF ReportsController, Plain
<1>12. \A e \in AdminReportsController : Kept(e)
  BY AdminsKept DEF AdminReportsController
<1>13. \A e \in FeedController : Kept(e)
  BY SignedInKept DEF FeedController, Plain
<1>14. \A e \in FollowsController : Kept(e)
  BY SignedInKept DEF FollowsController, Plain
<1>15. \A e \in BlocksController : Kept(e)
  BY SignedInKept DEF BlocksController, Plain
<1>16. \A e \in MutedKeywordsController : Kept(e)
  BY SignedInKept, OwnersKept DEF MutedKeywordsController, Plain
<1>17. \A e \in MeFavouritesController : Kept(e)
  BY SignedInKept, OwnersKept DEF MeFavouritesController, Plain
<1>18. \A e \in MeNotificationsController : Kept(e)
  BY SignedInKept, OwnersKept DEF MeNotificationsController, Plain
<1>19. \A e \in MeNotificationPreferencesController : Kept(e)
  BY SignedInKept DEF MeNotificationPreferencesController, Plain
<1>20. \A e \in LeaguesController : Kept(e)
  BY PublicKept DEF LeaguesController
<1>21. \A e \in TeamsController : Kept(e)
  BY PublicKept DEF TeamsController
<1>22. \A e \in PlayersController : Kept(e)
  BY PublicKept DEF PlayersController
<1>23. \A e \in NewsController : Kept(e)
  BY PublicKept DEF NewsController
<1>24. \A e \in AdminLeaguesController : Kept(e)
  BY AdminsKept DEF AdminLeaguesController, CRUD
<1>25. \A e \in AdminTeamsController : Kept(e)
  BY AdminsKept DEF AdminTeamsController, CRUD
<1>26. \A e \in AdminPlayersController : Kept(e)
  BY AdminsKept DEF AdminPlayersController, CRUD
<1>27. \A e \in AdminNewsController : Kept(e)
  BY AdminsKept DEF AdminNewsController, CRUD
<1>28. \A e \in LeagueImageController : Kept(e)
  BY AdminsKept DEF LeagueImageController, ImageOps
<1>29. \A e \in TeamImageController : Kept(e)
  BY AdminsKept DEF TeamImageController, ImageOps
<1>30. \A e \in PlayerImageController : Kept(e)
  BY AdminsKept DEF PlayerImageController, ImageOps
<1>31. \A e \in NewsImageController : Kept(e)
  BY AdminsKept DEF NewsImageController, ImageOps
<1>32. \A e \in TransferQueryController : Kept(e)
  BY PublicKept DEF TransferQueryController
<1>33. \A e \in RumourController : Kept(e)
  BY PublicKept DEF RumourController
<1>34. \A e \in RumourWriteController : Kept(e)
  <2>1. {"Admin", "Reporter"} # {} /\ {"Admin"} # {}
    OBVIOUS
  <2> SUFFICES ASSUME NEW e \in RumourWriteController PROVE Kept(e)
    OBVIOUS
  <2>2. \/ e \in Endpoints(<<"rumours">>, FALSE, {"Admin", "Reporter"}, {}, "any", {"create"})
        \/ e \in Endpoints(<<"rumours">>, FALSE, {"Admin", "Reporter"}, {}, "ownerOrAdmin",
                           {"update", "remove"})
        \/ e \in Endpoints(<<"rumours">>, FALSE, {"Admin", "Reporter"}, {"Admin"}, "any", {"confirm"})
    BY DEF RumourWriteController
  <2>3. CASE e \in Endpoints(<<"rumours">>, FALSE, {"Admin", "Reporter"}, {}, "any", {"create"})
    <3>1. /\ e.path = <<"rumours">> /\ e.op = "create" /\ e.handler = {}
          /\ e.class = {"Admin", "Reporter"}
      BY <2>3 DEF Endpoints
    <3> QED BY <2>1, <3>1 DEF Kept, Required
  <2>4. CASE e \in Endpoints(<<"rumours">>, FALSE, {"Admin", "Reporter"}, {}, "ownerOrAdmin",
                             {"update", "remove"})
    <3>1. /\ e.path = <<"rumours">> /\ e.op \in {"update", "remove"} /\ e.handler = {}
          /\ e.class = {"Admin", "Reporter"} /\ e.mine = "ownerOrAdmin"
      BY <2>4 DEF Endpoints
    <3> QED BY <2>1, <3>1 DEF Kept, Required
  <2>5. CASE e \in Endpoints(<<"rumours">>, FALSE, {"Admin", "Reporter"}, {"Admin"}, "any", {"confirm"})
    <3>1. e.path = <<"rumours">> /\ e.op = "confirm" /\ e.handler = {"Admin"}
      BY <2>5 DEF Endpoints
    <3> QED BY <2>1, <3>1 DEF Kept, Required
  <2> QED BY <2>2, <2>3, <2>4, <2>5
<1>35. \A e \in AdminTransfersController : Kept(e)
  BY AdminsKept DEF AdminTransfersController, CRUD
<1>36. \A e \in AdminTransferPeriodsController : Kept(e)
  BY AdminsKept DEF AdminTransferPeriodsController, CRUD
<1>37. \A e \in CurrencyRatesController : Kept(e)
  BY AdminsKept DEF CurrencyRatesController, CRUD
<1>38. \A e \in IngestController : Kept(e)
  BY PublicKept DEF IngestController
<1>39. \A e \in BroadcastController : Kept(e)
  BY AdminsKept DEF BroadcastController
<1>40. \A e \in WaitlistController : Kept(e)
  BY PublicKept DEF WaitlistController
<1>41. \A e \in WaitlistAdminController : Kept(e)
  BY AdminsKept DEF WaitlistAdminController
<1>42. \A e \in AdminSyncController : Kept(e)
  BY AdminsKept DEF AdminSyncController
<1>43. \A e \in AdminSeedController : Kept(e)
  BY AdminsKept DEF AdminSeedController
<1>44. \A e \in DashboardController : Kept(e)
  BY AdminsKept DEF DashboardController
<1>45. \A e \in AuditLogsController : Kept(e)
  BY AdminsKept DEF AuditLogsController
<1>46. \A e \in SearchController : Kept(e)
  BY PublicKept DEF SearchController
<1>47. \A e \in EmailController : Kept(e)
  BY PublicKept DEF EmailController
<1>48. \A e \in HealthController : Kept(e)
  BY PublicKept DEF HealthController
<1> QED
  BY <1>1, <1>2, <1>3, <1>4, <1>5, <1>6, <1>7, <1>8, <1>9, <1>10, <1>11,
     <1>12, <1>13, <1>14, <1>15, <1>16, <1>17, <1>18, <1>19, <1>20, <1>21,
     <1>22, <1>23, <1>24, <1>25, <1>26, <1>27, <1>28, <1>29, <1>30, <1>31,
     <1>32, <1>33, <1>34, <1>35, <1>36, <1>37, <1>38, <1>39, <1>40, <1>41,
     <1>42, <1>43, <1>44, <1>45, <1>46, <1>47, <1>48
  DEF Routes

(* A token opens the administrators', the reporters' and others' affairs   *)
(* only by its role.                                                       *)
LEMMA AffairsKept ==
  ASSUME NEW held, NEW own, NEW affair, [role |-> held, own |-> own, affair |-> affair] \in Into
  PROVE  /\ affair = "admins" => held = "Admin"
         /\ affair = "reporters" => held \in {"Admin", "Reporter"}
         /\ affair = "owners" /\ own = FALSE => held = "Admin"
<1>1. PICK y \in TokenRoles \X BOOLEAN \X DOMAIN Affairs :
        /\ [role |-> held, own |-> own, affair |-> affair]
             = [role |-> y[1], own |-> y[2], affair |-> y[3]]
        /\ \E e \in Affairs[y[3]] : e \in Open[<<y[1], y[2]>>]
  BY DEF Into
<1>2. y[1] = held /\ y[2] = own /\ y[3] = affair /\ held \in TokenRoles /\ own \in BOOLEAN
  BY <1>1
<1>3. PICK e \in Affairs[affair] : e \in Open[<<held, own>>]
  BY <1>1, <1>2
<1>4. /\ e \in Routes /\ ~e.public
      /\ Required(e) = {} \/ held \in Required(e)
      /\ e.mine = "any" \/ own \/ (e.mine = "ownerOrAdmin" /\ held = "Admin")
  BY <1>2, <1>3 DEF Open, Guarded, RolesGuard, Owner
<1>5. Kept(e)
  BY <1>4, RoutesKept
<1>6. CASE affair = "admins"
  BY <1>3, <1>4, <1>5, <1>6 DEF Affairs, AdminsAffairs, Kept
<1>7. CASE affair = "reporters"
  BY <1>3, <1>4, <1>5, <1>7 DEF Affairs, ReportersAffairs, Kept
<1>8. CASE affair = "owners" /\ own = FALSE
  BY <1>3, <1>4, <1>5, <1>8 DEF Affairs, OwnersAffairs, Kept
<1> QED BY <1>6, <1>7, <1>8

(***************************************************************************)
(* What each step on the way from a row to a handler knows of a right is   *)
(* at most so old.                                                         *)
(***************************************************************************)
RowsOf   == [role : TokenRoles, status : {"Active", "Banned"}]
KnownStatuses   == [status : {"Active", "Banned"}, old : BOOLEAN]
Calls    == [at : {"status", "fill", "handler"}, role : TokenRoles,
             read : {"Active", "Banned", None}, late : BOOLEAN]
Late(c)  == IF c.late THEN 1 ELSE 0

UserTypes(r, t, k, s, c, h) ==
  /\ h \in [A!Rights -> Nat] /\ s \in {"Active", "Banned", None}
  /\ r # None => r \in RowsOf
  /\ t # None => t \in [role : TokenRoles, age : 0 .. LIFETIME]
  /\ k # None => k \in KnownStatuses
  /\ c # None => c \in Calls /\ (c.at = "fill" => c.read \in {"Active", "Banned"})
(* A right that is held was last held now; a token and a request have been *)
(* made with theirs.                                                       *)
RoleKnown(r, t, c, h) ==
  /\ \A x \in A!Rights : x \in A!Held(r) => h[x] = 0
  /\ t # None => \A x \in A!Rights : x \in {"here", t.role} => h[x] <= t.age
  /\ c # None => \A x \in A!Rights : x \in {"here", c.role} => h[x] <= LIFETIME + Late(c)
(* The same of the good standing, on its way through Redis.                *)
StatusKnown(r, k, s, c, h) ==
  /\ s = "Active" => h["active"] = 0
  /\ k # None => (k.status = "Active" => h["active"] <= 1 + (IF k.old THEN 1 ELSE 0))
  /\ c # None /\ c.at = "fill" /\ c.read = "Active" => h["active"] <= Late(c)
  /\ c # None /\ c.at = "handler" /\ r # None => h["active"] <= 2 + Late(c)
UserOK(r, t, k, s, c, h) ==
  UserTypes(r, t, k, s, c, h) /\ RoleKnown(r, t, c, h) /\ StatusKnown(r, k, s, c, h)
PerUser(f) == f = [u \in Callers |-> f[u]]
AccessInv ==
  /\ PerUser(row) /\ PerUser(token) /\ PerUser(known) /\ PerUser(unset) /\ PerUser(call)
  /\ PerUser(since)
  /\ \A u \in Callers : UserOK(row[u], token[u], known[u], unset[u], call[u], since[u])

LEMMA AccessStarts == A!Init => AccessInv
<1> SUFFICES ASSUME A!Init PROVE AccessInv
  OBVIOUS
<1>1. PICK role0 \in [Callers -> TokenRoles] :
        /\ row = [u \in Callers |-> [role |-> role0[u], status |-> "Active"]]
        /\ since = [u \in Callers |-> [x \in A!Rights |-> IF x \in A!Held(row[u]) THEN 0 ELSE A!Forever]]
  BY DEF A!Init
<1>2. /\ token = [u \in Callers |-> None] /\ known = [u \in Callers |-> None]
      /\ unset = [u \in Callers |-> None] /\ call = [u \in Callers |-> None]
  BY DEF A!Init
<1>3. PerUser(row) /\ PerUser(token) /\ PerUser(known) /\ PerUser(unset) /\ PerUser(call) /\ PerUser(since)
  BY <1>1, <1>2 DEF PerUser
<1>4. ASSUME NEW u \in Callers
      PROVE  UserOK(row[u], token[u], known[u], unset[u], call[u], since[u])
  <2>1. since[u] = [x \in A!Rights |-> IF x \in A!Held(row[u]) THEN 0 ELSE A!Forever]
    BY <1>1
  <2>2. since[u] \in [A!Rights -> Nat] /\ \A x \in A!Rights : x \in A!Held(row[u]) => since[u][x] = 0
    <3>1. A!Forever \in Nat
      BY TokensAssumption DEF A!Forever
    <3> QED BY <2>1, <3>1
  <2>3. row[u] \in RowsOf /\ token[u] = None /\ known[u] = None /\ unset[u] = None /\ call[u] = None
    BY <1>1, <1>2 DEF RowsOf
  <2> QED BY <2>2, <2>3, ConstantsAssumption DEF UserOK, UserTypes, RoleKnown, StatusKnown
<1> QED BY <1>3, <1>4 DEF AccessInv

LEMMA RightsKnown == {"Admin", "Reporter", "active", "here"} = A!Rights
  BY DEF A!Rights

(* A change of the row makes nothing older.                                *)
LEMMA ChangeOK ==
  ASSUME NEW r, NEW t, NEW k, NEW s, NEW c, NEW h, UserOK(r, t, k, s, c, h), r # None,
         NEW q, q # None => q \in RowsOf,
         NEW d, d \in {c, None}, NEW n, n = s \/ (q # None /\ n = q.status),
         NEW g, g = [x \in A!Rights |-> IF x \in A!Held(q) THEN 0 ELSE h[x]]
  PROVE  UserOK(q, t, k, n, d, g)
<1> USE DEF UserOK, UserTypes, RoleKnown, StatusKnown
<1>1. \A x \in A!Rights : /\ h[x] \in Nat /\ g[x] \in Nat /\ g[x] <= h[x]
                          /\ x \in A!Held(q) => g[x] = 0
  BY DEF A!Held
<1>2. UserTypes(q, t, k, n, d, g)
  BY <1>1 DEF RowsOf
<1>3. RoleKnown(q, t, d, g)
  <2>1. t # None => t.age \in Nat
    BY TokensAssumption
  <2>2. d # None => LIFETIME + Late(d) \in Nat
    BY TokensAssumption DEF Late
  <2> QED BY <1>1, <2>1, <2>2
<1>4. StatusKnown(q, k, n, d, g)
  <2>1. g["active"] <= h["active"] /\ g["active"] \in Nat /\ h["active"] \in Nat
    BY <1>1, RightsKnown
  <2>2. n = "Active" => g["active"] = 0
    <3>1. CASE n = s
      BY <2>1, <3>1
    <3>2. CASE q # None /\ n = q.status
      BY <1>1, <3>2, RightsKnown DEF A!Held
    <3> QED BY <3>1, <3>2
  <2>3. Late(c) \in Nat /\ (d # None => d = c)
    BY DEF Late
  <2> QED BY <2>1, <2>2, <2>3
<1> QED BY <1>2, <1>3, <1>4

(* What an administrator does to an account.                               *)
AccountChanges(v) == A!UpdateRole(v) \/ A!UpdateStatus(v) \/ A!RemoveUser(v)
LEMMA ChangeKeepsAccess ==
  ASSUME AccessInv, NEW v \in Callers, AccountChanges(v), UNCHANGED <<token, known>>,
         PerUser(call)', \A u \in Callers : call'[u] \in {call[u], None}
  PROVE  AccessInv'
<1>1. PICK q :
        /\ row[v] # None /\ (q # None => q \in RowsOf) /\ row' = [row EXCEPT ![v] = q]
        /\ since' = [since EXCEPT ![v] = [x \in A!Rights |-> IF x \in A!Held(q) THEN 0 ELSE @[x]]]
        /\ \/ unset' = unset
           \/ q # None /\ unset' = [unset EXCEPT ![v] = q.status]
  <2>0. row[v] # None => row[v] \in RowsOf
    BY DEF AccessInv, UserOK, UserTypes
  <2>1. CASE A!UpdateRole(v)
    <3>1. PICK role0 \in {"User", "Admin"} : A!Becomes(v, [row[v] EXCEPT !.role = role0])
      BY <2>1 DEF A!UpdateRole
    <3> DEFINE q == [row[v] EXCEPT !.role = role0]
    <3>2. row[v] # None /\ unset' = unset /\ q \in RowsOf
      BY <2>0, <2>1 DEF A!UpdateRole, RowsOf, TokenRoles
    <3>3. /\ row' = [row EXCEPT ![v] = q]
          /\ since' = [since EXCEPT ![v] = [x \in A!Rights |-> IF x \in A!Held(q) THEN 0 ELSE @[x]]]
      BY <3>1 DEF A!Becomes
    <3> HIDE DEF q
    <3> QED BY <3>2, <3>3
  <2>2. CASE A!UpdateStatus(v)
    <3>1. PICK status0 \in {"Active", "Banned"} :
            /\ A!Becomes(v, [row[v] EXCEPT !.status = status0])
            /\ unset' = [unset EXCEPT ![v] = status0]
      BY <2>2 DEF A!UpdateStatus
    <3> DEFINE q == [row[v] EXCEPT !.status = status0]
    <3>2. row[v] # None /\ q \in RowsOf /\ q.status = status0
      BY <2>0, <2>2 DEF A!UpdateStatus, RowsOf
    <3>3. /\ row' = [row EXCEPT ![v] = q]
          /\ since' = [since EXCEPT ![v] = [x \in A!Rights |-> IF x \in A!Held(q) THEN 0 ELSE @[x]]]
      BY <3>1 DEF A!Becomes
    <3>4. q # None
      BY <3>2, TokensAssumption DEF RowsOf
    <3> HIDE DEF q
    <3> QED BY <3>1, <3>2, <3>3, <3>4
  <2>3. CASE A!RemoveUser(v)
    BY <2>3 DEF A!RemoveUser, A!Becomes
  <2> QED BY <2>1, <2>2, <2>3 DEF AccountChanges
<1> DEFINE g == [x \in A!Rights |-> IF x \in A!Held(q) THEN 0 ELSE since[v][x]]
<1>2. /\ row'[v] = q /\ since'[v] = g
      /\ unset'[v] = unset[v] \/ (q # None /\ unset'[v] = q.status)
      /\ \A u \in Callers : u # v => row'[u] = row[u] /\ since'[u] = since[u] /\ unset'[u] = unset[u]
      /\ PerUser(row)' /\ PerUser(since)' /\ PerUser(unset)'
  BY <1>1 DEF AccessInv, PerUser
<1>3. UserOK(row'[v], token[v], known[v], unset'[v], call'[v], since'[v])
  <2>1. UserOK(row[v], token[v], known[v], unset[v], call[v], since[v])
    BY DEF AccessInv
  <2>2. g = [x \in A!Rights |-> IF x \in A!Held(q) THEN 0 ELSE since[v][x]]
    OBVIOUS
  <2> HIDE DEF g
  <2> DEFINE r == row[v]
             t == token[v]
             k == known[v]
             s == unset[v]
             c == call[v]
             h == since[v]
             n == unset'[v]
             d == call'[v]
  <2>3. /\ UserOK(r, t, k, s, c, h) /\ r # None /\ (q # None => q \in RowsOf)
        /\ d \in {c, None} /\ (n = s \/ (q # None /\ n = q.status))
        /\ g = [x \in A!Rights |-> IF x \in A!Held(q) THEN 0 ELSE h[x]]
    BY <1>1, <1>2, <2>1, <2>2
  <2> HIDE DEF r, t, k, s, c, h, n, d
  <2>4. UserOK(q, t, k, n, d, g)
    BY <2>3, ChangeOK
  <2> QED BY <1>2, <2>4 DEF t, k, n, d
<1>4. ASSUME NEW u \in Callers, u # v
      PROVE  UserOK(row'[u], token[u], known[u], unset'[u], call'[u], since'[u])
  <2>1. UserOK(row[u], token[u], known[u], unset[u], call[u], since[u])
    BY DEF AccessInv
  <2>2. UserOK(row[u], token[u], known[u], unset[u], None, since[u])
    BY <2>1 DEF UserOK, UserTypes, RoleKnown, StatusKnown
  <2>3. row'[u] = row[u] /\ since'[u] = since[u] /\ unset'[u] = unset[u]
    BY <1>2, <1>4
  <2> QED BY <2>1, <2>2, <2>3
<1>5. \A u \in Callers : UserOK(row'[u], token[u], known[u], unset'[u], call'[u], since'[u])
  BY <1>3, <1>4
<1> QED BY <1>2, <1>5 DEF AccessInv, PerUser

(* A step about one user that leaves the rows.                             *)
OnlyOf(u) ==
  /\ UNCHANGED <<row, since>>
  /\ PerUser(token)' /\ PerUser(known)' /\ PerUser(unset)' /\ PerUser(call)'
  /\ \A v \in Callers : v # u => /\ token'[v] = token[v] /\ known'[v] = known[v]
                                 /\ unset'[v] = unset[v] /\ call'[v] = call[v]
LEMMA OneUser ==
  ASSUME AccessInv, NEW u \in Callers, OnlyOf(u),
         UserOK(row[u], token'[u], known'[u], unset'[u], call'[u], since[u])
  PROVE  AccessInv'
<1>1. PerUser(row)' /\ PerUser(since)'
  BY DEF AccessInv, PerUser, OnlyOf
<1>2. ASSUME NEW v \in Callers
      PROVE  UserOK(row[v], token'[v], known'[v], unset'[v], call'[v], since[v])
  <2>1. CASE v = u
    BY <2>1
  <2>2. CASE v # u
    <3>1. UserOK(row[v], token[v], known[v], unset[v], call[v], since[v])
      BY DEF AccessInv
    <3> QED BY <2>2, <3>1 DEF OnlyOf
  <2> QED BY <2>1, <2>2
<1> QED BY <1>1, <1>2 DEF AccessInv, OnlyOf

LEMMA WriteStatusKeeps == ASSUME AccessInv, NEW u \in Callers, A!WriteStatus(u) PROVE AccessInv'
<1> DEFINE k == A!Cached(unset[u])
<1>1. /\ UNCHANGED <<row, token, call, since>> /\ unset[u] # None
      /\ unset' = [unset EXCEPT ![u] = None]
      /\ known' = [known EXCEPT ![u] = k] \/ known' = known
  BY DEF A!WriteStatus
<1>2. UserOK(row[u], token[u], known[u], unset[u], call[u], since[u])
  BY DEF AccessInv
<1>3. UserOK(row[u], token[u], known[u], None, call[u], since[u])
  BY <1>2, ConstantsAssumption DEF UserOK, UserTypes, StatusKnown
<1>4. k \in KnownStatuses /\ k.status = unset[u] /\ ~k.old
  BY <1>1, <1>2 DEF UserOK, UserTypes, A!Cached, KnownStatuses
<1>5. k.status = "Active" => since[u]["active"] = 0
  BY <1>2, <1>4 DEF UserOK, StatusKnown
<1> HIDE DEF k
<1>6. UserOK(row[u], token[u], k, None, call[u], since[u])
  BY <1>3, <1>4, <1>5 DEF UserOK, UserTypes, StatusKnown
<1>7. /\ OnlyOf(u) /\ token'[u] = token[u] /\ call'[u] = call[u] /\ unset'[u] = None
      /\ known'[u] = k \/ known'[u] = known[u]
  BY <1>1 DEF OnlyOf, AccessInv, PerUser
<1> QED BY <1>3, <1>6, <1>7, OneUser

LEMMA SignInKeeps == ASSUME AccessInv, NEW u \in Callers, A!SignIn(u) PROVE AccessInv'
<1> DEFINE t == [role |-> row[u].role, age |-> 0]
<1>1. /\ UNCHANGED <<row, known, unset, call, since>> /\ row[u] # None
      /\ token' = [token EXCEPT ![u] = t]
  BY DEF A!SignIn
<1>2. UserOK(row[u], token[u], known[u], unset[u], call[u], since[u])
  BY DEF AccessInv
<1>3. row[u] \in RowsOf /\ t \in [role : TokenRoles, age : 0 .. LIFETIME] /\ t.age = 0
      /\ t.role = row[u].role
  BY <1>1, <1>2, TokensAssumption DEF UserOK, UserTypes, RowsOf
<1>4. \A x \in A!Rights : x \in {"here", t.role} => since[u][x] <= 0
  BY <1>1, <1>2, <1>3 DEF UserOK, RoleKnown, A!Held
<1> HIDE DEF t
<1>5. UserOK(row[u], t, known[u], unset[u], call[u], since[u])
  BY <1>2, <1>3, <1>4 DEF UserOK, UserTypes, RoleKnown
<1>6. /\ OnlyOf(u) /\ token'[u] = t /\ call'[u] = call[u] /\ unset'[u] = unset[u]
      /\ known'[u] = known[u]
  BY <1>1 DEF OnlyOf, AccessInv, PerUser
<1> QED BY <1>5, <1>6, OneUser

LEMMA SendKeepsAccess == ASSUME AccessInv, NEW u \in Callers, A!Send(u) PROVE AccessInv'
<1> DEFINE c == [at |-> "status", role |-> token[u].role, read |-> None, late |-> FALSE]
<1>1. /\ UNCHANGED <<row, token, known, unset, since>> /\ token[u] # None
      /\ call' = [call EXCEPT ![u] = c]
  BY DEF A!Send
<1>2. UserOK(row[u], token[u], known[u], unset[u], call[u], since[u])
  BY DEF AccessInv
<1>3. c \in Calls /\ c.at = "status" /\ c.role = token[u].role /\ Late(c) = 0
  BY <1>1, <1>2 DEF UserOK, UserTypes, Calls, Late
<1>4. /\ token[u].age \in 0 .. LIFETIME /\ since[u] \in [A!Rights -> Nat]
      /\ \A x \in A!Rights : x \in {"here", c.role} => since[u][x] <= token[u].age
  BY <1>1, <1>2, <1>3 DEF UserOK, UserTypes, RoleKnown
<1> HIDE DEF c
<1>5. \A x \in A!Rights : x \in {"here", c.role} => since[u][x] <= LIFETIME + Late(c)
  BY <1>3, <1>4, TokensAssumption
<1>6. UserOK(row[u], token[u], known[u], unset[u], c, since[u])
  BY <1>2, <1>3, <1>5 DEF UserOK, UserTypes, RoleKnown, StatusKnown
<1>7. /\ OnlyOf(u) /\ token'[u] = token[u] /\ call'[u] = c /\ unset'[u] = unset[u]
      /\ known'[u] = known[u]
  BY <1>1 DEF OnlyOf, AccessInv, PerUser
<1> QED BY <1>6, <1>7, OneUser

(* A request whose check goes on, or which ends.                           *)
LEMMA CallGoesOn ==
  ASSUME NEW r, NEW t, NEW k, NEW s, NEW c, NEW h, UserOK(r, t, k, s, c, h), c # None,
         NEW d, d \in Calls, d.role = c.role, d.late = c.late,
         \/ d.at = "fill" /\ d.read \in {"Active", "Banned"} /\ (d.read = "Active" => h["active"] = 0)
         \/ d.at = "handler" /\ (r # None => h["active"] <= 2)
  PROVE  UserOK(r, t, k, s, d, h)
<1>1. Late(d) = Late(c) /\ Late(c) \in Nat /\ h["active"] \in Nat
  BY RightsKnown DEF Late, UserOK, UserTypes
<1> QED BY <1>1 DEF UserOK, UserTypes, RoleKnown, StatusKnown
LEMMA CallEnds ==
  ASSUME NEW r, NEW t, NEW k, NEW s, NEW c, NEW h, UserOK(r, t, k, s, c, h)
  PROVE  UserOK(r, t, k, s, None, h)
  BY DEF UserOK, UserTypes, RoleKnown, StatusKnown

LEMMA GetStatusKeeps == ASSUME AccessInv, NEW u \in Callers, A!GetStatus(u) PROVE AccessInv'
<1> DEFINE c == call[u]
           p == [c EXCEPT !.at = "handler", !.read = None]
           f == [c EXCEPT !.at = "fill", !.read = row[u].status]
<1>1. /\ UNCHANGED <<row, token, known, unset, since>> /\ c # None
      /\ \/ call' = [call EXCEPT ![u] = None]
         \/ /\ call' = [call EXCEPT ![u] = p]
            /\ \/ row[u] = None
               \/ known[u] # None /\ known[u].status = "Active"
         \/ row[u] # None /\ call' = [call EXCEPT ![u] = f]
  <2>1. /\ UNCHANGED <<row, token, known, unset, since>> /\ c # None
    BY DEF A!GetStatus
  <2>2. CASE known[u] # None /\ A!PassIf(u, known[u].status = "Active")
    BY <2>1, <2>2 DEF A!PassIf
  <2>3. CASE row[u] = None /\ A!PassIf(u, TRUE)
    BY <2>1, <2>3 DEF A!PassIf
  <2>4. CASE row[u] # None /\ call' = [call EXCEPT ![u].at = "fill", ![u].read = row[u].status]
    <3>1. call' = [call EXCEPT ![u] = f]
      BY <2>4 DEF AccessInv, PerUser
    <3> QED BY <2>1, <2>4, <3>1
  <2> QED BY <2>2, <2>3, <2>4 DEF A!GetStatus
<1>2. UserOK(row[u], token[u], known[u], unset[u], c, since[u])
  BY DEF AccessInv
<1>3. c \in Calls /\ (row[u] # None => row[u] \in RowsOf)
  BY <1>1, <1>2 DEF UserOK, UserTypes
<1>4. p \in Calls /\ p.at = "handler" /\ p.role = c.role /\ p.late = c.late
  BY <1>3 DEF Calls
<1>5. row[u] # None => /\ f \in Calls /\ f.at = "fill" /\ f.role = c.role /\ f.late = c.late
                       /\ f.read = row[u].status /\ f.read \in {"Active", "Banned"}
  BY <1>3 DEF Calls, RowsOf
<1>6. row[u] # None /\ row[u].status = "Active" => since[u]["active"] = 0
  BY <1>2, RightsKnown DEF UserOK, RoleKnown, A!Held
<1>7. known[u] # None /\ known[u].status = "Active" => since[u]["active"] <= 2
  <2>1. since[u]["active"] \in Nat
    BY <1>2, RightsKnown DEF UserOK, UserTypes
  <2> QED BY <1>2, <2>1 DEF UserOK, StatusKnown
<1> HIDE DEF c, p, f
<1>8. /\ OnlyOf(u) /\ token'[u] = token[u] /\ known'[u] = known[u] /\ unset'[u] = unset[u]
      /\ \/ call'[u] = None
         \/ call'[u] = p /\ (row[u] = None \/ (known[u] # None /\ known[u].status = "Active"))
         \/ call'[u] = f /\ row[u] # None
  BY <1>1 DEF OnlyOf, AccessInv, PerUser
<1>9. UserOK(row[u], token[u], known[u], unset[u], None, since[u])
  BY <1>2, CallEnds
<1>10. ASSUME row[u] = None \/ (known[u] # None /\ known[u].status = "Active")
       PROVE  UserOK(row[u], token[u], known[u], unset[u], p, since[u])
  <2>1. row[u] # None => since[u]["active"] <= 2
    BY <1>7, <1>10
  <2> QED BY <1>1, <1>2, <1>4, <2>1, CallGoesOn
<1>11. ASSUME row[u] # None PROVE UserOK(row[u], token[u], known[u], unset[u], f, since[u])
  <2>1. f.read = "Active" => since[u]["active"] = 0
    BY <1>5, <1>6, <1>11
  <2> QED BY <1>1, <1>2, <1>5, <1>11, <2>1, CallGoesOn
<1> QED BY <1>8, <1>9, <1>10, <1>11, OneUser

LEMMA FillKeeps == ASSUME AccessInv, NEW u \in Callers, A!Fill(u) PROVE AccessInv'
<1> DEFINE c == call[u]
           k == A!Cached(c.read)
           p == [c EXCEPT !.at = "handler", !.read = None]
<1>1. /\ UNCHANGED <<row, token, unset, since>> /\ c # None /\ c.at = "fill"
      /\ known' = [known EXCEPT ![u] = k] \/ known' = known
      /\ \/ call' = [call EXCEPT ![u] = None]
         \/ c.read = "Active" /\ call' = [call EXCEPT ![u] = p]
  BY DEF A!Fill, A!PassIf
<1>2. UserOK(row[u], token[u], known[u], unset[u], c, since[u])
  BY DEF AccessInv
<1>3. c \in Calls /\ c.read \in {"Active", "Banned"} /\ since[u]["active"] \in Nat
      /\ (c.read = "Active" => since[u]["active"] <= 1)
  <2>1. c \in Calls /\ c.read \in {"Active", "Banned"} /\ since[u]["active"] \in Nat
    BY <1>1, <1>2, RightsKnown DEF UserOK, UserTypes
  <2>2. Late(c) \in {0, 1}
    BY DEF Late
  <2>3. c.read = "Active" => since[u]["active"] <= Late(c)
    BY <1>1, <1>2 DEF UserOK, StatusKnown
  <2> QED BY <2>1, <2>2, <2>3
<1>4. p \in Calls /\ p.at = "handler" /\ p.role = c.role /\ p.late = c.late
  BY <1>3 DEF Calls
<1>5. k \in KnownStatuses /\ k.status = c.read /\ ~k.old
  BY <1>3 DEF A!Cached, KnownStatuses
<1> HIDE DEF c, k, p
<1>6. /\ OnlyOf(u) /\ token'[u] = token[u] /\ unset'[u] = unset[u]
      /\ known'[u] = k \/ known'[u] = known[u]
      /\ call'[u] = None \/ (c.read = "Active" /\ call'[u] = p)
  BY <1>1 DEF OnlyOf, AccessInv, PerUser
<1>7. UserOK(row[u], token[u], k, unset[u], c, since[u])
  BY <1>2, <1>3, <1>5 DEF UserOK, UserTypes, StatusKnown
<1>8. ASSUME NEW m, UserOK(row[u], token[u], m, unset[u], c, since[u])
      PROVE  /\ UserOK(row[u], token[u], m, unset[u], None, since[u])
             /\ c.read = "Active" => UserOK(row[u], token[u], m, unset[u], p, since[u])
  <2>1. UserOK(row[u], token[u], m, unset[u], None, since[u])
    BY <1>8, CallEnds
  <2>2. ASSUME c.read = "Active" PROVE UserOK(row[u], token[u], m, unset[u], p, since[u])
    <3>1. since[u]["active"] <= 2
      BY <1>3, <2>2
    <3> QED BY <1>1, <1>4, <1>8, <3>1, CallGoesOn
  <2> QED BY <2>1, <2>2
<1> QED BY <1>2, <1>6, <1>7, <1>8, OneUser

LEMMA LapseKeeps ==
  ASSUME AccessInv, NEW u \in Callers, A!LapseToken(u) \/ A!LapseStatus(u) PROVE AccessInv'
<1>1. UserOK(row[u], token[u], known[u], unset[u], call[u], since[u])
  BY DEF AccessInv
<1>2. /\ UserOK(row[u], None, known[u], unset[u], call[u], since[u])
      /\ UserOK(row[u], token[u], None, unset[u], call[u], since[u])
  BY <1>1 DEF UserOK, UserTypes, RoleKnown, StatusKnown
<1>3. CASE A!LapseToken(u)
  <2>1. /\ OnlyOf(u) /\ token'[u] = None /\ known'[u] = known[u] /\ unset'[u] = unset[u]
        /\ call'[u] = call[u]
    BY <1>3 DEF A!LapseToken, OnlyOf, AccessInv, PerUser
  <2> QED BY <1>2, <2>1, OneUser
<1>4. CASE A!LapseStatus(u)
  <2>1. /\ OnlyOf(u) /\ token'[u] = token[u] /\ known'[u] = None /\ unset'[u] = unset[u]
        /\ call'[u] = call[u]
    BY <1>4 DEF A!LapseStatus, OnlyOf, AccessInv, PerUser
  <2> QED BY <1>2, <2>1, OneUser
<1> QED BY <1>3, <1>4

LEMMA HandleKeeps == ASSUME AccessInv, NEW u \in Callers, A!Handle(u) PROVE AccessInv'
<1>1. UNCHANGED <<token, known>> /\ call' = [call EXCEPT ![u] = None]
  BY DEF A!Handle
<1>2. PerUser(call)' /\ (\A v \in Callers : call'[v] \in {call[v], None}) /\ call'[u] = None
  BY <1>1 DEF AccessInv, PerUser
<1>3. CASE UNCHANGED <<row, unset, since>>
  <2>1. UserOK(row[u], token[u], known[u], unset[u], None, since[u])
    BY CallEnds DEF AccessInv
  <2>2. /\ OnlyOf(u) /\ token'[u] = token[u] /\ known'[u] = known[u] /\ unset'[u] = unset[u]
    BY <1>1, <1>3 DEF OnlyOf, AccessInv, PerUser
  <2> QED BY <1>2, <2>1, <2>2, OneUser
<1>4. CASE \E v \in Callers : AccountChanges(v)
  BY <1>1, <1>2, <1>4, ChangeKeepsAccess
<1>5. UNCHANGED <<row, unset, since>> \/ \E v \in Callers : AccountChanges(v)
  BY DEF A!Handle, A!Effect, AccountChanges
<1> QED BY <1>3, <1>4, <1>5

LEMMA ColleagueKeeps == ASSUME AccessInv, NEW u \in Callers, A!Colleague(u) PROVE AccessInv'
<1>1. UNCHANGED <<token, known, call>> /\ AccountChanges(u)
  BY DEF A!Colleague, AccountChanges
<1>2. PerUser(call)' /\ \A v \in Callers : call'[v] \in {call[v], None}
  BY <1>1 DEF AccessInv, PerUser
<1> QED BY <1>1, <1>2, ChangeKeepsAccess

(* A Tick ends what has had its time.                                      *)
LEMMA TickOK ==
  ASSUME NEW r, NEW t, NEW k, NEW c, NEW h, UserOK(r, t, k, None, c, h), c # None => ~c.late,
         NEW tt, tt = (IF t = None \/ t.age = LIFETIME THEN None ELSE [t EXCEPT !.age = @ + 1]),
         NEW kk, kk = (IF k = None \/ k.old THEN None ELSE [k EXCEPT !.old = TRUE]),
         NEW cc, cc = (IF c = None THEN None ELSE [c EXCEPT !.late = TRUE]),
         NEW g, g = [x \in A!Rights |-> IF x \in A!Held(r) \/ h[x] = A!Forever
                                        THEN h[x] ELSE h[x] + 1]
  PROVE  UserOK(r, tt, kk, None, cc, g)
<1>1. /\ \A x \in A!Rights : /\ h[x] \in Nat /\ g[x] \in Nat /\ g[x] <= h[x] + 1
                             /\ x \in A!Held(r) => g[x] = h[x]
      /\ g \in [A!Rights -> Nat]
  BY DEF UserOK, UserTypes
<1>2. tt # None => /\ t # None /\ tt.role = t.role /\ t.age \in Nat /\ tt.age = t.age + 1
                   /\ tt \in [role : TokenRoles, age : 0 .. LIFETIME]
  <2> SUFFICES ASSUME tt # None
               PROVE  /\ t # None /\ tt.role = t.role /\ t.age \in Nat /\ tt.age = t.age + 1
                      /\ tt \in [role : TokenRoles, age : 0 .. LIFETIME]
    OBVIOUS
  <2>1. t # None /\ t.age # LIFETIME /\ tt = [t EXCEPT !.age = @ + 1]
    OBVIOUS
  <2>2. t \in [role : TokenRoles, age : 0 .. LIFETIME]
    BY <2>1 DEF UserOK, UserTypes
  <2>3. t.age + 1 \in 0 .. LIFETIME /\ t.age \in Nat
    BY <2>1, <2>2, TokensAssumption
  <2> QED BY <2>1, <2>2, <2>3
<1>3. kk # None => k # None /\ kk \in KnownStatuses /\ kk.status = k.status /\ ~k.old /\ kk.old
  BY DEF UserOK, UserTypes, KnownStatuses
<1>4. cc # None => /\ c # None /\ cc \in Calls /\ cc.at = c.at /\ cc.role = c.role
                   /\ cc.read = c.read /\ Late(c) = 0 /\ Late(cc) = 1
  <2> SUFFICES ASSUME cc # None
               PROVE  /\ c # None /\ cc \in Calls /\ cc.at = c.at /\ cc.role = c.role
                      /\ cc.read = c.read /\ Late(c) = 0 /\ Late(cc) = 1
    OBVIOUS
  <2>1. c # None /\ cc = [c EXCEPT !.late = TRUE] /\ c \in Calls
    BY DEF UserOK, UserTypes
  <2>2. cc \in Calls /\ cc.at = c.at /\ cc.role = c.role /\ cc.read = c.read /\ cc.late
    BY <2>1 DEF Calls
  <2> QED BY <2>1, <2>2 DEF Late
<1> HIDE DEF A!Rights
<1>5. UserTypes(r, tt, kk, None, cc, g)
  BY <1>1, <1>2, <1>3, <1>4 DEF UserOK, UserTypes
<1>6. RoleKnown(r, tt, cc, g)
  <2>1. \A x \in A!Rights : x \in A!Held(r) => g[x] = 0
    BY <1>1 DEF UserOK, RoleKnown
  <2>2. ASSUME tt # None, NEW x \in A!Rights, x \in {"here", tt.role} PROVE g[x] <= tt.age
    <3>1. h[x] <= t.age
      BY <1>2, <2>2 DEF UserOK, RoleKnown
    <3> QED BY <1>1, <1>2, <2>2, <3>1
  <2>3. ASSUME cc # None, NEW x \in A!Rights, x \in {"here", cc.role} PROVE g[x] <= LIFETIME + Late(cc)
    <3>1. h[x] <= LIFETIME + Late(c)
      BY <1>4, <2>3 DEF UserOK, RoleKnown
    <3> QED BY <1>1, <1>4, <2>3, <3>1, TokensAssumption
  <2> QED BY <2>1, <2>2, <2>3 DEF RoleKnown
<1>7. StatusKnown(r, kk, None, cc, g)
  <2>1. g["active"] <= h["active"] + 1 /\ g["active"] \in Nat /\ h["active"] \in Nat
    BY <1>1, RightsKnown
  <2>2. kk # None => (kk.status = "Active" => g["active"] <= 1 + (IF kk.old THEN 1 ELSE 0))
    <3>1. k # None /\ k.status = "Active" /\ ~k.old => h["active"] <= 1
      BY DEF UserOK, StatusKnown
    <3> QED BY <1>3, <2>1, <3>1
  <2>3. cc # None /\ cc.at = "fill" /\ cc.read = "Active" => g["active"] <= Late(cc)
    BY <1>4, <2>1 DEF UserOK, StatusKnown
  <2>4. cc # None /\ cc.at = "handler" /\ r # None => g["active"] <= 2 + Late(cc)
    BY <1>4, <2>1 DEF UserOK, StatusKnown
  <2>5. None # "Active"
    BY ConstantsAssumption
  <2> QED BY <2>2, <2>3, <2>4, <2>5 DEF StatusKnown
<1> QED BY <1>5, <1>6, <1>7 DEF UserOK

LEMMA TickKeepsAccess == ASSUME AccessInv, A!Tick PROVE AccessInv'
<1>1. /\ UNCHANGED <<row, unset>>
      /\ PerUser(row)' /\ PerUser(token)' /\ PerUser(known)' /\ PerUser(unset)' /\ PerUser(call)'
      /\ PerUser(since)'
  BY DEF A!Tick, AccessInv, PerUser
<1>2. ASSUME NEW u \in Callers
      PROVE  UserOK(row[u], token'[u], known'[u], unset[u], call'[u], since'[u])
  <2> DEFINE r == row[u]
             t == token[u]
             k == known[u]
             c == call[u]
             h == since[u]
             tt == token'[u]
             kk == known'[u]
             cc == call'[u]
             g == since'[u]
  <2>1. UserOK(r, t, k, None, c, h) /\ unset[u] = None /\ (c # None => ~c.late)
    BY DEF A!Tick, AccessInv
  <2>2. /\ tt = (IF t = None \/ t.age = LIFETIME THEN None ELSE [t EXCEPT !.age = @ + 1])
        /\ kk = (IF k = None \/ k.old THEN None ELSE [k EXCEPT !.old = TRUE])
        /\ cc = (IF c = None THEN None ELSE [c EXCEPT !.late = TRUE])
        /\ g = [x \in A!Rights |-> IF x \in A!Held(r) \/ h[x] = A!Forever THEN h[x] ELSE h[x] + 1]
    BY DEF A!Tick
  <2> HIDE DEF r, t, k, c, h, tt, kk, cc, g
  <2>3. UserOK(r, tt, kk, None, cc, g)
    BY <2>1, <2>2, TickOK
  <2> QED BY <2>1, <2>3 DEF r, tt, kk, cc, g
<1> QED BY <1>1, <1>2 DEF AccessInv

LEMMA AccessInvHolds == AccessSpec => []AccessInv
<1>1. AccessInit => AccessInv
  BY AccessStarts DEF AccessInit
<1>2. AccessInv /\ A!Next => AccessInv'
  BY WriteStatusKeeps, ColleagueKeeps, SignInKeeps, SendKeepsAccess, GetStatusKeeps, FillKeeps,
     HandleKeeps, LapseKeeps, TickKeepsAccess DEF A!Next
<1>3. AccessInv /\ UNCHANGED accessVars => AccessInv'
  BY DEF accessVars, AccessInv, PerUser
<1>4. AccessInv /\ [AccessNext]_<<side, vars, accessVars>> => AccessInv'
  BY <1>2, <1>3 DEF AccessNext
<1> QED BY <1>1, <1>4, PTL DEF AccessSpec

(* Whatever is taken from a user, a role, the good standing or the         *)
(* account, no endpoint that asks for it carries out a request of his when *)
(* his tokens and the cached status of that time have lapsed and the       *)
(* requests then under way have ended (jwt-auth.guard.ts:45-65,            *)
(* roles.guard.ts:25-43): by what every route's decorators and services    *)
(* ask for, for any number of users and any lifetime of a token.           *)
THEOREM AccessEnds == AccessSpec => []AccessWithdrawn
<1>1. ASSUME AccessInv PROVE AccessWithdrawn
  <2> SUFFICES ASSUME NEW u \in Callers, call[u] # None, call[u].at = "handler"
               PROVE  LET into(affair, own) == [role |-> call[u].role, own |-> own, affair |-> affair] \in Into
                          was(right) == since[u][right] <= LIFETIME + 1
                      IN  /\ into("all", TRUE) => was("here") /\ (row[u] # None => since[u]["active"] <= 3)
                          /\ into("admins", TRUE) => was("Admin")
                          /\ into("reporters", TRUE) => was("Admin") \/ was("Reporter")
                          /\ into("owners", FALSE) => was("Admin")
    BY DEF AccessWithdrawn, A!AccessWithdrawn
  <2>1. UserOK(row[u], token[u], known[u], unset[u], call[u], since[u])
    BY <1>1 DEF AccessInv
  <2>2. Late(call[u]) \in {0, 1} /\ since[u] \in [A!Rights -> Nat]
    BY <2>1 DEF Late, UserOK, UserTypes
  <2>3. \A x \in A!Rights : x \in {"here", call[u].role} => since[u][x] <= LIFETIME + 1
    <3>1. \A x \in A!Rights : x \in {"here", call[u].role} => since[u][x] <= LIFETIME + Late(call[u])
      BY <2>1 DEF UserOK, RoleKnown
    <3> QED BY <2>2, <3>1, TokensAssumption
  <2>4. since[u]["here"] <= LIFETIME + 1
    BY <2>3, RightsKnown
  <2>5. row[u] # None => since[u]["active"] <= 3
    <3>1. row[u] # None => since[u]["active"] <= 2 + Late(call[u])
      BY <2>1 DEF UserOK, StatusKnown
    <3> QED BY <2>2, <3>1, RightsKnown
  <2>6. /\ call[u].role = "Admin" => since[u]["Admin"] <= LIFETIME + 1
        /\ call[u].role = "Reporter" => since[u]["Reporter"] <= LIFETIME + 1
    BY <2>3, RightsKnown
  <2>7. [role |-> call[u].role, own |-> TRUE, affair |-> "admins"] \in Into => call[u].role = "Admin"
    BY AffairsKept
  <2>8. [role |-> call[u].role, own |-> TRUE, affair |-> "reporters"] \in Into
          => call[u].role \in {"Admin", "Reporter"}
    BY AffairsKept
  <2>9. [role |-> call[u].role, own |-> FALSE, affair |-> "owners"] \in Into => call[u].role = "Admin"
    BY AffairsKept
  <2> QED BY <2>4, <2>5, <2>6, <2>7, <2>8, <2>9
<1> QED BY <1>1, AccessInvHolds, PTL
=============================================================================
