----------------------------- MODULE ReadCache -----------------------------
(***************************************************************************)
(* The answers of the public catalogue kept in Redis (common/redis): a     *)
(* read that finds no answer asks the database and stores what it got      *)
(* under its key, which it adds to the sets of its tags; a write deletes   *)
(* the keys in the sets of its tags.  One key is followed, of any of the   *)
(* program's reads, and one of the tables that its answer shows, with the  *)
(* tag of that table, among all of the program's writers.                  *)
(***************************************************************************)
EXTENDS Naturals, FiniteSets

CONSTANTS
    Requests, Writers, None,
    List, Search,               \* CacheTtl, in ticks of the clock
    TAG_TTL_BUFFER,
    MaxWrites, MaxFaults

(***************************************************************************)
(* What each query of the repositories reads.                              *)
(***************************************************************************)
LeagueRows == [getAll |-> {"league", "team"}, getById |-> {"league", "team", "player"},
               getByCode |-> {"league", "team"}]
TeamRows == [getAll |-> {"team", "league", "player"}, getById |-> {"team", "league", "player"},
             getByLeagueId |-> {"team", "league", "player"},
             getDetailById |-> {"team", "league", "player", "playerStatistic"}]
PlayerRows == [getAll |-> {"player", "team"},
               getById |-> {"player", "team", "playerStatistic", "league"},
               getByTeamId |-> {"player", "team"}]
\* transferInclude
TransferRows == {"transfer", "player", "team", "user"}
StatsRows == [aggregate |-> {"transfer"}, edge |-> TransferRows,
              mostActiveTeam |-> {"transfer", "team"},
              mostTransferredPlayer |-> {"transfer", "player"},
              getPeriods |-> {"transferPeriod"}, getPeriodById |-> {"transferPeriod"}]
SearchRows == [searchPlayers |-> {"player"}, searchTeams |-> {"team"},
               searchLeagues |-> {"league"}, searchPlayersPaged |-> {"player", "team"}]

(***************************************************************************)
(* The cached reads: what an answer shows, its tags and how long it lives. *)
(***************************************************************************)
Read(shows, tags) == [shows |-> shows, tags |-> tags, ttl |-> List]
LeagueReads ==
    {Read(LeagueRows.getAll, {"leagues"}), Read(LeagueRows.getById, {"leagues", "teams"}),
     Read(LeagueRows.getByCode, {"leagues"}),
     Read(TransferRows, {"leagues", "transfers"})}   \* transfers_, latest-, directionalTransfers
TeamReads ==
    {Read(TeamRows.getAll, {"teams"}), Read(TeamRows.getById, {"teams"}),
     Read(TeamRows.getByLeagueId, {"teams"}), Read(TransferRows, {"teams", "transfers"})}
TeamDetail == Read(TeamRows.getDetailById \cup TransferRows, {"teams", "transfers", "players"})
PlayerReads ==
    {Read(PlayerRows.getAll, {"players"}), Read(PlayerRows.getById, {"players"}),
     Read(PlayerRows.getByTeamId, {"players"}),      \* byNationality, freeAgents
     Read(TransferRows, {"players", "transfers"})}   \* transfersOf, lastTransfer
PlayerProfile == Read(PlayerRows.getById \cup TransferRows \cup {"news", "post"},
                      {"players", "transfers"})
\* query, findById, latest, topExpensive, betweenTeams, byYear, byMonth
TransferReads == {Read(TransferRows, {"transfers"})}
LatestByLeagues == Read(TransferRows \cup {"league"}, {"transfers"})
Stats ==
    Read(StatsRows.aggregate \cup StatsRows.edge \cup StatsRows.mostActiveTeam
             \cup StatsRows.mostTransferredPlayer \cup StatsRows.getPeriodById, {"transfers"})
Periods == Read(StatsRows.getPeriods, {"transfers"})
\* periodSummary, seasonDashboard
Conversions == Read(TransferRows \cup StatsRows.getPeriodById \cup {"currencyRate"}, {"transfers"})
SearchReads ==
    {[shows |-> rows, tags |-> {}, ttl |-> Search] :
        rows \in {SearchRows.searchPlayers \cup SearchRows.searchTeams \cup SearchRows.searchLeagues,
                  SearchRows.searchPlayersPaged}}
Reads == LeagueReads \cup TeamReads \cup {TeamDetail} \cup PlayerReads \cup {PlayerProfile}
           \cup TransferReads \cup {LatestByLeagues, Stats, Periods, Conversions} \cup SearchReads

(***************************************************************************)
(* The writers: the rows they write, and the tags they invalidate then.    *)
(***************************************************************************)
Write(rows, tags) == [rows |-> rows, tags |-> tags]
TagOf == [league |-> "leagues", team |-> "teams", player |-> "players", transfer |-> "transfers"]
LeagueWrites == {Write({"league"}, {"leagues"})}
\* Mutant: an administrator's change of a team invalidates the leagues' answers.
TeamWritesElsewhere == {Write({"team"}, {"leagues"})}
TeamWrites == {Write({"team"}, {"teams"})}
PlayerWrites == {Write({"player"}, {"players"}),
                 Write({"player", "playerStatistic"}, {"players"})}  \* deleted with its player
TransferWrites == {Write({"transfer"}, {"transfers"})}
RumourWrites == {Write({"transfer"}, {"transfers"})}
IngestWrites == {Write({"post"}, {}), Write({"post", "news"}, {}),
                 Write({"post", "transfer"}, {"transfers"})}
\* The tables in which the run has counted a change.
SyncWrites ==
    {Write(rows \cup {"playerStatistic"}, {TagOf[t] : t \in rows}) :
        rows \in SUBSET DOMAIN TagOf}
SeedWrites == {Write({"league", "team", "player"}, {})}
OtherWrites == {Write({t}, {}) : t \in {"user", "news", "post", "transferPeriod", "currencyRate"}}
Writes == LeagueWrites \cup TeamWrites \cup PlayerWrites \cup TransferWrites \cup RumourWrites
            \cup IngestWrites \cup SyncWrites \cup SeedWrites \cup OtherWrites

\* An answer's other tags matter only in that they may take the key away.
Follow(r, t) ==
    LET own == IF t \in DOMAIN TagOf /\ TagOf[t] \in r.tags THEN TagOf[t] ELSE None
    IN  [table |-> t, tag |-> own, ttl |-> r.ttl, others |-> r.tags \ {own} # {}]
Followed == UNION {{Follow(r, t) : t \in r.shows} : r \in Reads}

VARIABLES
    read,       \* the read that is followed
    ver,        \* how often the table's rows in the answer were written
    due,        \* ghost: ver of the last write that has invalidated the tag
    entry,      \* the key: time left, the ver it shows, and the ghost raced
    member,     \* the time left of the tag's set, 0 when the key is not in it
    request, write, writes, faults

vars == <<read, ver, due, entry, member, request, write, writes, faults>>
ghosts == <<read, due>>

NoEntry == [left |-> 0, ver |-> 0, raced |-> FALSE]
NoRequest == [at |-> "idle", ver |-> 0, raced |-> FALSE]
NoWrite == [at |-> "idle", tagged |-> FALSE, owes |-> FALSE, hit |-> FALSE, mine |-> 0]

TypeOK ==
    /\ read \in Followed /\ ver \in 0..MaxWrites /\ due \in 0..ver
    /\ entry \in [left : 0..List, ver : 0..ver, raced : BOOLEAN]
    /\ member \in 0..(List + TAG_TTL_BUFFER)
    /\ request \in [Requests -> [at : {"idle", "read", "set", "tag"}, ver : 0..ver, raced : BOOLEAN]]
    /\ write \in [Writers -> [at : {"idle", "row", "tag", "delete", "end"}, tagged : BOOLEAN,
                              owes : BOOLEAN, hit : BOOLEAN, mine : 0..ver]]
    /\ read.tag = None => member = 0 /\ \A r \in Requests : request[r].at # "tag"
    /\ writes \in 0..MaxWrites /\ faults \in 0..MaxFaults

Init ==
    /\ read \in Followed /\ ver = 0 /\ due = 0 /\ entry = NoEntry /\ member = 0
    /\ request = [r \in Requests |-> NoRequest] /\ write = [w \in Writers |-> NoWrite]
    /\ writes = 0 /\ faults = 0

Fault == faults < MaxFaults /\ faults' = faults + 1
Live == entry.left > 0

(***************************************************************************)
(* CacheService.getOrSet and store.                                        *)
(***************************************************************************)
\* Mutant: an answer that is found gets a new life.
HitProlongs(r) ==
    /\ request[r].at = "idle" /\ UNCHANGED <<ghosts, ver, member, write, writes, faults>>
    /\ \/ Live /\ entry' = [entry EXCEPT !.left = read.ttl] /\ UNCHANGED request
       \/ /\ ~Live /\ UNCHANGED entry
          /\ request' = [request EXCEPT ![r] = [NoRequest EXCEPT !.at = "read"]]
\* An answer that is found changes nothing.  An error counts as not found.
Miss(r) ==
    /\ request[r].at = "idle" /\ \/ ~Live /\ UNCHANGED faults
                                 \/ Live /\ Fault
    /\ request' = [request EXCEPT ![r] =
          [NoRequest EXCEPT !.at = "read", !.raced = \E w \in Writers : write[w].at = "delete"]]
    /\ UNCHANGED <<ghosts, ver, entry, member, write, writes>>

\* The producer's query of the table, one of several.
Produce(r) ==
    /\ request[r].at = "read" /\ request' = [request EXCEPT ![r].ver = ver, ![r].at = "set"]
    /\ UNCHANGED <<ghosts, ver, entry, member, write, writes, faults>>

\* The pipeline: SET with EX first.  Nothing is stored when Redis fails.
Set(r) ==
    /\ request[r].at = "set"
    /\ \/ /\ entry' = [left |-> read.ttl, ver |-> request[r].ver, raced |-> request[r].raced]
          /\ request' = [request EXCEPT ![r] =
                IF read.tag = None THEN NoRequest ELSE [NoRequest EXCEPT !.at = "tag"]]
          /\ UNCHANGED faults
       \/ Fault /\ request' = [request EXCEPT ![r] = NoRequest] /\ UNCHANGED entry
    /\ UNCHANGED <<ghosts, ver, member, write, writes>>

TagTtl(ttl) == ttl + TAG_TTL_BUFFER
\* SADD and EXPIRE of the tag, unless the connection is lost before.
Tag(r) ==
    /\ request[r].at = "tag" /\ request' = [request EXCEPT ![r] = NoRequest]
    /\ \/ member' = TagTtl(read.ttl) /\ UNCHANGED <<entry, faults>>
       \/ Fault /\ entry' = [entry EXCEPT !.raced = Live] /\ UNCHANGED member
    /\ UNCHANGED <<ghosts, ver, write, writes>>

\* Another key with this tag is stored: the set's end moves.
OtherKey ==
    /\ \E other \in Reads : read.tag \in other.tags /\ member' = TagTtl(other.ttl)
    /\ member > 0 /\ UNCHANGED <<ghosts, ver, entry, request, write, writes, faults>>

\* Another tag of the key is invalidated.
OtherTag ==
    /\ read.others /\ Live /\ entry' = NoEntry
    /\ UNCHANGED <<ghosts, ver, member, request, write, writes, faults>>

\* Redis takes away what has come to its end.
Tick ==
    /\ Live \/ member > 0
    /\ entry' = IF entry.left <= 1 THEN NoEntry ELSE [entry EXCEPT !.left = @ - 1]
    /\ member' = IF member = 0 THEN 0 ELSE member - 1
    /\ UNCHANGED <<ghosts, ver, request, write, writes, faults>>

(***************************************************************************)
(* A write, and CacheService.invalidateTags.                               *)
(***************************************************************************)
\* A write of the table, whose tag it owes; only the seeding does not pay.
Begin(w) ==
    /\ write[w].at = "idle" /\ writes < MaxWrites /\ writes' = writes + 1
    /\ \E k \in Writes :
          /\ read.table \in k.rows
          /\ write' = [write EXCEPT ![w] =
                [NoWrite EXCEPT !.at = "row", !.tagged = read.tag \in k.tags,
                                !.owes = read.tag # None /\ k \notin SeedWrites]]
    /\ UNCHANGED <<ghosts, ver, entry, member, request, faults>>

WriteRow(w) ==
    /\ write[w].at = "row" /\ ver' = ver + 1
    /\ write' = [write EXCEPT ![w].mine = ver', ![w].at = IF write[w].tagged THEN "tag" ELSE "end"]
    /\ UNCHANGED <<ghosts, entry, member, request, writes, faults>>

\* SMEMBERS.  What is being stored now may escape this invalidation and later ones.
Members(w) ==
    /\ write[w].at = "tag"
    /\ write' = [write EXCEPT ![w].at = "delete", ![w].hit = member > 0]
    /\ request' = [r \in Requests |-> IF request[r].at \in {"read", "set"}
                                      THEN [request[r] EXCEPT !.raced = TRUE] ELSE request[r]]
    /\ entry' = [entry EXCEPT !.raced = @ \/ (Live /\ \E r \in Requests : request[r].at = "tag")]
    /\ UNCHANGED <<ghosts, ver, member, writes, faults>>

\* DEL of the members read before, and of the set.
Delete(w) ==
    /\ write[w].at = "delete" /\ entry' = IF write[w].hit THEN NoEntry ELSE entry
    /\ member' = 0 /\ write' = [write EXCEPT ![w].at = "end"]
    /\ UNCHANGED <<ghosts, ver, request, writes, faults>>

\* Redis fails, and the tag is left out with a warning; or the process ends, or
\* another statement fails, between the row and the invalidation.
Break(w) ==
    /\ write[w].at \in {"tag", "delete"} /\ Fault /\ write' = [write EXCEPT ![w] = NoWrite]
    /\ UNCHANGED <<ghosts, ver, entry, member, request, writes>>

End(w) ==
    /\ write[w].at = "end" /\ write' = [write EXCEPT ![w] = NoWrite]
    /\ due' = IF write[w].owes /\ write[w].mine > due THEN write[w].mine ELSE due
    /\ UNCHANGED <<read, ver, entry, member, request, writes, faults>>

Answer(r) == Miss(r) \/ Produce(r) \/ Set(r) \/ Tag(r)
Change(w) == Begin(w) \/ WriteRow(w) \/ Members(w) \/ Delete(w) \/ Break(w) \/ End(w)
Next ==
    \/ \E r \in Requests : Answer(r)
    \/ \E w \in Writers : Change(w)
    \/ OtherKey \/ OtherTag \/ Tick
\* Time passes, and what has been begun goes on.
Fairness ==
    /\ WF_vars(Tick)
    /\ \A r \in Requests : WF_vars(Produce(r) \/ Set(r) \/ Tag(r))
    /\ \A w \in Writers : WF_vars(WriteRow(w) \/ Members(w) \/ Delete(w) \/ End(w))
Spec == Init /\ [][Next]_vars /\ Fairness

(***************************************************************************)
(* Properties                                                              *)
(***************************************************************************)
\* An answer is not older than a write that has ended and whose tag the answer
\* has, unless it was got or stored while the tag was being invalidated
\* (cache.service.ts:79-95; the search's answers have a shorter life and no tag).
FreshUnlessRaced ==
    Live /\ ~entry.raced => entry.ver >= due

\* When nothing is written any more, an answer is no older than its table for
\* good, also where no writer has its tag (cache-tags.ts:15).
EventuallyFresh == <>[](Live => entry.ver = ver)
=============================================================================
