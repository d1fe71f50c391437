---------------------------- MODULE FootballSync ----------------------------
(***************************************************************************)
(* The nightly copy of leagues, teams, squads and transfers from           *)
(* API-Football (integration/api-football, sync).  A worker takes a job    *)
(* from the queue and walks through its leagues, domestic ones first; each *)
(* step is one request to the provider with the rows written from its      *)
(* answer.  The provider has a daily quota, of which a process knows only  *)
(* what the last answer told it.  Players that a run did not see in the    *)
(* leagues it read are declared free agents at its end.                    *)
(***************************************************************************)
EXTENDS Naturals, FiniteSets, SequencesExt

CONSTANTS
    Leagues, Cups, Covered,     \* the catalogue, its cups, those with a season
    Teams, Players, Workers, None,
    Home,                       \* the domestic league of each team at first
    Entered,                    \* the teams that play in the cups
    Requests,                   \* what a job may ask for: sets of leagues
    FetchSquads, DetectTransfers,
    Quota, Reserve, Tries,      \* per day, kept back, attempts of one request
    MaxJobs, MaxDays,
    MaxDisturbances             \* changes of the world and faults together

ASSUME ConstantsAssumption ==
    /\ IsFiniteSet(Workers) /\ Workers # {}
    /\ Quota \in Nat /\ Reserve \in Nat /\ Reserve < Quota
    /\ Tries \in Nat \ {0} /\ MaxDays \in Nat \ {0} /\ MaxDisturbances \in Nat
    /\ Home \in [Teams -> Leagues \ Cups] /\ Entered \subseteq Teams
    /\ Requests \subseteq SUBSET Leagues /\ None \notin Leagues \cup Teams

VARIABLES
    plays, squad, stats, deals, \* the world: league of a team, team of a player,
                                \* teams with a statistic of this season, moves
    teamLeague, playerTeam, isFree, rows,       \* tables
    queue, run, known,          \* jobs, runs, each process's dailyRemaining
    left, day,                  \* the provider's count and the calendar
    asked, tried, stuck, clean, overlaps, jobs, changes, faults       \* ghosts

world == <<plays, squad, stats, deals>>
store == <<teamLeague, playerTeam, isFree, rows>>
provider == <<known, left>>
vars == <<world, store, queue, run, provider, day, asked, tried, stuck, clean,
          overlaps, jobs, changes, faults>>

Deals == Players \X Teams \X Teams
Jobs == [leagues : SUBSET Leagues, day : 1..(MaxDays + 1), stalled : BOOLEAN]
Steps == {"idle", "index", "league", "team", "players", "roster", "transfers",
          "create", "free", "end"}
Runs == [at : Steps, job : Jobs \cup {None}, targets : SUBSET Leagues,
         league : Leagues \cup {None}, teams : SUBSET Teams, seenTeams : SUBSET Teams,
         team : Teams \cup {None}, listed : SUBSET Players, seen : SUBSET Players,
         synced : SUBSET Leagues, found : SUBSET Deals]
NoRun == [at |-> "idle", job |-> None, targets |-> {}, league |-> None, teams |-> {},
          seenTeams |-> {}, team |-> None, listed |-> {}, seen |-> {}, synced |-> {},
          found |-> {}]

TypeOK ==
    /\ plays \in [Teams -> Leagues \cup {None}] /\ squad \in [Players -> Teams \cup {None}]
    /\ stats \in [Players -> SUBSET Teams] /\ deals \subseteq Deals
    /\ teamLeague \in [Teams -> Leagues \cup {None}]
    /\ playerTeam \in [Players -> Teams \cup {None}]
    /\ isFree \in [Players -> BOOLEAN] /\ rows \in [Deals -> Nat]
    /\ queue \in Seq(Jobs) /\ run \in [Workers -> Runs] /\ known \in [Workers -> 0..Quota]
    /\ left \in 0..Quota /\ day \in 1..MaxDays
    /\ asked \subseteq Leagues /\ tried \subseteq Leagues /\ stuck \subseteq Leagues
    /\ clean \subseteq Workers
    /\ overlaps \in Nat /\ jobs \in Nat /\ changes \in Nat /\ faults \in Nat

Init ==
    /\ plays = Home
    /\ squad \in [Players -> Teams] /\ stats = [p \in Players |-> {}] /\ deals = {}
    /\ teamLeague = [t \in Teams |-> None] /\ playerTeam = [p \in Players |-> None]
    /\ isFree = [p \in Players |-> FALSE] /\ rows = [d \in Deals |-> 0]
    /\ queue = <<>> /\ run = [w \in Workers |-> NoRun]
    /\ known = [w \in Workers |-> Quota] /\ left = Quota /\ day = 1
    /\ asked = {} /\ tried = {} /\ stuck = {} /\ clean = {}
    /\ overlaps = 0 /\ jobs = 0 /\ changes = 0 /\ faults = 0

(***************************************************************************)
(* What the provider answers.                                              *)
(***************************************************************************)
TeamsOf(l) == IF l \in Cups THEN Entered ELSE {t \in Teams : plays[t] = l}
PlayersOf(t) == {p \in Players : t \in stats[p]}
SquadOf(t) == {p \in Players : squad[p] = t}
DealsOf(t) == {d \in deals : t \in {d[2], d[3]}}

\* The world moves on: a player changes clubs, plays for the club he is at, a
\* club leaves the leagues of the catalogue.
Moves(p, t) == /\ t # squad[p] /\ squad' = [squad EXCEPT ![p] = t]
               /\ deals' = deals \cup {<<p, squad[p], t>>}
               /\ UNCHANGED <<plays, stats>>
Appears(p) == /\ squad[p] \notin stats[p]
              /\ stats' = [stats EXCEPT ![p] = @ \cup {squad[p]}]
              /\ UNCHANGED <<plays, squad, deals>>
Relegated(t) == /\ plays[t] # None /\ plays' = [plays EXCEPT ![t] = None]
                /\ UNCHANGED <<squad, stats, deals>>
Change ==
    /\ changes + faults < MaxDisturbances /\ changes' = changes + 1 /\ clean' = {}
    /\ \/ \E p \in Players : Appears(p) \/ \E t \in Teams : Moves(p, t)
       \/ \E t \in Teams : Relegated(t)
    /\ UNCHANGED <<store, queue, run, provider, day, asked, tried, stuck, overlaps,
                   jobs, faults>>

NextDay == /\ day < MaxDays /\ day' = day + 1 /\ left' = Quota
           /\ UNCHANGED <<world, store, queue, run, known, asked, tried, stuck, clean,
                          overlaps, jobs, changes, faults>>

(***************************************************************************)
(* Requests.  The reserve is compared with what the last answer said; a    *)
(* request that is repeated costs more than one of the day's requests.     *)
(***************************************************************************)
\* Mutant: the reserve itself may be used.
CanAskAtReserve(w) == known[w] >= Reserve
CanAsk(w) == known[w] > Reserve
Fault(w) == /\ changes + faults < MaxDisturbances /\ faults' = faults + 1 /\ clean' = clean \ {w}
Answered(w) == /\ CanAsk(w)
               /\ \/ left > 0 /\ left' = left - 1 /\ UNCHANGED <<faults, clean>>
                  \/ left >= Tries /\ left' = left - Tries /\ Fault(w)
               /\ known' = [known EXCEPT ![w] = left']
Unanswered(w) == /\ CanAsk(w) /\ Fault(w)
                 /\ \E n \in {0, Tries} : n <= left /\ left' = left - n
                 /\ UNCHANGED known
RowFails(w) == Fault(w) /\ UNCHANGED provider

At(w, step) == run[w].at = step
GoesTo(w, r) == run' = [run EXCEPT ![w] = r]
Goes(w, step) == GoesTo(w, [run[w] EXCEPT !.at = step])
\* After a team, or in place of one: the next team, the next league, the end.
NextTeam(r) ==
    LET at == IF r.teams # {} THEN "team" ELSE IF r.targets # {} THEN "league" ELSE "free"
    IN  [r EXCEPT !.at = at, !.team = None, !.listed = {}, !.found = {}]
\* The league is done with its last team; a domestic one may lose free agents.
Proceeds(w, r) ==
    LET done == r.teams = {}
        next == NextTeam([r EXCEPT !.synced = IF done /\ r.league \notin Cups
                                              THEN @ \cup {r.league} ELSE @])
    IN  GoesTo(w, next) /\ tried' = IF done THEN tried \cup {r.league} ELSE tried
\* Mutant: the league that was cut short is not put off.
PutsOffTheRest(w) ==
    /\ ~CanAsk(w) /\ Goes(w, "end")
    /\ UNCHANGED <<store, provider, tried, clean, faults>>
\* QuotaExhaustedError within a league: it and those after it are put off.
PutsOff(w) ==
    /\ ~CanAsk(w)
    /\ GoesTo(w, [run[w] EXCEPT !.at = "end", !.targets = @ \cup {run[w].league}])
    /\ UNCHANGED <<store, provider, tried, clean, faults>>

(***************************************************************************)
(* Jobs.                                                                   *)
(***************************************************************************)
\* The cron job and the back office ask for all leagues or for one.
Enqueue(ls) ==
    /\ jobs < MaxJobs /\ jobs' = jobs + 1 /\ asked' = asked \cup ls
    /\ tried' = tried \ ls /\ stuck' = stuck \ ls
    /\ queue' = Append(queue, [leagues |-> ls, day |-> day, stalled |-> FALSE])
    /\ UNCHANGED <<world, store, run, provider, day, clean, overlaps, changes, faults>>

Busy == {w \in Workers : ~At(w, "idle")}
Take(w, i) ==
    /\ At(w, "idle") /\ queue[i].day <= day
    /\ GoesTo(w, [NoRun EXCEPT !.at = "index", !.job = queue[i]])
    /\ queue' = RemoveAt(queue, i)
    /\ clean' = IF Busy = {} THEN {w} ELSE {}
    /\ overlaps' = IF Busy = {} THEN overlaps ELSE overlaps + 1
    /\ UNCHANGED <<world, store, provider, day, asked, tried, stuck, jobs, changes, faults>>

\* The index of all leagues is read before the loop over them: what goes wrong
\* here ends the run, and nothing is put off.
Index(w) ==
    /\ At(w, "index")
    /\ \/ /\ Answered(w) /\ UNCHANGED stuck
          /\ GoesTo(w, [run[w] EXCEPT !.at = "league", !.targets = run[w].job.leagues])
       \/ Unanswered(w) /\ Goes(w, "end") /\ UNCHANGED stuck
       \/ /\ ~CanAsk(w) /\ Goes(w, "end")
          /\ stuck' = stuck \cup run[w].job.leagues
          /\ UNCHANGED <<provider, clean, faults>>
    /\ UNCHANGED <<world, store, queue, day, asked, tried, overlaps, jobs, changes>>

\* Domestic leagues before cups.  A league without a season is an error, and so
\* is one that cannot be read; both are left behind.
League(w) ==
    LET r == run[w]
        first == IF r.targets \subseteq Cups THEN r.targets ELSE r.targets \ Cups
        Passed(l) == [r EXCEPT !.targets = @ \ {l}, !.league = l, !.teams = {}]
    IN  /\ At(w, "league")
        /\ \E l \in first :
            \/ /\ l \notin Covered /\ GoesTo(w, NextTeam(Passed(l)))
               /\ tried' = tried \cup {l} /\ UNCHANGED <<provider, clean, faults>>
            \/ /\ l \in Covered /\ Answered(w)
               /\ LET teams == TeamsOf(l) \ r.seenTeams
                  IN  Proceeds(w, [Passed(l) EXCEPT !.teams = teams])
            \/ /\ l \in Covered /\ (Unanswered(w) \/ RowFails(w))
               /\ GoesTo(w, NextTeam(Passed(l))) /\ tried' = tried \cup {l}
            \/ /\ l \in Covered /\ ~CanAsk(w) /\ Goes(w, "end")
               /\ UNCHANGED <<provider, tried, clean, faults>>
        /\ UNCHANGED <<world, store, queue, day, asked, stuck, overlaps, jobs, changes>>

\* Mutants: the league of a known club is never changed; a cup changes it.
LeagueAsFirstSeen(t, l) == IF teamLeague[t] # None THEN teamLeague[t] ELSE l
LeagueOfLastRun(t, l) == l
\* upsertTeam.  A cup leaves the league of a club that is known alone.
LeagueAfter(t, l) == IF l \in Cups /\ teamLeague[t] # None THEN teamLeague[t] ELSE l
Team(w) ==
    /\ At(w, "team")
    /\ \E t \in run[w].teams :
        LET r == [run[w] EXCEPT !.teams = @ \ {t}, !.seenTeams = @ \cup {t}, !.team = t]
        IN  \/ /\ teamLeague' = [teamLeague EXCEPT ![t] = LeagueAfter(t, r.league)]
               /\ IF r.league \in Cups THEN Proceeds(w, r)
                  ELSE GoesTo(w, [r EXCEPT !.at = "players"]) /\ UNCHANGED tried
               /\ UNCHANGED <<provider, clean, faults>>
            \/ RowFails(w) /\ Proceeds(w, r) /\ UNCHANGED teamLeague
    /\ UNCHANGED <<world, playerTeam, isFree, rows, queue, day, asked, stuck, overlaps,
                   jobs, changes>>

\* upsertPlayer, upsertSquadPlayer: who is in a squad is not free.
Writes(ps, t) ==
    /\ playerTeam' = [p \in Players |-> IF p \in ps THEN t ELSE playerTeam[p]]
    /\ isFree' = [p \in Players |-> IF p \in ps THEN FALSE ELSE isFree[p]]
    /\ UNCHANGED <<teamLeague, rows>>
AfterPlayers(w, r) ==
    IF FetchSquads THEN GoesTo(w, [r EXCEPT !.at = "roster"]) /\ UNCHANGED tried
    ELSE IF DetectTransfers THEN GoesTo(w, [r EXCEPT !.at = "transfers"]) /\ UNCHANGED tried
    ELSE Proceeds(w, r)

\* The players with statistics, page by page: a later page may fail, and so may
\* the row of a player who has been noted as seen.
PlayerPages(w) ==
    LET r == run[w]
        Noted(ps) == [r EXCEPT !.listed = ps, !.seen = @ \cup ps]
        ps == PlayersOf(r.team)
    IN  /\ At(w, "players")
        /\ \/ Answered(w) /\ Writes(ps, r.team) /\ AfterPlayers(w, Noted(ps))
           \/ /\ RowFails(w) /\ AfterPlayers(w, Noted(ps))
              /\ \E some \in SUBSET ps : Writes(some, r.team)
           \/ /\ Unanswered(w)
              /\ \E some \in SUBSET ps : Writes(some, r.team) /\ Proceeds(w, Noted(some))
           \/ PutsOff(w)
        /\ UNCHANGED <<world, queue, day, asked, stuck, overlaps, jobs, changes>>

\* The registered squad, less those of the pages before.
Roster(w) ==
    LET r == run[w]
        more == SquadOf(r.team) \ r.listed
        noted == [r EXCEPT !.seen = @ \cup more]
        Onward(s) == IF DetectTransfers THEN GoesTo(w, [s EXCEPT !.at = "transfers"]) /\ UNCHANGED tried
                     ELSE Proceeds(w, s)
    IN  /\ At(w, "roster")
        /\ \/ Answered(w) /\ Writes(more, r.team) /\ Onward(noted)
           \/ RowFails(w) /\ UNCHANGED store /\ Onward(noted)
           \/ Unanswered(w) /\ UNCHANGED store /\ Proceeds(w, r)
           \/ PutsOff(w)
        /\ UNCHANGED <<world, queue, day, asked, stuck, overlaps, jobs, changes>>

\* Mutant: a transfer is created without looking for its row.
Reported(t) == {d \in DealsOf(t) : /\ playerTeam[d[1]] # None
                                   /\ teamLeague[d[2]] # None /\ teamLeague[d[3]] # None}
\* A transfer whose player and clubs are known is looked up, then created.
Missing(t) == {d \in DealsOf(t) : /\ playerTeam[d[1]] # None /\ rows[d] = 0
                                  /\ teamLeague[d[2]] # None /\ teamLeague[d[3]] # None}
Transfers(w) ==
    LET r == run[w]  new == Missing(r.team)
    IN  /\ At(w, "transfers")
        /\ \/ /\ Answered(w)
              /\ IF new = {} THEN Proceeds(w, r)
                 ELSE GoesTo(w, [r EXCEPT !.at = "create", !.found = new]) /\ UNCHANGED tried
           \/ Unanswered(w) /\ Proceeds(w, r)
           \/ PutsOff(w)
        /\ UNCHANGED <<world, store, queue, day, asked, stuck, overlaps, jobs, changes>>
Create(w) ==
    /\ At(w, "create") /\ Proceeds(w, run[w])
    /\ \E made \in SUBSET run[w].found :
        /\ rows' = [d \in Deals |-> rows[d] + IF d \in made THEN 1 ELSE 0]
        /\ IF made = run[w].found THEN UNCHANGED <<provider, clean, faults>> ELSE RowFails(w)
    /\ UNCHANGED <<world, teamLeague, playerTeam, isFree, queue, day, asked, stuck, overlaps,
                   jobs, changes>>

\* markFreeAgents, in one update.
Unseen(w) == {p \in Players : /\ playerTeam[p] # None /\ p \notin run[w].seen
                              /\ teamLeague[playerTeam[p]] \in run[w].synced}
Free(w) ==
    /\ At(w, "free") /\ Goes(w, "end")
    /\ \/ /\ isFree' = [p \in Players |-> isFree[p] \/ p \in Unseen(w)]
          /\ UNCHANGED <<provider, clean, faults>>
       \/ RowFails(w) /\ UNCHANGED isFree
    /\ UNCHANGED <<world, teamLeague, playerTeam, rows, queue, day, asked, tried, stuck,
                   overlaps, jobs, changes>>

\* msUntilNextUtcReset.
NextReset == day + 1
\* The run is recorded; what is left of it becomes a job of the next day.  If
\* the record or the job cannot be written, the job has failed for good.
End(w) ==
    /\ At(w, "end") /\ GoesTo(w, NoRun)
    /\ LET rest == run[w].targets
       IN  \/ /\ UNCHANGED <<clean, faults>>
              /\ queue' = IF rest = {} THEN queue
                          ELSE Append(queue, [leagues |-> rest, day |-> NextReset, stalled |-> FALSE])
           \/ Fault(w) /\ UNCHANGED queue
    /\ UNCHANGED <<world, store, provider, day, asked, tried, stuck, overlaps, jobs, changes>>

\* The process ends.  The next one has heard nothing of the quota; BullMQ gives
\* a stalled job out once more.
Crash(w) ==
    /\ ~At(w, "idle") /\ Fault(w) /\ GoesTo(w, NoRun)
    /\ known' = [known EXCEPT ![w] = Quota]
    /\ queue' = IF run[w].job.stalled THEN queue
                ELSE Append(queue, [run[w].job EXCEPT !.stalled = TRUE])
    /\ UNCHANGED <<world, store, left, day, asked, tried, stuck, overlaps, jobs, changes>>

\* The seed file, by hand: a club with its league and players.  It does not say
\* who is free.
Seed(t) ==
    /\ changes + faults < MaxDisturbances /\ changes' = changes + 1 /\ clean' = {}
    /\ plays[t] # None /\ teamLeague' = [teamLeague EXCEPT ![t] = plays[t]]
    /\ playerTeam' = [p \in Players |-> IF squad[p] = t THEN t ELSE playerTeam[p]]
    /\ UNCHANGED <<world, isFree, rows, queue, run, provider, day, asked, tried, stuck,
                   overlaps, jobs, faults>>

Work(w) == \/ Index(w) \/ League(w) \/ Team(w) \/ PlayerPages(w) \/ Roster(w)
           \/ Transfers(w) \/ Create(w) \/ Free(w) \/ End(w)
Next ==
    \/ Change \/ NextDay \/ \E ls \in Requests : Enqueue(ls)
    \/ \E w \in Workers : \/ \E i \in DOMAIN queue : Take(w, i)
                          \/ Work(w) \/ Crash(w)
    \/ \E t \in Teams : Seed(t)
Spec == Init /\ [][Next]_vars
(***************************************************************************)
(* Properties                                                              *)
(***************************************************************************)
\* The reserve is touched by the requests of processes whose count is older than
\* the day's last requests (axios-football-data.client.ts:226): one for each
\* process but one, and those repeated after an error.
QuotaKept == left + Cardinality(Workers) + Tries * faults > Reserve

\* A league that was asked for is read or reported, or waits in a job, or is
\* under way (football-data.sync.service.ts:139-147, sync.processor.ts:53).  It
\* is forgotten after a fault only, or when the run did not get as far as the
\* index: a process that once ran into its reserve never asks again.
PutOffIsKept ==
    faults = 0 => \A l \in asked \ (tried \cup stuck) :
        \/ \E i \in DOMAIN queue : l \in queue[i].leagues
        \/ \E w \in Busy : l \in run[w].job.leagues

\* A transfer that the provider reports for both of its clubs has one row, and
\* one more at most for each run that overlapped another
\* (football-data.sync.service.ts:643, looked up and then created).
OneRowPerDeal == \A d \in Deals : rows[d] <= 1 + overlaps

\* A run that nothing disturbed (no fault, no other run, no change in the world)
\* leaves the tables as the provider has them: the clubs of the leagues it read
\* are in their league, who is listed there plays for a club that lists him and
\* is not free, and who is recorded there but not listed is free
\* (football-data.sync.service.ts:154, :428, :681).
Listing(p) == {t \in Teams : t \in stats[p] \/ (FetchSquads /\ squad[p] = t)}
Mirrors(w) ==
    LET read == {t \in Teams : plays[t] \in run[w].synced}
    IN  /\ \A t \in read : teamLeague'[t] = plays[t]
        /\ \A p \in Players :
            IF Listing(p) \cap read # {}
            THEN playerTeam'[p] \in Listing(p) \cap read /\ ~isFree'[p]
            ELSE playerTeam'[p] \in read => isFree'[p]
CleanRunMirrors == [][\A w \in clean' : Free(w) => Mirrors(w)]_vars

\* Once a club is recorded in a domestic league, no cup run takes it from there,
\* whichever of them comes first or overlaps the other
\* (football-data.sync.service.ts:427; the repair script undid such a run).
ClubsStayHome == [][\A t \in Teams : teamLeague[t] \in Leagues \ Cups => teamLeague'[t] \notin Cups]_vars
=============================================================================
