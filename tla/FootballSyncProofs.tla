------------------------- MODULE FootballSyncProofs -------------------------
(***************************************************************************)
(* What the synchronisation promises, for any number of workers, leagues,  *)
(* clubs and players.                                                      *)
(***************************************************************************)
EXTENDS FootballSync, CardinalityFacts, SequenceTheorems

(***************************************************************************)
(* Types, and what belongs together in the record of a run.                *)
(***************************************************************************)
AtTeam == {"players", "roster", "transfers", "create"}
Within == AtTeam \cup {"team"}
Coherent(r) ==
  /\ r \in Runs
  /\ r.at # "idle" => r.job \in Jobs /\ r.targets \subseteq r.job.leagues
  /\ r.at \in Within => r.league \in r.job.leagues
  /\ r.at \in AtTeam => r.team \in Teams
SyncTypes == TypeOK /\ squad \in [Players -> Teams] /\ \A w \in Workers : Coherent(run[w])


LEMMA QueueTaken ==
  ASSUME NEW S, NEW q \in Seq(S), NEW i \in DOMAIN q
  PROVE  /\ RemoveAt(q, i) \in Seq(S)
         /\ \A j \in DOMAIN q \ {i} : \E k \in DOMAIN RemoveAt(q, i) : RemoveAt(q, i)[k] = q[j]
<1> DEFINE before == SubSeq(q, 1, i - 1)  after == SubSeq(q, i + 1, Len(q))
<1>1. i \in 1..Len(q) /\ Len(q) \in Nat
  OBVIOUS
<1>2. /\ before \in Seq(S) /\ Len(before) = i - 1
      /\ \A j \in 1..(i - 1) : before[j] = q[j]
  BY <1>1, SubSeqProperties
<1>3. /\ after \in Seq(S) /\ Len(after) = Len(q) - i
      /\ \A j \in 1..(Len(q) - i) : after[j] = q[i + j]
  BY <1>1, SubSeqProperties
<1> HIDE DEF before, after
<1>4. /\ before \o after \in Seq(S) /\ Len(before \o after) = Len(q) - 1
      /\ \A j \in 1..(Len(q) - 1) :
           (before \o after)[j] = IF j <= i - 1 THEN before[j] ELSE after[j - (i - 1)]
  <2>1. Len(before) + Len(after) = Len(q) - 1
    BY <1>1, <1>2, <1>3
  <2>2. /\ before \o after \in Seq(S) /\ Len(before \o after) = Len(before) + Len(after)
        /\ \A j \in 1..Len(before) + Len(after) :
             (before \o after)[j] = IF j <= Len(before) THEN before[j] ELSE after[j - Len(before)]
    BY <1>2, <1>3, ConcatProperties, Zenon
  <2> QED BY <1>2, <2>1, <2>2
<1>5. RemoveAt(q, i) = before \o after
  BY DEF RemoveAt, before, after
<1>6. ASSUME NEW j \in DOMAIN q \ {i}
      PROVE  \E k \in DOMAIN RemoveAt(q, i) : RemoveAt(q, i)[k] = q[j]
  <2>1. CASE j < i
    <3>1. j \in 1..(Len(q) - 1) /\ (before \o after)[j] = q[j]
      BY <2>1, <1>1, <1>2, <1>4
    <3> QED BY <3>1, <1>4, <1>5
  <2>2. CASE j > i
    <3>1. j - 1 \in 1..(Len(q) - 1) /\ (before \o after)[j - 1] = q[j]
      BY <2>2, <1>1, <1>3, <1>4
    <3> QED BY <3>1, <1>4, <1>5
  <2> QED BY <1>1, <2>1, <2>2
<1> QED BY <1>4, <1>5, <1>6

(* Appending a job loses none.                                             *)
LEMMA QueueGrows ==
  ASSUME NEW S, NEW q \in Seq(S), NEW e \in S
  PROVE  /\ Append(q, e) \in Seq(S)
         /\ \A j \in DOMAIN q : j \in DOMAIN Append(q, e) /\ Append(q, e)[j] = q[j]
         /\ \E k \in DOMAIN Append(q, e) : Append(q, e)[k] = e
<1>1. /\ Append(q, e) \in Seq(S) /\ Len(Append(q, e)) = Len(q) + 1 /\ Len(q) \in Nat
      /\ Append(q, e)[Len(q) + 1] = e /\ \A j \in 1..Len(q) : Append(q, e)[j] = q[j]
  OBVIOUS
<1> QED BY <1>1

LEMMA NextTeamIs ==
  ASSUME NEW r \in Runs
  PROVE  LET n == NextTeam(r) IN
         /\ n \in Runs
         /\ n.at = IF r.teams # {} THEN "team" ELSE IF r.targets # {} THEN "league" ELSE "free"
         /\ n.job = r.job /\ n.targets = r.targets /\ n.league = r.league /\ n.teams = r.teams
         /\ n.seenTeams = r.seenTeams /\ n.seen = r.seen /\ n.synced = r.synced /\ n.found = {}
<1> DEFINE at == IF r.teams # {} THEN "team" ELSE IF r.targets # {} THEN "league" ELSE "free"
           s == [r EXCEPT !.at = at, !.team = None, !.listed = {}, !.found = {}]
<1>1. NextTeam(r) = s
  BY DEF NextTeam
<1>2. at \in Steps
  BY DEF Steps
<1> HIDE DEF at
<1>3. /\ s \in Runs /\ s.at = at /\ s.found = {}
      /\ s.job = r.job /\ s.targets = r.targets /\ s.league = r.league /\ s.teams = r.teams
      /\ s.seenTeams = r.seenTeams /\ s.seen = r.seen /\ s.synced = r.synced
  BY <1>2 DEF Runs
<1> HIDE DEF s
<1> QED BY <1>1, <1>3 DEF at

LEMMA RunGoes ==
  ASSUME SyncTypes, NEW w \in Workers, NEW r, Coherent(r), GoesTo(w, r)
  PROVE  /\ run' \in [Workers -> Runs] /\ run'[w] = r
         /\ \A v \in Workers \ {w} : run'[v] = run[v]
         /\ (\A v \in Workers : Coherent(run[v]))'
<1>1. run \in [Workers -> Runs] /\ r \in Runs /\ run' = [run EXCEPT ![w] = r]
  BY DEF SyncTypes, TypeOK, GoesTo, Coherent
<1>2. /\ run' \in [Workers -> Runs] /\ run'[w] = r
      /\ \A v \in Workers \ {w} : run'[v] = run[v]
  BY <1>1
<1>3. ASSUME NEW v \in Workers PROVE Coherent(run'[v])
  BY <1>2 DEF SyncTypes
<1> QED BY <1>2, <1>3

LEMMA RunProceeds ==
  ASSUME SyncTypes, NEW w \in Workers, NEW r, Coherent(r), r.at # "idle",
         r.league \in r.job.leagues, Proceeds(w, r)
  PROVE  /\ run' \in [Workers -> Runs]
         /\ \A v \in Workers \ {w} : run'[v] = run[v]
         /\ (\A v \in Workers : Coherent(run[v]))'
         /\ run'[w].at = IF r.teams # {} THEN "team"
                         ELSE IF r.targets # {} THEN "league" ELSE "free"
         /\ run'[w].job = r.job /\ run'[w].targets = r.targets /\ run'[w].league = r.league
         /\ run'[w].teams = r.teams /\ run'[w].seenTeams = r.seenTeams
         /\ run'[w].seen = r.seen /\ run'[w].found = {}
         /\ run'[w].synced = IF r.teams = {} /\ r.league \notin Cups
                             THEN r.synced \cup {r.league} ELSE r.synced
         /\ tried' = IF r.teams = {} THEN tried \cup {r.league} ELSE tried
<1> DEFINE s == [r EXCEPT !.synced = IF r.teams = {} /\ r.league \notin Cups
                                     THEN @ \cup {r.league} ELSE @]
<1>1. /\ r.job \in Jobs /\ r.league \in Leagues /\ r.targets \subseteq r.job.leagues /\ r \in Runs
  BY DEF Coherent, Jobs
<1>2. /\ s \in Runs /\ s.job = r.job /\ s.targets = r.targets /\ s.league = r.league
      /\ s.teams = r.teams /\ s.seenTeams = r.seenTeams /\ s.seen = r.seen
      /\ s.synced = IF r.teams = {} /\ r.league \notin Cups THEN r.synced \cup {r.league} ELSE r.synced
  BY <1>1 DEF Runs
<1>3. GoesTo(w, NextTeam(s)) /\ tried' = IF r.teams = {} THEN tried \cup {r.league} ELSE tried
  BY DEF Proceeds
<1> HIDE DEF s
<1>4. Coherent(NextTeam(s))
  BY <1>1, <1>2, NextTeamIs DEF Coherent, Within, AtTeam
<1>5. run'[w] = NextTeam(s)
  BY <1>3, <1>4, RunGoes
<1> QED BY <1>2, <1>3, <1>4, <1>5, RunGoes, NextTeamIs

LEMMA NextSyncTypes == SyncTypes /\ [Next]_vars => SyncTypes'
<1> SUFFICES ASSUME SyncTypes, [Next]_vars PROVE SyncTypes'
  OBVIOUS
<1>t. tried \subseteq Leagues
  BY DEF SyncTypes, TypeOK
<1>n. /\ left \in Nat /\ Quota \in Nat /\ day \in Nat /\ faults \in Nat /\ changes \in Nat
      /\ Tries \in Nat /\ MaxDays \in Nat /\ \A w \in Workers : known[w] \in 0..Quota
  BY ConstantsAssumption DEF SyncTypes, TypeOK
<1> DEFINE OwnRuns == run' \in [Workers -> Runs] /\ (\A w \in Workers : Coherent(run[w]))'
           Counts == /\ left' \in 0..Quota /\ known' \in [Workers -> 0..Quota]
                     /\ clean' \subseteq Workers /\ faults' \in Nat
           Store == /\ teamLeague' \in [Teams -> Leagues \cup {None}]
                    /\ playerTeam' \in [Players -> Teams \cup {None}]
                    /\ isFree' \in [Players -> BOOLEAN] /\ rows' \in [Deals -> Nat]
           Others == /\ UNCHANGED <<world, queue, day, asked, stuck, overlaps, jobs, changes>>
<1>q. ASSUME NEW w \in Workers,
             Answered(w) \/ Unanswered(w) \/ RowFails(w) \/ UNCHANGED <<provider, clean, faults>>
      PROVE  Counts
  <2>1. CASE Answered(w)
    <3>1. /\ left' \in 0..Quota /\ known' = [known EXCEPT ![w] = left']
          /\ clean' \in SUBSET Workers /\ faults' \in Nat
      BY <2>1, <1>n DEF Answered, Fault, SyncTypes, TypeOK
    <3> QED BY <3>1 DEF SyncTypes, TypeOK
  <2>2. CASE Unanswered(w)
    BY <2>2, <1>n DEF Unanswered, Fault, SyncTypes, TypeOK
  <2>3. CASE RowFails(w) \/ UNCHANGED <<provider, clean, faults>>
    BY <2>3, <1>n DEF RowFails, Fault, provider, SyncTypes, TypeOK
  <2> QED BY <1>q, <2>1, <2>2, <2>3
<1>s. ASSUME NEW ps \in SUBSET Players, NEW t \in Teams, Writes(ps, t) PROVE Store
  BY <1>s DEF Writes, SyncTypes, TypeOK
<1>u. UNCHANGED store => Store
  BY DEF store, SyncTypes, TypeOK
<1>w. ASSUME OwnRuns, Counts, Store, Others, tried' \subseteq Leagues PROVE SyncTypes'
  BY <1>w DEF SyncTypes, TypeOK, world
<1>1. CASE Change
  <2> DEFINE World == /\ plays' \in [Teams -> Leagues \cup {None}] /\ squad' \in [Players -> Teams]
                      /\ stats' \in [Players -> SUBSET Teams] /\ deals' \subseteq Deals
  <2>1. ASSUME NEW p \in Players, Appears(p) PROVE World
    BY <2>1 DEF Appears, SyncTypes, TypeOK
  <2>2. ASSUME NEW p \in Players, NEW t \in Teams, Moves(p, t) PROVE World
    <3>1. <<p, squad[p], t>> \in Deals
      BY DEF SyncTypes, Deals
    <3> QED BY <2>2, <3>1 DEF Moves, SyncTypes, TypeOK
  <2>3. ASSUME NEW t \in Teams, Relegated(t) PROVE World
    BY <2>3 DEF Relegated, SyncTypes, TypeOK
  <2>4. World
    BY <1>1, <2>1, <2>2, <2>3 DEF Change
  <2>5. /\ squad' \in [Players -> Teams \cup {None}] /\ changes' \in Nat /\ clean' = {}
        /\ UNCHANGED <<store, queue, run, provider, day, asked, tried, stuck, overlaps, jobs, faults>>
    BY <1>1, <2>4, <1>n DEF Change
  <2> HIDE DEF World
  <2>6. (\A w \in Workers : Coherent(run[w]))'
    BY <2>5 DEF SyncTypes
  <2> QED BY <2>4, <2>5, <2>6 DEF World, SyncTypes, TypeOK, store, provider
<1>2. CASE NextDay
  BY <1>2, <1>n DEF NextDay, SyncTypes, TypeOK, world, store
<1>3. ASSUME NEW ls \in Requests, Enqueue(ls) PROVE SyncTypes'
  <2>1. [leagues |-> ls, day |-> day, stalled |-> FALSE] \in Jobs
    BY <1>n, ConstantsAssumption DEF Jobs, SyncTypes, TypeOK
  <2>2. queue' \in Seq(Jobs)
    BY <1>3, <2>1, QueueGrows DEF Enqueue, SyncTypes, TypeOK
  <2>3. asked' \subseteq Leagues /\ tried' \subseteq Leagues /\ stuck' \subseteq Leagues /\ jobs' \in Nat
    BY <1>3, ConstantsAssumption DEF Enqueue, SyncTypes, TypeOK
  <2> QED BY <1>3, <2>2, <2>3 DEF Enqueue, SyncTypes, TypeOK, world, store, provider
<1>4. ASSUME NEW w \in Workers, NEW i \in DOMAIN queue, Take(w, i) PROVE SyncTypes'
  <2>1. queue \in Seq(Jobs) /\ queue[i] \in Jobs
    BY DEF SyncTypes, TypeOK
  <2>2. Coherent([NoRun EXCEPT !.at = "index", !.job = queue[i]])
    BY <2>1 DEF Coherent, NoRun, Runs, Steps, Within, AtTeam
  <2>3. OwnRuns
    BY <1>4, <2>2, RunGoes DEF Take
  <2>4. queue' \in Seq(Jobs)
    BY <1>4, <2>1, QueueTaken DEF Take
  <2>5. clean' \subseteq Workers /\ overlaps' \in Nat
    BY <1>4 DEF Take, SyncTypes, TypeOK
  <2> QED BY <1>4, <2>3, <2>4, <2>5 DEF Take, SyncTypes, TypeOK, world, store, provider
<1>r. ASSUME NEW w \in Workers
      PROVE  /\ run[w] \in Runs /\ Coherent(run[w])
             /\ ~At(w, "idle") => run[w].job \in Jobs /\ run[w].job.leagues \subseteq Leagues
  BY DEF SyncTypes, Coherent, At, Jobs
<1>5. ASSUME NEW w \in Workers, Index(w) PROVE SyncTypes'
  <2>1. run[w] \in Runs /\ run[w].job \in Jobs /\ run[w].targets \subseteq run[w].job.leagues
        /\ run[w].job.leagues \in SUBSET Leagues
    BY <1>5, <1>r DEF Index, At, Coherent
  <2>a. Coherent([run[w] EXCEPT !.at = "league", !.targets = run[w].job.leagues])
    BY <2>1 DEF Coherent, Runs, Steps, Within, AtTeam
  <2>b. Coherent([run[w] EXCEPT !.at = "end"])
    BY <2>1 DEF Coherent, Runs, Steps, Within, AtTeam
  <2>2. OwnRuns
    BY <1>5, <2>a, <2>b, RunGoes DEF Index, Goes
  <2>3. Counts
    BY <1>5, <1>q DEF Index
  <2>4. stuck' \subseteq Leagues
    BY <1>5, <1>r DEF Index, At, SyncTypes, TypeOK
  <2> QED BY <1>5, <2>2, <2>3, <2>4 DEF Index, SyncTypes, TypeOK, world, store
<1>6. ASSUME NEW w \in Workers, League(w) PROVE SyncTypes'
  <2> DEFINE Passed(l) == [run[w] EXCEPT !.targets = @ \ {l}, !.league = l, !.teams = {}]
  <2>1. PICK l \in run[w].targets :
          \/ GoesTo(w, NextTeam(Passed(l))) /\ tried' = tried \cup {l}
          \/ Proceeds(w, [Passed(l) EXCEPT !.teams = TeamsOf(l) \ run[w].seenTeams])
          \/ Goes(w, "end") /\ UNCHANGED tried
    BY <1>6 DEF League
  <2>2. l \in Leagues /\ l \in run[w].job.leagues /\ At(w, "league")
    BY <1>6, <1>r DEF League, At, Coherent
  <2>3. Counts /\ Others /\ UNCHANGED store
    BY <1>6, <1>q DEF League
  <2>0. /\ run[w] \in Runs /\ run[w].job \in Jobs /\ run[w].targets \subseteq run[w].job.leagues
        /\ run[w].at = "league"
    BY <1>r, <2>2 DEF At, Coherent
  <2>4. /\ Passed(l) \in Runs /\ Passed(l).at = "league" /\ Passed(l).teams = {}
        /\ Passed(l).league = l /\ Passed(l).job = run[w].job
        /\ Passed(l).targets \subseteq run[w].job.leagues
    BY <2>0, <2>2 DEF Runs
  <2>5. CASE GoesTo(w, NextTeam(Passed(l))) /\ tried' = tried \cup {l}
    <3> HIDE DEF Passed
    <3>1. Coherent(NextTeam(Passed(l)))
      BY <2>0, <2>4, NextTeamIs DEF Coherent, Within, AtTeam
    <3>2. OwnRuns
      BY <2>5, <3>1, RunGoes
    <3> QED BY <1>t, <1>u, <1>w, <2>2, <2>3, <2>5, <3>2
  <2>6. CASE Proceeds(w, [Passed(l) EXCEPT !.teams = TeamsOf(l) \ run[w].seenTeams])
    <3> DEFINE r == [Passed(l) EXCEPT !.teams = TeamsOf(l) \ run[w].seenTeams]
    <3> HIDE DEF Passed
    <3>1. TeamsOf(l) \subseteq Teams
      BY ConstantsAssumption DEF TeamsOf
    <3>2. /\ Coherent(r) /\ r.at = "league" /\ r.league = l /\ r.job = run[w].job
      BY <2>0, <2>2, <2>4, <3>1 DEF Coherent, Runs, Within, AtTeam
    <3>p. Proceeds(w, r)
      BY <2>6
    <3> HIDE DEF r
    <3>3. OwnRuns
      BY <2>2, <3>p, <3>2, RunProceeds
    <3>4. tried' \in {tried, tried \cup {l}}
      BY <2>2, <3>p, <3>2, RunProceeds
    <3>5. tried' \subseteq Leagues
      BY <1>t, <2>2, <3>4
    <3> QED BY <1>u, <1>w, <2>3, <3>3, <3>5
  <2>7. CASE Goes(w, "end") /\ UNCHANGED tried
    <3>1. Coherent([run[w] EXCEPT !.at = "end"])
      BY <2>0 DEF Coherent, Runs, Steps, Within, AtTeam
    <3>2. OwnRuns
      BY <2>7, <3>1, RunGoes DEF Goes
    <3> QED BY <1>t, <1>u, <1>w, <2>3, <2>7, <3>2
  <2> QED BY <2>1, <2>5, <2>6, <2>7
<1>p. ASSUME NEW w \in Workers, run[w].at \in AtTeam, PutsOff(w), Others PROVE SyncTypes'
  <2>1. /\ run[w] \in Runs /\ run[w].job \in Jobs /\ run[w].targets \subseteq run[w].job.leagues
        /\ run[w].league \in run[w].job.leagues /\ run[w].job.leagues \in SUBSET Leagues
    BY <1>p, <1>r DEF At, Coherent, Within, AtTeam
  <2>2. Coherent([run[w] EXCEPT !.at = "end", !.targets = @ \cup {run[w].league}])
    BY <2>1 DEF Coherent, Runs, Steps, Within, AtTeam
  <2>3. OwnRuns /\ Counts /\ UNCHANGED <<store, tried>>
    BY <1>p, <1>q, <2>2, RunGoes DEF PutsOff
  <2> QED BY <1>p, <1>t, <1>u, <1>w, <2>3
\* Within a team the run goes on with a record like its own.
<1>g. ASSUME NEW w \in Workers, NEW r, Coherent(r), r.at \in Within,
             \/ Proceeds(w, r)
             \/ UNCHANGED tried /\ \E s \in AtTeam : r.team \in Teams /\ GoesTo(w, [r EXCEPT !.at = s])
      PROVE  OwnRuns /\ tried' \subseteq Leagues
  <2>1. r.at # "idle" /\ r.league \in r.job.leagues /\ r.job.leagues \subseteq Leagues
    BY <1>g DEF Coherent, Jobs, Within, AtTeam
  <2>2. CASE Proceeds(w, r)
    <3>1. OwnRuns /\ tried' \in {tried, tried \cup {r.league}}
      BY <1>g, <2>1, <2>2, RunProceeds
    <3> QED BY <1>t, <2>1, <3>1
  <2>3. ASSUME NEW s \in AtTeam, r.team \in Teams, GoesTo(w, [r EXCEPT !.at = s]), UNCHANGED tried
        PROVE  OwnRuns /\ tried' \subseteq Leagues
    <3>1. Coherent([r EXCEPT !.at = s])
      BY <1>g, <2>1, <2>3 DEF Coherent, Runs, Steps, Within, AtTeam
    <3>2. OwnRuns
      BY <2>3, <3>1, RunGoes
    <3> QED BY <1>t, <2>3, <3>2
  <2> QED BY <1>g, <2>2, <2>3
<1>7. ASSUME NEW w \in Workers, Team(w) PROVE SyncTypes'
  <2>1. PICK t \in run[w].teams :
          LET r == [run[w] EXCEPT !.teams = @ \ {t}, !.seenTeams = @ \cup {t}, !.team = t]
          IN  /\ \/ Proceeds(w, r)
                 \/ GoesTo(w, [r EXCEPT !.at = "players"]) /\ UNCHANGED tried
              /\ \/ teamLeague' = [teamLeague EXCEPT ![t] = LeagueAfter(t, r.league)]
                 \/ UNCHANGED teamLeague
    BY <1>7 DEF Team
  <2> DEFINE r == [run[w] EXCEPT !.teams = @ \ {t}, !.seenTeams = @ \cup {t}, !.team = t]
  <2>0. /\ run[w] \in Runs /\ run[w].job \in Jobs /\ run[w].targets \subseteq run[w].job.leagues
        /\ run[w].at = "team" /\ run[w].league \in run[w].job.leagues /\ t \in Teams
        /\ run[w].job.leagues \subseteq Leagues
    BY <1>7, <1>r DEF Team, At, Coherent, Within, Runs
  <2>2. /\ Coherent(r) /\ r.at = "team" /\ r.team = t /\ r.league \in Leagues
    BY <2>0 DEF Coherent, Runs, Within, AtTeam
  <2>3. Counts /\ Others /\ UNCHANGED <<playerTeam, isFree, rows>>
    BY <1>7, <1>q DEF Team
  <2>4. teamLeague' \in [Teams -> Leagues \cup {None}]
    BY <2>0, <2>1, <2>2 DEF LeagueAfter, SyncTypes, TypeOK
  <2>p. \/ Proceeds(w, r)
        \/ GoesTo(w, [r EXCEPT !.at = "players"]) /\ UNCHANGED tried
    BY <2>1
  <2> HIDE DEF r
  <2>5. OwnRuns /\ tried' \subseteq Leagues
    BY <1>g, <2>p, <2>0, <2>2 DEF Within, AtTeam
  <2> QED BY <1>w, <2>0, <2>3, <2>4, <2>5 DEF SyncTypes, TypeOK
<1>8. ASSUME NEW w \in Workers, PlayerPages(w) PROVE SyncTypes'
  <2> DEFINE Noted(ps) == [run[w] EXCEPT !.listed = ps, !.seen = @ \cup ps]
  <2>0. /\ run[w] \in Runs /\ run[w].job \in Jobs /\ run[w].targets \subseteq run[w].job.leagues
        /\ run[w].at = "players" /\ run[w].league \in run[w].job.leagues /\ run[w].team \in Teams
    BY <1>8, <1>r DEF PlayerPages, At, Coherent, Within, AtTeam
  <2>1. CASE PutsOff(w)
    BY <1>8, <1>p, <2>0, <2>1 DEF PlayerPages, AtTeam
  <2>2. ASSUME NEW ps \in SUBSET Players, NEW some \in SUBSET Players, Writes(some, run[w].team),
               \/ AfterPlayers(w, Noted(ps))
               \/ Proceeds(w, Noted(ps)),
               Counts
        PROVE  SyncTypes'
    <3>1. Coherent(Noted(ps)) /\ Noted(ps).at = "players" /\ Noted(ps).team \in Teams
      BY <2>0 DEF Coherent, Runs, Within, AtTeam
    <3>2. \/ Proceeds(w, Noted(ps))
          \/ /\ UNCHANGED tried
             /\ \E s \in AtTeam : GoesTo(w, [Noted(ps) EXCEPT !.at = s])
      BY <2>2 DEF AfterPlayers, AtTeam
    <3> HIDE DEF Noted
    <3>3. OwnRuns /\ tried' \subseteq Leagues
      BY <1>g, <3>1, <3>2 DEF Within, AtTeam
    <3> QED BY <1>8, <1>s, <1>w, <2>0, <2>2, <3>3 DEF PlayerPages
  <2>3. PlayersOf(run[w].team) \in SUBSET Players
    BY DEF PlayersOf
  <2>4. CASE Answered(w) /\ Writes(PlayersOf(run[w].team), run[w].team)
             /\ AfterPlayers(w, Noted(PlayersOf(run[w].team)))
    <3>1. Counts
      BY <1>q, <2>4
    <3> HIDE DEF Noted, Counts
    <3> QED BY <2>2, <2>3, <2>4, <3>1
  <2>5. ASSUME RowFails(w), AfterPlayers(w, Noted(PlayersOf(run[w].team))),
               NEW some \in SUBSET PlayersOf(run[w].team), Writes(some, run[w].team)
        PROVE  SyncTypes'
    <3>1. Counts
      BY <1>q, <2>5
    <3> HIDE DEF Noted, Counts
    <3> QED BY <2>2, <2>3, <2>5, <3>1
  <2>6. ASSUME Unanswered(w), NEW some \in SUBSET PlayersOf(run[w].team),
               Writes(some, run[w].team), Proceeds(w, Noted(some))
        PROVE  SyncTypes'
    <3>1. Counts
      BY <1>q, <2>6
    <3> HIDE DEF Noted, Counts
    <3> QED BY <2>2, <2>3, <2>6, <3>1
  <2> QED BY <1>8, <2>1, <2>4, <2>5, <2>6 DEF PlayerPages
<1>9. ASSUME NEW w \in Workers, Roster(w) PROVE SyncTypes'
  <2> DEFINE more == SquadOf(run[w].team) \ run[w].listed
             noted == [run[w] EXCEPT !.seen = @ \cup more]
  <2>0. /\ run[w] \in Runs /\ run[w].job \in Jobs /\ run[w].targets \subseteq run[w].job.leagues
        /\ run[w].at = "roster" /\ run[w].league \in run[w].job.leagues /\ run[w].team \in Teams
    BY <1>9, <1>r DEF Roster, At, Coherent, Within, AtTeam
  <2>1. CASE PutsOff(w)
    BY <1>9, <1>p, <2>0, <2>1 DEF Roster, AtTeam
  <2>2. more \in SUBSET Players
    BY DEF SquadOf
  <2>3. CASE ~PutsOff(w)
    <3>1. Coherent(noted) /\ noted.at = "roster" /\ noted.team \in Teams /\ Coherent(run[w])
      BY <1>r, <2>0, <2>2 DEF Coherent, Runs, Within, AtTeam
    <3>2. /\ \/ Proceeds(w, noted)
             \/ /\ UNCHANGED tried
                /\ \E s \in AtTeam : GoesTo(w, [noted EXCEPT !.at = s])
             \/ Proceeds(w, run[w])
          /\ Writes(more, run[w].team) \/ UNCHANGED store
      BY <1>9, <2>3 DEF Roster, AtTeam
    <3>3. Counts /\ Others
      BY <1>9, <1>q, <2>3 DEF Roster
    <3> HIDE DEF noted, more
    <3>4. OwnRuns /\ tried' \subseteq Leagues
      BY <1>g, <2>0, <3>1, <3>2 DEF Within, AtTeam
    <3> QED BY <1>s, <1>u, <1>w, <2>0, <2>2, <3>2, <3>3, <3>4
  <2> QED BY <2>1, <2>3
<1>10. ASSUME NEW w \in Workers, Transfers(w) PROVE SyncTypes'
  <2>0. /\ run[w] \in Runs /\ run[w].job \in Jobs /\ run[w].targets \subseteq run[w].job.leagues
        /\ run[w].at = "transfers" /\ run[w].league \in run[w].job.leagues
        /\ run[w].team \in Teams /\ Coherent(run[w])
    BY <1>10, <1>r DEF Transfers, At, Coherent, Within, AtTeam
  <2>1. CASE PutsOff(w)
    BY <1>10, <1>p, <2>0, <2>1 DEF Transfers, AtTeam
  <2>2. CASE ~PutsOff(w)
    <3>1. Missing(run[w].team) \subseteq Deals
      BY DEF Missing, DealsOf, SyncTypes, TypeOK
    <3>2. Coherent([run[w] EXCEPT !.at = "create", !.found = Missing(run[w].team)])
      BY <2>0, <3>1 DEF Coherent, Runs, Steps, Within, AtTeam
    <3>3. OwnRuns /\ tried' \subseteq Leagues
      <4>1. CASE Proceeds(w, run[w])
        BY <1>g, <2>0, <4>1 DEF Within, AtTeam
      <4>2. CASE GoesTo(w, [run[w] EXCEPT !.at = "create", !.found = Missing(run[w].team)])
                 /\ UNCHANGED tried
        BY <1>t, <3>2, <4>2, RunGoes
      <4> QED BY <1>10, <2>2, <4>1, <4>2 DEF Transfers
    <3>4. Counts /\ Others /\ UNCHANGED store
      BY <1>10, <1>q, <2>2 DEF Transfers
    <3> QED BY <1>u, <1>w, <3>3, <3>4
  <2> QED BY <2>1, <2>2
<1>11. ASSUME NEW w \in Workers, Create(w) PROVE SyncTypes'
  <2>0. Coherent(run[w]) /\ run[w].at = "create"
    BY <1>11, <1>r DEF Create, At
  <2>1. OwnRuns /\ tried' \subseteq Leagues
    BY <1>11, <1>g, <2>0 DEF Create, Within, AtTeam
  <2>2. PICK created \in SUBSET run[w].found :
          rows' = [d \in Deals |-> rows[d] + IF d \in created THEN 1 ELSE 0]
    BY <1>11 DEF Create
  <2>3. rows' \in [Deals -> Nat]
    BY <2>2 DEF SyncTypes, TypeOK
  <2>4. Counts /\ Others /\ UNCHANGED <<teamLeague, playerTeam, isFree>>
    BY <1>11, <1>q DEF Create
  <2> QED BY <1>w, <2>1, <2>3, <2>4 DEF SyncTypes, TypeOK
<1>12. ASSUME NEW w \in Workers, Free(w) PROVE SyncTypes'
  <2>1. Coherent([run[w] EXCEPT !.at = "end"])
    <3>1. run[w].at = "free" /\ Coherent(run[w])
      BY <1>12, <1>r DEF Free, At
    <3> QED BY <3>1 DEF Coherent, Runs, Steps, Within, AtTeam
  <2>2. OwnRuns
    BY <1>12, <2>1, RunGoes DEF Free, Goes
  <2>3. isFree' \in [Players -> BOOLEAN]
    <3>1. CASE UNCHANGED isFree
      BY <3>1 DEF SyncTypes, TypeOK
    <3>2. CASE isFree' = [p \in Players |-> isFree[p] \/ p \in Unseen(w)]
      <4>1. ASSUME NEW p \in Players PROVE (isFree[p] \/ p \in Unseen(w)) \in BOOLEAN
        BY Zenon
      <4> QED BY <3>2, <4>1, Zenon
    <3> QED BY <1>12, <3>1, <3>2 DEF Free
  <2>4. /\ Counts /\ UNCHANGED <<world, queue, day, asked, stuck, overlaps, jobs, changes>>
        /\ UNCHANGED <<teamLeague, playerTeam, rows, tried>>
    BY <1>12, <1>q DEF Free
  <2> QED BY <1>t, <1>w, <2>2, <2>3, <2>4 DEF SyncTypes, TypeOK
<1>c. NoRun \in Runs /\ Coherent(NoRun)
  BY DEF NoRun, Runs, Coherent, Steps, Within, AtTeam
<1>13. ASSUME NEW w \in Workers, End(w) PROVE SyncTypes'
  <2>1. OwnRuns
    BY <1>13, <1>c, RunGoes DEF End
  <2>2. run[w].targets \in SUBSET Leagues
    BY <1>13, <1>r DEF End, At, Coherent
  <2>3. [leagues |-> run[w].targets, day |-> NextReset, stalled |-> FALSE] \in Jobs
    BY <1>n, <2>2 DEF Jobs, NextReset, SyncTypes, TypeOK
  <2>4. queue' \in Seq(Jobs)
    <3>1. queue \in Seq(Jobs)
      BY DEF SyncTypes, TypeOK
    <3>2. Append(queue, [leagues |-> run[w].targets, day |-> NextReset, stalled |-> FALSE]) \in Seq(Jobs)
      BY <2>3, <3>1, QueueGrows
    <3> QED BY <1>13, <3>1, <3>2 DEF End
  <2>5. clean' \subseteq Workers /\ faults' \in Nat
    BY <1>13, <1>n DEF End, Fault, SyncTypes, TypeOK
  <2> QED BY <1>13, <2>1, <2>4, <2>5 DEF End, SyncTypes, TypeOK, world, store, provider
<1>14. ASSUME NEW w \in Workers, Crash(w) PROVE SyncTypes'
  <2>1. OwnRuns
    BY <1>14, <1>c, RunGoes DEF Crash
  <2>2. run[w].job \in Jobs
    BY <1>14, <1>r DEF Crash
  <2>3. [run[w].job EXCEPT !.stalled = TRUE] \in Jobs
    BY <2>2 DEF Jobs
  <2>4. queue' \in Seq(Jobs)
    BY <1>14, <2>3, QueueGrows DEF Crash, SyncTypes, TypeOK
  <2>5. clean' \subseteq Workers /\ faults' \in Nat /\ known' \in [Workers -> 0..Quota]
    BY <1>14, <1>n DEF Crash, Fault, SyncTypes, TypeOK
  <2> QED BY <1>14, <2>1, <2>4, <2>5 DEF Crash, SyncTypes, TypeOK, world, store
<1>15. ASSUME NEW t \in Teams, Seed(t) PROVE SyncTypes'
  <2>1. teamLeague' \in [Teams -> Leagues \cup {None}] /\ playerTeam' \in [Players -> Teams \cup {None}]
    BY <1>15 DEF Seed, SyncTypes, TypeOK
  <2>2. changes' \in Nat /\ clean' \subseteq Workers
    BY <1>15, <1>n DEF Seed
  <2>3. (\A w \in Workers : Coherent(run[w]))'
    BY <1>15 DEF Seed, SyncTypes
  <2> QED BY <1>15, <2>1, <2>2, <2>3 DEF Seed, SyncTypes, TypeOK, world, provider
<1>16. CASE UNCHANGED vars
  BY <1>16 DEF vars, world, store, provider, SyncTypes, TypeOK
<1> QED
  BY <1>1, <1>2, <1>3, <1>4, <1>5, <1>6, <1>7, <1>8, <1>9, <1>10, <1>11, <1>12, <1>13, <1>14,
     <1>15, <1>16 DEF Next, Work

LEMMA InitSyncTypes == Init => SyncTypes
<1> SUFFICES ASSUME Init PROVE SyncTypes
  OBVIOUS
<1>1. NoRun \in Runs /\ Coherent(NoRun)
  BY DEF NoRun, Runs, Coherent, Steps, Within, AtTeam
<1>2. TypeOK
  BY <1>1, ConstantsAssumption DEF Init, TypeOK
<1>3. \A w \in Workers : run[w] = NoRun
  BY DEF Init
<1> QED BY <1>1, <1>2, <1>3 DEF Init, SyncTypes

(* Every table, job and run keeps its shape.                               *)
THEOREM SyncTypeCorrect == Spec => []TypeOK
<1>1. Init => SyncTypes
  BY InitSyncTypes
<1>2. SyncTypes /\ [Next]_vars => SyncTypes'
  BY NextSyncTypes
<1>3. SyncTypes => TypeOK
  BY DEF SyncTypes
<1> QED BY <1>1, <1>2, <1>3, PTL DEF Spec

-----------------------------------------------------------------------------
(***************************************************************************)
(* The league of a club.                                                   *)
(***************************************************************************)
PlaysAtHome == plays \in [Teams -> (Leagues \ Cups) \cup {None}]

LEMMA NextPlaysAtHome == PlaysAtHome /\ [Next]_vars => PlaysAtHome'
<1> SUFFICES ASSUME PlaysAtHome, [Next]_vars PROVE PlaysAtHome'
  OBVIOUS
<1>1. UNCHANGED plays \/ \E t \in Teams : plays' = [plays EXCEPT ![t] = None]
  BY DEF Next, Work, Change, Appears, Moves, Relegated, NextDay, Enqueue, Take, Index, League, Team,
     PlayerPages, Roster, Transfers, Create, Free, End, Crash, Seed, world, vars
<1> QED BY <1>1 DEF PlaysAtHome

(* Who changes it.                                                         *)
LEMMA LeagueChanges ==
  ASSUME SyncTypes, [Next]_vars
  PROVE  \/ UNCHANGED teamLeague
         \/ \E t \in Teams : Seed(t)
         \/ \E w \in Workers : \E t \in run[w].teams :
              teamLeague' = [teamLeague EXCEPT ![t] = LeagueAfter(t, run[w].league)]
<1>1. ASSUME NEW w \in Workers, Team(w)
      PROVE  \/ UNCHANGED teamLeague
             \/ \E t \in run[w].teams :
                  teamLeague' = [teamLeague EXCEPT ![t] = LeagueAfter(t, run[w].league)]
  <2>1. run[w] \in Runs
    BY DEF SyncTypes, Coherent
  <2>2. PICK t \in run[w].teams :
          LET r == [run[w] EXCEPT !.teams = @ \ {t}, !.seenTeams = @ \cup {t}, !.team = t]
          IN  \/ teamLeague' = [teamLeague EXCEPT ![t] = LeagueAfter(t, r.league)]
              \/ UNCHANGED teamLeague
    BY <1>1 DEF Team
  <2>3. [run[w] EXCEPT !.teams = @ \ {t}, !.seenTeams = @ \cup {t}, !.team = t].league = run[w].league
    BY <2>1 DEF Runs
  <2> QED BY <2>2, <2>3
<1>2. ASSUME NEW w \in Workers, PlayerPages(w) \/ Roster(w) PROVE UNCHANGED teamLeague
  BY <1>2 DEF PlayerPages, Roster, PutsOff, Writes, store
<1> QED
  BY <1>1, <1>2 DEF Next, Work, Change, NextDay, Enqueue, Take, Index, League, Transfers, Create,
     Free, End, Crash, store, vars

(* Once a club is recorded in a domestic league, no cup run takes it from  *)
(* there (football-data.sync.service.ts:427, upsertTeam).                  *)
THEOREM NoCupTakesAClub == Spec => ClubsStayHome
<1>1. Init => SyncTypes /\ PlaysAtHome
  BY InitSyncTypes, ConstantsAssumption DEF Init, PlaysAtHome
<1>2. SyncTypes /\ PlaysAtHome /\ [Next]_vars => (SyncTypes /\ PlaysAtHome)'
  BY NextSyncTypes, NextPlaysAtHome
<1>3. SyncTypes /\ PlaysAtHome /\ [Next]_vars
        => [\A t \in Teams : teamLeague[t] \in Leagues \ Cups => teamLeague'[t] \notin Cups]_vars
  <2> SUFFICES ASSUME SyncTypes, PlaysAtHome, [Next]_vars, NEW t \in Teams,
                      teamLeague[t] \in Leagues \ Cups
               PROVE  teamLeague'[t] \notin Cups
    OBVIOUS
  <2>0. teamLeague \in [Teams -> Leagues \cup {None}] /\ None \notin Leagues
    BY ConstantsAssumption DEF SyncTypes, TypeOK
  <2>1. CASE UNCHANGED teamLeague
    BY <2>1
  <2>2. ASSUME NEW s \in Teams, Seed(s) PROVE teamLeague'[t] \notin Cups
    BY <2>0, <2>2 DEF Seed, PlaysAtHome
  <2>3. ASSUME NEW w \in Workers, NEW s \in run[w].teams,
               teamLeague' = [teamLeague EXCEPT ![s] = LeagueAfter(s, run[w].league)]
        PROVE  teamLeague'[t] \notin Cups
    BY <2>0, <2>3 DEF LeagueAfter
  <2> QED BY <2>1, <2>2, <2>3, LeagueChanges
<1> QED BY <1>1, <1>2, <1>3, PTL DEF Spec, ClubsStayHome

-----------------------------------------------------------------------------
(***************************************************************************)
(* The quota.  Whoever has made the last request knows how many are left;  *)
(* each of the others can make one before it knows as well.                *)
(***************************************************************************)
Knowing == {w \in Workers : known[w] <= Reserve}
QuotaInv == left + Cardinality(Knowing) + Tries * faults > Reserve

(* A request costs one, or as many as the attempts it took.                *)
LEMMA RequestsMade ==
  ASSUME SyncTypes, [Next]_vars
  PROVE  \/ UNCHANGED <<left, known, faults>>
         \/ left' = Quota /\ UNCHANGED <<known, faults>>
         \/ \E w \in Workers :
              \/ Answered(w)
              \/ /\ faults' = faults + 1 /\ UNCHANGED known
                 /\ UNCHANGED left \/ (Tries <= left /\ left' = left - Tries)
              \/ faults' = faults + 1 /\ UNCHANGED left /\ known' = [known EXCEPT ![w] = Quota]
<1> DEFINE Asks(w) == Answered(w) \/ Unanswered(w) \/ RowFails(w) \/ UNCHANGED <<provider, faults>>
<1>1. ASSUME NEW w \in Workers, Work(w) PROVE Asks(w)
  <2>1. Index(w) \/ League(w) \/ Team(w) => Asks(w)
    BY DEF Index, League, Team
  <2>2. PlayerPages(w) \/ Roster(w) \/ Transfers(w) => Asks(w)
    BY DEF PlayerPages, Roster, Transfers, PutsOff
  <2>3. Create(w) \/ Free(w) \/ End(w) => Asks(w)
    BY DEF Create, Free, End, RowFails
  <2> QED BY <1>1, <2>1, <2>2, <2>3 DEF Work
<1>2. ASSUME NEW w \in Workers, Unanswered(w) \/ RowFails(w)
      PROVE  /\ faults' = faults + 1 /\ UNCHANGED known
             /\ UNCHANGED left \/ (Tries <= left /\ left' = left - Tries)
  <2>1. left \in Nat
    BY DEF SyncTypes, TypeOK
  <2> QED BY <1>2, <2>1 DEF Unanswered, RowFails, Fault, provider
<1>3. ASSUME NEW w \in Workers, Crash(w)
      PROVE  faults' = faults + 1 /\ UNCHANGED left /\ known' = [known EXCEPT ![w] = Quota]
  BY <1>3 DEF Crash, Fault
<1>4. \/ UNCHANGED <<provider, faults>>
      \/ left' = Quota /\ UNCHANGED <<known, faults>>
      \/ \E w \in Workers : Work(w) \/ Crash(w)
  BY DEF Next, Change, NextDay, Enqueue, Take, Seed, vars
<1> QED BY <1>1, <1>2, <1>3, <1>4 DEF provider

LEMMA NextQuotaInv == SyncTypes /\ QuotaInv /\ [Next]_vars => QuotaInv'
<1> SUFFICES ASSUME SyncTypes, QuotaInv, [Next]_vars PROVE QuotaInv'
  OBVIOUS
<1> DEFINE debt == Tries * faults  owed == Tries * faults'
<1>1. /\ left \in Nat /\ faults \in Nat /\ left' \in Nat /\ faults' \in Nat
      /\ Reserve \in Nat /\ Quota \in Nat /\ Reserve < Quota /\ Tries \in Nat /\ Tries >= 1
      /\ known \in [Workers -> 0..Quota] /\ IsFiniteSet(Workers)
  BY NextSyncTypes, ConstantsAssumption DEF SyncTypes, TypeOK
<1>2. debt \in Nat /\ owed \in Nat /\ (faults' = faults => owed = debt)
      /\ (faults' = faults + 1 => owed = debt + Tries)
  <2>1. \A a, b \in Nat : a * b \in Nat
    OBVIOUS
  <2>2. \A a, b \in Nat : a * (b + 1) = a * b + a
    OBVIOUS
  <2> QED BY <1>1, <2>1, <2>2
<1>3. /\ IsFiniteSet(Knowing) /\ Cardinality(Knowing) \in Nat /\ Cardinality(Knowing') \in Nat
  <2>1. Knowing \subseteq Workers /\ Knowing' \subseteq Workers
    BY DEF Knowing
  <2> QED BY <1>1, <2>1, FS_Subset, FS_CardinalityType
<1>4. left + Cardinality(Knowing) + debt > Reserve
  BY DEF QuotaInv
<1> HIDE DEF debt, owed
<1>5. SUFFICES left' + Cardinality(Knowing') + owed > Reserve
  BY DEF QuotaInv, owed
<1>6. CASE UNCHANGED <<left, known, faults>>
  BY <1>1, <1>2, <1>3, <1>4, <1>6 DEF Knowing
<1>7. CASE left' = Quota /\ UNCHANGED <<known, faults>>
  BY <1>1, <1>2, <1>3, <1>7
<1>8. ASSUME NEW w \in Workers, Answered(w) PROVE left' + Cardinality(Knowing') + owed > Reserve
  <2>1. known[w] > Reserve /\ known' = [known EXCEPT ![w] = left']
    BY <1>8 DEF Answered, CanAsk
  <2>2. Cardinality(Knowing') = Cardinality(Knowing) + In(w, Knowing') - In(w, Knowing)
    <3>1. Knowing \ {w} = Knowing' \ {w}
      BY <1>1, <2>1 DEF Knowing
    <3> QED BY <1>3, <3>1, OneElement
  <2>3. In(w, Knowing) = 0 /\ In(w, Knowing') = IF left' <= Reserve THEN 1 ELSE 0
    BY <1>1, <2>1 DEF In, Knowing
  <2>4. \/ left' = left - 1 /\ owed = debt
        \/ left' = left - Tries /\ owed = debt + Tries
    BY <1>2, <1>8 DEF Answered, Fault
  <2> QED BY <1>1, <1>2, <1>3, <1>4, <2>2, <2>3, <2>4
<1>9. CASE /\ faults' = faults + 1 /\ UNCHANGED known
           /\ UNCHANGED left \/ (Tries <= left /\ left' = left - Tries)
  <2>1. Knowing' = Knowing
    BY <1>9 DEF Knowing
  <2> QED BY <1>1, <1>2, <1>3, <1>4, <1>9, <2>1
<1>10. ASSUME NEW w \in Workers, faults' = faults + 1, UNCHANGED left,
              known' = [known EXCEPT ![w] = Quota]
       PROVE  left' + Cardinality(Knowing') + owed > Reserve
  <2>1. Cardinality(Knowing') = Cardinality(Knowing) + In(w, Knowing') - In(w, Knowing)
    <3>1. Knowing \ {w} = Knowing' \ {w}
      BY <1>1, <1>10 DEF Knowing
    <3> QED BY <1>3, <3>1, OneElement
  <2>2. In(w, Knowing) \in {0, 1} /\ In(w, Knowing') \in {0, 1}
    BY DEF In
  <2> QED BY <1>1, <1>2, <1>3, <1>4, <1>10, <2>1, <2>2
<1> QED BY <1>6, <1>7, <1>8, <1>9, <1>10, RequestsMade

(* However the processes' requests interleave, the reserve loses at most   *)
(* one request for each process but one, and those repeated after an error *)
(* (axios-football-data.client.ts:226).                                    *)
THEOREM ReserveIsLeft == Spec => []QuotaKept
<1>1. Init => SyncTypes /\ QuotaInv
  <2> SUFFICES ASSUME Init PROVE QuotaInv
    BY InitSyncTypes
  <2>1. left = Quota /\ faults = 0
    BY DEF Init
  <2>2. Cardinality(Knowing) \in Nat
    BY ConstantsAssumption, FS_Subset, FS_CardinalityType DEF Knowing
  <2> QED BY <2>1, <2>2, ConstantsAssumption DEF QuotaInv
<1>2. SyncTypes /\ QuotaInv /\ [Next]_vars => (SyncTypes /\ QuotaInv)'
  BY NextSyncTypes, NextQuotaInv
<1>3. SyncTypes /\ QuotaInv => QuotaKept
  <2> SUFFICES ASSUME SyncTypes, QuotaInv PROVE QuotaKept
    OBVIOUS
  <2>1. Cardinality(Knowing) \in Nat /\ Cardinality(Workers) \in Nat
        /\ Cardinality(Knowing) <= Cardinality(Workers)
    BY ConstantsAssumption, FS_Subset, FS_CardinalityType DEF Knowing
  <2>2. left \in Nat /\ Tries * faults \in Nat /\ Reserve \in Nat
    BY ConstantsAssumption DEF SyncTypes, TypeOK
  <2> QED BY <2>1, <2>2 DEF QuotaInv, QuotaKept
<1> QED BY <1>1, <1>2, <1>3, PTL DEF Spec

-----------------------------------------------------------------------------
(***************************************************************************)
(* What each step makes of the record of its run.                          *)
(***************************************************************************)
Alone(w) == \A v \in Workers \ {w} : run'[v] = run[v]
Kept(w) ==
  /\ run'[w].job = run[w].job /\ run'[w].targets = run[w].targets
  /\ run'[w].league = run[w].league
Leaves(w) ==
  /\ run'[w].at = IF run'[w].teams # {} THEN "team"
                  ELSE IF run'[w].targets # {} THEN "league" ELSE "free"
  /\ run'[w].synced = IF run'[w].teams = {} /\ run'[w].league \notin Cups
                      THEN run[w].synced \cup {run'[w].league} ELSE run[w].synced
  /\ tried' = IF run'[w].teams = {} THEN tried \cup {run'[w].league} ELSE tried
GoesOn(w, step) ==
  run'[w].at = step /\ run'[w].synced = run[w].synced /\ tried' = tried
SameTeam(w) ==
  /\ run'[w].teams = run[w].teams /\ run'[w].seenTeams = run[w].seenTeams
Ends(w) == run'[w].at = "end" /\ run'[w].job = run[w].job /\ tried' = tried

LEMMA RunStays ==
  ASSUME SyncTypes, NEW w \in Workers
  PROVE  /\ run[w] \in Runs /\ run[w].job \in Jobs \cup {None} /\ Coherent(run[w])
         /\ ~At(w, "idle") => /\ run[w].job \in Jobs /\ run[w].job.leagues \subseteq Leagues
                              /\ run[w].targets \subseteq run[w].job.leagues
         /\ run[w].at \in Within => run[w].league \in run[w].job.leagues
         /\ run[w].at \in AtTeam => run[w].team \in Teams
  BY DEF SyncTypes, Coherent, At, Jobs, Runs

LEMMA RunLeaves ==
  ASSUME SyncTypes, NEW w \in Workers, NEW r, Coherent(r), r.at # "idle",
         r.league \in r.job.leagues, Proceeds(w, r), r.synced = run[w].synced
  PROVE  /\ Alone(w) /\ Leaves(w) /\ run'[w].found = {}
         /\ run'[w].job = r.job /\ run'[w].targets = r.targets /\ run'[w].league = r.league
         /\ run'[w].teams = r.teams /\ run'[w].seenTeams = r.seenTeams
         /\ run'[w].seen = r.seen
<1>1. /\ \A v \in Workers \ {w} : run'[v] = run[v]
      /\ run'[w].found = {}
      /\ run'[w].job = r.job /\ run'[w].targets = r.targets /\ run'[w].league = r.league
      /\ run'[w].teams = r.teams /\ run'[w].seenTeams = r.seenTeams
      /\ run'[w].seen = r.seen
      /\ run'[w].at = IF r.teams # {} THEN "team"
                      ELSE IF r.targets # {} THEN "league" ELSE "free"
      /\ run'[w].synced = IF r.teams = {} /\ r.league \notin Cups
                          THEN r.synced \cup {r.league} ELSE r.synced
      /\ tried' = IF r.teams = {} THEN tried \cup {r.league} ELSE tried
  BY RunProceeds
<1>2. Leaves(w)
  BY <1>1 DEF Leaves
<1> QED BY <1>1, <1>2 DEF Alone

LEMMA IndexSteps ==
  ASSUME SyncTypes, NEW w \in Workers, Index(w)
  PROVE  /\ Alone(w) /\ run'[w].job = run[w].job /\ At(w, "index")
         /\ run'[w].seenTeams = run[w].seenTeams /\ run'[w].seen = run[w].seen
         /\ run'[w].synced = run[w].synced
         /\ \/ Answered(w) /\ run'[w].at = "league" /\ run'[w].targets = run[w].job.leagues
            \/ /\ run'[w].at = "end" /\ run'[w].targets = run[w].targets
               /\ Unanswered(w) \/ stuck' = stuck \cup run[w].job.leagues
<1> DEFINE r1 == [run[w] EXCEPT !.at = "league", !.targets = run[w].job.leagues]
           r2 == [run[w] EXCEPT !.at = "end"]
<1>0. At(w, "index") /\ run[w].at = "index" /\ run[w] \in Runs /\ run[w].job \in Jobs
      /\ run[w].targets \subseteq run[w].job.leagues /\ run[w].job.leagues \in SUBSET Leagues
  BY RunStays DEF Index, At
<1>1. Coherent(r1) /\ r1.at = "league" /\ r1.targets = run[w].job.leagues /\ r1.job = run[w].job
      /\ r1.seenTeams = run[w].seenTeams /\ r1.seen = run[w].seen /\ r1.synced = run[w].synced
  BY <1>0 DEF Coherent, Runs, Steps, Within, AtTeam
<1>2. Coherent(r2) /\ r2.at = "end" /\ r2.targets = run[w].targets /\ r2.job = run[w].job
      /\ r2.seenTeams = run[w].seenTeams /\ r2.seen = run[w].seen /\ r2.synced = run[w].synced
  BY <1>0 DEF Coherent, Runs, Steps, Within, AtTeam
<1>3. \/ GoesTo(w, r1) /\ Answered(w)
      \/ GoesTo(w, r2) /\ (Unanswered(w) \/ stuck' = stuck \cup run[w].job.leagues)
  BY DEF Index, Goes
<1> HIDE DEF r1, r2
<1> QED BY <1>0, <1>1, <1>2, <1>3, RunGoes DEF Alone

LEMMA LeagueSteps ==
  ASSUME SyncTypes, NEW w \in Workers, League(w)
  PROVE  /\ Alone(w) /\ run'[w].job = run[w].job /\ At(w, "league")
         /\ run'[w].seenTeams = run[w].seenTeams /\ run'[w].seen = run[w].seen
         /\ \/ run'[w].at = "end" /\ run'[w].targets = run[w].targets /\ tried' = tried
            \/ \E l \in run[w].targets :
                 /\ run'[w].targets = run[w].targets \ {l} /\ run'[w].league = l
                 /\ l \in Cups => run[w].targets \subseteq Cups
                 /\ \/ /\ run'[w].at \in {"league", "free"} /\ run'[w].synced = run[w].synced
                       /\ tried' = tried \cup {l}
                       /\ run'[w].at = "free" => run'[w].targets = {}
                    \/ /\ run'[w].teams = TeamsOf(l) \ run[w].seenTeams /\ Leaves(w) /\ Answered(w)
<1> DEFINE Passed(l) == [run[w] EXCEPT !.targets = @ \ {l}, !.league = l, !.teams = {}]
           r2 == [run[w] EXCEPT !.at = "end"]
<1>0. At(w, "league") /\ run[w].at = "league" /\ run[w] \in Runs /\ run[w].job \in Jobs
      /\ run[w].targets \subseteq run[w].job.leagues /\ run[w].job.leagues \in SUBSET Leagues
  BY RunStays DEF League, At
<1>1. PICK l \in run[w].targets :
        /\ l \in Cups => run[w].targets \subseteq Cups
        /\ \/ GoesTo(w, NextTeam(Passed(l))) /\ tried' = tried \cup {l}
           \/ Proceeds(w, [Passed(l) EXCEPT !.teams = TeamsOf(l) \ run[w].seenTeams]) /\ Answered(w)
           \/ GoesTo(w, r2) /\ UNCHANGED tried
  BY DEF League, Goes
<1>2. CASE GoesTo(w, r2) /\ UNCHANGED tried
  <2>1. Coherent(r2) /\ r2.at = "end" /\ r2.targets = run[w].targets /\ r2.job = run[w].job
        /\ r2.seenTeams = run[w].seenTeams /\ r2.seen = run[w].seen
    BY <1>0 DEF Coherent, Runs, Steps, Within, AtTeam
  <2> HIDE DEF r2
  <2> QED BY <1>0, <1>2, <2>1, RunGoes DEF Alone
<1>3. /\ Passed(l) \in Runs /\ Passed(l).at = "league" /\ Passed(l).teams = {}
      /\ Passed(l).league = l /\ Passed(l).job = run[w].job
      /\ Passed(l).targets = run[w].targets \ {l} /\ Passed(l).synced = run[w].synced
      /\ Passed(l).seenTeams = run[w].seenTeams /\ Passed(l).seen = run[w].seen
  BY <1>0, <1>1 DEF Runs
<1> HIDE DEF Passed
<1>4. CASE GoesTo(w, NextTeam(Passed(l))) /\ tried' = tried \cup {l}
  <2>1. Coherent(NextTeam(Passed(l)))
    BY <1>0, <1>3, NextTeamIs DEF Coherent, Within, AtTeam
  <2>2. run'[w] = NextTeam(Passed(l)) /\ Alone(w)
    BY <1>4, <2>1, RunGoes DEF Alone
  <2> QED BY <1>0, <1>1, <1>3, <1>4, <2>2, NextTeamIs
<1>5. CASE Proceeds(w, [Passed(l) EXCEPT !.teams = TeamsOf(l) \ run[w].seenTeams]) /\ Answered(w)
  <2> DEFINE r == [Passed(l) EXCEPT !.teams = TeamsOf(l) \ run[w].seenTeams]
  <2>1. TeamsOf(l) \subseteq Teams
    BY ConstantsAssumption DEF TeamsOf
  <2>2. /\ Coherent(r) /\ r.at = "league" /\ r.league = l /\ r.job = run[w].job
        /\ r.targets = run[w].targets \ {l} /\ r.synced = run[w].synced
        /\ r.seenTeams = run[w].seenTeams /\ r.seen = run[w].seen
        /\ r.teams = TeamsOf(l) \ run[w].seenTeams
    BY <1>0, <1>1, <1>3, <2>1 DEF Coherent, Runs, Within, AtTeam
  <2>3. Proceeds(w, r)
    BY <1>5
  <2> HIDE DEF r
  <2>4. l \in r.job.leagues
    BY <1>0, <1>1, <2>2
  <2> QED BY <1>0, <1>1, <1>5, <2>2, <2>3, <2>4, RunLeaves
<1> QED BY <1>1, <1>2, <1>4, <1>5

LEMMA TeamSteps ==
  ASSUME SyncTypes, NEW w \in Workers, Team(w)
  PROVE  /\ Alone(w) /\ Kept(w) /\ At(w, "team") /\ run'[w].seen = run[w].seen
         /\ \E t \in run[w].teams :
              /\ run'[w].teams = run[w].teams \ {t} /\ run'[w].seenTeams = run[w].seenTeams \cup {t}
              /\ \/ RowFails(w) /\ Leaves(w)
                 \/ /\ teamLeague' = [teamLeague EXCEPT ![t] = LeagueAfter(t, run[w].league)]
                    /\ IF run[w].league \in Cups THEN Leaves(w)
                       ELSE GoesOn(w, "players") /\ run'[w].team = t
<1> USE DEF At
<1>0. At(w, "team") /\ run[w].at = "team" /\ run[w] \in Runs /\ run[w].job \in Jobs
      /\ run[w].targets \subseteq run[w].job.leagues /\ run[w].job.leagues \in SUBSET Leagues
      /\ run[w].league \in run[w].job.leagues
  BY RunStays DEF Team, Within
<1>1. PICK t \in run[w].teams :
        LET r == [run[w] EXCEPT !.teams = @ \ {t}, !.seenTeams = @ \cup {t}, !.team = t]
        IN  \/ /\ teamLeague' = [teamLeague EXCEPT ![t] = LeagueAfter(t, r.league)]
               /\ IF r.league \in Cups THEN Proceeds(w, r)
                  ELSE GoesTo(w, [r EXCEPT !.at = "players"]) /\ UNCHANGED tried
            \/ RowFails(w) /\ Proceeds(w, r)
  BY DEF Team
<1> DEFINE r == [run[w] EXCEPT !.teams = @ \ {t}, !.seenTeams = @ \cup {t}, !.team = t]
           s == [r EXCEPT !.at = "players"]
<1>2. /\ Coherent(r) /\ r.at = "team" /\ r.team = t /\ r.league = run[w].league /\ r.job = run[w].job
      /\ r.targets = run[w].targets /\ r.synced = run[w].synced /\ r.seen = run[w].seen
      /\ r.teams = run[w].teams \ {t} /\ r.seenTeams = run[w].seenTeams \cup {t}
  BY <1>0 DEF Coherent, Runs, Within, AtTeam
<1>3. \/ /\ teamLeague' = [teamLeague EXCEPT ![t] = LeagueAfter(t, r.league)]
         /\ IF r.league \in Cups THEN Proceeds(w, r) ELSE GoesTo(w, s) /\ UNCHANGED tried
      \/ RowFails(w) /\ Proceeds(w, r)
  BY <1>1
<1> HIDE DEF r
<1>4. t \in Teams
  BY <1>0 DEF Runs
<1>5. /\ Coherent(s) /\ s.at = "players" /\ s.team = t /\ s.league = run[w].league
      /\ s.targets = run[w].targets /\ s.synced = run[w].synced /\ s.seen = run[w].seen
      /\ s.teams = run[w].teams \ {t} /\ s.seenTeams = run[w].seenTeams \cup {t} /\ s.job = run[w].job
  BY <1>0, <1>2, <1>4 DEF Coherent, Runs, Steps, Within, AtTeam
<1> HIDE DEF s
<1>6. Proceeds(w, r) =>
        /\ Alone(w) /\ Kept(w) /\ run'[w].seen = run[w].seen
        /\ run'[w].teams = run[w].teams \ {t} /\ run'[w].seenTeams = run[w].seenTeams \cup {t}
        /\ Leaves(w)
  BY <1>0, <1>2, RunLeaves DEF Kept
<1>7. GoesTo(w, s) /\ UNCHANGED tried =>
        /\ Alone(w) /\ Kept(w) /\ run'[w].seen = run[w].seen
        /\ run'[w].teams = run[w].teams \ {t} /\ run'[w].seenTeams = run[w].seenTeams \cup {t}
        /\ GoesOn(w, "players") /\ run'[w].team = t
  BY <1>5, RunGoes DEF Alone, Kept, GoesOn
<1> QED BY <1>0, <1>2, <1>3, <1>6, <1>7

(* Within a team every step keeps the league, and ends or goes on.         *)
MovesOn(w) ==
  /\ Kept(w) /\ SameTeam(w)
  /\ \/ Leaves(w)
     \/ run'[w].team = run[w].team /\ \E s \in AtTeam \ {"create"} : GoesOn(w, s)

LEMMA TeamPutOff ==
  ASSUME SyncTypes, NEW w \in Workers, run[w].at \in AtTeam, PutsOff(w)
  PROVE  Alone(w) /\ Ends(w) /\ run'[w].targets = run[w].targets \cup {run[w].league}
<1> DEFINE r == [run[w] EXCEPT !.at = "end", !.targets = @ \cup {run[w].league}]
<1>1. /\ run[w] \in Runs /\ run[w].job \in Jobs /\ run[w].targets \subseteq run[w].job.leagues
      /\ run[w].league \in run[w].job.leagues /\ run[w].job.leagues \in SUBSET Leagues
  BY RunStays DEF At, Within, AtTeam
<1>2. Coherent(r) /\ r.at = "end" /\ r.job = run[w].job
      /\ r.targets = run[w].targets \cup {run[w].league}
  BY <1>1 DEF Coherent, Runs, Steps, Within, AtTeam
<1>3. GoesTo(w, r) /\ tried' = tried
  BY DEF PutsOff
<1> HIDE DEF r
<1> QED BY <1>2, <1>3, RunGoes DEF Alone, Ends

LEMMA TeamGoesOn ==
  ASSUME SyncTypes, NEW w \in Workers, NEW r, Coherent(r), r.at \in AtTeam, NEW s \in AtTeam,
         r.synced = run[w].synced, GoesTo(w, [r EXCEPT !.at = s]), UNCHANGED tried
  PROVE  /\ Alone(w) /\ GoesOn(w, s) /\ run'[w].found = r.found /\ run'[w].team = r.team
         /\ run'[w].job = r.job /\ run'[w].targets = r.targets /\ run'[w].league = r.league
         /\ run'[w].teams = r.teams /\ run'[w].seenTeams = r.seenTeams
         /\ run'[w].seen = r.seen /\ run'[w].listed = r.listed
<1> DEFINE n == [r EXCEPT !.at = s]
<1>1. r \in Runs /\ r.job \in Jobs /\ r.targets \subseteq r.job.leagues
      /\ r.league \in r.job.leagues /\ r.team \in Teams
  BY DEF Coherent, Within, AtTeam
<1>2. /\ Coherent(n) /\ n.at = s /\ n.found = r.found /\ n.team = r.team /\ n.synced = r.synced
      /\ n.job = r.job /\ n.targets = r.targets /\ n.league = r.league
      /\ n.teams = r.teams /\ n.seenTeams = r.seenTeams
      /\ n.seen = r.seen /\ n.listed = r.listed
  BY <1>1 DEF Coherent, Runs, Steps, Within, AtTeam
<1>3. GoesTo(w, n)
  OBVIOUS
<1> HIDE DEF n
<1>4. run'[w] = n /\ Alone(w)
  BY <1>2, <1>3, RunGoes DEF Alone
<1> QED BY <1>2, <1>4 DEF GoesOn

LEMMA PlayersSteps ==
  ASSUME SyncTypes, NEW w \in Workers, PlayerPages(w)
  PROVE  /\ Alone(w) /\ At(w, "players") /\ run'[w].job = run[w].job
         /\ \/ Ends(w) /\ run'[w].targets = run[w].targets \cup {run[w].league}
            \/ MovesOn(w) /\ (RowFails(w) \/ Unanswered(w))
            \/ /\ Kept(w) /\ SameTeam(w) /\ Answered(w)
               /\ Writes(PlayersOf(run[w].team), run[w].team)
               /\ run'[w].seen = run[w].seen \cup PlayersOf(run[w].team)
               /\ \/ Leaves(w) /\ ~FetchSquads
                  \/ /\ run'[w].team = run[w].team
                     /\ \/ /\ GoesOn(w, "roster") /\ FetchSquads
                           /\ run'[w].listed = PlayersOf(run[w].team)
                        \/ GoesOn(w, "transfers") /\ ~FetchSquads
<1> DEFINE Noted(ps) == [run[w] EXCEPT !.listed = ps, !.seen = @ \cup ps]
           all == PlayersOf(run[w].team)
<1>0. /\ run[w] \in Runs /\ run[w].job \in Jobs /\ run[w].targets \subseteq run[w].job.leagues
      /\ run[w].at = "players" /\ At(w, "players") /\ run[w].at \in AtTeam
      /\ run[w].league \in run[w].job.leagues /\ run[w].team \in Teams
  BY RunStays DEF PlayerPages, At, Within, AtTeam
<1>1. CASE PutsOff(w)
  BY <1>0, <1>1, TeamPutOff DEF Ends
<1>2. ASSUME NEW ps \in SUBSET Players
      PROVE  /\ Coherent(Noted(ps)) /\ Noted(ps).at = "players" /\ Noted(ps).team = run[w].team
             /\ Noted(ps).job = run[w].job /\ Noted(ps).targets = run[w].targets
             /\ Noted(ps).league = run[w].league /\ Noted(ps).teams = run[w].teams
             /\ Noted(ps).seenTeams = run[w].seenTeams /\ Noted(ps).seen = run[w].seen \cup ps
             /\ Noted(ps).listed = ps /\ Noted(ps).synced = run[w].synced
  BY <1>0 DEF Coherent, Runs, Within, AtTeam
<1>3. "roster" \in AtTeam \ {"create"} /\ "transfers" \in AtTeam \ {"create"} /\ "players" \in AtTeam
  BY DEF AtTeam
<1> HIDE DEF Noted
<1>5. ASSUME NEW ps \in SUBSET Players, Proceeds(w, Noted(ps))
      PROVE  /\ Alone(w) /\ Kept(w) /\ SameTeam(w) /\ run'[w].seen = run[w].seen \cup ps
             /\ Leaves(w)
  BY <1>0, <1>2, <1>5, RunLeaves DEF Kept, SameTeam
<1>6. ASSUME NEW ps \in SUBSET Players, AfterPlayers(w, Noted(ps))
      PROVE  /\ Alone(w) /\ Kept(w) /\ SameTeam(w) /\ run'[w].seen = run[w].seen \cup ps
             /\ \/ Leaves(w) /\ ~FetchSquads
                \/ /\ run'[w].team = run[w].team
                   /\ \/ GoesOn(w, "roster") /\ FetchSquads /\ run'[w].listed = ps
                      \/ GoesOn(w, "transfers") /\ ~FetchSquads
  <2>1. \/ Proceeds(w, Noted(ps)) /\ ~FetchSquads
        \/ FetchSquads /\ GoesTo(w, [Noted(ps) EXCEPT !.at = "roster"]) /\ UNCHANGED tried
        \/ ~FetchSquads /\ GoesTo(w, [Noted(ps) EXCEPT !.at = "transfers"]) /\ UNCHANGED tried
    BY <1>6 DEF AfterPlayers
  <2>2. CASE Proceeds(w, Noted(ps)) /\ ~FetchSquads
    BY <1>5, <2>2
  <2>3. CASE FetchSquads /\ GoesTo(w, [Noted(ps) EXCEPT !.at = "roster"]) /\ UNCHANGED tried
    BY <1>2, <1>3, <2>3, TeamGoesOn DEF Kept, SameTeam
  <2>4. CASE ~FetchSquads /\ GoesTo(w, [Noted(ps) EXCEPT !.at = "transfers"]) /\ UNCHANGED tried
    BY <1>2, <1>3, <2>4, TeamGoesOn DEF Kept, SameTeam
  <2> QED BY <2>1, <2>2, <2>3, <2>4
<1>7. all \in SUBSET Players
  BY DEF PlayersOf
<1>8. CASE Answered(w) /\ Writes(all, run[w].team) /\ AfterPlayers(w, Noted(all))
  BY <1>0, <1>6, <1>7, <1>8 DEF Kept
<1>9. CASE RowFails(w) /\ AfterPlayers(w, Noted(all))
  <2>1. MovesOn(w) /\ Alone(w)
    BY <1>3, <1>6, <1>7, <1>9 DEF MovesOn
  <2> QED BY <1>0, <1>9, <2>1 DEF MovesOn, Kept
<1>10. ASSUME Unanswered(w), NEW some \in SUBSET all, Proceeds(w, Noted(some))
       PROVE  MovesOn(w) /\ Alone(w)
  BY <1>5, <1>7, <1>10 DEF MovesOn
<1>11. CASE Unanswered(w) /\ \E some \in SUBSET all : Proceeds(w, Noted(some))
  BY <1>0, <1>10, <1>11 DEF MovesOn, Kept
<1> QED
  <2>1. \/ Answered(w) /\ Writes(all, run[w].team) /\ AfterPlayers(w, Noted(all))
        \/ RowFails(w) /\ AfterPlayers(w, Noted(all))
        \/ Unanswered(w) /\ \E some \in SUBSET all : Proceeds(w, Noted(some))
        \/ PutsOff(w)
    BY DEF PlayerPages, Noted
  <2> QED BY <1>1, <1>8, <1>9, <1>11, <2>1

LEMMA RosterSteps ==
  ASSUME SyncTypes, NEW w \in Workers, Roster(w)
  PROVE  /\ Alone(w) /\ At(w, "roster") /\ run'[w].job = run[w].job
         /\ \/ Ends(w) /\ run'[w].targets = run[w].targets \cup {run[w].league} /\ UNCHANGED store
            \/ MovesOn(w) /\ (RowFails(w) \/ Unanswered(w)) /\ UNCHANGED store
            \/ /\ Kept(w) /\ SameTeam(w) /\ Answered(w)
               /\ Writes(SquadOf(run[w].team) \ run[w].listed, run[w].team)
               /\ run'[w].seen = run[w].seen \cup (SquadOf(run[w].team) \ run[w].listed)
               /\ Leaves(w) \/ (run'[w].team = run[w].team /\ GoesOn(w, "transfers"))
<1> DEFINE more == SquadOf(run[w].team) \ run[w].listed
           noted == [run[w] EXCEPT !.seen = @ \cup more]
           Onward(r) == IF DetectTransfers
                        THEN GoesTo(w, [r EXCEPT !.at = "transfers"]) /\ UNCHANGED tried
                        ELSE Proceeds(w, r)
<1>0. /\ run[w] \in Runs /\ run[w].job \in Jobs /\ run[w].targets \subseteq run[w].job.leagues
      /\ run[w].at = "roster" /\ At(w, "roster") /\ run[w].at \in AtTeam /\ Coherent(run[w])
      /\ run[w].league \in run[w].job.leagues /\ run[w].team \in Teams
  BY RunStays DEF Roster, At, Within, AtTeam
<1>1. CASE PutsOff(w)
  BY <1>0, <1>1, TeamPutOff DEF Ends, PutsOff
<1>2. more \in SUBSET Players
  BY DEF SquadOf
<1>3. /\ Coherent(noted) /\ noted.at = "roster" /\ noted.team = run[w].team
      /\ noted.job = run[w].job /\ noted.targets = run[w].targets
      /\ noted.league = run[w].league /\ noted.teams = run[w].teams
      /\ noted.seenTeams = run[w].seenTeams /\ noted.seen = run[w].seen \cup more
      /\ noted.synced = run[w].synced
  BY <1>0, <1>2 DEF Coherent, Runs, Within, AtTeam
<1>4. "transfers" \in AtTeam \ {"create"} /\ "roster" \in AtTeam
  BY DEF AtTeam
<1> HIDE DEF noted, more
<1>5. ASSUME Onward(noted)
      PROVE  /\ Alone(w) /\ Kept(w) /\ SameTeam(w) /\ run'[w].seen = run[w].seen \cup more
             /\ Leaves(w) \/ (run'[w].team = run[w].team /\ GoesOn(w, "transfers"))
  <2>1. CASE Proceeds(w, noted)
    BY <1>0, <1>3, <2>1, RunLeaves DEF Kept, SameTeam
  <2>2. CASE GoesTo(w, [noted EXCEPT !.at = "transfers"]) /\ UNCHANGED tried
    BY <1>0, <1>3, <1>4, <2>2, TeamGoesOn DEF Kept, SameTeam
  <2> QED BY <1>5, <2>1, <2>2
<1>6. Proceeds(w, run[w]) => Alone(w) /\ MovesOn(w)
  BY <1>0, RunLeaves DEF Kept, SameTeam, MovesOn
<1>7. \/ Answered(w) /\ Writes(more, run[w].team) /\ Onward(noted)
      \/ RowFails(w) /\ UNCHANGED store /\ Onward(noted)
      \/ Unanswered(w) /\ UNCHANGED store /\ Proceeds(w, run[w])
      \/ PutsOff(w)
  BY DEF Roster, noted, more
<1> HIDE DEF Onward
<1>8. Onward(noted) => MovesOn(w)
  BY <1>4, <1>5 DEF MovesOn
<1> QED BY <1>0, <1>1, <1>5, <1>6, <1>7, <1>8 DEF more, Kept, MovesOn

LEMMA TransfersSteps ==
  ASSUME SyncTypes, NEW w \in Workers, Transfers(w)
  PROVE  /\ Alone(w) /\ At(w, "transfers") /\ run'[w].job = run[w].job /\ UNCHANGED store
         /\ \/ Ends(w) /\ run'[w].targets = run[w].targets \cup {run[w].league}
            \/ /\ Kept(w) /\ SameTeam(w) /\ run'[w].seen = run[w].seen
               /\ \/ Leaves(w)
                  \/ /\ run'[w].team = run[w].team /\ GoesOn(w, "create")
                     /\ run'[w].found = Missing(run[w].team)
<1>0. /\ run[w] \in Runs /\ run[w].job \in Jobs /\ run[w].targets \subseteq run[w].job.leagues
      /\ run[w].at = "transfers" /\ At(w, "transfers") /\ run[w].at \in AtTeam /\ Coherent(run[w])
      /\ run[w].league \in run[w].job.leagues /\ run[w].team \in Teams
  BY RunStays DEF Transfers, At, Within, AtTeam
<1>s. UNCHANGED store
  BY DEF Transfers, PutsOff
<1>1. CASE PutsOff(w)
  BY <1>0, <1>1, <1>s, TeamPutOff DEF Ends
<1>2. CASE Proceeds(w, run[w])
  BY <1>0, <1>2, <1>s, RunLeaves DEF Kept, SameTeam
<1>3. CASE GoesTo(w, [run[w] EXCEPT !.at = "create", !.found = Missing(run[w].team)])
           /\ UNCHANGED tried
  <2> DEFINE n == [run[w] EXCEPT !.at = "create", !.found = Missing(run[w].team)]
  <2>1. Missing(run[w].team) \subseteq Deals
    BY DEF Missing, DealsOf, SyncTypes, TypeOK
  <2>2. /\ Coherent(n) /\ n.at = "create" /\ n.team = run[w].team /\ n.found = Missing(run[w].team)
        /\ n.job = run[w].job /\ n.targets = run[w].targets /\ n.league = run[w].league
        /\ n.teams = run[w].teams /\ n.seenTeams = run[w].seenTeams /\ n.seen = run[w].seen
        /\ n.synced = run[w].synced
    BY <1>0, <2>1 DEF Coherent, Runs, Steps, Within, AtTeam
  <2>3. GoesTo(w, n)
    BY <1>3
  <2> HIDE DEF n
  <2> QED BY <1>0, <1>3, <1>s, <2>2, <2>3, RunGoes DEF Alone, Kept, SameTeam, GoesOn
<1> QED BY <1>1, <1>2, <1>3 DEF Transfers

LEMMA CreateSteps ==
  ASSUME SyncTypes, NEW w \in Workers, Create(w)
  PROVE  /\ Alone(w) /\ At(w, "create") /\ run'[w].job = run[w].job
         /\ Kept(w) /\ SameTeam(w) /\ run'[w].seen = run[w].seen /\ Leaves(w)
  BY RunStays, RunLeaves DEF Create, At, Within, AtTeam, Kept, SameTeam

LEMMA LastSteps ==
  ASSUME SyncTypes, NEW w \in Workers
  PROVE  /\ Free(w) => /\ Alone(w) /\ At(w, "free") /\ run'[w].at = "end"
                       /\ run'[w].job = run[w].job /\ run'[w].targets = run[w].targets
         /\ End(w) \/ Crash(w) => Alone(w) /\ run'[w] = NoRun /\ run'[w].at = "idle"
<1>1. ASSUME Free(w)
      PROVE  /\ Alone(w) /\ At(w, "free") /\ run'[w].at = "end"
             /\ run'[w].job = run[w].job /\ run'[w].targets = run[w].targets
  <2> DEFINE n == [run[w] EXCEPT !.at = "end"]
  <2>1. At(w, "free") /\ run[w].at = "free" /\ run[w] \in Runs /\ Coherent(run[w])
    BY <1>1, RunStays DEF Free, At
  <2>2. Coherent(n) /\ n.at = "end" /\ n.job = run[w].job /\ n.targets = run[w].targets
    BY <2>1 DEF Coherent, Runs, Steps, Within, AtTeam
  <2>3. GoesTo(w, n)
    BY <1>1 DEF Free, Goes
  <2> HIDE DEF n
  <2> QED BY <2>1, <2>2, <2>3, RunGoes DEF Alone
<1>2. ASSUME End(w) \/ Crash(w) PROVE Alone(w) /\ run'[w] = NoRun /\ run'[w].at = "idle"
  <2>1. Coherent(NoRun) /\ NoRun.at = "idle"
    BY DEF NoRun, Runs, Coherent, Steps, Within, AtTeam
  <2>2. GoesTo(w, NoRun)
    BY <1>2 DEF End, Crash
  <2> QED BY <2>1, <2>2, RunGoes DEF Alone
<1> QED BY <1>1, <1>2

-----------------------------------------------------------------------------
(***************************************************************************)
(* Transfers.  Who has found a transfer missing is about to write its row; *)
(* as many can be about to as there are runs at once.                      *)
(***************************************************************************)
Pending(d) == {w \in Workers : At(w, "create") /\ d \in run[w].found}
DealsInv ==
  /\ Cardinality(Busy) <= 1 + overlaps
  /\ \A d \in Deals : rows[d] + Cardinality(Pending(d)) <= 1 + overlaps

(* What a step does to the runs at once and to the rows.                   *)
LEMMA DealSteps ==
  ASSUME SyncTypes, [Next]_vars
  PROVE  \/ UNCHANGED <<run, rows, overlaps>>
         \/ \E w \in Workers :
              /\ Alone(w)
              /\ \/ /\ At(w, "idle") /\ run'[w].at # "create" /\ UNCHANGED rows
                    /\ overlaps' = IF Busy = {} THEN overlaps ELSE overlaps + 1
                 \/ /\ ~At(w, "idle") /\ UNCHANGED overlaps
                    /\ \/ UNCHANGED rows /\ run'[w].at # "create"
                       \/ UNCHANGED rows /\ \A d \in run'[w].found : rows[d] = 0
                       \/ /\ At(w, "create") /\ run'[w].at # "create"
                          /\ \E some \in SUBSET run[w].found :
                               rows' = [d \in Deals |-> rows[d] + IF d \in some THEN 1 ELSE 0]
<1>1. ASSUME NEW w \in Workers, NEW i \in DOMAIN queue, Take(w, i)
      PROVE  /\ Alone(w) /\ At(w, "idle") /\ run'[w].at # "create" /\ UNCHANGED rows
             /\ overlaps' = IF Busy = {} THEN overlaps ELSE overlaps + 1
  <2> DEFINE n == [NoRun EXCEPT !.at = "index", !.job = queue[i]]
  <2>0. queue[i] \in Jobs
    BY DEF SyncTypes, TypeOK
  <2>1. Coherent(n) /\ n.at = "index"
    BY <2>0 DEF Coherent, NoRun, Runs, Steps, Within, AtTeam
  <2> HIDE DEF n
  <2>2. GoesTo(w, n)
    BY <1>1 DEF Take, n
  <2> QED BY <1>1, <2>1, <2>2, RunGoes DEF Take, Alone, store
<1>2. ASSUME NEW w \in Workers, Leaves(w) \/ Ends(w) \/ MovesOn(w) \/ (\E s \in AtTeam \ {"create"} : GoesOn(w, s))
      PROVE  run'[w].at # "create"
  BY <1>2 DEF Leaves, Ends, MovesOn, GoesOn
<1>3. ASSUME NEW w \in Workers, Index(w) \/ League(w) \/ Team(w)
      PROVE  Alone(w) /\ ~At(w, "idle") /\ UNCHANGED <<rows, overlaps>> /\ run'[w].at # "create"
  <2>1. UNCHANGED <<rows, overlaps>>
    BY <1>3 DEF Index, League, Team, store
  <2>2. CASE Index(w)
    BY <2>1, <2>2, IndexSteps DEF At
  <2>3. CASE League(w)
    BY <1>2, <2>1, <2>3, LeagueSteps DEF At
  <2>4. CASE Team(w)
    BY <1>2, <2>1, <2>4, TeamSteps DEF At, AtTeam
  <2> QED BY <1>3, <2>2, <2>3, <2>4
<1>4. ASSUME NEW w \in Workers, PlayerPages(w) \/ Roster(w)
      PROVE  Alone(w) /\ ~At(w, "idle") /\ UNCHANGED <<rows, overlaps>> /\ run'[w].at # "create"
  <2>1. UNCHANGED <<rows, overlaps>>
    BY <1>4 DEF PlayerPages, Roster, Writes, PutsOff, store
  <2>2. CASE PlayerPages(w)
    BY <1>2, <2>1, <2>2, PlayersSteps DEF At, AtTeam
  <2>3. CASE Roster(w)
    BY <1>2, <2>1, <2>3, RosterSteps DEF At, AtTeam
  <2> QED BY <1>4, <2>2, <2>3
<1>5. ASSUME NEW w \in Workers, Transfers(w)
      PROVE  /\ Alone(w) /\ ~At(w, "idle") /\ UNCHANGED <<rows, overlaps>>
             /\ run'[w].at # "create" \/ \A d \in run'[w].found : rows[d] = 0
  BY <1>2, <1>5, TransfersSteps DEF At, Missing, Transfers, store
<1>6. ASSUME NEW w \in Workers, Create(w)
      PROVE  /\ Alone(w) /\ At(w, "create") /\ UNCHANGED overlaps /\ run'[w].at # "create"
             /\ \E some \in SUBSET run[w].found :
                  rows' = [d \in Deals |-> rows[d] + IF d \in some THEN 1 ELSE 0]
  BY <1>2, <1>6, CreateSteps DEF Create
<1>7. ASSUME NEW w \in Workers, Free(w) \/ End(w) \/ Crash(w)
      PROVE  Alone(w) /\ ~At(w, "idle") /\ UNCHANGED <<rows, overlaps>> /\ run'[w].at # "create"
  BY <1>7, LastSteps DEF Free, End, Crash, At, store
<1> QED
  BY <1>1, <1>3, <1>4, <1>5, <1>6, <1>7 DEF Next, Work, Change, NextDay, Enqueue, Seed, store, vars, At

LEMMA NextDealsInv == SyncTypes /\ DealsInv /\ [Next]_vars => DealsInv'
<1> SUFFICES ASSUME SyncTypes, DealsInv, [Next]_vars PROVE DealsInv'
  OBVIOUS
<1>0. IsFiniteSet(Workers) /\ overlaps \in Nat /\ rows \in [Deals -> Nat]
  BY ConstantsAssumption DEF SyncTypes, TypeOK
<1>1. /\ IsFiniteSet(Busy) /\ Cardinality(Busy) \in Nat
      /\ \A d : IsFiniteSet(Pending(d)) /\ Cardinality(Pending(d)) \in Nat
      /\ \A d : Cardinality(Pending(d)) <= Cardinality(Busy)
  <2>1. Busy \subseteq Workers /\ \A d : Pending(d) \subseteq Busy
    BY DEF Busy, Pending, At
  <2>2. IsFiniteSet(Busy)
    BY <1>0, <2>1, FS_Subset
  <2> QED BY <2>1, <2>2, FS_Subset, FS_CardinalityType
<1>p. /\ Cardinality(Busy') \in Nat
      /\ \A d : /\ Cardinality(Pending(d)') \in Nat
                /\ Cardinality(Pending(d)') <= Cardinality(Busy')
  <2>1. Busy' \subseteq Workers /\ \A d : Pending(d)' \subseteq Busy'
    BY DEF Busy, Pending, At
  <2>2. IsFiniteSet(Busy')
    BY <1>0, <2>1, FS_Subset
  <2> QED BY <2>1, <2>2, FS_Subset, FS_CardinalityType
<1>2. CASE UNCHANGED <<run, rows, overlaps>>
  BY <1>2 DEF DealsInv, Busy, Pending, At
<1>3. SUFFICES ASSUME NEW w \in Workers, Alone(w),
                      \/ /\ At(w, "idle") /\ run'[w].at # "create" /\ UNCHANGED rows
                         /\ overlaps' = IF Busy = {} THEN overlaps ELSE overlaps + 1
                      \/ /\ ~At(w, "idle") /\ UNCHANGED overlaps
                         /\ \/ UNCHANGED rows /\ run'[w].at # "create"
                            \/ UNCHANGED rows /\ \A d \in run'[w].found : rows[d] = 0
                            \/ /\ At(w, "create") /\ run'[w].at # "create"
                               /\ \E some \in SUBSET run[w].found :
                                    rows' = [d \in Deals |-> rows[d] + IF d \in some THEN 1 ELSE 0]
                PROVE  DealsInv'
  BY <1>2, DealSteps
<1>4. /\ Cardinality(Busy') = Cardinality(Busy) + In(w, Busy') - In(w, Busy)
      /\ \A d : Cardinality(Pending(d)') = Cardinality(Pending(d)) + In(w, Pending(d)') - In(w, Pending(d))
  <2>1. Busy \ {w} = Busy' \ {w} /\ \A d : Pending(d) \ {w} = Pending(d)' \ {w}
    BY <1>3 DEF Alone, Busy, Pending, At
  <2> QED BY <1>1, <2>1, OneElement
<1>5. /\ In(w, Busy) \in {0, 1} /\ In(w, Busy') \in {0, 1}
      /\ \A d : In(w, Pending(d)) \in {0, 1} /\ In(w, Pending(d)') \in {0, 1}
  BY DEF In
<1>6. CASE /\ At(w, "idle") /\ run'[w].at # "create" /\ UNCHANGED rows
           /\ overlaps' = IF Busy = {} THEN overlaps ELSE overlaps + 1
  <2>1. In(w, Busy) = 0 /\ \A d : In(w, Pending(d)') = 0
    BY <1>6 DEF In, Busy, Pending, At
  <2>2. Busy = {} => Cardinality(Busy) = 0
    BY FS_EmptySet
  <2>3. Cardinality(Busy') <= 1 + overlaps'
    BY <1>0, <1>1, <1>4, <1>5, <1>6, <2>1, <2>2 DEF DealsInv
  <2>4. ASSUME NEW d \in Deals PROVE rows'[d] + Cardinality(Pending(d)') <= 1 + overlaps'
    <3>1. rows[d] \in Nat /\ rows'[d] = rows[d] /\ overlaps' >= overlaps /\ overlaps' \in Nat
      BY <1>0, <1>6
    <3>2. Cardinality(Pending(d)') <= Cardinality(Pending(d)) /\ Cardinality(Pending(d)') \in Int
      BY <1>1, <1>4, <1>5, <2>1
    <3> QED BY <1>0, <1>1, <3>1, <3>2 DEF DealsInv
  <2> QED BY <2>3, <2>4 DEF DealsInv
<1>7. CASE ~At(w, "idle") /\ UNCHANGED overlaps
  <2>1. In(w, Busy) = 1
    BY <1>7 DEF In, Busy
  <2>2. Cardinality(Busy') <= 1 + overlaps'
    BY <1>0, <1>1, <1>4, <1>5, <1>7, <2>1 DEF DealsInv
  <2>3. ASSUME NEW d \in Deals PROVE rows'[d] + Cardinality(Pending(d)') <= 1 + overlaps'
    <3>1. /\ rows[d] \in Nat /\ Cardinality(Pending(d)) \in Nat /\ Cardinality(Pending(d)') \in Nat
          /\ Cardinality(Pending(d)') = Cardinality(Pending(d)) + In(w, Pending(d)') - In(w, Pending(d))
      BY <1>0, <1>1, <1>4, <1>p
    <3>2. /\ rows[d] + Cardinality(Pending(d)) <= 1 + overlaps
          /\ Cardinality(Pending(d)') <= Cardinality(Busy') /\ Cardinality(Busy') \in Nat
      BY <1>p DEF DealsInv
    <3>3. In(w, Pending(d)) \in {0, 1} /\ In(w, Pending(d)') \in {0, 1}
      BY <1>5
    <3>4. CASE UNCHANGED rows /\ run'[w].at # "create"
      <4>1. In(w, Pending(d)') = 0
        BY <3>4 DEF In, Pending, At
      <4> QED BY <1>0, <1>7, <3>1, <3>2, <3>3, <3>4, <4>1
    <3>5. CASE UNCHANGED rows /\ \A e \in run'[w].found : rows[e] = 0
      <4>1. CASE rows[d] = 0
        BY <1>0, <1>7, <2>2, <3>1, <3>2, <3>5, <4>1
      <4>2. CASE rows[d] # 0
        <5>1. In(w, Pending(d)') = 0
          BY <3>5, <4>2 DEF In, Pending, At
        <5> QED BY <1>0, <1>7, <3>1, <3>2, <3>3, <3>5, <5>1
      <4> QED BY <4>1, <4>2
    <3>6. ASSUME At(w, "create"), run'[w].at # "create", NEW some \in SUBSET run[w].found,
                 rows' = [e \in Deals |-> rows[e] + IF e \in some THEN 1 ELSE 0]
          PROVE  rows'[d] + Cardinality(Pending(d)') <= 1 + overlaps'
      <4>1. In(w, Pending(d)') = 0 /\ (d \in some => In(w, Pending(d)) = 1)
        BY <3>6 DEF In, Pending, At
      <4>2. rows'[d] = rows[d] + IF d \in some THEN 1 ELSE 0
        BY <3>6
      <4> QED BY <1>0, <1>7, <3>1, <3>2, <3>3, <4>1, <4>2
    <3> QED BY <1>3, <1>7, <3>4, <3>5, <3>6
  <2> QED BY <2>2, <2>3 DEF DealsInv
<1> QED BY <1>3, <1>6, <1>7

(* A transfer that is looked up and then created gets one row, and one     *)
(* more at most for each run that overlapped another                       *)
(* (football-data.sync.service.ts:643, syncTransfersForTeam).              *)
THEOREM OneRowForEachDeal == Spec => []OneRowPerDeal
<1>1. Init => SyncTypes /\ DealsInv
  <2> SUFFICES ASSUME Init PROVE DealsInv
    BY InitSyncTypes
  <2>1. Busy = {} /\ \A d : Pending(d) = {}
    BY DEF Init, Busy, Pending, At, NoRun
  <2>2. Cardinality({}) = 0
    BY FS_EmptySet
  <2>3. overlaps = 0 /\ rows = [d \in Deals |-> 0]
    BY DEF Init
  <2> QED BY <2>1, <2>2, <2>3 DEF DealsInv
<1>2. SyncTypes /\ DealsInv /\ [Next]_vars => (SyncTypes /\ DealsInv)'
  BY NextSyncTypes, NextDealsInv
<1>3. SyncTypes /\ DealsInv => OneRowPerDeal
  <2> SUFFICES ASSUME SyncTypes, DealsInv, NEW d \in Deals PROVE rows[d] <= 1 + overlaps
    BY DEF OneRowPerDeal
  <2>1. Cardinality(Pending(d)) \in Nat
    BY ConstantsAssumption, FS_Subset, FS_CardinalityType DEF Pending
  <2> QED BY <2>1 DEF DealsInv, SyncTypes, TypeOK
<1> QED BY <1>1, <1>2, <1>3, PTL DEF Spec

-----------------------------------------------------------------------------
(***************************************************************************)
(* Who holds a league that was asked for: a job that waits, or a run that  *)
(* has not come to it or has not done with it.                             *)
(***************************************************************************)
Waits(l) == \E i \in DOMAIN queue : l \in queue[i].leagues
Owes(w, l) ==
  /\ ~At(w, "idle")
  /\ \/ At(w, "index") /\ l \in run[w].job.leagues
     \/ l \in run[w].targets
     \/ run[w].at \in Within /\ l = run[w].league
PutOffInv ==
  faults = 0 => \A l \in asked \ (tried \cup stuck) : Waits(l) \/ \E w \in Workers : Owes(w, l)

LEMMA FaultsStay ==
  ASSUME SyncTypes, [Next]_vars
  PROVE  /\ faults' = 0 => faults = 0
         /\ faults' = 0 => \A w \in Workers : ~Fault(w) /\ ~Unanswered(w) /\ ~RowFails(w)
<1>1. faults \in Nat
  BY DEF SyncTypes, TypeOK
<1>2. faults' \in {faults, faults + 1}
  BY RequestsMade DEF Answered, Fault
<1> QED BY <1>1, <1>2 DEF Fault, Unanswered, RowFails

(* Between the start of a league and its end the run holds it.             *)
LEMMA StillOwes ==
  ASSUME NEW w \in Workers, NEW l,
         Leaves(w) \/ \E s \in AtTeam : GoesOn(w, s),
         l \in run'[w].targets \/ l = run'[w].league, l \notin tried'
  PROVE  Owes(w, l)'
BY DEF Leaves, GoesOn, Owes, At, Within, AtTeam

LEMMA WorkOwes ==
  ASSUME SyncTypes, [Next]_vars, NEW w \in Workers, Work(w), faults' = 0,
         NEW l, Owes(w, l), l \notin tried' \cup stuck'
  PROVE  Owes(w, l)' \/ Waits(l)'
<1>0. ~Fault(w) /\ ~Unanswered(w) /\ ~RowFails(w)
  BY FaultsStay
<1>1. CASE Index(w)
  <2>1. /\ run[w].targets \subseteq run[w].job.leagues /\ run[w].at = "index"
        /\ \/ run'[w].at = "league" /\ run'[w].targets = run[w].job.leagues
           \/ stuck' = stuck \cup run[w].job.leagues
    BY <1>0, <1>1, IndexSteps, RunStays DEF At
  <2> QED BY <2>1 DEF Owes, At, Within, AtTeam
<1>2. CASE League(w)
  <2>1. l \in run[w].targets
    BY <1>2, LeagueSteps DEF Owes, At, Within, AtTeam
  <2>2. CASE run'[w].at = "end" /\ run'[w].targets = run[w].targets
    BY <2>1, <2>2 DEF Owes, At
  <2>3. ASSUME NEW k \in run[w].targets,
               run'[w].targets = run[w].targets \ {k}, run'[w].league = k,
               \/ run'[w].at \in {"league", "free"} /\ tried' = tried \cup {k}
               \/ Leaves(w)
        PROVE  Owes(w, l)'
    <3>1. CASE run'[w].at \in {"league", "free"} /\ tried' = tried \cup {k}
      BY <2>1, <2>3, <3>1 DEF Owes, At
    <3> QED BY <2>1, <2>3, <3>1, StillOwes
  <2> QED BY <1>2, <2>2, <2>3, LeagueSteps
<1>3. CASE Team(w)
  <2>1. Kept(w) /\ At(w, "team") /\ (Leaves(w) \/ GoesOn(w, "players"))
    BY <1>3, TeamSteps
  <2>2. l \in run'[w].targets \/ l = run'[w].league
    BY <2>1 DEF Kept, Owes, At
  <2> QED BY <2>1, <2>2, StillOwes DEF AtTeam
<1>4. CASE PlayerPages(w) \/ Roster(w) \/ Transfers(w) \/ Create(w)
  <2>1. /\ run[w].at \in AtTeam
        /\ \/ Ends(w) /\ run'[w].targets = run[w].targets \cup {run[w].league}
           \/ Kept(w) /\ (Leaves(w) \/ \E s \in AtTeam : GoesOn(w, s))
    BY <1>0, <1>4, PlayersSteps, RosterSteps, TransfersSteps, CreateSteps DEF At, AtTeam
  <2>2. l \in run[w].targets \/ l = run[w].league
    BY <2>1 DEF Owes, At, AtTeam
  <2>3. CASE Ends(w) /\ run'[w].targets = run[w].targets \cup {run[w].league}
    BY <2>2, <2>3 DEF Ends, Owes, At
  <2>4. CASE Kept(w) /\ (Leaves(w) \/ \E s \in AtTeam : GoesOn(w, s))
    BY <2>2, <2>4, StillOwes DEF Kept
  <2> QED BY <2>1, <2>3, <2>4
<1>5. CASE Free(w)
  BY <1>5, LastSteps DEF Owes, At, Within, AtTeam
<1>6. CASE End(w)
  <2> DEFINE rest == run[w].targets
             job == [leagues |-> rest, day |-> NextReset, stalled |-> FALSE]
  <2>1. l \in rest /\ rest \in SUBSET Leagues
    BY <1>6, RunStays DEF End, Owes, At, Within, AtTeam
  <2>2. queue' = Append(queue, job)
    BY <1>0, <1>6, <2>1 DEF End
  <2>3. queue \in Seq(Jobs) /\ day \in 1..MaxDays /\ MaxDays \in Nat
    BY ConstantsAssumption DEF SyncTypes, TypeOK
  <2>4. job \in Jobs /\ job.leagues = rest
    BY <2>1, <2>3 DEF Jobs, NextReset
  <2> HIDE DEF job
  <2>5. \E k \in DOMAIN queue' : queue'[k] = job
    BY <2>2, <2>3, <2>4, QueueGrows
  <2> QED BY <2>1, <2>4, <2>5 DEF Waits
<1> QED BY <1>1, <1>2, <1>3, <1>4, <1>5, <1>6 DEF Work

(* A step of a run settles leagues and adds a job at most.                 *)
LEMMA WorkSettles ==
  ASSUME SyncTypes, NEW w \in Workers, Work(w)
  PROVE  /\ Alone(w) /\ UNCHANGED asked /\ tried \subseteq tried' /\ stuck \subseteq stuck'
         /\ UNCHANGED queue \/ \E job \in Jobs : queue' = Append(queue, job)
<1>1. ASSUME Leaves(w) \/ Ends(w) \/ \E s \in AtTeam : GoesOn(w, s) PROVE tried \subseteq tried'
  BY <1>1 DEF Leaves, Ends, GoesOn
<1>2. CASE Index(w)
  BY <1>2, IndexSteps DEF Index
<1>3. CASE League(w)
  BY <1>1, <1>3, LeagueSteps DEF League
<1>4. CASE Team(w)
  BY <1>1, <1>4, TeamSteps DEF Team, AtTeam
<1>5. CASE PlayerPages(w) \/ Roster(w) \/ Transfers(w) \/ Create(w)
  <2>1. Alone(w) /\ tried \subseteq tried'
    BY <1>1, <1>5, PlayersSteps, RosterSteps, TransfersSteps, CreateSteps DEF MovesOn, AtTeam
  <2> QED BY <1>5, <2>1 DEF PlayerPages, Roster, Transfers, Create
<1>6. CASE Free(w)
  BY <1>6, LastSteps DEF Free
<1>7. CASE End(w)
  <2> DEFINE job == [leagues |-> run[w].targets, day |-> NextReset, stalled |-> FALSE]
  <2>1. run[w].targets \in SUBSET Leagues
    BY <1>7, RunStays DEF End, At
  <2>2. job \in Jobs
    BY <2>1, ConstantsAssumption DEF Jobs, NextReset, SyncTypes, TypeOK
  <2> QED BY <1>7, <2>2, LastSteps DEF End
<1> QED BY <1>2, <1>3, <1>4, <1>5, <1>6, <1>7 DEF Work

LEMMA NextPutOffInv == SyncTypes /\ PutOffInv /\ [Next]_vars => PutOffInv'
<1> SUFFICES ASSUME SyncTypes, PutOffInv, [Next]_vars, faults' = 0,
                    NEW l, l \in asked' \ (tried' \cup stuck')
             PROVE  Waits(l)' \/ \E w \in Workers : Owes(w, l)'
  BY DEF PutOffInv
<1>0. queue \in Seq(Jobs) /\ faults = 0
  BY FaultsStay DEF SyncTypes, TypeOK
<1>1. ASSUME l \in asked \ (tried \cup stuck) PROVE Waits(l) \/ \E w \in Workers : Owes(w, l)
  BY <1>0, <1>1 DEF PutOffInv
<1>2. ASSUME NEW job \in Jobs, queue' = Append(queue, job), Waits(l) PROVE Waits(l)'
  BY <1>0, <1>2, QueueGrows DEF Waits
<1>3. CASE UNCHANGED <<queue, run, asked, tried, stuck>>
  BY <1>1, <1>3 DEF Waits, Owes, At
<1>4. ASSUME NEW ls \in Requests, Enqueue(ls)
      PROVE  Waits(l)' \/ \E w \in Workers : Owes(w, l)'
  <2> DEFINE job == [leagues |-> ls, day |-> day, stalled |-> FALSE]
  <2>1. job \in Jobs /\ job.leagues = ls
    BY ConstantsAssumption DEF Jobs, SyncTypes, TypeOK
  <2>2. queue' = Append(queue, job) /\ UNCHANGED run
    BY <1>4 DEF Enqueue
  <2> HIDE DEF job
  <2>3. CASE l \in ls
    BY <1>0, <2>1, <2>2, <2>3, QueueGrows DEF Waits
  <2>4. CASE l \notin ls
    <3>1. l \in asked \ (tried \cup stuck)
      BY <1>4, <2>4 DEF Enqueue
    <3>2. \A w \in Workers : Owes(w, l) => Owes(w, l)'
      BY <2>2 DEF Owes, At
    <3> QED BY <1>1, <1>2, <2>1, <2>2, <3>1, <3>2
  <2> QED BY <2>3, <2>4
<1>5. ASSUME NEW w \in Workers, NEW i \in DOMAIN queue, Take(w, i)
      PROVE  Waits(l)' \/ \E v \in Workers : Owes(v, l)'
  <2> DEFINE n == [NoRun EXCEPT !.at = "index", !.job = queue[i]]
  <2>0. queue[i] \in Jobs
    BY <1>0
  <2>1. Coherent(n) /\ n.at = "index" /\ n.job = queue[i]
    BY <2>0 DEF Coherent, NoRun, Runs, Steps, Within, AtTeam
  <2> HIDE DEF n
  <2>2. GoesTo(w, n) /\ At(w, "idle") /\ l \in asked \ (tried \cup stuck)
        /\ queue' = RemoveAt(queue, i)
    BY <1>5 DEF Take, n
  <2>3. Alone(w) /\ run'[w].at = "index" /\ run'[w].job = queue[i]
    BY <2>1, <2>2, RunGoes DEF Alone
  <2>4. ASSUME NEW v \in Workers, Owes(v, l) PROVE Owes(v, l)'
    BY <2>2, <2>3, <2>4 DEF Owes, At, Alone
  <2>5. ASSUME Waits(l) PROVE Waits(l)' \/ Owes(w, l)'
    <3>1. PICK j \in DOMAIN queue : l \in queue[j].leagues
      BY <2>5 DEF Waits
    <3>2. CASE j = i
      BY <2>3, <3>1, <3>2 DEF Owes, At
    <3>3. CASE j # i
      <4>1. \E k \in DOMAIN queue' : queue'[k] = queue[j]
        BY <1>0, <2>2, <3>3, QueueTaken
      <4> QED BY <3>1, <4>1 DEF Waits
    <3> QED BY <3>2, <3>3
  <2> QED BY <1>1, <2>2, <2>4, <2>5
<1>6. ASSUME NEW w \in Workers, Work(w)
      PROVE  Waits(l)' \/ \E v \in Workers : Owes(v, l)'
  <2>1. /\ UNCHANGED asked /\ tried \subseteq tried' /\ stuck \subseteq stuck' /\ Alone(w)
        /\ UNCHANGED queue \/ \E job \in Jobs : queue' = Append(queue, job)
    BY <1>6, WorkSettles
  <2>3. Waits(l) => Waits(l)'
    BY <1>2, <2>1 DEF Waits
  <2>4. ASSUME NEW v \in Workers, Owes(v, l) PROVE Owes(v, l)' \/ Waits(l)'
    <3>1. CASE v = w
      BY <1>6, <2>4, <3>1, WorkOwes
    <3>2. CASE v # w
      BY <2>1, <2>4, <3>2 DEF Alone, Owes, At
    <3> QED BY <3>1, <3>2
  <2> QED BY <1>1, <2>1, <2>3, <2>4
<1>7. ASSUME NEW w \in Workers, Crash(w) PROVE FALSE
  BY <1>7, FaultsStay DEF Crash
<1> QED
  BY <1>3, <1>4, <1>5, <1>6, <1>7 DEF Next, Change, NextDay, Seed, vars

(* Without a fault, a league that was asked for is not lost from sight: it *)
(* waits in a job, or a run is to read it, until it is read, reported, or  *)
(* given up with the index (football-data.sync.service.ts:139-147 and      *)
(* sync.processor.ts:53, where the rest of a run becomes a job).           *)
THEOREM NothingPutOffIsLost == Spec => []PutOffIsKept
<1>1. Init => SyncTypes /\ PutOffInv
  BY InitSyncTypes DEF Init, PutOffInv
<1>2. SyncTypes /\ PutOffInv /\ [Next]_vars => (SyncTypes /\ PutOffInv)'
  BY NextSyncTypes, NextPutOffInv
<1>3. SyncTypes /\ PutOffInv => PutOffIsKept
  <2> SUFFICES ASSUME SyncTypes, PutOffInv, faults = 0, NEW l \in asked \ (tried \cup stuck)
               PROVE  Waits(l) \/ \E w \in Busy : l \in run[w].job.leagues
    BY DEF PutOffIsKept, Waits
  <2>1. ASSUME NEW w \in Workers, Owes(w, l) PROVE w \in Busy /\ l \in run[w].job.leagues
    BY <2>1, RunStays DEF Owes, Busy
  <2> QED BY <2>1 DEF PutOffInv
<1> QED BY <1>1, <1>2, <1>3, PTL DEF Spec

-----------------------------------------------------------------------------
(***************************************************************************)
(* What a run that nothing disturbed has copied so far: the clubs of the   *)
(* domestic leagues it has read, and of the one it reads those it is done  *)
(* with.                                                                   *)
(***************************************************************************)
Underway(w) == run[w].at \in Within \cup {"league", "free"}
Fresh(w) == run[w].seenTeams = {} /\ run[w].seen = {} /\ run[w].synced = {}
Domestic(w) == run[w].at \in Within /\ run[w].league \notin Cups
Current(w) == {t \in Teams : run[w].at \in AtTeam /\ t = run[w].team}
Done(w) ==
  {t \in Teams : \/ plays[t] \in run[w].synced
                 \/ /\ Domestic(w) /\ plays[t] = run[w].league
                    /\ t \notin run[w].teams \cup Current(w)}
\* Cups come after the domestic leagues, and no league comes twice.
Order(w) ==
  /\ run[w].synced \cap (Cups \cup run[w].targets) = {}
  /\ \A t \in run[w].seenTeams : plays[t] \notin run[w].targets
  /\ run[w].at \in Within =>
       /\ run[w].league \notin run[w].targets \cup run[w].synced
       /\ run[w].league \in Cups => run[w].targets \subseteq Cups
       /\ run[w].league \notin Cups => \A t \in run[w].teams : plays[t] = run[w].league
  /\ run[w].at \in AtTeam =>
       /\ run[w].league \notin Cups /\ plays[run[w].team] = run[w].league
       /\ run[w].team \notin run[w].teams
ClubsCopied(w) == \A t \in Done(w) \cup Current(w) : teamLeague[t] = plays[t]
SeenCopied(w) ==
  \A p \in run[w].seen : /\ playerTeam[p] \in Listing(p) \cap (Done(w) \cup Current(w))
                         /\ ~isFree[p]
ListedSeen(w) == \A p \in Players : Listing(p) \cap Done(w) # {} => p \in run[w].seen
TeamSeen(w) ==
  /\ At(w, "roster") =>
       FetchSquads /\ run[w].listed = PlayersOf(run[w].team) /\ run[w].listed \subseteq run[w].seen
  /\ run[w].at \in {"transfers", "create"} =>
       \A p \in Players : run[w].team \in Listing(p) => p \in run[w].seen
Copied(w) == ClubsCopied(w) /\ SeenCopied(w) /\ ListedSeen(w) /\ TeamSeen(w)
CleanInv ==
  \A w \in clean : /\ Busy \subseteq {w} /\ (At(w, "index") => Fresh(w))
                   /\ Underway(w) => Order(w) /\ Copied(w)

(* The step that is done with a club.                                      *)
LEMMA ClubDone ==
  ASSUME SyncTypes, NEW w \in Workers, run[w].at \in AtTeam, UNCHANGED <<world, teamLeague>>,
         Order(w), ClubsCopied(w), Kept(w), SameTeam(w), Leaves(w),
         \A p \in run'[w].seen : /\ playerTeam'[p] \in Listing(p) \cap (Done(w) \cup Current(w))
                                 /\ ~isFree'[p],
         \A p \in Players : Listing(p) \cap (Done(w) \cup Current(w)) # {} => p \in run'[w].seen
  PROVE  Order(w)' /\ Copied(w)'
<1> DEFINE r == run[w]
<1>0. r.at \in Within /\ r.team \in Teams /\ UNCHANGED <<plays, squad, stats>>
  BY RunStays DEF Within, world
<1>1. /\ run'[w].targets = r.targets /\ run'[w].league = r.league /\ run'[w].teams = r.teams
      /\ run'[w].seenTeams = r.seenTeams
      /\ run'[w].at = IF r.teams # {} THEN "team" ELSE IF r.targets # {} THEN "league" ELSE "free"
      /\ run'[w].synced = IF r.teams = {} THEN r.synced \cup {r.league} ELSE r.synced
  BY DEF Kept, SameTeam, Leaves, Order
<1>2. run'[w].at \notin AtTeam \cup {"transfers", "create", "roster"}
  BY <1>1 DEF AtTeam
<1>3. run'[w].at \in Within <=> r.teams # {}
  BY <1>1 DEF AtTeam, Within
<1>4. Current(w) = {r.team} /\ Current(w)' = {}
  BY <1>0, <1>2 DEF Current
<1>5. Done(w)' = Done(w) \cup Current(w)
  <2>1. Done(w) \cup Current(w)
          = {t \in Teams : plays[t] \in r.synced \/ (plays[t] = r.league /\ t \notin r.teams)}
    BY <1>0, <1>4 DEF Done, Domestic, Order
  <2>2. Done(w)' = {t \in Teams : \/ plays[t] \in run'[w].synced
                                  \/ r.teams # {} /\ plays[t] = r.league /\ t \notin r.teams}
    BY <1>0, <1>1, <1>3, <1>4 DEF Done, Domestic, Order
  <2>3. CASE r.teams = {}
    BY <1>1, <2>1, <2>2, <2>3
  <2>4. CASE r.teams # {}
    BY <1>1, <2>1, <2>2, <2>4
  <2> QED BY <2>3, <2>4
<1>6. Order(w)'
  BY <1>0, <1>1, <1>2, <1>3 DEF Order
<1>7. \A p : Listing(p)' = Listing(p)
  BY <1>0 DEF Listing
<1> QED
  BY <1>2, <1>4, <1>5, <1>6, <1>7, <1>0
     DEF Copied, ClubsCopied, SeenCopied, ListedSeen, TeamSeen, At

(* The step that stays with a club.                                        *)
LEMMA ClubStays ==
  ASSUME SyncTypes, NEW w \in Workers, run[w].at \in AtTeam, UNCHANGED <<world, teamLeague>>,
         Order(w), ClubsCopied(w), Kept(w), SameTeam(w), NEW s \in AtTeam, GoesOn(w, s),
         run'[w].team = run[w].team
  PROVE  /\ Order(w)' /\ ClubsCopied(w)' /\ Done(w)' = Done(w) /\ Current(w)' = Current(w)
         /\ Current(w) = {run[w].team}
<1> DEFINE r == run[w]
<1>0. r.at \in Within /\ r.team \in Teams /\ UNCHANGED <<plays, squad, stats, teamLeague>>
      /\ s \in Within
  BY RunStays DEF Within, world
<1>1. /\ run'[w].targets = r.targets /\ run'[w].league = r.league /\ run'[w].teams = r.teams
      /\ run'[w].seenTeams = r.seenTeams /\ run'[w].at = s /\ run'[w].synced = r.synced
  BY DEF Kept, SameTeam, GoesOn
<1>2. Current(w) = {r.team} /\ Current(w)' = {r.team}
  BY <1>0, <1>1 DEF Current
<1>3. Done(w)' = Done(w)
  BY <1>0, <1>1, <1>2 DEF Done, Domestic
<1> QED BY <1>0, <1>1, <1>2, <1>3 DEF Order, ClubsCopied

LEMMA WorkKeepsWorld ==
  ASSUME NEW w \in Workers, Work(w)
  PROVE  UNCHANGED world /\ \A p : Listing(p)' = Listing(p)
<1>1. UNCHANGED world
  BY DEF Work, Index, League, Team, PlayerPages, Roster, Transfers, Create, Free, End
<1> QED BY <1>1 DEF Listing, world

LEMMA LeagueKeepsClean ==
  ASSUME SyncTypes, PlaysAtHome, NEW w \in Workers, League(w), Order(w), Copied(w)
  PROVE  Underway(w)' => Order(w)' /\ Copied(w)'
<1> DEFINE r == run[w]
<1>0. /\ UNCHANGED <<plays, squad, stats, teamLeague, playerTeam, isFree>> /\ r.at = "league"
      /\ r \in Runs /\ \A p : Listing(p)' = Listing(p)
  BY LeagueSteps, RunStays, WorkKeepsWorld DEF League, At, world, store, Work
<1>1. r.at \notin Within /\ run'[w].seen = r.seen /\ run'[w].seenTeams = r.seenTeams
  BY <1>0, LeagueSteps DEF Within, AtTeam
<1>2. CASE run'[w].at = "end"
  BY <1>2 DEF Underway, Within, AtTeam
<1>3. ASSUME run'[w].at \notin AtTeam, Done(w)' = Done(w) PROVE Copied(w)'
  <2>1. Current(w) = {} /\ Current(w)' = {}
    BY <1>1, <1>3 DEF Current, Within
  <2> QED BY <1>0, <1>1, <1>3, <2>1
          DEF Copied, ClubsCopied, SeenCopied, ListedSeen, TeamSeen, At, AtTeam
<1>4. ASSUME NEW l \in r.targets, run'[w].targets = r.targets \ {l},
             run'[w].at \in {"league", "free"}, run'[w].synced = r.synced
      PROVE  Order(w)' /\ Copied(w)'
  <2>1. run'[w].at \notin Within /\ run'[w].at \notin AtTeam
    BY <1>4 DEF Within, AtTeam
  <2>2. Done(w)' = Done(w)
    BY <1>0, <1>1, <1>4, <2>1 DEF Done, Domestic
  <2>3. Order(w)'
    BY <1>0, <1>1, <1>4, <2>1 DEF Order
  <2> QED BY <1>3, <2>1, <2>2, <2>3
<1>5. ASSUME NEW l \in r.targets, run'[w].targets = r.targets \ {l}, run'[w].league = l,
             l \in Cups => r.targets \subseteq Cups,
             run'[w].teams = TeamsOf(l) \ r.seenTeams, Leaves(w)
      PROVE  Order(w)' /\ Copied(w)'
  <2>1. /\ run'[w].at = IF run'[w].teams # {} THEN "team"
                        ELSE IF run'[w].targets # {} THEN "league" ELSE "free"
        /\ run'[w].synced = IF run'[w].teams = {} /\ l \notin Cups THEN r.synced \cup {l} ELSE r.synced
    BY <1>5 DEF Leaves
  <2>2. run'[w].at \notin AtTeam /\ (run'[w].at \in Within <=> run'[w].teams # {})
    BY <2>1 DEF Within, AtTeam
  <2>3. l \notin r.synced /\ \A t \in r.seenTeams : plays[t] # l
    BY <1>5 DEF Order
  <2>4. l \notin Cups => run'[w].teams = {t \in Teams : plays[t] = l}
    BY <1>5, <2>3 DEF TeamsOf
  <2>5. Current(w)' = {} /\ Done(w) = {t \in Teams : plays[t] \in r.synced}
    BY <1>1, <2>2 DEF Current, Done, Domestic
  <2>6. Done(w)' = {t \in Teams : \/ plays[t] \in run'[w].synced
                                  \/ /\ run'[w].teams # {} /\ l \notin Cups
                                     /\ plays[t] = l /\ t \notin run'[w].teams}
    BY <1>0, <1>5, <2>2, <2>5 DEF Done, Domestic
  <2>7. Done(w)' = Done(w)
    BY <2>1, <2>4, <2>5, <2>6
  <2>8. Order(w)'
    BY <1>0, <1>1, <1>5, <2>1, <2>2, <2>3, <2>4 DEF Order
  <2> QED BY <1>3, <2>2, <2>7, <2>8
<1> QED BY <1>2, <1>4, <1>5, LeagueSteps

LEMMA TeamKeepsClean ==
  ASSUME SyncTypes, PlaysAtHome, NEW w \in Workers, Team(w), ~Fault(w), Order(w), Copied(w)
  PROVE  Order(w)' /\ Copied(w)'
<1> DEFINE r == run[w]
<1>0. /\ UNCHANGED <<plays, squad, stats, playerTeam, isFree>> /\ r.at = "team" /\ r.at \in Within
      /\ r \in Runs /\ \A p : Listing(p)' = Listing(p)
      /\ r.targets \subseteq Leagues /\ teamLeague \in [Teams -> Leagues \cup {None}]
      /\ None \notin Leagues /\ plays \in [Teams -> (Leagues \ Cups) \cup {None}]
  BY TeamSteps, RunStays, WorkKeepsWorld, ConstantsAssumption
     DEF Team, At, world, Work, Within, Runs, SyncTypes, TypeOK, PlaysAtHome
<1>1. PICK t \in r.teams :
        /\ run'[w].teams = r.teams \ {t} /\ run'[w].seenTeams = r.seenTeams \cup {t}
        /\ teamLeague' = [teamLeague EXCEPT ![t] = LeagueAfter(t, r.league)]
        /\ IF r.league \in Cups THEN Leaves(w) ELSE GoesOn(w, "players") /\ run'[w].team = t
  BY TeamSteps DEF RowFails
<1>2. /\ run'[w].targets = r.targets /\ run'[w].league = r.league /\ run'[w].seen = r.seen
      /\ t \in Teams
  BY <1>0, TeamSteps DEF Kept, Runs
<1>3. Current(w) = {}
  BY <1>0 DEF Current, AtTeam
<1>4. CASE r.league \in Cups
  <2>1. /\ run'[w].synced = r.synced
        /\ run'[w].at \notin AtTeam
    BY <1>1, <1>2, <1>4 DEF Leaves, AtTeam
  <2>2. Current(w)' = {} /\ Done(w)' = Done(w)
    BY <1>0, <1>2, <1>4, <2>1 DEF Current, Done, Domestic
  <2>3. \A s \in Done(w) : teamLeague'[s] = teamLeague[s]
    <3>1. \A s \in Done(w) : plays[s] \in r.synced /\ r.synced \subseteq Leagues
      BY <1>0, <1>4 DEF Done, Domestic, Runs
    <3>2. \A s \in Done(w) : teamLeague[s] # None
      BY <1>0, <3>1 DEF Copied, ClubsCopied
    <3> QED BY <1>0, <1>1, <1>2, <1>4, <3>2 DEF LeagueAfter, Done
  <2>4. Copied(w)'
    BY <1>0, <1>2, <1>3, <2>1, <2>2, <2>3
       DEF Copied, ClubsCopied, SeenCopied, ListedSeen, TeamSeen, At, AtTeam
  <2>5. Order(w)'
    <3>1. plays[t] \notin r.targets
      BY <1>0, <1>2, <1>4 DEF Order
    <3> QED BY <1>0, <1>1, <1>2, <1>4, <2>1, <3>1 DEF Order
  <2> QED BY <2>4, <2>5
<1>5. CASE r.league \notin Cups
  <2>1. /\ run'[w].synced = r.synced /\ run'[w].at = "players" /\ run'[w].team = t
        /\ run'[w].at \in AtTeam /\ run'[w].at \in Within
    BY <1>1, <1>5 DEF GoesOn, AtTeam, Within
  <2>2. plays[t] = r.league
    BY <1>0, <1>5 DEF Order
  <2>3. Current(w)' = {t} /\ Done(w)' = Done(w)
    <3>1. Current(w)' = {t}
      BY <1>2, <2>1 DEF Current
    <3> QED BY <1>0, <1>1, <1>2, <1>3, <1>5, <2>1, <3>1 DEF Done, Domestic
  <2>4. \A s \in Done(w) \cup {t} : teamLeague'[s] = plays[s]
    BY <1>0, <1>1, <1>2, <1>5, <2>2 DEF LeagueAfter, Copied, ClubsCopied, Done
  <2>5. Copied(w)'
    BY <1>0, <1>2, <1>3, <2>1, <2>3, <2>4
       DEF Copied, ClubsCopied, SeenCopied, ListedSeen, TeamSeen, At
  <2>6. Order(w)'
    BY <1>0, <1>1, <1>2, <1>5, <2>1, <2>2 DEF Order
  <2> QED BY <2>5, <2>6
<1> QED BY <1>4, <1>5

(* What a request for the current club adds is listed there.               *)
LEMMA WrittenIsListed ==
  ASSUME SyncTypes, NEW w \in Workers, run[w].at \in AtTeam, SeenCopied(w),
         NEW ps \in SUBSET Players, \A p \in ps : run[w].team \in Listing(p),
         Writes(ps, run[w].team), run'[w].seen = run[w].seen \cup ps
  PROVE  \A p \in run'[w].seen : /\ playerTeam'[p] \in Listing(p) \cap (Done(w) \cup Current(w))
                                 /\ ~isFree'[p]
<1>1. run[w].team \in Current(w) /\ run[w].seen \subseteq Players
  BY RunStays DEF Current, Runs
<1>2. ASSUME NEW p \in ps
      PROVE  playerTeam'[p] \in Listing(p) \cap (Done(w) \cup Current(w)) /\ ~isFree'[p]
  BY <1>1, <1>2 DEF Writes
<1>3. ASSUME NEW p \in run[w].seen \ ps
      PROVE  playerTeam'[p] \in Listing(p) \cap (Done(w) \cup Current(w)) /\ ~isFree'[p]
  <2>1. playerTeam'[p] = playerTeam[p] /\ isFree'[p] = isFree[p]
    BY <1>1 DEF Writes
  <2> QED BY <2>1 DEF SeenCopied
<1> QED BY <1>2, <1>3

LEMMA PlayersKeepClean ==
  ASSUME SyncTypes, NEW w \in Workers, PlayerPages(w), ~Fault(w), Order(w), Copied(w)
  PROVE  Underway(w)' => Order(w)' /\ Copied(w)'
<1> DEFINE r == run[w]
           ps == PlayersOf(r.team)
<1>0. /\ UNCHANGED <<world, plays, squad, stats>> /\ r.at = "players" /\ r.at \in AtTeam
      /\ r.team \in Teams /\ \A p : Listing(p)' = Listing(p)
  BY PlayersSteps, RunStays, WorkKeepsWorld DEF At, world, Work, AtTeam
<1>1. CASE run'[w].at = "end"
  BY <1>1 DEF Underway, Within, AtTeam
<1>2. SUFFICES ASSUME Kept(w), SameTeam(w), Writes(ps, r.team), run'[w].seen = r.seen \cup ps,
                      \/ Leaves(w) /\ ~FetchSquads
                      \/ /\ run'[w].team = r.team
                         /\ \/ /\ GoesOn(w, "roster") /\ FetchSquads
                               /\ run'[w].listed = ps
                            \/ GoesOn(w, "transfers") /\ ~FetchSquads
               PROVE  Order(w)' /\ Copied(w)'
  BY <1>1, PlayersSteps DEF Ends, RowFails, Unanswered
<1>3. UNCHANGED teamLeague
  BY <1>2 DEF Writes
<1>4. \A p \in run'[w].seen : /\ playerTeam'[p] \in Listing(p) \cap (Done(w) \cup Current(w))
                              /\ ~isFree'[p]
  <2>1. ps \in SUBSET Players /\ \A p \in ps : r.team \in Listing(p)
    BY <1>0 DEF PlayersOf, Listing
  <2> QED BY <1>0, <1>2, <2>1, WrittenIsListed DEF Copied
<1>5. /\ \A p \in Players : Listing(p) \cap Done(w) # {} => p \in run'[w].seen
      /\ ~FetchSquads => \A p \in Players : r.team \in Listing(p) => p \in run'[w].seen
  BY <1>0, <1>2 DEF Copied, ListedSeen, Listing, PlayersOf
<1>6. Current(w) = {r.team}
  BY <1>0 DEF Current
<1>7. CASE Leaves(w) /\ ~FetchSquads
  BY <1>0, <1>2, <1>3, <1>4, <1>5, <1>6, <1>7, ClubDone DEF Copied
<1>8. CASE run'[w].team = r.team /\ GoesOn(w, "roster") /\ FetchSquads /\ run'[w].listed = ps
  <2>1. /\ Order(w)' /\ ClubsCopied(w)' /\ Done(w)' = Done(w) /\ Current(w)' = Current(w)
    BY <1>0, <1>2, <1>3, <1>8, ClubStays DEF Copied, AtTeam
  <2>2. TeamSeen(w)'
    BY <1>0, <1>2, <1>8 DEF TeamSeen, At, GoesOn, PlayersOf
  <2> QED BY <1>0, <1>4, <1>5, <2>1, <2>2 DEF Copied, SeenCopied, ListedSeen
<1>9. CASE run'[w].team = r.team /\ GoesOn(w, "transfers") /\ ~FetchSquads
  <2>1. /\ Order(w)' /\ ClubsCopied(w)' /\ Done(w)' = Done(w) /\ Current(w)' = Current(w)
    BY <1>0, <1>2, <1>3, <1>9, ClubStays DEF Copied, AtTeam
  <2>2. TeamSeen(w)'
    BY <1>0, <1>5, <1>9 DEF TeamSeen, At, GoesOn
  <2> QED BY <1>0, <1>4, <1>5, <2>1, <2>2 DEF Copied, SeenCopied, ListedSeen
<1> QED BY <1>2, <1>7, <1>8, <1>9

LEMMA RosterKeepsClean ==
  ASSUME SyncTypes, NEW w \in Workers, Roster(w), ~Fault(w), Order(w), Copied(w)
  PROVE  Underway(w)' => Order(w)' /\ Copied(w)'
<1> DEFINE r == run[w]
           ps == SquadOf(r.team) \ r.listed
<1>0. /\ UNCHANGED <<world, plays, squad, stats>> /\ r.at = "roster" /\ r.at \in AtTeam
      /\ r.team \in Teams /\ \A p : Listing(p)' = Listing(p)
  BY RosterSteps, RunStays, WorkKeepsWorld DEF At, world, Work, AtTeam
<1>1. CASE run'[w].at = "end"
  BY <1>1 DEF Underway, Within, AtTeam
<1>2. SUFFICES ASSUME Kept(w), SameTeam(w), Writes(ps, r.team), run'[w].seen = r.seen \cup ps,
                      Leaves(w) \/ (run'[w].team = r.team /\ GoesOn(w, "transfers"))
               PROVE  Order(w)' /\ Copied(w)'
  BY <1>1, RosterSteps DEF Ends, RowFails, Unanswered
<1>3. UNCHANGED teamLeague
  BY <1>2 DEF Writes
<1>s. FetchSquads /\ r.listed = PlayersOf(r.team) /\ r.listed \subseteq r.seen
  BY <1>0 DEF Copied, TeamSeen, At
<1>4. \A p \in run'[w].seen : /\ playerTeam'[p] \in Listing(p) \cap (Done(w) \cup Current(w))
                              /\ ~isFree'[p]
  <2>1. ps \in SUBSET Players /\ \A p \in ps : r.team \in Listing(p)
    BY <1>0, <1>s DEF SquadOf, Listing
  <2> QED BY <1>0, <1>2, <2>1, WrittenIsListed DEF Copied
<1>5. /\ \A p \in Players : Listing(p) \cap Done(w) # {} => p \in run'[w].seen
      /\ \A p \in Players : r.team \in Listing(p) => p \in run'[w].seen
  BY <1>0, <1>2, <1>s DEF Copied, ListedSeen, Listing, PlayersOf, SquadOf
<1>6. Current(w) = {r.team}
  BY <1>0 DEF Current
<1>7. CASE Leaves(w)
  BY <1>0, <1>2, <1>3, <1>4, <1>5, <1>6, <1>7, ClubDone DEF Copied
<1>8. CASE run'[w].team = r.team /\ GoesOn(w, "transfers")
  <2>1. /\ Order(w)' /\ ClubsCopied(w)' /\ Done(w)' = Done(w) /\ Current(w)' = Current(w)
    BY <1>0, <1>2, <1>3, <1>8, ClubStays DEF Copied, AtTeam
  <2>2. TeamSeen(w)'
    BY <1>0, <1>5, <1>8 DEF TeamSeen, At, GoesOn
  <2> QED BY <1>0, <1>4, <1>5, <2>1, <2>2 DEF Copied, SeenCopied, ListedSeen
<1> QED BY <1>2, <1>7, <1>8

LEMMA TransfersKeepClean ==
  ASSUME SyncTypes, NEW w \in Workers, Transfers(w) \/ Create(w), Order(w), Copied(w)
  PROVE  Underway(w)' => Order(w)' /\ Copied(w)'
<1> DEFINE r == run[w]
<1>0. /\ UNCHANGED <<world, plays, squad, stats>> /\ r.at \in {"transfers", "create"}
      /\ r.at \in AtTeam /\ UNCHANGED <<teamLeague, playerTeam, isFree>>
      /\ r.team \in Teams /\ \A p : Listing(p)' = Listing(p)
  BY TransfersSteps, CreateSteps, RunStays, WorkKeepsWorld DEF At, world, Work, AtTeam, store, Create
<1>1. CASE run'[w].at = "end"
  BY <1>1 DEF Underway, Within, AtTeam
<1>2. SUFFICES ASSUME Kept(w), SameTeam(w), run'[w].seen = r.seen,
                      Leaves(w) \/ (run'[w].team = r.team /\ GoesOn(w, "create"))
               PROVE  Order(w)' /\ Copied(w)'
  BY <1>1, TransfersSteps, CreateSteps DEF Ends
<1>3. Current(w) = {r.team} /\ \A p \in Players : r.team \in Listing(p) => p \in r.seen
  BY <1>0 DEF Current, Copied, TeamSeen
<1>4. CASE Leaves(w)
  BY <1>0, <1>2, <1>3, <1>4, ClubDone DEF Copied, SeenCopied, ListedSeen
<1>5. CASE run'[w].team = r.team /\ GoesOn(w, "create")
  <2>1. /\ Order(w)' /\ ClubsCopied(w)' /\ Done(w)' = Done(w) /\ Current(w)' = Current(w)
    BY <1>0, <1>2, <1>5, ClubStays DEF Copied, AtTeam
  <2>2. TeamSeen(w)'
    BY <1>0, <1>2, <1>3, <1>5 DEF TeamSeen, At, GoesOn
  <2> QED BY <1>0, <1>2, <2>1, <2>2 DEF Copied, SeenCopied, ListedSeen
<1> QED BY <1>2, <1>4, <1>5

LEMMA WorkKeepsClean ==
  ASSUME SyncTypes, PlaysAtHome, CleanInv, NEW v \in Workers, Work(v),
         NEW w \in clean'
  PROVE  /\ (Busy \subseteq {w})' /\ (At(w, "index") => Fresh(w))'
         /\ Underway(w)' => Order(w)' /\ Copied(w)'
<1>0. clean' \in {clean, clean \ {v}} /\ (Fault(v) => clean' = clean \ {v})
  BY DEF Work, Index, League, Team, PlayerPages, Roster, Transfers, Create, Free, End,
         Answered, Unanswered, RowFails, PutsOff, Fault
<1>1. v \in Busy /\ Alone(v)
  BY WorkSettles
     DEF Work, Index, League, Team, PlayerPages, Roster, Transfers, Create, Free, End, At, Busy
<1>2. w \in Workers /\ v = w /\ Busy \subseteq {w} /\ (At(w, "index") => Fresh(w))
      /\ (Underway(w) => Order(w) /\ Copied(w))
  BY <1>0, <1>1 DEF CleanInv
<1>3. ~Fault(w) /\ ~Unanswered(w) /\ ~RowFails(w)
  BY <1>0, <1>2 DEF Unanswered, RowFails
<1>4. (Busy \subseteq {w})'
  BY <1>1, <1>2 DEF Alone, Busy, At
<1>5. CASE Index(w)
  <2>1. /\ run'[w].at \in {"league", "end"} /\ At(w, "index")
        /\ run'[w].seenTeams = {} /\ run'[w].seen = {} /\ run'[w].synced = {}
    BY <1>2, <1>5, IndexSteps DEF Fresh
  <2>2. /\ run'[w].at \notin Within /\ run'[w].at \notin AtTeam
        /\ run'[w].at \notin {"roster", "transfers", "create", "index"}
    BY <2>1 DEF Within, AtTeam
  <2>3. Done(w)' = {} /\ Current(w)' = {}
    BY <2>1, <2>2 DEF Done, Domestic, Current
  <2>4. Order(w)'
    BY <2>1, <2>2 DEF Order
  <2>5. Copied(w)'
    BY <2>1, <2>2, <2>3 DEF Copied, ClubsCopied, SeenCopied, ListedSeen, TeamSeen, At
  <2> QED BY <1>4, <2>2, <2>4, <2>5 DEF At
<1>6. CASE League(w)
  <2>1. At(w, "league") /\ run'[w].at # "index"
    BY <1>2, <1>6, LeagueSteps DEF Leaves
  <2> QED BY <1>2, <1>4, <1>6, <2>1, LeagueKeepsClean DEF Underway, At
<1>7. CASE Team(w)
  <2>1. At(w, "team") /\ run'[w].at # "index"
    BY <1>2, <1>7, TeamSteps DEF Leaves, GoesOn
  <2> QED BY <1>2, <1>3, <1>4, <1>7, <2>1, TeamKeepsClean DEF Underway, At, Within
<1>8. CASE PlayerPages(w) \/ Roster(w) \/ Transfers(w) \/ Create(w)
  <2>1. run[w].at \in AtTeam /\ run'[w].at # "index"
    BY <1>2, <1>3, <1>8, PlayersSteps, RosterSteps, TransfersSteps, CreateSteps
       DEF Leaves, GoesOn, Ends, At, AtTeam
  <2>2. Order(w) /\ Copied(w)
    BY <1>2, <2>1 DEF Underway, Within
  <2>3. Underway(w)' => Order(w)' /\ Copied(w)'
    BY <1>2, <1>3, <1>8, <2>2, PlayersKeepClean, RosterKeepsClean, TransfersKeepClean
  <2> QED BY <1>4, <2>1, <2>3 DEF At
<1>9. CASE Free(w) \/ End(w)
  <2>1. run'[w].at \in {"end", "idle"}
    BY <1>2, <1>9, LastSteps
  <2> QED BY <1>4, <2>1 DEF At, Underway, Within, AtTeam
<1> QED BY <1>2, <1>5, <1>6, <1>7, <1>8, <1>9 DEF Work

LEMMA NextCleanInv == SyncTypes /\ PlaysAtHome /\ CleanInv /\ [Next]_vars => CleanInv'
<1> SUFFICES ASSUME SyncTypes, PlaysAtHome, CleanInv, [Next]_vars, NEW w \in clean'
             PROVE  /\ (Busy \subseteq {w})' /\ (At(w, "index") => Fresh(w))'
                    /\ Underway(w)' => Order(w)' /\ Copied(w)'
  BY DEF CleanInv
<1>1. CASE UNCHANGED <<world, store, run, clean>>
  <2>1. /\ Busy \subseteq {w} /\ (At(w, "index") => Fresh(w))
        /\ Underway(w) => Order(w) /\ Copied(w)
    BY <1>1 DEF CleanInv
  <2>2. UNCHANGED <<plays, squad, stats, teamLeague, playerTeam, isFree>>
    BY <1>1 DEF world, store
  <2>3. /\ Done(w)' = Done(w) /\ Current(w)' = Current(w) /\ \A p : Listing(p)' = Listing(p)
        /\ Order(w)' = Order(w) /\ Underway(w)' = Underway(w)
        /\ (At(w, "index") => Fresh(w))' = (At(w, "index") => Fresh(w)) /\ Busy' = Busy
    BY <1>1, <2>2 DEF Done, Current, Domestic, Listing, Order, Underway, Fresh, At, Busy
  <2>4. Copied(w) => Copied(w)'
    BY <1>1, <2>2, <2>3
       DEF Copied, ClubsCopied, SeenCopied, ListedSeen, TeamSeen, At, PlayersOf
  <2> QED BY <2>1, <2>3, <2>4
<1>2. CASE Change \/ \E t \in Teams : Seed(t)
  BY <1>2 DEF Change, Seed
<1>3. ASSUME NEW v \in Workers, NEW i \in DOMAIN queue, Take(v, i)
      PROVE  /\ (Busy \subseteq {w})' /\ (At(w, "index") => Fresh(w))'
             /\ Underway(w)' => Order(w)' /\ Copied(w)'
  <2> DEFINE n == [NoRun EXCEPT !.at = "index", !.job = queue[i]]
  <2>0. queue[i] \in Jobs
    BY DEF SyncTypes, TypeOK
  <2>1. /\ Coherent(n) /\ n.at = "index" /\ n.seenTeams = {} /\ n.seen = {} /\ n.synced = {}
    BY <2>0 DEF Coherent, NoRun, Runs, Steps, Within, AtTeam
  <2>2. GoesTo(v, n) /\ Busy = {} /\ v = w
    BY <1>3 DEF Take
  <2> HIDE DEF n
  <2>3. run'[w] = n /\ \A u \in Workers \ {w} : run'[u] = run[u]
    BY <2>1, <2>2, RunGoes
  <2> QED BY <2>1, <2>2, <2>3 DEF Busy, At, Fresh, Underway, Within, AtTeam
<1>4. ASSUME NEW v \in Workers, Crash(v) PROVE FALSE
  <2>1. v \in Busy /\ clean' = clean \ {v}
    BY <1>4 DEF Crash, Busy, Fault
  <2> QED BY <2>1 DEF CleanInv
<1> QED
  BY <1>1, <1>2, <1>3, <1>4, WorkKeepsClean DEF Next, NextDay, Enqueue, vars

(* A run that nothing disturbed leaves the tables as the provider has      *)
(* them: the clubs of the leagues it read in their league, who is listed   *)
(* there with a club that lists him and not free, and who is recorded      *)
(* there and not listed free (football-data.sync.service.ts:154, :428,     *)
(* :681).                                                                  *)
THEOREM CleanRunsMirror == Spec => CleanRunMirrors
<1>1. Init => SyncTypes /\ PlaysAtHome /\ CleanInv
  BY InitSyncTypes, ConstantsAssumption DEF Init, PlaysAtHome, CleanInv
<1>2. SyncTypes /\ PlaysAtHome /\ CleanInv /\ [Next]_vars => (SyncTypes /\ PlaysAtHome /\ CleanInv)'
  BY NextSyncTypes, NextPlaysAtHome, NextCleanInv
<1>3. SyncTypes /\ PlaysAtHome /\ CleanInv /\ [Next]_vars
        => [\A w \in clean' : Free(w) => Mirrors(w)]_vars
  <2> SUFFICES ASSUME SyncTypes, PlaysAtHome, CleanInv, NEW w \in clean', Free(w)
               PROVE  Mirrors(w)
    OBVIOUS
  <2> DEFINE read == {t \in Teams : plays[t] \in run[w].synced}
  <2>1. /\ w \in clean /\ ~RowFails(w) /\ run[w].at = "free" /\ run[w] \in Runs
        /\ w \in Workers
        /\ UNCHANGED <<teamLeague, playerTeam>>
        /\ isFree' = [p \in Players |-> isFree[p] \/ p \in Unseen(w)]
    BY DEF Free, RowFails, Fault, At, SyncTypes, TypeOK, Coherent
  <2>2. Order(w) /\ Copied(w)
    BY <2>1 DEF CleanInv, Underway
  <2>3. Done(w) = read /\ Current(w) = {}
    BY <2>1 DEF Done, Domestic, Current, Within, AtTeam
  <2>4. ASSUME NEW t \in read PROVE teamLeague'[t] = plays[t]
    BY <2>1, <2>2, <2>3 DEF Copied, ClubsCopied
  <2>5. ASSUME NEW p \in Players, Listing(p) \cap read # {}
        PROVE  playerTeam'[p] \in Listing(p) \cap read /\ ~isFree'[p]
    <3>1. p \in run[w].seen
      BY <2>2, <2>3, <2>5 DEF Copied, ListedSeen
    <3>2. playerTeam[p] \in Listing(p) \cap read /\ ~isFree[p]
      BY <2>2, <2>3, <3>1 DEF Copied, SeenCopied
    <3>3. p \notin Unseen(w)
      BY <3>1 DEF Unseen
    <3> QED BY <2>1, <3>2, <3>3
  <2>6. ASSUME NEW p \in Players, Listing(p) \cap read = {}, playerTeam'[p] \in read
        PROVE  isFree'[p]
    <3>1. p \notin run[w].seen
      BY <2>2, <2>3, <2>6 DEF Copied, SeenCopied
    <3>2. playerTeam[p] \in Teams /\ teamLeague[playerTeam[p]] \in run[w].synced
      BY <2>1, <2>4, <2>6
    <3>3. p \in Unseen(w)
      BY <3>1, <3>2, ConstantsAssumption DEF Unseen
    <3> QED BY <2>1, <3>3
  <2> QED BY <2>4, <2>5, <2>6 DEF Mirrors
<1> QED BY <1>1, <1>2, <1>3, PTL DEF Spec, CleanRunMirrors

=============================================================================
