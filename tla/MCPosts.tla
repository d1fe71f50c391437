------------------------------ MODULE MCPosts ------------------------------
(***************************************************************************)
(* One post with what is done to it (Engagement), and the feed that shows  *)
(* posts to a reader (Feed).  Feed takes the scores as they come, so that  *)
(* the two have no state in common: a behaviour is of one of them, the     *)
(* other stays as it begins.                                               *)
(***************************************************************************)
EXTENDS Engagement, TLC

CONSTANTS u1, u2, p1, p2, me, reporter, team, league,
          None, Members, Readers, Requests, N, HotScores, Topics, Words, Leagues,
          PageSize, SOURCE_LIMIT, MAX_RESULTS, SERVED_TTL, DISCOVERY_TTL,
          MaxTime, MaxAsks, MaxDisturbances

\* The last conjunct is what the scores' halving comes to: whole numbers.
ASSUME FeedAssumption ==
    /\ N \in Nat /\ 0 \in HotScores /\ HotScores \subseteq Int
    /\ {PageSize, SOURCE_LIMIT, MAX_RESULTS} \subseteq Nat \ {0}
    /\ {SERVED_TTL, DISCOVERY_TTL} \subseteq Nat
    /\ \A n \in 0..N : 900 \div 2 ^ n \in Nat

VARIABLES what, now, posts, follows, blocks, mutes, keywords, favourites, served, cache,
          request, shown, deletedAt, asks, changes, lost

(* The reader's own post stands between two others; post 1 is about the team
   that is all of the league, post 3 has the muted word. *)
OwnerOf == [p \in 1..N |-> IF p = 2 THEN me ELSE reporter]
TopicsOf == [p \in 1..N |-> IF p = 1 THEN {team} ELSE {}]
WordsOf == [p \in 1..N |-> IF p = 3 THEN Words ELSE {}]
TeamsOf == [l \in Leagues |-> {team}]
Calls == {[page |-> 1, seenIds |-> {}], [page |-> 2, seenIds |-> {1}]}
FavouriteSets == {{<<"topic", team>>, <<"reporter", reporter>>}}

F == INSTANCE Feed WITH Users <- Members, faults <- lost

feedVars == <<now, posts, follows, blocks, mutes, keywords, favourites, served, cache,
              request, shown, deletedAt, asks, changes, lost>>

FeedInit == Init /\ F!Init /\ what = "feed"
BothInit ==
    /\ Init /\ F!Init /\ what \in {"engagement", "feed"}
    /\ what = "engagement" => \A u \in Readers : follows[u] = {} /\ blocks[u] = {}
BothNext ==
    /\ UNCHANGED what
    /\ \/ what = "engagement" /\ Next /\ UNCHANGED feedVars
       \/ what = "feed" /\ F!Next /\ UNCHANGED vars
BothSpec == BothInit /\ [][BothNext]_<<what, vars, feedVars>>
FeedSpec == FeedInit /\ [][BothNext]_<<what, vars, feedVars>>

Symmetry == Permutations(Users) \cup Permutations(Procs) \cup Permutations(Requests)

(***************************************************************************)
(* The properties of the feed, by their names there.                       *)
(***************************************************************************)
\* What was answered and marked is not answered again while the memory of it lasts
\* (feed-served.store.ts:36-41).
NotShownAgain == F!NotShownAgain
\* A deleted post is gone from answers when the cache of that time has lapsed
\* (sources/discovery.source.ts:33-44).
DeletedSoonGone == F!DeletedSoonGone
\* An empty first page that leaves posts unseen has one of three causes
\* (feed.service.ts:110-112, sources/discovery.source.ts:39).
EmptyExplained == F!EmptyExplained
\* An empty first page means that there is nothing new
\* (docs/mobile/FOR-YOU-FEED-INTEGRATION.md:133).
EmptyMeansNothingNew == F!EmptyMeansNothingNew
=============================================================================
