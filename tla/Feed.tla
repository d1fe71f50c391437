-------------------------------- MODULE Feed --------------------------------
(***************************************************************************)
(* The "For you" feed (src/feed) with the tables it is made from: follows, *)
(* blocks, mutes, muted words and favourites (src/follows, src/blocks,     *)
(* src/favourites).                                                        *)
(*                                                                         *)
(* A request reads the reader's tables and what he has been served         *)
(* (Redis), asks three sources for posts, the third through a cache in the *)
(* process's memory, takes out what the reader must not or need not see,   *)
(* orders the rest, answers one page of it and marks that page as served.  *)
(* Posts come, go and change their hot score meanwhile; readers change     *)
(* their tables; Redis, a source or the last query may fail.               *)
(*                                                                         *)
(* A post's number is its createdAtUtc.  A set of rows read from the post  *)
(* table is a function from posts to their hot scores.                     *)
(***************************************************************************)
EXTENDS Integers, FiniteSets

CONSTANTS Users, Readers, Requests, None,  \* Readers: the users that ask and change their tables
          N,                       \* posts 1..N may come to exist
          HotScores,               \* integers a hot score takes
          OwnerOf, TopicsOf, WordsOf,  \* of a post: its author, team and player, words
          Topics, Words, Leagues, TeamsOf,
          Calls, FavouriteSets,    \* pages with seenIds, and sets of favourites, that clients send
          PageSize, SOURCE_LIMIT, MAX_RESULTS,
          SERVED_TTL, DISCOVERY_TTL,   \* lifetimes, in ticks of the clock
          MaxTime, MaxAsks,
          MaxDisturbances          \* changes of the tables and faults together

VARIABLES
    now, posts,                              \* the clock and the post table
    follows, blocks, mutes, keywords, favourites,   \* each user's rows
    served,                                  \* Redis: feed:served:<user>
    cache,                                   \* DiscoverySource.cache
    request,
    shown,                                   \* when a post was last answered to a user and marked
    deletedAt,                               \* when a post was deleted
    asks, changes, faults

tables == <<follows, blocks, mutes, keywords, favourites>>
vars == <<now, posts, tables, served, cache, request, shown, deletedAt, asks, changes, faults>>

Posts == 1..N
Rows == UNION {[S -> HotScores] : S \in SUBSET Posts}
Sources == {"favourite", "follow", "discovery"}
Favourites == ({"topic"} \X Topics) \cup ({"league"} \X Leagues) \cup ({"reporter"} \X Users)
NoRows == <<>>
Idle == [stage |-> "idle"]

TypeOK ==
    /\ now \in 0..MaxTime /\ posts \in Rows
    /\ {follows, blocks, mutes} \subseteq [Readers -> SUBSET Users]
    /\ keywords \in [Readers -> SUBSET Words] /\ favourites \in [Readers -> SUBSET Favourites]
    /\ served \in [Readers -> [ids : SUBSET Posts, expiresAt : 0..(MaxTime + SERVED_TTL)]]
    /\ cache = None \/ cache \in [rows : Rows, expiresAt : 0..(MaxTime + DISCOVERY_TTL)]
    /\ \A r \in Requests : request[r].stage \in {"idle", "asked", "queried", "collected"}
    /\ shown \in [Readers -> [Posts -> -1..MaxTime]] /\ deletedAt \in [Posts -> -1..MaxTime]

(***************************************************************************)
(* What the sources return: the hottest, newest first among equals.        *)
(***************************************************************************)
Hotter(rows, q, p) == rows[q] > rows[p] \/ (rows[q] = rows[p] /\ q > p)
Take(rows, S) ==
    LET top == {p \in S : Cardinality({q \in S : Hotter(rows, q, p)}) < SOURCE_LIMIT}
    IN  [p \in top |-> rows[p]]
\* FavouritesService.getTargets: a favourite league stands for its teams.
GetTargets(u) ==
    [topics |-> {f[2] : f \in {g \in favourites[u] : g[1] = "topic"}}
                  \cup UNION {TeamsOf[f[2]] : f \in {g \in favourites[u] : g[1] = "league"}},
     reporters |-> {f[2] : f \in {g \in favourites[u] : g[1] = "reporter"}}]
\* Blocks and mutes count alike here.
Suppressed(u) == blocks[u] \cup mutes[u]
ByFavourite(t) ==
    Take(posts, {p \in DOMAIN posts : TopicsOf[p] \cap t.topics # {} \/ OwnerOf[p] \in t.reporters})
ByAuthors(authors) == Take(posts, {p \in DOMAIN posts : OwnerOf[p] \in authors})
Discovery == Take(posts, DOMAIN posts)

(***************************************************************************)
(* Filters, scorers and selector, over a request that has its rows.        *)
(***************************************************************************)
\* Mutant: only what the request itself names is taken out, not what Redis holds.
KeptUnlessSent(q, p) ==
    /\ OwnerOf[p] # q.by /\ OwnerOf[p] \notin q.suppressed
    /\ WordsOf[p] \cap q.words = {} /\ p \notin q.sent
Kept(q, p) ==
    /\ OwnerOf[p] # q.by
    /\ OwnerOf[p] \notin q.suppressed
    /\ WordsOf[p] \cap q.words = {}
    /\ p \notin q.seen
From(q, s) == DOMAIN q.rows[s]
Candidates(q) == {p \in UNION {From(q, s) : s \in Sources} : Kept(q, p)}
\* PipelineRunner.dedup: the first source that has the post gives its row and its place.
Origin(q, p) == IF p \in From(q, "favourite") THEN 1 ELSE IF p \in From(q, "follow") THEN 2 ELSE 3
HotScore(q, p) == q.rows[<<"favourite", "follow", "discovery">>[Origin(q, p)]][p]
Before(q, a, b) ==
    \/ Origin(q, a) < Origin(q, b)
    \/ /\ Origin(q, a) = Origin(q, b)
       /\ \/ HotScore(q, a) > HotScore(q, b)
          \/ HotScore(q, a) = HotScore(q, b) /\ a > b
Affinity(q, p) ==
    IF p \in From(q, "follow") THEN 15 ELSE IF p \in From(q, "favourite") THEN 13 ELSE 10
OutOfNetwork(q, p) == IF p \in From(q, "favourite") \cup From(q, "follow") THEN 10 ELSE 8
\* The n-th post of an author, in the order of the scores so far, gets 0.9 / 2^n + 0.1.
Diversity(q, base) ==
    [p \in DOMAIN base |->
        LET n == Cardinality({c \in DOMAIN base :
                     /\ OwnerOf[c] = OwnerOf[p]
                     /\ base[c] > base[p] \/ (base[c] = base[p] /\ Before(q, c, p))})
        IN  base[p] * (100 + (900 \div 2 ^ n))]
Score(q) ==
    Diversity(q, [p \in Candidates(q) |-> HotScore(q, p) * Affinity(q, p) * OutOfNetwork(q, p)])
Place(score, p) ==
    Cardinality({c \in DOMAIN score : score[c] > score[p] \/ (score[c] = score[p] /\ c > p)})
\* TopNSelector, and the page of its result, pages counted from the first.
Page(q) ==
    LET score == Score(q)
    IN  {p \in DOMAIN score :
           LET n == Place(score, p) + 1
           IN  n <= MAX_RESULTS /\ n > (q.page - 1) * PageSize /\ n <= q.page * PageSize}

(***************************************************************************)
(* A request.                                                              *)
(***************************************************************************)
Fault(n) == changes + faults + n <= MaxDisturbances /\ faults' = faults + n
GetServed(u) == IF served[u].expiresAt > now THEN served[u].ids ELSE {}
\* The query is hydrated (a Redis that fails counts as nothing served), and the
\* discovery source looks into its cache.  owed is what the reader was told less than
\* SERVED_TTL ago.
Ask(r, u, page, sent) ==
    /\ request[r] = Idle /\ asks < MaxAsks /\ asks' = asks + 1
    /\ \E ok \in BOOLEAN :
         /\ Fault(IF ok THEN 0 ELSE 1)
         /\ request' = [request EXCEPT ![r] =
              [stage |-> "asked", by |-> u, page |-> page, since |-> now, sent |-> sent,
               favourite |-> GetTargets(u), following |-> follows[u],
               suppressed |-> Suppressed(u), words |-> keywords[u],
               seen |-> sent \cup (IF ok THEN GetServed(u) ELSE {}),
               owed |-> IF ok THEN {p \in Posts : shown[u][p] >= 0 /\ now - shown[u][p] < SERVED_TTL}
                              ELSE {},
               hit |-> IF DISCOVERY_TTL > 0 /\ cache # None /\ cache.expiresAt > now
                       THEN cache.rows ELSE None,
               rows |-> [s \in Sources |-> NoRows], failed |-> {}, there |-> {}]]
    /\ UNCHANGED <<now, posts, tables, served, cache, shown, deletedAt, changes>>
\* The sources' queries are answered, or some of them fail and their posts are missing.
Query(r) ==
    LET q == request[r] IN
    /\ q.stage = "asked"
    /\ \E failed \in SUBSET (IF q.hit = None THEN Sources ELSE Sources \ {"discovery"}) :
         /\ Fault(Cardinality(failed))
         /\ request' = [request EXCEPT ![r] =
              [q EXCEPT !.stage = "queried", !.failed = failed, !.there = DOMAIN posts,
                        !.favourite = None, !.following = {},
                        !.rows = [s \in Sources |->
                            IF s \in failed THEN NoRows
                            ELSE CASE s = "favourite" -> ByFavourite(q.favourite)
                                   [] s = "follow" -> ByAuthors(q.following)
                                   [] s = "discovery" -> IF q.hit = None THEN Discovery ELSE q.hit]]]
    /\ UNCHANGED <<now, posts, tables, served, cache, shown, deletedAt, asks, changes>>
\* Mutant: the lifetime of the cache counts from when the rows have come.
LivesFromAnswer(q) == now + DISCOVERY_TTL
ExpiresAt(q) == q.since + DISCOVERY_TTL
\* The rows arrive: discovery's are kept, and the page is made.
Collect(r) ==
    LET q == request[r] IN
    /\ q.stage = "queried"
    /\ cache' = IF q.hit = None /\ "discovery" \notin q.failed /\ DISCOVERY_TTL > 0
                THEN [rows |-> q.rows["discovery"], expiresAt |-> ExpiresAt(q)]
                ELSE cache
    /\ request' = [request EXCEPT ![r] =
         [stage |-> "collected", by |-> q.by, page |-> q.page, since |-> q.since,
          owed |-> q.owed, items |-> Page(q),
          full |-> Cardinality(From(q, "discovery")) >= SOURCE_LIMIT,
          degraded |-> q.failed # {} \/ q.hit # None,
          unseen |-> {p \in q.there : Kept(q, p)}]]
    /\ UNCHANGED <<now, posts, tables, served, shown, deletedAt, asks, changes, faults>>
Expire(u) == now + SERVED_TTL
\* The page is marked and answered; a Redis that fails does not keep it back.
Answer(r) ==
    LET q == request[r] u == q.by IN
    /\ q.stage = "collected"
    /\ \/ /\ q.items # {} /\ UNCHANGED faults
          /\ served' = [served EXCEPT ![u] = [ids |-> GetServed(u) \cup q.items, expiresAt |-> Expire(u)]]
          /\ shown' = [shown EXCEPT ![u] = [p \in Posts |-> IF p \in q.items THEN now ELSE @[p]]]
       \/ q.items = {} /\ UNCHANGED <<served, shown, faults>>
       \/ q.items # {} /\ Fault(1) /\ UNCHANGED <<served, shown>>
    /\ request' = [request EXCEPT ![r] = Idle]
    /\ UNCHANGED <<now, posts, tables, cache, deletedAt, asks, changes>>
\* The reader's own likes and votes cannot be read: the request fails, nothing is marked.
Fail(r) ==
    /\ request[r].stage = "collected" /\ Fault(1)
    /\ request' = [request EXCEPT ![r] = Idle]
    /\ UNCHANGED <<now, posts, tables, served, cache, shown, deletedAt, asks, changes>>
Tick ==
    /\ now < MaxTime /\ now' = now + 1
    /\ UNCHANGED <<posts, tables, served, cache, request, shown, deletedAt, asks, changes, faults>>

(***************************************************************************)
(* The post table and the tables of the readers.                           *)
(***************************************************************************)
Change == changes + faults < MaxDisturbances /\ changes' = changes + 1
NotTables == <<now, served, cache, request, shown, asks, faults>>
Create(p) ==
    /\ p \notin DOMAIN posts /\ deletedAt[p] = -1
    /\ posts' = [q \in DOMAIN posts \cup {p} |-> IF q = p THEN 0 ELSE posts[q]]
    /\ Change /\ UNCHANGED <<tables, deletedAt, NotTables>>
Rescore(p, h) ==
    /\ p \in DOMAIN posts /\ posts' = [posts EXCEPT ![p] = h] /\ posts' # posts
    /\ Change /\ UNCHANGED <<tables, deletedAt, NotTables>>
Delete(p) ==
    /\ p \in DOMAIN posts
    /\ posts' = [q \in DOMAIN posts \ {p} |-> posts[q]]
    /\ deletedAt' = [deletedAt EXCEPT ![p] = now]
    /\ Change /\ UNCHANGED <<tables, NotTables>>

Others == <<posts, deletedAt, NotTables>>
Follow(u, t) ==
    /\ u # t /\ t \notin follows[u] /\ follows' = [follows EXCEPT ![u] = @ \cup {t}]
    /\ Change /\ UNCHANGED <<blocks, mutes, keywords, favourites, Others>>
Unfollow(u, t) ==
    /\ t \in follows[u] /\ follows' = [follows EXCEPT ![u] = @ \ {t}]
    /\ Change /\ UNCHANGED <<blocks, mutes, keywords, favourites, Others>>
Block(u, t) ==
    /\ u # t /\ t \notin blocks[u] /\ blocks' = [blocks EXCEPT ![u] = @ \cup {t}]
    /\ Change /\ UNCHANGED <<follows, mutes, keywords, favourites, Others>>
Unblock(u, t) ==
    /\ t \in blocks[u] /\ blocks' = [blocks EXCEPT ![u] = @ \ {t}]
    /\ Change /\ UNCHANGED <<follows, mutes, keywords, favourites, Others>>
Mute(u, t) ==
    /\ u # t /\ t \notin mutes[u] /\ mutes' = [mutes EXCEPT ![u] = @ \cup {t}]
    /\ Change /\ UNCHANGED <<follows, blocks, keywords, favourites, Others>>
Unmute(u, t) ==
    /\ t \in mutes[u] /\ mutes' = [mutes EXCEPT ![u] = @ \ {t}]
    /\ Change /\ UNCHANGED <<follows, blocks, keywords, favourites, Others>>
AddKeyword(u, w) ==
    /\ w \notin keywords[u] /\ keywords' = [keywords EXCEPT ![u] = @ \cup {w}]
    /\ Change /\ UNCHANGED <<follows, blocks, mutes, favourites, Others>>
RemoveKeyword(u, w) ==
    /\ w \in keywords[u] /\ keywords' = [keywords EXCEPT ![u] = @ \ {w}]
    /\ Change /\ UNCHANGED <<follows, blocks, mutes, favourites, Others>>
AddFavourite(u, f) ==
    /\ f \notin favourites[u] /\ favourites' = [favourites EXCEPT ![u] = @ \cup {f}]
    /\ Change /\ UNCHANGED <<follows, blocks, mutes, keywords, Others>>
RemoveFavourite(u, f) ==
    /\ f \in favourites[u] /\ favourites' = [favourites EXCEPT ![u] = @ \ {f}]
    /\ Change /\ UNCHANGED <<follows, blocks, mutes, keywords, Others>>
\* PUT favourites: the whole set at once.
SetFavourites(u, F) ==
    /\ F # favourites[u] /\ favourites' = [favourites EXCEPT ![u] = F]
    /\ Change /\ UNCHANGED <<follows, blocks, mutes, keywords, Others>>

ChangeTables ==
    \E u \in Readers :
      \/ \E t \in Users : \/ Follow(u, t) \/ Unfollow(u, t) \/ Block(u, t) \/ Unblock(u, t)
                          \/ Mute(u, t) \/ Unmute(u, t)
      \/ \E w \in Words : AddKeyword(u, w) \/ RemoveKeyword(u, w)
      \/ \E f \in Favourites : AddFavourite(u, f) \/ RemoveFavourite(u, f)
      \/ \E F \in FavouriteSets : SetFavourites(u, F)
ChangePosts ==
    \E p \in Posts : Create(p) \/ Delete(p) \/ \E h \in HotScores : Rescore(p, h)

Init ==
    /\ now = 0 /\ posts = [p \in 1..(N - 1) |-> 0]
    /\ \E fan, hermit \in BOOLEAN :
         LET some(all, S) == IF all THEN S ELSE {}
         IN  /\ ~(fan /\ hermit)
             /\ follows = [u \in Readers |-> some(fan, Users \ {u})]
             /\ favourites = [u \in Readers |-> some(fan, Favourites)]
             /\ blocks = [u \in Readers |-> some(hermit, Users \ {u})]
             /\ mutes = blocks /\ keywords = [u \in Readers |-> some(hermit, Words)]
    /\ served = [u \in Readers |-> [ids |-> {}, expiresAt |-> 0]] /\ cache = None
    /\ request = [r \in Requests |-> Idle]
    /\ shown = [u \in Readers |-> [p \in Posts |-> -1]] /\ deletedAt = [p \in Posts |-> -1]
    /\ asks = 0 /\ changes = 0 /\ faults = 0
Next ==
    \/ \E r \in Requests :
         \/ \E u \in Readers, c \in Calls : Ask(r, u, c.page, c.seenIds)
         \/ Query(r) \/ Collect(r) \/ Answer(r) \/ Fail(r)
    \/ Tick \/ ChangeTables \/ ChangePosts
Spec == Init /\ [][Next]_vars

(***************************************************************************)
(* Properties.                                                             *)
(***************************************************************************)
Ready(r) == request[r].stage = "collected"

\* A post that was answered and marked less than SERVED_TTL before a request began is not
\* answered to it, whatever pages, new posts and changed tables come between, unless Redis
\* could not be read: each page prolongs the memory of all earlier ones
\* (feed-served.store.ts:36-41, filters/seen-served.filter.ts).
NotShownAgain == \A r \in Requests : Ready(r) => request[r].items \cap request[r].owed = {}

\* A deleted post is answered only to requests that began less than DISCOVERY_TTL after the
\* deletion: the cache all readers share holds nothing longer, also when its query was slow
\* and when two requests fill it at once (sources/discovery.source.ts:33-44).
DeletedSoonGone ==
    \A r \in Requests : Ready(r) =>
      \A p \in request[r].items :
        deletedAt[p] >= 0 => \/ request[r].since <= deletedAt[p]
                            \/ request[r].since - deletedAt[p] < DISCOVERY_TTL

\* Page 1 is empty although there are posts the reader has not seen and may see only when
\* SOURCE_LIMIT hotter ones stand before them, or a source failed or came from the cache
\* (feed.service.ts:110-112, sources/discovery.source.ts:39).
EmptyExplained ==
    \A r \in Requests :
      Ready(r) /\ request[r].page = 1 /\ request[r].items = {} /\ request[r].unseen # {}
        => request[r].full \/ request[r].degraded

\* What docs/mobile/FOR-YOU-FEED-INTEGRATION.md:133 says: an empty page 1 means that there
\* is nothing new to show.  (The sources' limit is applied before the filters.)
EmptyMeansNothingNew ==
    \A r \in Requests :
      Ready(r) /\ request[r].page = 1 /\ request[r].items = {} => request[r].unseen = {}
=============================================================================
