# tpulse-backend in TLA+

TransferPulse is a NestJS backend for football transfers, rumours and the social
feed around them. It keeps its state in Postgres (through Prisma), caches and
locks in Redis, and background work in BullMQ queues (also in Redis). Several
instances of the process may run at once; each one serves HTTP requests, runs
the cron jobs and works on the queues. Almost every operation is a chain of
awaited queries, and between two awaits anything else may happen.

This directory holds TLA+ models of the parts where that matters, the TLC
configurations that check them on small instances, and proofs that TLAPS checks.
`PROJECT.json` maps every definition to the lines it models and lists the runs,
the mutants, the findings, the hazards and the theorems.

## The system

| Component (under `src/src`) | State it keeps | Operations | What is hard | What makes it correct | Module |
|---|---|---|---|---|---|
| `messaging` | outbox rows (`createdAtUtc`, `processedAtUtc`, `retryCount`), BullMQ jobs, Redis lock `job:outbox:{id}` | enqueue, dispatch (cron), process (worker) | crashes, stalled jobs, lock TTL, `jobId` deduplication | an acknowledged row was applied; a duplicate needs a fault; every row is settled | `Outbox` |
| `posts`, `comments`, `transfer-comments`, `common/scoring` | like/vote/comment rows, denormalised counters, `hotScore` | react, vote, comment, delete, the outbox handlers | two writes per like, check-then-write votes, snapshot-then-write scores | counters equal rows | `Engagement` |
| `feed` | served sets in Redis, a cache in memory, the ranking pipeline | forYou | a limit before the filters, a set that is read and written around slow queries, an answer from the cache | a post is shown once; an unseen post is shown | `Feed` |
| `favourites`, `follows`, `blocks` | one row per pair | add, remove, replace | they change while a request uses what it has read | feed and audience follow them | `Feed`, `Notifications` |
| `auth` | users' passwords, refresh tokens, reset and verification tokens | login, refresh, logout, reset, verify | read-check-write over several queries, no transaction | a token is good for one use; a password reset ends the sessions | `Sessions` |
| `users`, `common/auth`, `profile` | `status`, `role`, Redis `auth:status:{id}` | ban, change role, delete; guard of every request | read-through cache against writers; check-then-act on the last admin; roles live in tokens | a banned user is refused; one active admin is left; what is taken away stops working at every endpoint | `Accounts`, `Access`, `Endpoints` |
| `transfers`, `ingestion` | transfer and rumour rows, soft deletion; posts with a `sourceId` | create, update, confirm, delete; ingest one external post | check-then-act duplicates, results that are ignored, the open rumour race | one projection per tweet; a confirmed transfer stays as confirmed | `Transfers` |
| `notifications` | notification rows, preferences | generate (outbox), read, mark | event handled after the transfer has changed | at most one per user, transfer and event type | `Notifications` |
| `integration/api-football`, `sync` | leagues, teams, players, transfers, sync runs, quota | syncAll, squads, seeding, resume | quota runs out midway, partial failure, several processes and one quota | no player is declared free by a squad that was not read; a league put off comes back | `FootballSync` |
| `waitlist` | subscriber rows, `launchEmailSentAt`, campaign rows | subscribe, unsubscribe, launch | send then mark, batches until none is left, several campaigns | one mail per address; the campaign ends | `Launch` |
| `admin/broadcast` | broadcast rows, notification rows | enqueue, process in batches | retry after a partial run, a cursor over changing rows | every active user once | `Broadcast` |
| `digests` | users' preferences, `lastRunAt` in Redis, mails | weekly digest, transfer alerts | one cron job per process, windows that overlap, offset pages over changing rows | a user gets each item once | `TransferAlerts`, `WeeklyDigest` |
| `common/redis`, the repositories and writers of `leagues`, `teams`, `players`, `transfers`, `search` | answers under keys, sets of keys under tags | getOrSet, invalidateTags | store after invalidate, a writer without the tag of what it writes | no stale answer after an invalidation | `ReadCache` |
| `common/interceptors` | `idem:*` keys | intercept | a key that outlives its failed handler, whose key it is | one execution per key | `Idempotency` |
| `reports` | report rows | create, review | review is several writes in several services | a resolved report did what it says | `Moderation` |
| `storage` and its callers in `leagues`, `teams`, `players`, `news`, `profile` and the synchronisation | objects in the bucket, a row's `*Url`, `*SourceUrl`, `*Locked` | upload, take by URL, remove, mirror | store then write, a lock read before a slow download | a locked picture is the administrator's; a row names what is stored | `Pictures` |
| `email`, `config`, `health`, `common/filters`, `common/i18n`, `admin/audit`, `admin/dashboard` | single rows, none | render, append, count | nothing that several actors could get wrong | | not modelled |

HTTP requests write rows and outbox rows; the dispatcher moves outbox rows to a
queue; workers apply them to posts, comments and notifications. Administrators
change users and content while requests of those users run. Cron jobs and
queues (`sync`, `launch`, `broadcast`, digests) read the same tables in batches,
and invalidate what the public catalogue keeps in Redis.

## Modules

A step of every model is one awaited call (one query, one Redis command, one
transaction): between two steps of a request or a worker any other process may
take one. What a process has read and not yet used is part of its state; that is
where the hard cases come from. Every module names its bounds in CONSTANTS; the
variables marked *ghost* are not in the code and only record history that the
properties speak of.

| Module | Models | State and actions against the code |
|---|---|---|
| `AtLeastOnce` | what the outbox promises its callers | an event is handed over, its effect is committed some number of times, and it is acknowledged only after that |
| `Outbox` | `messaging` | rows and BullMQ jobs keyed by the row's id; `Enqueue`, `DispatchRead`/`DispatchAdd` (cron, `queue.add`), `Take`..`Mark` (the awaits of `ReactionProcessor.process`), `ExpireLock` (600 s TTL), and BullMQ's own part: `RetryDue`, `Stalled`, `ToFailedSet`, `Complete` (external, from the options passed) |
| `Engagement` | `posts`, `comments`, `common/scoring`, the handlers of the queue | rows and counters of one post, and the outbox rows of its events; a process is a worker with an event or a vote request at `row`, `count`, `vote`, `read` (score computed), `write`, `mark`. Several workers may hold one outbox row, and one whose locks ran out (`Start` spends a fault) goes on after another has set `processedAtUtc` |
| `Feed` | `feed`, `follows`, `blocks`, `favourites` | the reader's tables, the served set with its TTL, the discovery source's cache; a request reads tables and served set, asks three sources, filters, scores, selects, answers and marks, each part a definition of its own |
| `Sessions` | `auth` | refresh and reset tokens of one user; login (`LoginCheck`, `LoginIssue`), rotation (`RotateCheck`, `RotateIssue`, `RotateRetire`), `Logout`, revoke-all, reset (`ResetFind`, `ResetApply`, `ResetRevoke`), `Crash` between any two |
| `Accounts` | `users`, `common/auth` | status and role rows against `auth:status:{id}`; a guard's check is read, row, fill; a back office change is read, count, write, cache |
| `Endpoints` | every controller | each endpoint with its `@Public`, `@Roles` of class and method and the service's own check, as a set of records |
| `Access` | the guards, tokens, `AdminUsersService` | a request passes `JwtAuthGuard`, `RolesGuard` and the check of whose row it is, while its user's role, status and account change; a clock of 60 s |
| `Transfers` | `transfers`, `ingestion` | the rows of one deal; each request reads first and writes by id later; ingestion is one transaction with its post |
| `Notifications` | `notifications`, `favourites` as far as they choose the audience | one transfer row, the users, workers at `begin`, `typed`, `listed`, `create`, `mark` of `generateForTransfer` |
| `FootballSync` | `integration/api-football`, `sync` | the provider's world and quota, the tables, the queue, the runs; a run is `Index`, `League`, `Team`, `PlayerPages`, `Roster`, `Transfers`, `Create`, `Free`, `End`, one request to the provider each |
| `Launch` | `waitlist` | addresses and campaigns, one job for each; a run reads a batch, sends, marks, reads again; a worker that lost its job (`late`) goes on, writes its rows and may die, but no longer moves the job |
| `Broadcast` | `admin/broadcast` | one announcement and its job; a run reads a page after its cursor, writes its notifications, records the count; late workers as in `Launch` |
| `TransferAlerts` | `digests/transfer-alert` | stamped, committed and deleted transfers, `lastRunAt`; a run reads its clock and the key, the window, what the follower has not switched off (`Wanted`), mails and writes the key |
| `WeeklyDigest` | `digests/weekly-digest` | pages by offset of the eligible users, in each process |
| `ReadCache` | `common/redis/cache.service.ts` with all its readers and writers | one key of any read, one of the tables in its answer, every writer of that table with the tags it invalidates; `Produce`, `Set`, `Tag` against `WriteRow`, `Members`, `Delete` |
| `Idempotency` | the interceptor | keys, requests before and in their handler |
| `Moderation` | `reports` | reports of one target, reviews at `delete`, `resolve`, `ban`, `save`, `mail` |
| `Pictures` | `storage` and its callers | one row, its objects under its own and the provider's id, uploads, forms, and the sync's read, mirror and write |
| `CardinalityFacts` | nothing | lemmas on cardinalities, and on the first elements of a set of numbers, that every `…Proofs` module cites |
| `MC…` | nothing | model values, fault budgets, sums |
| `…Proofs` | nothing | theorems: `OutboxProofs`, `FootballSyncProofs`, and for the sums `EngagementProofs` (`Engagement`, `Feed`), `SessionsProofs` (`Sessions`, `Idempotency`, `Moderation`, `Pictures`), `AccountsProofs` (`Accounts`, `ReadCache`, `Access`, `Endpoints`), `TransfersProofs` (`Transfers`, `TransferAlerts`, `WeeklyDigest`), `NotificationsProofs` (`Notifications`, `Launch`, `Broadcast`) |

**Composition.** `Notifications` does not repeat the queue. Its outbox is
`INSTANCE AtLeastOnce`, the abstract specification that `Outbox` is checked and
proved to implement. `Engagement` takes the same promise with outbox rows of its
own (`event`, `processed`): a row is given to any worker as long as it is not
processed, to a second one at the cost of a fault (a crash, a lapsed lock), and what
a worker does with it after another has finished it matters there. `Transfers` and `Notifications` look at the same
row from two sides: what becomes of the row, and who is told. `Access` composes
the guards with the table of `Endpoints`; `Feed` the pipeline with the tables
that follows, blocks and favourites change; `ReadCache` the cache with every
repository that reads through it and every service that writes behind it;
`Pictures` the back office's forms with the synchronisation.

**Sums.** Some `MC` modules hold several components that share no state:
`MCPosts` (`Engagement`, `Feed`), `MCRedis` (`Accounts`, `ReadCache`), `MCSessions`
(`Sessions`, `Idempotency`, `Moderation`, `Pictures`), `MCAccess` (`Accounts`,
`Access`), `MCTransfers` (`Transfers`, `TransferAlerts`, `WeeklyDigest`) and
`MCMailings` (`Launch`, `Broadcast`). `MCOutbox` is the sum of `Outbox` in three kinds
of trouble, with constants and fault budgets of their own. A behaviour of a sum is a behaviour of one
of its parts, chosen by a variable that never changes, with the others at their
initial state: the run checks each part by itself, its states are the sum of
theirs, and no property is made easier or harder by it. Such a run's
properties are those of its parts, the ones marked with a name there.

**Data that is abstracted.** Names, texts, fees and times are left out where no
property tells them apart: a fee is "a rumour's" or "the confirmed one", a date is
"the announced one" or another, expiry is an event that may come at any time, a
score keeps its weights but not its age factor (which depends on the time of
reading only), favourites of all four types are one relation of users to the row
in `Notifications`. In `Outbox` a handler is one commit; `Engagement` and
`Notifications` take the handlers apart. Status has two values in `Accounts`
because the guard refuses all others alike. A post of the feed is its number, in
the order of creation, and its hot score; an answer of the cache is the version of
the one table that is followed; a picture is whose it is. Lifetimes that compete
are ticks of one clock (`Access`, `Feed`, `ReadCache`, `TransferAlerts`), all
others lapse whenever they like.

## Runs

| Run | Instance | What it shows |
|---|---|---|
| `outbox_live` | 1 row, 2 workers, `MAX_RETRY` 3, one crash, stall, failed mark, handler error, failed record, failed add | `Outbox`: commits and failures are bounded by lock lifetimes (`OncePerLockWindow`); a second commit needs a crash, a stall or a failed mark (`DuplicateNeedsFault`); the outbox implements `AtLeastOnce`, so a row marked as processed was applied (`ImplementsAtLeastOnce`) |
| | 2 rows, 1 worker, batch of 1, `MAX_RETRY` 2, faults below BullMQ's limits; or 1 row and a database away for all of BullMQ's attempts | every row is processed or becomes poison, or its job is in the failed set because the row could not be read in five attempts (`EventuallySettled`) |
| `posts_safety` | 2 users, 2 processes, 3 requests, 2 faults, counter limit 1 | `Engagement`: counters differ from rows by what is in flight or lost; the score catches up and the last request wins unless a late worker, or a lost recompute, had the last word |
| | 1 reader, 3 requests, 2 at once, 2 posts and a third that may come, limits of 2, page of 1, served for 2 ticks, cached for 1, one change or fault | `Feed`: what was shown is not shown again (`NotShownAgain`); how long a deleted post may be (`DeletedSoonGone`) |
| `feed_empty` *(violation)* | the feed alone, 3 posts, no change, no fault, no cache | an empty first page although a post has never been shown |
| `sessions_safety` | 3 refresh tokens, 1 reset token, 2 requests, 1 fault | `Sessions`: how many sessions there are and why; which survive a reset; chains of replaced tokens |
| | 2 users, 1 key that lapses once, 2 requests, 1 fault | `Idempotency`: one effect for each window of a key and each failure of Redis (`OncePerWindow`) |
| | 1 reporter, 2 requests, 1 fault; content and user | `Moderation`: what a report and its mail say was done has been done (`ActionedIsTrue`) |
| | 2 rows one after the other, 3 URLs of the provider, 2 uploads or forms, 2 sync runs; 3 kinds of row | `Pictures`: what a row names is stored, locked rows show the administrator's picture, mirrored ones what their columns say, as long as nobody wrote between another's reading and writing (`ShowsWhatItSays`) |
| `sessions_keys` *(violation)* | the same | a user is refused for a key that another user has sent |
| `accounts_safety` | 2 accounts, 1 guard, 2 back office requests | `Accounts`: when the cache may disagree with the row; when the last administrator stays |
| | 1 user of each role, every endpoint, tokens of 2 ticks, 3 changes, 1 fault | `Access`: how long a role, a standing or an account goes on opening endpoints after it was taken (`AccessWithdrawn`) |
| `redis_live` | 2 accounts, 1 guard, 1 back office request, 1 fault | `Accounts`: a ban takes hold (`BanTakesHold`) |
| | every read, every table in its answer; 2 requests, 1 writer, 2 writes, 1 fault; lists live 2 ticks, a search 1 | `ReadCache`: an answer is older than a finished write only when it was got or stored during an invalidation (`FreshUnlessRaced`); without writes no stale answer stays, also where no writer has its tag (`EventuallyFresh`) |
| `transfers_safety` | 2 rows, 2 tweets, 2 requests | `Transfers`: one trace per tweet; a confirmed transfer stays as confirmed |
| | 2 transfers, 2 runs, limit of 2, 1 item in a mail, 2 ticks, 1 fault; 4 users, 2 processes, pages of 2, 2 changes, 1 fault | `TransferAlerts`, `WeeklyDigest`: nobody is mailed more often (`NotTooOften`), nothing and nobody missed (`NobodyMissed`), but for what is counted |
| `notifications_live` | 3 users (a reporter, one opted out of rumours), 2 workers, 2 events, 1 change, 1 fault | who is told, of what; that a read notification stays read; that followers eventually hear of the confirmation |
| `sync_safety` | 2 workers, 2 jobs, a domestic league, a cup, a cup without a season, 2 teams, 1 player, quota 11 with a reserve of 3, 2 days, one fault or change of the world | `FootballSync`: how far the reserve is touched (`QuotaKept`); leagues that were put off come back (`PutOffIsKept`); duplicates of transfers need overlapping runs (`OneRowPerDeal`); an undisturbed run leaves the tables as the provider has them (`CleanRunMirrors`); a cup takes no club from its league (`ClubsStayHome`) |
| `mailings_live` | 3 addresses, one always refused, batch of 2, 1 campaign; or 3 users, pages of 1, 1 change; 2 workers, 2 attempts, 1 stall, 2 faults | `Launch`, `Broadcast`: one mail for each cause (`OncePerCause`); whom an announcement may miss (`NobodyLeftOut`); when a row says "Sending" (`SendingExplained`); that nobody starves behind the address that fails, and that what is being sent ends unless that address is left or the last run ended without writing its row (`MailingsProgress`) |
| `mailings_loop` *(violation)* | the same, no fault and no change | a campaign with one address that always fails never ends (`CampaignEnds`) |

**Why the bounds are enough.** Every hazard that is listed needs at most two
processes at once: one that has read and one that writes. The bounds allow that,
a third thing (a fault, a repeated event, a change of the world) in between, and a
second row, token or user where rows compete or refer to each other: two rows for
a batch of one, three tokens for two rotations of the same one, two administrators
for the last one, two tweets for one rumour, two pages of a mailing, a league and a
cup with the same club. `SmallInt` is 1 (32767 in Postgres), so that the overflow of
`likeCount` happens. Of the rest:

* A token of `Access` lives 2 ticks, longer than the cached status (one tick, which
  a request under way can stretch); 3 changes take a right away, give it back and
  take another. The two parts of `accounts_safety` share no fault: `Accounts` has
  none there because its properties are proved for every number of faults, and
  `redis_live` has one. `Engagement` with 3 requests (so 3 outbox rows) and 2 faults
  is likewise proved for every number: two rows of one user, one of them held by a
  worker that is late and one that is not, are what `LastRequestWins` needs.
* `Feed` has one limit (2) below its number of posts and pages of one, so that the
  filters, the sources' limit and the selection each cut; its served set outlives
  the discovery cache, as in the code (a day and a minute by default).
* 8 requests above the reserve carry `FootballSync` through one league with two
  teams (index, league, and three for each team), so that a second run, or a cup
  after it, meets the reserve, on the same day or the next; a request that fails
  costs `Tries` of them.
* The mailings have one campaign, because a second one more than multiplies the
  states; what `OncePerCause` allows for other campaigns rests on the theorem. One
  stall and two faults are a worker that goes on late, and its end.
* A run of `TransferAlerts` finds any kind of row and any preferences: nothing else
  reads them, and both may change between two runs.
* An answer of `ReadCache` lives longer than it takes to write and to invalidate,
  and both writes may fall between a request's query and its store.
* The provider's picture URLs of `Pictures` are numbered: it never goes back to an
  earlier URL. (If it did, a mirrored object could be of another of its URLs.)

Every safety property of these runs is also proved, for all bounds (below). Each
property has a
mutant in `PROJECT.json`: a change of a mapped definition, such as a dropped check
or a swapped order, that makes TLC find the property violated in the same instance;
so the instance reaches the case.

**Deadlock.** It is checked in `accounts_safety`, where requests can always begin. The other models may stop: their tokens, requests, mails or
events are bounded, and when those are used up and handled nothing is left to do.

**Fairness.** None is assumed for what users, administrators, the provider or
faults do.

* `Outbox`: weak fairness of the cron job, `queue.add`, BullMQ's timers, the
  lock's TTL and of every worker's next step: all run on timers or are the
  continuation of an awaited call. Strong fairness only of taking a waiting job:
  the queue is FIFO, so a job that is takeable again and again is taken, although
  a single worker is busy in between.
* `Accounts`: a request goes on, and Redis drops an entry at its TTL.
* `Notifications`: a worker goes on, and the outbox gives an unacknowledged event
  to a worker again. This is `EventuallySettled` where no row becomes
  poison or is lost in the failed set; `outbox_live` shows it for faults below
  those limits, and `MaxFaults` of this model is below them too.
* `ReadCache`: time passes, and a request or a writer that has begun goes on.
* `Launch`, `Broadcast`: a worker takes a job when it has none and goes on with its
  run; both are the queue's loop and the continuation of awaited calls.

## What is proved

TLAPS proves every safety property that a run shows to hold, invariants, action
properties and the refinement, as theorems about the specification the run checks,
for every value of the constants that satisfies the assumptions. `EngagementProofs`,
`SessionsProofs`, `AccountsProofs` and the others speak of `Spec` for the module
they are named after, and of the sum's specification (`BothSpec`, `AllSpec`,
`AccessSpec`, `DealsAndMailsSpec`, `MailingsSpec`) for the modules beside it; each
part of `MCOutbox` is an instance of `Outbox`. Where a specification has fairness,
the proofs do not use it.

The assumptions are named where the constants are declared, and TLC evaluates them
on each run: `ConstantsAssumption` (finite sets of processes, natural bounds, "no
value" constants that differ from the real ones, leagues with a quota above its
reserve), and for the sums `FeedAssumption`, `NullAssumption`, `LivesAssumption`,
`TokensAssumption`, `MailsAssumption` and `BatchesAssumption` (pages and batches
that are not empty, lives that are numbers, finitely many processes). One conjunct of
`FeedAssumption`, that `900 \div 2 ^ n` is a natural number for every `n` up to `N`,
is true of all values: the provers know no powers, and TLC evaluates it. The sums
assume nothing of the bounds on faults, changes and writes: the proofs about the
modules beside the first one never use that there is a bound.

The type invariants of `Outbox`, `Engagement`, `Sessions`, `Accounts`, `Transfers`,
`Notifications` and `FootballSync` are theorems; the other modules have theirs as
the first conjunct of the invariant (`FeedTypes`, `KeyTypes`, ...). None of the
properties but the type invariants is inductive:

* `OutboxProofs`. `WindowInv` adds the workers that hold the lock and have their
  commit or their failure still to come to the counts of `OncePerLockWindow`.
  `ChargeInv` adds to the commits made one for each worker that works on a row
  without owning its job and one for the job itself while it may still reach the
  handler; every action that could add a commit spends a fault or one of these.
  `SimInv` (a row in a batch or job was written; a worker about to mark has
  committed) carries the refinement of `AtLeastOnce`, step by step.
* `EngagementProofs`. Likes are a sum over the processes between row and counter.
  For the score, `ScoreInv` says that a stale score has somebody who will
  recompute it: a vote request about to read, a snapshot that is still right, or
  an outbox row that is not processed and that no worker is about to mark (`Owed`).
  For `LastRequestWins`, `WishInv` follows one patient user: the events of his that
  are not processed are what he asked for last, and his like row agrees with it as
  soon as there are none or a worker is past the row, unless a late worker wrote it.
* `SessionsProofs`. Live tokens are counted against logins, ends, forks and
  rotations under way. `ChainInv` adds that a token in the hands of a rotation is
  nobody's successor yet (`HeldFresh`).
* `AccountsProofs`. `AdminInv` adds what a request that nobody overlapped has
  found: another active administrator (`CheckHolds`).
* `TransfersProofs`. `IntactInv` adds that the row of a request that nobody
  overlapped is as it was read (`RowAsRead`); `OnceInv` that a tweet whose
  transaction is open has no post and no second transaction (`TweetHeldOnce`).
* `NotificationsProofs`. `ToldInv` says what a worker's list still means: everyone
  in the audience who has changed nothing is on it or has a notification, and
  nobody else is on it (`RecordInv`); a worker about to mark has told everyone
  (`Done`). Two lemmas carry it over the steps of others: the row only turns from
  rumour into transfer (`RowMoves`), and only a user changes what that user is
  asked for (`UsersMove`).
* `FootballSyncProofs`. For the reserve, `QuotaInv` counts the processes that know
  that it has been reached: what is left, one for each of these and `Tries` for each
  fault are more than the reserve, so that a process that does not know it yet pays
  for its request with becoming one. `DealsInv` adds to the rows of a transfer the
  runs about to create it. `PutOffInv` names the two places a league may be in, a
  job's list or what a run still owes (`Waits`, `Owes`), and each step of a run moves
  it between them. `CleanInv` is about the one run that works while it is clean, and
  says that the clubs it is done with are copied, with whom they list, and nobody
  else is marked as seen (`Copied`); it carries `CleanRunMirrors` to the step that
  declares players free.
* `EngagementProofs` for `Feed`. `FeedInv` follows a request stage by stage
  (`QueriedOK`, `CollectedOK`, `RequestOK`): what was remembered before it began is
  in its served set or not yet due, what its cached candidates can still hold of
  deleted posts is bounded by when the cache lapses (`CacheLapses`, `Soon`), and a
  candidate that a source gave and no filter took is on the page when the page has
  room, whatever the scores.
* `SessionsProofs` for `Idempotency`, `Moderation` and `Pictures`. `PaidFor` adds
  the handlers under way to the effects of an operation, and the key while it is in
  Redis to what pays for them. `ReviewInv` says that what a review has passed is
  done, and rests on deletions and bans not being undone. `PictureInv` says that,
  while no write has crossed another, whatever a form or a run has read of the row
  is what the row still says (`Opened`, `Found`); a write makes that false only for
  those it crosses.
* `AccountsProofs` for `ReadCache`. `CacheInv` ties the three parts of a read
  together: while a deletion is under way every request that asks has been raced
  (`Alone`), an answer in Redis is reachable through its tag's set for as long as it
  lives (`KeptInSight`), and it is as new as the last finished write unless one of
  the writers has yet to delete it (`Fresh`, `Debts`). It is for every read and
  writer at once: that their tags fit is the part of the proof that looks at the
  tables of `ReadCache`.
* `AccountsProofs` for `Access`. `AccessInv` says of each user since when a right is
  gone at the latest when a token or the cache still shows it (`RoleKnown`,
  `StatusKnown`), counting the tick by which a request that is under way may be late.
  `RoutesKept` goes through the controllers one by one and finds that each endpoint
  asks for the role and the ownership that its path calls for.
* `TransfersProofs` for the mails. `AlertInv` adds to the mails of a transfer the
  runs that may still tell of it (`Telling`) and says of a stamp that no finished
  run has passed it unsettled (`RunSettles`). `DigestInv` compares a page by offset
  with the ranks of the users: those below the offset who were not mailed are no
  more than those who left (`LeftOut`), those above it who were are no more than
  those who joined (`Behind`).
* `NotificationsProofs` for the mailings. `AllTold` and `AllMailed` add to what
  somebody has heard the runs that might tell him still and what may yet begin
  (`Might`, `MayBegin`, `Comes`, `Pending`); a late run may still tell, and is paid for
  by the stall that made it late. `InOrder` says that those a run has passed without
  telling them are no more than the cursors it lost. `SendingIsExplained` rests
  on the types of these invariants and on itself: every step that ends a run writes
  the row or sets the ghost `orphaned`.

Where a proof showed that the model itself was unclear the model was changed:
`CleanRunMirrors` speaks of the runs that are still clean after the step, a user
mailed twice is counted for each repetition (`TwiceBounded`), and the next team of a
run is chosen after the league's last one is done.

**Only proved.** Why a first page of the feed may be empty although posts are left
unseen (`EmptyExplained`: a source that was full, failed, or came from the cache);
`feed_empty` is its exception at work.

**Only model-checked.** The liveness properties (`EventuallySettled`,
`BanTakesHold`, `EventuallyTold`, `EventuallyFresh`, `MailingsProgress`): they rest on
fairness, which is about ENABLED, and TLAPS does not reason about that here. The three
violations are counterexamples, found on an instance, that larger ones have too.

## What the code does otherwise than it says

Three disagreements are findings, each with a run that shows it (`PROJECT.json`):
`feed_empty`, `sessions_keys` and `mailings_loop`. The models have the behaviours below too. They
have no run of their own: most are one more overlap of the same kind, and the
properties above name them as the exception.

*Outbox and posts*

* `reaction.processor.ts:20` calls the handlers idempotent. A crash between
  a handler's commit and `processedAtUtc` applies a comment or a post twice
  (`DuplicateNeedsFault` counts these; `CommentsCounted` is one-sided for that
  reason), and one between a like's row and its increment leaves the count short
  for good: the retry finds the row (`LikeCountAccounted`).
* After five failed reads (an outage of half a minute) or two crashes a job is in
  BullMQ's failed set. Its `jobId` is still taken, so that the dispatcher's
  `queue.add` does nothing: the row is neither processed nor poison, until a thousand
  other jobs have failed (`EventuallySettled` names it as the one exception), and so
  many of such rows as a batch holds would keep all newer ones from being read.
  `outbox.service.ts:13` promises at least once.
* `processedAtUtc` is read once, before the lock, and the lock lapses after 600 s
  while its worker goes on (`reaction.processor.ts:38`, `:45`). A like that was held
  up so long is written over a later unlike (`late`), and if its worker then ends
  before the recompute, the score stays behind although the row is processed
  (`behind`).
* `reaction.processor.ts:53` reads a refused lock as "another worker is at it".
  It may be the row's own failed attempt: for 600 s BullMQ's retries return as if
  they had succeeded, and only the dispatcher brings the row back
  (`OncePerLockWindow`).
* Deleting a comment does not lower `post.commentCount`
  (`prisma-comment.repository.ts:36`; `faz-5b-comments-profile.md:70`
  expects it to be right).
* A vote is read before the transaction that replaces it
  (`prisma-post.repository.ts:184`, `:212`); two overlapping votes of a user leave
  a vote counter off by one (`staleVotes`).
* Two overlapping recomputes may store the older score
  (`hot-score.service.ts:49`); it stays until the next reaction (`behind`).
* An unlike that arrives while the like is still queued is answered 'unchanged'
  and the like is applied afterwards (`posts.service.ts:231`; `wish` is "any" for
  such a user).
* `Feed`: a negative hot score turns the scorers round, so that a post of a
  followed author falls behind others; a favourite's add is checked, then created,
  and two at once answer one of them 500; a deleted post is shown for up to 60 s
  (`DeletedSoonGone`); two requests at once may show the same page.

*Users*

* Two refreshes with one token, or two resets with one link, both succeed when
  they overlap (`token.service.ts:80`, `password.service.ts:76`; `forks`). A reset
  ends the sessions that are there, not one that is issued afterwards to a login or
  rotation checked before (`password.service.ts:87`; `late`).
* A guard's fill may write 'Active' after a ban has written 'Banned'
  (`user-status.cache.ts:51`; the comment in line 10 and
  `BACKOFFICE-API-INTEGRATION.md:201` call a ban immediate); it ends with the TTL
  (`BanTakesHold`).
* Two administrators may demote each other, and none is left
  (`users.service.ts:247`; `AdminLeft` excepts overlapping requests).
* A role is read from the access token: a demoted or deleted administrator keeps
  his endpoints until it lapses, and may give himself the role again. Login,
  Google login and refresh do not look at the status; the guard does. A user who was
  banned and whose account is then deleted passes the guard again, once the cached
  status has lapsed, until his token does (`AccessWithdrawn`). No endpoint gives
  anybody the role `Reporter`, to which `RumourWriteController` is open.
* Every idempotency key is kept under `anon` (`sessions_keys`), and a key is not
  given back when its handler fails: the retry it is meant for is answered 409
  until it lapses (`idempotency.interceptor.ts:84`).
* A report of content, reviewed with both `deleteContent` and `banUser`, deletes
  the content, then does not find whom to ban, and answers 404
  (`reports.service.ts:199`): the user is not banned and the report stays Pending,
  as `:105` says of failed actions, but half of it was done. Another report of the
  same content cannot be actioned with a deletion at all.

*Transfers and mails*

* Two administrators may create one transfer twice
  (`admin-transfers.service.ts:32`), ingestion does not ask for a duplicate at all
  (`ingest-projection.service.ts:136`), a rumour's update may overwrite the fee
  of a transfer confirmed in between (`rumour-write.service.ts:58`), and an official
  tweet may confirm a rumour that was deleted after it was found: the tweet's post
  is there, its transfer is not (`ingest-projection.service.ts:117`).
* `launch.processor.ts:48` says that no endless loop can come about. An address that
  always fails comes back in every batch, and the campaign never ends
  (`mailings_loop`); as many of them as a batch holds keep everybody else waiting
  (`NobodyStarves` is for fewer). Two campaigns at once both mail an address
  (`OncePerCause`).
* Broadcasts: an attempt after a failed one begins with the first user, and who was
  told is told again, since announcements have no key that `skipDuplicates` could
  use; `sentCount` is what the last attempt sent. The page after a cursor whose user
  was banned meanwhile leaves out one more user, and after one who was deleted the
  run ends as Done. A job given up by BullMQ because its workers stalled leaves the
  broadcast "Sending", and so does a late worker that writes "Sending" over the
  "Done" of another and then ends (`orphaned` in `SendingExplained` and `Settles`; the
  same holds of a campaign).
* Digests: every process has its own cron jobs, so that each mails everybody. A
  mail holds 5 items and a run 500 transfers; the rest is never told.
  `digest:transfer-alert:lastRunAt` may be set back by a run that began earlier and
  ended later. A page by offset leaves out a user for each one before him who ceased
  to be eligible (`MissedBounded`).

*Catalogue*

* A run that meets the reserve at the index of the leagues puts nothing off and
  forgets its leagues, and a process that has met its reserve never asks again
  until it is restarted, not even the next day: its count only changes with an answer
  (`axios-football-data.client.ts:226`; `PutOffIsKept`).
* A team whose players could not be read is an error among others: its league counts
  as read, and its players are declared free (`football-data.sync.service.ts:259`;
  `CleanRunMirrors` speaks of runs without faults).
* Answers stored between the two steps of an invalidation, or produced before a
  write and stored after it, stay until their TTL (`cache.service.ts:79`;
  `FreshUnlessRaced`). Seeding writes leagues, teams and players and invalidates
  nothing, although `cache-tags.ts:2` counts on writers to do so, and a run whose
  record cannot be written invalidates nothing either.
* Pictures: `docs/00-OVERVIEW.md:137` says that the synchronisation does not
  overwrite an administrator's picture. It does when the upload falls between its
  read of the row and its write, which may be seconds apart: the row is then locked
  with the provider's picture. So does a form that was opened before and is saved
  after (`crossed`). When mirroring has failed, the provider's URL is stored all the
  same, and is not tried again until it changes; the same holds for a picture that
  an administrator deletes.

## What is not modelled

* Reads: lists, filters, counts, summaries, search results, as far as they only
  query. `ReadCache` has the tables they read.
* Single-row writes with nobody to race: profile fields, news, leagues, teams,
  periods, templates; standings, coaches, names and positions of the synchronisation.
* Registration and e-mail verification: each is one user's own, and their races end
  in a 500 for a 409 or in a second welcome mail.
* The deletion of an ingested post: `posts` is hard-deleted, so that a tweet sent again
  after that is ingested again. `Transfers` keeps a tweet's post.
* Transfer comments and the likes of comments repeat `Engagement`'s code. A change
  of a transfer's player or teams.
* Throttling (a library's counters), mail templates and transport, audit log,
  dashboard, configuration, localisation, filters, DTOs: I/O and formatting. The
  seed of the development database (`prisma/seed.ts`) runs once and alone.
* Postgres itself: a transaction is one step (READ COMMITTED reads inside it are
  the reads of that step), a unique index refuses, a soft deletion hides a row from
  the extended client's reads and not from its writes by id.
* Prisma's and Redis's connection handling: a call may fail wherever `MaxFaults`,
  `MaxDisturbances` or `Budget` allows it.

## Plan

Done, in this order: `Outbox` with `AtLeastOnce`, `Engagement`, `Sessions`,
`Accounts`, `Transfers`, `Notifications`; then `FootballSync`, `Launch`, `Broadcast`,
`TransferAlerts`, `WeeklyDigest`, `ReadCache`, `Idempotency`, `Moderation`, `Access`
with `Endpoints`, `Feed`, `Pictures`; each with its runs, then its proofs.

Next, the most important first:

1. The composition of `Notifications` with `Outbox` itself instead of `AtLeastOnce`.
2. An abstract specification of a mailing, "everybody at least once and, without a
   fault, at most once", that `Launch` and `Broadcast` implement.
3. Vote percentages and the comment tree, against a reference definition on bounded
   inputs.
