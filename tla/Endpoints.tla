------------------------------ MODULE Endpoints ------------------------------
(***************************************************************************)
(* Every endpoint of the controllers, with the guards that its decorators  *)
(* ask for and the service's own check of whose row it is, and what that   *)
(* opens to the bearer of a token.                                         *)
(***************************************************************************)

TokenRoles == {"User", "Reporter", "Admin"}

(***************************************************************************)
(* The endpoints.  class and handler are the @Roles of the controller and  *)
(* of the method; mine says whose row the service lets the caller change.  *)
(***************************************************************************)
Endpoints(path, public, class, handler, mine, ops) ==
    [path : {path}, public : {public}, class : {class}, handler : {handler}, mine : {mine}, op : ops]
Public(path, ops) == Endpoints(path, TRUE, {}, {}, "any", ops)
SignedIn(path, ops) == Endpoints(path, FALSE, {}, {}, "any", ops)
OwnersOnly(path, ops) == Endpoints(path, FALSE, {}, {}, "owner", ops)
Admins(path, ops) == Endpoints(path, FALSE, {"Admin"}, {}, "any", ops)

CRUD == {"create", "update", "remove"}
ImageOps == {"upload", "replace", "fromUrl", "remove"}

AuthController ==
    Public(<<"auth">>, {"register", "login", "forgotPassword", "resetPassword", "verifyEmail",
                        "resendVerification", "refresh", "google"})
      \cup SignedIn(<<"auth">>, {"logout", "revokeAll"})
UsersController == Admins(<<"users">>, CRUD \cup {"findOne", "findAll"})
AdminUsersController ==
    Admins(<<"admin", "users">>, {"findAll", "getDetail", "getContent", "updateStatus", "updateRole",
                                  "setVerified", "updateReputation"})
ProfilePhotoController == SignedIn(<<"profile">>, ImageOps \cup {"get"})

PostsController ==
    Public(<<"posts">>, {"newCount", "feed", "byPlayer", "byTeam", "findOne"})
      \cup SignedIn(<<"posts">>, {"my", "create", "vote", "like", "unlike"})
      \cup OwnersOnly(<<"posts">>, {"update", "remove"})
Comments(path) ==
    Public(path, {"list"}) \cup SignedIn(path, {"create", "like", "unlike"})
      \cup OwnersOnly(path, {"update", "remove"})
CommentController == Comments(<<"comments">>)
TransferCommentController == Comments(<<"transfer-comments">>)
AdminPostsController == Admins(<<"admin", "posts">>, {"list", "remove"})
AdminCommentsController == Admins(<<"admin", "comments">>, {"list", "remove"})
AdminTransferCommentsController == Admins(<<"admin", "transfer-comments">>, {"remove"})
ReportsController == SignedIn(<<"reports">>, {"create"})
AdminReportsController == Admins(<<"admin", "reports">>, {"list", "review"})

FeedController == SignedIn(<<"feed">>, {"forYou"})
FollowsController == SignedIn(<<"follows">>, {"follow", "unfollow", "following"})
BlocksController == SignedIn(<<"blocks">>, {"listBlocks", "listMutes", "block", "unblock", "mute", "unmute"})
MutedKeywordsController ==
    SignedIn(<<"muted-keywords">>, {"list", "add"}) \cup OwnersOnly(<<"muted-keywords">>, {"remove"})
MeFavouritesController ==
    SignedIn(<<"favourites">>, {"list", "add", "set"}) \cup OwnersOnly(<<"favourites">>, {"remove"})
MeNotificationsController ==
    SignedIn(<<"notifications">>, {"list", "unreadCount", "readAll"})
      \cup OwnersOnly(<<"notifications">>, {"read"})
MeNotificationPreferencesController == SignedIn(<<"notification-preferences">>, {"get", "set"})

LeaguesController ==
    Public(<<"leagues">>, {"findAll", "findByCode", "latestTransfers", "incoming", "outgoing",
                           "leagueTransfers", "findOne"})
TeamsController ==
    Public(<<"teams">>, {"findAll", "findByLeague", "detail", "incoming", "outgoing", "allTransfers", "findOne"})
PlayersController ==
    Public(<<"players">>, {"findAll", "freeAgents", "searchPlayers", "byTeam", "byNationality", "profile",
                           "transfers", "lastTransfer", "findOne"})
NewsController ==
    Public(<<"news">>, {"findAll", "sources", "bySource", "byDateRange", "byPlayer", "byTeam", "fromTeam", "findOne"})
AdminLeaguesController == Admins(<<"admin", "leagues">>, CRUD)
AdminTeamsController == Admins(<<"admin", "teams">>, CRUD)
AdminPlayersController == Admins(<<"admin", "players">>, CRUD)
AdminNewsController == Admins(<<"admin", "news">>, CRUD \cup {"removeBulk"})
LeagueImageController == Admins(<<"admin", "leagues", "image">>, ImageOps)
TeamImageController == Admins(<<"admin", "teams", "image">>, ImageOps)
PlayerImageController == Admins(<<"admin", "players", "image">>, ImageOps)
NewsImageController == Admins(<<"admin", "news", "image">>, ImageOps)

TransferQueryController ==
    Public(<<"transfers">>, {"findAll", "latest", "topExpensive", "betweenTeams", "byYear", "byMonth",
                             "latestByLeagues", "getStats", "periods", "periodSummary", "seasonDashboard", "findOne"})
RumourController == Public(<<"rumours">>, {"findAll", "latest", "byPlayer", "byTeam", "findOne"})
RumourWriteController ==
    LET Newsroom == {"Admin", "Reporter"} IN
    Endpoints(<<"rumours">>, FALSE, Newsroom, {}, "any", {"create"})
      \cup Endpoints(<<"rumours">>, FALSE, Newsroom, {}, "ownerOrAdmin", {"update", "remove"})
      \cup Endpoints(<<"rumours">>, FALSE, Newsroom, {"Admin"}, "any", {"confirm"})
AdminTransfersController == Admins(<<"admin", "transfers">>, CRUD \cup {"patch"})
AdminTransferPeriodsController == Admins(<<"admin", "transfer-periods">>, CRUD \cup {"list", "getById"})
CurrencyRatesController == Admins(<<"admin", "currency-rates">>, CRUD \cup {"findAll"})
\* The bot, known by its key (ApiKeyGuard); no user acts there.
IngestController == Public(<<"ingest">>, {"ingestPost"})

BroadcastController == Admins(<<"admin", "notifications">>, {"send", "history"})
WaitlistController == Public(<<"waitlist">>, {"subscribe"})
WaitlistAdminController == Admins(<<"admin", "waitlist">>, {"launch", "history", "stats"})
AdminSyncController == Admins(<<"admin", "sync">>, {"syncAll", "syncLeague", "runs"})
AdminSeedController == Admins(<<"admin", "seed">>, {"seed"})
DashboardController == Admins(<<"admin", "dashboard">>, {"overview"})
AuditLogsController == Admins(<<"admin", "audit-logs">>, {"list"})
SearchController == Public(<<"search">>, {"find"})
EmailController == Public(<<"email">>, {"unsubscribe"})
HealthController == Public(<<"health">>, {"check"})

Routes ==
    UNION {AuthController, UsersController, AdminUsersController, ProfilePhotoController, PostsController,
           CommentController, TransferCommentController, AdminPostsController, AdminCommentsController,
           AdminTransferCommentsController, ReportsController, AdminReportsController, FeedController,
           FollowsController, BlocksController, MutedKeywordsController, MeFavouritesController,
           MeNotificationsController, MeNotificationPreferencesController, LeaguesController, TeamsController,
           PlayersController, NewsController, AdminLeaguesController, AdminTeamsController,
           AdminPlayersController, AdminNewsController, LeagueImageController, TeamImageController,
           PlayerImageController, NewsImageController, TransferQueryController, RumourController,
           RumourWriteController, AdminTransfersController, AdminTransferPeriodsController,
           CurrencyRatesController, IngestController, BroadcastController, WaitlistController,
           WaitlistAdminController, AdminSyncController, AdminSeedController, DashboardController,
           AuditLogsController, SearchController, EmailController, HealthController}

(***************************************************************************)
(* The guards and the services' checks.                                    *)
(***************************************************************************)
\* What JwtAuthGuard does not wave through.
Guarded == {e \in Routes : ~e.public}
\* Reflector.getAllAndOverride: what the method says goes before the class.
Required(e) == IF e.handler # {} THEN e.handler ELSE e.class
RolesGuard(role, e) == Required(e) = {} \/ role \in Required(e)
Owner(role, e, own) == e.mine = "any" \/ own \/ (e.mine = "ownerOrAdmin" /\ role = "Admin")
\* The endpoints that do what is asked by a token of a role, on the caller's row or another's.
Open == [x \in TokenRoles \X BOOLEAN |->
           {e \in Guarded : RolesGuard(x[1], e) /\ Owner(x[1], e, x[2])}]

\* What changes the accounts, and who gets there.
OfAccounts ==
    {e \in Guarded : \/ e.path = <<"admin", "users">> /\ e.op \in {"updateRole", "updateStatus"}
                     \/ e.path = <<"users">> /\ e.op = "remove"}
Reached ==
    {[role |-> x[1], op |-> x[2].op] :
        x \in {y \in TokenRoles \X OfAccounts : y[2] \in Open[<<y[1], TRUE>>]}}

\* Who may, as docs/02-API-ENDPOINTS.md has it for each path.
AdminsAffairs ==
    {e \in Guarded : e.path[1] = "admin" \/ e.path = <<"users">>
                     \/ (e.path = <<"rumours">> /\ e.op = "confirm")}
ReportersAffairs == {e \in Guarded : e.path = <<"rumours">>}
OwnersAffairs ==
    {e \in Guarded :
        /\ e.op \in {"update", "remove", "read"}
        /\ e.path \in {<<"posts">>, <<"comments">>, <<"transfer-comments">>, <<"rumours">>, <<"favourites">>,
                       <<"notifications">>, <<"muted-keywords">>}}
Affairs == [all |-> Guarded, admins |-> AdminsAffairs, reporters |-> ReportersAffairs, owners |-> OwnersAffairs]
\* The affairs a token of a role lets its bearer into, on his own row or another's.
Into ==
    {[role |-> x[1], own |-> x[2], affair |-> x[3]] :
        x \in {y \in TokenRoles \X BOOLEAN \X DOMAIN Affairs : \E e \in Affairs[y[3]] : e \in Open[<<y[1], y[2]>>]}}
=============================================================================
