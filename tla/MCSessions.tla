----------------------------- MODULE MCSessions -----------------------------
(***************************************************************************)
(* The sessions of one user, with model values for tokens and requests,    *)
(* and three other things requests do: they carry idempotency keys, they   *)
(* report and review content, and they set pictures.  Their state has      *)
(* nothing in common: a behaviour is of one of the four, the others stay   *)
(* as they begin.                                                          *)
(***************************************************************************)
EXTENDS Sessions, TLC

CONSTANTS t1, t2, t3, p1, p2, r1, Users, Keys, Reporters, MaxLapses,
          Workers, MaxRows, MaxOffers, MaxSets

ASSUME NullAssumption ==
    None \notin Nat \cup ({"own", "provider", "mirror", "given"} \X Nat)

VARIABLES
    what,
    taken, keyed, done, lapses, let, admitted, refused, keyFaults,
    targetType, there, owner, report, review, claimed, banned, reviewFaults,
    kind, row, made, stored, mirrored, offered, upload, run, crossed, sets

K == INSTANCE Idempotency WITH request <- keyed, faults <- keyFaults
M == INSTANCE Moderation WITH request <- review, faults <- reviewFaults
P == INSTANCE Pictures WITH request <- upload

keyVars == <<taken, keyed, done, lapses, let, admitted, refused, keyFaults>>
reviewVars == <<targetType, there, owner, report, review, claimed, banned, reviewFaults>>
pictureVars == <<kind, row, made, stored, mirrored, offered, upload, run, crossed, sets>>

AllInit ==
    /\ Init /\ K!Init /\ M!Init /\ P!Init
    /\ what \in {"session", "key", "report", "picture"}
    /\ what # "report" => targetType = "user"
    /\ what # "picture" => kind = "news"
Step ==
    /\ UNCHANGED what
    /\ \/ what = "session" /\ Next /\ UNCHANGED <<keyVars, reviewVars, pictureVars>>
       \/ what = "key" /\ K!Next /\ UNCHANGED <<vars, reviewVars, pictureVars>>
       \/ what = "report" /\ M!Next /\ UNCHANGED <<vars, keyVars, pictureVars>>
       \/ what = "picture" /\ P!Next /\ UNCHANGED <<vars, keyVars, reviewVars>>
AllSpec == AllInit /\ [][Step]_<<what, vars, keyVars, reviewVars, pictureVars>>

\* An operation that is sent again and again takes effect once for each window of its
\* key and each failure of Redis (idempotency.interceptor.ts:21-22).
OncePerWindow == K!OncePerWindow
\* Who is refused was admitted with the same operation before
\* (idempotency.interceptor.ts:20).
RefusedForOwn == K!RefusedForOwn
\* What a report was set to Actioned by, and what its reporter was told, has been done
\* (reports.service.ts:105-108).
ActionedIsTrue == M!ActionedIsTrue
\* A row names stored pictures only, a locked one its administrator's, a mirrored one the
\* one its columns say, as long as nobody wrote between another's reading and writing
\* (football-data.sync.service.ts:785-812).
ShowsWhatItSays == P!ShowsWhatItSays

Symmetry == Permutations(Tokens) \cup Permutations(Requests)
=============================================================================
