------------------------------ MODULE Pictures ------------------------------
(***************************************************************************)
(* The picture of one row (src/storage and its callers): of a league, team *)
(* or player of the provider's ("catalogue"), which administrators and the *)
(* synchronisation both set, of a news item, or of a user's profile.       *)
(*                                                                         *)
(* To set a picture the object is stored first, under a key that is fixed  *)
(* for the row, and then its URL is written to the row.  Administrators    *)
(* store under the row's id and lock catalogue rows; the synchronisation   *)
(* reads the row, mirrors the provider's picture under the provider's id   *)
(* if the row is not locked and the provider's URL is new, and writes the  *)
(* row; both may take seconds in between.  A row may be deleted meanwhile, *)
(* and the synchronisation makes a new one.                                *)
(***************************************************************************)
EXTENDS Naturals

CONSTANTS Requests, Workers, None,
          MaxRows,          \* rows that are made one after the other
          MaxOffers,        \* the provider's URLs, numbered in the order they are offered
          MaxSets           \* requests, and runs that end halfway

VARIABLES
    kind,
    row,            \* None, or [id, url, source, locked]
    made,           \* rows made so far
    stored,         \* ids with an object of their own
    mirrored,       \* which of the provider's pictures the mirror's object is
    offered,        \* the provider's URL now
    request, run,
    crossed,        \* ghost: something was written while somebody else was between reading and writing
    sets

vars == <<kind, row, made, stored, mirrored, offered, request, run, crossed, sets>>

Own(id) == <<"own", id>>
Provider(s) == <<"provider", s>>
Mirror == <<"mirror", 0>>
Given == <<"given", 0>>                 \* a URL that was typed in
Idle == [at |-> "idle"]

Rows ==
    [id : 1..MaxRows, locked : BOOLEAN, source : {None} \cup (1..MaxOffers),
     url : {None, Mirror, Given} \cup {Own(i) : i \in 1..MaxRows} \cup {Provider(s) : s \in 1..MaxOffers}]
TypeOK ==
    /\ kind \in {"catalogue", "news", "profile"} /\ row \in {None} \cup Rows
    /\ made \in 0..MaxRows /\ stored \subseteq 1..made /\ offered \in 1..MaxOffers
    /\ mirrored \in {None} \cup (1..MaxOffers)
    /\ \A r \in Requests : request[r].at \in {"idle", "store", "write", "save", "clear"}
    /\ \A w \in Workers : run[w].at \in {"idle", "mirror", "write"}
    /\ crossed \in BOOLEAN /\ sets \in 0..MaxSets

NewRow(id, url, source) == [id |-> id, url |-> url, source |-> source, locked |-> FALSE]
Init ==
    /\ kind \in {"catalogue", "news", "profile"} /\ made = 1 /\ offered = 1
    /\ row = IF kind = "catalogue" THEN NewRow(1, Provider(1), 1) ELSE NewRow(1, None, None)
    /\ stored = {} /\ mirrored = None /\ crossed = FALSE /\ sets = 0
    /\ request = [r \in Requests |-> Idle] /\ run = [w \in Workers |-> Idle]

Cost == sets < MaxSets /\ sets' = sets + 1
\* Somebody else has read the row and will write what follows from that.
Pending(others, runs) ==
    \/ \E r \in others : request[r].at = "save"
    \/ \E w \in runs : run[w] # Idle /\ run[w].url # None
Is(id) == row # None /\ row.id = id

(***************************************************************************)
(* Administrators, and users with their profile.                           *)
(***************************************************************************)
To(r, q) == request' = [request EXCEPT ![r] = q]
RequestWrites(r) == crossed' = (crossed \/ Pending(Requests \ {r}, Workers))
\* A file or a URL is sent for a row that exists.
SetImage(r) ==
    /\ request[r] = Idle /\ row # None /\ kind # "profile" /\ Cost
    /\ \E from \in {"file", "url"} : To(r, [at |-> "store", id |-> row.id, from |-> from])
    /\ UNCHANGED <<kind, row, made, stored, mirrored, offered, run, crossed>>
\* ProfileService.setFromFile, setFromUrl: the signed-in user is not looked up.
SetProfile(r) ==
    /\ request[r] = Idle /\ kind = "profile" /\ Cost
    /\ \E from \in {"file", "url"} : To(r, [at |-> "store", id |-> 1, from |-> from])
    /\ UNCHANGED <<kind, row, made, stored, mirrored, offered, run, crossed>>
\* The file is no picture, or too large.
RefuseFile(r) ==
    /\ request[r].at = "store" /\ request[r].from = "file" /\ To(r, Idle)
    /\ UNCHANGED <<kind, row, made, stored, mirrored, offered, run, crossed, sets>>
\* The URL is not public, or gives no picture, or gives it too late.
RefuseUrl(r) ==
    /\ request[r].at = "store" /\ request[r].from = "url" /\ To(r, Idle)
    /\ UNCHANGED <<kind, row, made, stored, mirrored, offered, run, crossed, sets>>
\* Upload: the old object, if there is one, is replaced.
Store(r) ==
    /\ request[r].at = "store" /\ To(r, [at |-> "write", id |-> request[r].id])
    /\ stored' = stored \cup {request[r].id}
    /\ UNCHANGED <<kind, row, made, mirrored, offered, run, crossed, sets>>
\* updateImage: the result is not looked at, a row that is gone stays gone.
WriteRow(r) ==
    LET id == request[r].id IN
    /\ request[r].at = "write" /\ To(r, Idle)
    /\ row' = IF Is(id) THEN [row EXCEPT !.url = Own(id), !.locked = kind = "catalogue"] ELSE row
    /\ RequestWrites(r)
    /\ UNCHANGED <<kind, made, stored, mirrored, offered, run, sets>>
\* The object stays, and so does the URL that the provider's picture came from.
DeleteImage(r) ==
    /\ request[r] = Idle /\ row # None /\ kind # "profile" /\ Cost
    /\ row' = [row EXCEPT !.url = None, !.locked = FALSE] /\ RequestWrites(r)
    /\ UNCHANGED <<kind, made, stored, mirrored, offered, request, run>>
FindProfile(r) ==
    /\ request[r] = Idle /\ kind = "profile" /\ row # None /\ row.url # None /\ Cost
    /\ To(r, [at |-> "clear"])
    /\ UNCHANGED <<kind, row, made, stored, mirrored, offered, run, crossed>>
ClearProfile(r) ==
    /\ request[r].at = "clear" /\ To(r, Idle)
    /\ row' = IF row = None THEN None ELSE [row EXCEPT !.url = None]
    /\ RequestWrites(r)
    /\ UNCHANGED <<kind, made, stored, mirrored, offered, run, sets>>
\* The form of the row is opened, and saved with the URL it was opened with or another.
Open(r) ==
    /\ request[r] = Idle /\ row # None /\ Cost
    /\ To(r, [at |-> "save", id |-> row.id, url |-> row.url])
    /\ UNCHANGED <<kind, row, made, stored, mirrored, offered, run, crossed>>
Save(r) ==
    /\ request[r].at = "save" /\ To(r, Idle)
    /\ \E url \in {request[r].url, Given} :
         row' = IF Is(request[r].id) THEN [row EXCEPT !.url = url] ELSE row
    /\ RequestWrites(r)
    /\ UNCHANGED <<kind, made, stored, mirrored, offered, run, sets>>
Remove ==
    /\ row # None /\ row' = None /\ Cost
    /\ UNCHANGED <<kind, made, stored, mirrored, offered, request, run, crossed>>

(***************************************************************************)
(* The synchronisation.                                                    *)
(***************************************************************************)
Run(w, q) == run' = [run EXCEPT ![w] = q]
RunWrites(w) == crossed' = (crossed \/ Pending(Requests, Workers \ {w}))
\* Mutant: the administrator's lock is not asked.
ResolveLocked == row = None \/ row.source # offered
\* Whether resolveImage finds a picture to write.
Resolve == row = None \/ (~row.locked /\ row.source # offered)
Find(w) ==
    /\ kind = "catalogue" /\ run[w] = Idle
    /\ Run(w, [at |-> IF Resolve THEN "mirror" ELSE "write", source |-> offered,
               id |-> IF row = None THEN None ELSE row.id,
               url |-> IF Resolve THEN Provider(offered) ELSE None])
    /\ UNCHANGED <<kind, row, made, stored, mirrored, offered, request, crossed, sets>>
\* upsertSquadPlayer: who is only in the squad list gets the provider's URL.
FindInSquad(w) ==
    /\ kind = "catalogue" /\ run[w] = Idle /\ row = None
    /\ Run(w, [at |-> "write", source |-> offered, id |-> None, url |-> Provider(offered)])
    /\ UNCHANGED <<kind, row, made, stored, mirrored, offered, request, crossed, sets>>
\* ImageMirrorService.mirror; when it fails the provider's URL is written.
MirrorImage(w) ==
    LET q == run[w] IN
    /\ q.at = "mirror"
    /\ \/ /\ mirrored' = q.source /\ Run(w, [q EXCEPT !.at = "write", !.url = Mirror])
          /\ RunWrites(w)
       \/ Run(w, [q EXCEPT !.at = "write"]) /\ UNCHANGED <<mirrored, crossed>>
    /\ UNCHANGED <<kind, row, made, stored, offered, request, sets>>
\* An update by id, or the insert of a row that was not found; neither when the row went
\* or came meanwhile (the error is counted, the run goes on).
Upsert(w) ==
    LET q == run[w] IN
    /\ q.at = "write" /\ Run(w, Idle)
    /\ \/ /\ q.id # None /\ Is(q.id) /\ q.url # None
          /\ row' = [row EXCEPT !.url = q.url, !.source = q.source]
          /\ RunWrites(w) /\ UNCHANGED made
       \/ /\ q.id = None /\ row = None /\ made < MaxRows
          /\ row' = NewRow(made + 1, q.url, q.source) /\ made' = made + 1 /\ RunWrites(w)
       \/ /\ q.url = None \/ (q.id = None /\ row # None) \/ (q.id # None /\ ~Is(q.id))
          /\ UNCHANGED <<row, made, crossed>>
    /\ UNCHANGED <<kind, stored, mirrored, offered, request, sets>>
\* The process ends, or the query fails.
Break(w) ==
    /\ run[w] # Idle /\ Run(w, Idle) /\ Cost
    /\ UNCHANGED <<kind, row, made, stored, mirrored, offered, request, crossed>>
Offer ==
    /\ offered < MaxOffers /\ offered' = offered + 1
    /\ UNCHANGED <<kind, row, made, stored, mirrored, request, run, crossed, sets>>

Next ==
    \/ \E r \in Requests :
         \/ SetImage(r) \/ SetProfile(r) \/ RefuseFile(r) \/ RefuseUrl(r) \/ Store(r) \/ WriteRow(r)
         \/ DeleteImage(r) \/ FindProfile(r) \/ ClearProfile(r) \/ Open(r) \/ Save(r)
    \/ \E w \in Workers :
         Find(w) \/ FindInSquad(w) \/ MirrorImage(w) \/ Upsert(w) \/ Break(w)
    \/ Remove \/ Offer
Spec == Init /\ [][Next]_vars

(***************************************************************************)
(* Properties.                                                             *)
(***************************************************************************)
\* A row never names an object that was not stored (image-upload.service.ts:17-36,
\* image-mirror.service.ts:14-24).  And as long as nobody wrote between another's reading
\* and writing: a locked row shows what an administrator chose (docs/00-OVERVIEW.md:137:
\* the synchronisation does not overwrite it), and a row with the provider's latest URL
\* and a mirrored picture shows that very picture, whatever failed and whatever was
\* deleted and made anew (football-data.sync.service.ts:785-812).
ShowsWhatItSays ==
    row # None =>
      /\ row.url = Own(row.id) => row.id \in stored
      /\ row.url = Mirror => mirrored # None
      /\ ~crossed =>
           /\ row.locked => row.url \in {Own(row.id), Given}
           /\ row.url = Mirror /\ row.source = offered => mirrored = row.source
=============================================================================
