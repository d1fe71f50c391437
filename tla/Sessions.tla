------------------------------ MODULE Sessions ------------------------------
(***************************************************************************)
(* The refresh tokens and the password of one user (src/auth): login,      *)
(* rotation, logout, revoke-all and password reset.  Each is a chain of    *)
(* queries without a common transaction; requests of the same user overlap.*)
(* Access tokens carry no state here; the status of the account is module  *)
(* Accounts.                                                               *)
(***************************************************************************)
EXTENDS Naturals, FiniteSets

CONSTANTS
  Tokens,         \* refresh tokens that may be issued
  ResetTokens,    \* password reset tokens that may be sent
  Requests,       \* requests that run at the same time
  None,           \* no token
  MaxFaults       \* bound: requests that end before they are done

ASSUME ConstantsAssumption ==
  /\ IsFiniteSet(Tokens) /\ IsFiniteSet(Requests)
  /\ None \notin Tokens \cup ResetTokens
  /\ MaxFaults \in Nat

VARIABLES
  token,          \* refresh_token row: "free" (not issued), "live", "revoked"
  expired,        \* tokens whose expiresAt has passed
  replacedBy,     \* replacedByToken
  password,       \* how often the password was changed
  reset,          \* password_reset_token row: "free", "sent", "used"
  lapsed,         \* reset tokens whose expiresAt has passed
  pc,             \* where each request is
  old, new,       \* the token it rotates and the one it issued for it
  link,           \* the reset token it was sent with
  known,          \* the password version it has verified
  opened,         \* ghost: sessions opened by a login
  ended,          \* ghost: live tokens ended by logout, revoke-all or reset
  forks,          \* ghost: rotations that found their token already revoked
  lost,           \* ghost: rotations that ended before the old token's end
  unrevoked,      \* ghost: resets that ended before the sessions' end
  version,        \* ghost: the password version a token goes back to
  late,           \* ghost: tokens issued for a password already replaced
  faults

rows   == <<token, expired, replacedBy, password, reset, lapsed>>
req    == <<pc, old, new, link, known>>
counts == <<opened, ended, forks, lost, unrevoked>>
ghosts == <<version, late>>
vars   == <<rows, req, counts, ghosts, faults>>

Points == {"idle", "issue", "rotate", "retire", "apply", "revoke"}

TypeOK ==
  /\ token \in [Tokens -> {"free", "live", "revoked"}]
  /\ expired \subseteq Tokens /\ lapsed \subseteq ResetTokens
  /\ replacedBy \in [Tokens -> Tokens \cup {None}]
  /\ password \in Nat
  /\ reset \in [ResetTokens -> {"free", "sent", "used"}]
  /\ pc \in [Requests -> Points]
  /\ old \in [Requests -> Tokens \cup {None}]
  /\ new \in [Requests -> Tokens \cup {None}]
  /\ link \in [Requests -> ResetTokens \cup {None}]
  /\ \A p \in Requests :
       /\ old[p] # None <=> pc[p] \in {"rotate", "retire"}
       /\ new[p] # None <=> pc[p] = "retire"
       /\ link[p] # None <=> pc[p] = "apply"
  /\ known \in [Requests -> Nat]
  /\ opened \in Nat /\ ended \in Nat /\ forks \in Nat /\ lost \in Nat
  /\ unrevoked \in Nat
  /\ version \in [Tokens -> Nat] /\ late \subseteq Tokens
  /\ faults \in Nat

Init ==
  /\ token = [t \in Tokens |-> "free"]
  /\ expired = {} /\ lapsed = {}
  /\ replacedBy = [t \in Tokens |-> None]
  /\ password = 0
  /\ reset = [r \in ResetTokens |-> "free"]
  /\ pc = [p \in Requests |-> "idle"]
  /\ old = [p \in Requests |-> None] /\ new = [p \in Requests |-> None]
  /\ link = [p \in Requests |-> None]
  /\ known = [p \in Requests |-> 0]
  /\ opened = 0 /\ ended = 0 /\ forks = 0 /\ lost = 0 /\ unrevoked = 0
  /\ version = [t \in Tokens |-> 0] /\ late = {}
  /\ faults = 0

Live == {t \in Tokens : token[t] = "live"}

(* The request is answered, or given up. *)
Done(p) ==
  /\ pc' = [pc EXCEPT ![p] = "idle"]
  /\ old' = [old EXCEPT ![p] = None]
  /\ new' = [new EXCEPT ![p] = None]
  /\ link' = [link EXCEPT ![p] = None]
  /\ known' = [known EXCEPT ![p] = 0]

(* issueRefreshToken: a new row for a session of password version v. *)
Insert(t, v) ==
  /\ token[t] = "free"
  /\ token' = [token EXCEPT ![t] = "live"]
  /\ version' = [version EXCEPT ![t] = v]
  /\ late' = IF v < password THEN late \cup {t} ELSE late

(* revokeAllForUser. *)
RevokeAll ==
  /\ token' = [t \in Tokens |-> IF t \in Live THEN "revoked" ELSE token[t]]
  /\ ended' = ended + Cardinality(Live)

-----------------------------------------------------------------------------
(* login: the user is read and the password verified; google() reads the
   user without a password. *)
LoginCheck(p) ==
  /\ pc[p] = "idle"
  /\ pc' = [pc EXCEPT ![p] = "issue"]
  /\ known' = [known EXCEPT ![p] = password]
  /\ UNCHANGED <<rows, old, new, link, counts, ghosts, faults>>

(* ... and a token issued. *)
LoginIssue(p, t) ==
  /\ pc[p] = "issue"
  /\ Insert(t, known[p])
  /\ opened' = opened + 1
  /\ Done(p)
  /\ UNCHANGED <<expired, replacedBy, password, reset, lapsed, ended, forks,
                 lost, unrevoked, faults>>

(* rotateRefreshToken: the token is neither revoked nor expired. *)
RotateCheck(p, t) ==
  /\ pc[p] = "idle"
  /\ token[t] = "live" /\ t \notin expired
  /\ pc' = [pc EXCEPT ![p] = "rotate"]
  /\ old' = [old EXCEPT ![p] = t]
  /\ UNCHANGED <<rows, new, link, known, counts, ghosts, faults>>

(* Its successor is issued. *)
RotateIssue(p, t) ==
  /\ pc[p] = "rotate"
  /\ Insert(t, version[old[p]])
  /\ pc' = [pc EXCEPT ![p] = "retire"]
  /\ new' = [new EXCEPT ![p] = t]
  /\ UNCHANGED <<expired, replacedBy, password, reset, lapsed, old, link, known,
                 counts, faults>>

(* Variant: the old token is only linked to its successor. *)
RotateRetireLinks(p) ==
  /\ pc[p] = "retire"
  /\ replacedBy' = [replacedBy EXCEPT ![old[p]] = new[p]]
  /\ Done(p)
  /\ UNCHANGED <<token, expired, password, reset, lapsed, counts, ghosts, faults>>

(* Variant: the link is written to the successor's row. *)
RotateRetireLinksBack(p) ==
  /\ pc[p] = "retire"
  /\ token' = [token EXCEPT ![old[p]] = "revoked"]
  /\ replacedBy' = [replacedBy EXCEPT ![new[p]] = old[p]]
  /\ forks' = IF token[old[p]] = "live" THEN forks ELSE forks + 1
  /\ Done(p)
  /\ UNCHANGED <<expired, password, reset, lapsed, opened, ended, lost,
                 unrevoked, ghosts, faults>>

(* The old token is revoked, whatever has happened to it meanwhile. *)
RotateRetire(p) ==
  /\ pc[p] = "retire"
  /\ token' = [token EXCEPT ![old[p]] = "revoked"]
  /\ replacedBy' = [replacedBy EXCEPT ![old[p]] = new[p]]
  /\ forks' = IF token[old[p]] = "live" THEN forks ELSE forks + 1
  /\ Done(p)
  /\ UNCHANGED <<expired, password, reset, lapsed, opened, ended, lost,
                 unrevoked, ghosts, faults>>

(* logout: one updateMany. *)
Logout(t) ==
  /\ token[t] = "live"
  /\ token' = [token EXCEPT ![t] = "revoked"]
  /\ ended' = ended + 1
  /\ UNCHANGED <<expired, replacedBy, password, reset, lapsed, req, opened,
                 forks, lost, unrevoked, ghosts, faults>>

(* revokeAll, from its endpoint or from UsersService.updateStatus. *)
LogoutEverywhere ==
  /\ Live # {}
  /\ RevokeAll
  /\ UNCHANGED <<expired, replacedBy, password, reset, lapsed, req, opened,
                 forks, lost, unrevoked, ghosts, faults>>

(* requestReset: a reset token is stored and mailed. *)
RequestReset(r) ==
  /\ reset[r] = "free"
  /\ reset' = [reset EXCEPT ![r] = "sent"]
  /\ UNCHANGED <<token, expired, replacedBy, password, lapsed, req, counts,
                 ghosts, faults>>

(* reset: the token is found, unused and not expired ... *)
ResetFind(p, r) ==
  /\ pc[p] = "idle"
  /\ reset[r] = "sent" /\ r \notin lapsed
  /\ pc' = [pc EXCEPT ![p] = "apply"]
  /\ link' = [link EXCEPT ![p] = r]
  /\ UNCHANGED <<rows, old, new, known, counts, ghosts, faults>>

(* Variant: the reset is done when the password is changed. *)
ResetApplyDone(p) ==
  LET r == link[p] IN
  /\ pc[p] = "apply"
  /\ password' = password + 1
  /\ reset' = [reset EXCEPT ![r] = "used"]
  /\ Done(p)
  /\ UNCHANGED <<token, expired, replacedBy, lapsed, counts, version, late, faults>>

(* ... the transaction changes the password and marks the token used ... *)
ResetApply(p) ==
  LET r == link[p] IN
  /\ pc[p] = "apply"
  /\ password' = password + 1
  /\ reset' = [reset EXCEPT ![r] = "used"]
  /\ pc' = [pc EXCEPT ![p] = "revoke"]
  /\ link' = [link EXCEPT ![p] = None]
  /\ UNCHANGED <<token, expired, replacedBy, lapsed, old, new, known, counts,
                 version, late, faults>>

(* ... and the sessions are ended; the mail that follows changes nothing. *)
ResetRevoke(p) ==
  /\ pc[p] = "revoke"
  /\ RevokeAll
  /\ Done(p)
  /\ UNCHANGED <<expired, replacedBy, password, reset, lapsed, opened, forks,
                 lost, unrevoked, ghosts, faults>>

(* A query fails or the process ends. *)
Crash(p) ==
  /\ pc[p] # "idle"
  /\ faults < MaxFaults /\ faults' = faults + 1
  /\ lost' = IF pc[p] = "retire" THEN lost + 1 ELSE lost
  /\ unrevoked' = IF pc[p] = "revoke" THEN unrevoked + 1 ELSE unrevoked
  /\ Done(p)
  /\ UNCHANGED <<rows, opened, ended, forks, ghosts>>

Expire(t) ==
  /\ token[t] # "free" /\ t \notin expired
  /\ expired' = expired \cup {t}
  /\ UNCHANGED <<token, replacedBy, password, reset, lapsed, req, counts,
                 ghosts, faults>>

Lapse(r) ==
  /\ reset[r] # "free" /\ r \notin lapsed
  /\ lapsed' = lapsed \cup {r}
  /\ UNCHANGED <<token, expired, replacedBy, password, reset, req, counts,
                 ghosts, faults>>

Next ==
  \/ LogoutEverywhere
  \/ \E t \in Tokens : Logout(t) \/ Expire(t)
  \/ \E r \in ResetTokens : RequestReset(r) \/ Lapse(r)
  \/ \E p \in Requests :
       \/ LoginCheck(p) \/ RotateRetire(p) \/ ResetApply(p) \/ ResetRevoke(p)
       \/ Crash(p)
       \/ \E t \in Tokens : LoginIssue(p, t) \/ RotateCheck(p, t) \/ RotateIssue(p, t)
       \/ \E r \in ResetTokens : ResetFind(p, r)

Spec == Init /\ [][Next]_vars

-----------------------------------------------------------------------------
(***************************************************************************)
(* Properties.                                                             *)
(***************************************************************************)
Retiring == {p \in Requests : pc[p] = "retire"}

(* Every live token is a login's, or that of a rotation that is still to   *)
(* retire its predecessor, came second or was cut short: rotation does not *)
(* multiply sessions otherwise (token.service.ts:63-86).                   *)
SessionsAccounted ==
  Cardinality(Live) + ended = opened + Cardinality(Retiring) + forks + lost

(* A session opened with an old password is live only while a reset has    *)
(* still to end the sessions, if one was cut short, or if the token was    *)
(* issued after the change: to a login that was checked before it, or in   *)
(* exchange for a token that the reset had not ended when it was checked   *)
(* (password.service.ts:77-87).                                            *)
OldSessionNeedsRace ==
  \A t \in Live :
    version[t] < password =>
      t \in late \/ unrevoked > 0 \/ \E p \in Requests : pc[p] = "revoke"

(* The chain of replacedByToken: a token succeeds at most one other, and   *)
(* a token that was replaced is revoked (token.service.ts:81-84).          *)
ChainSound ==
  \A s, t \in Tokens :
    replacedBy[t] # None =>
      /\ token[t] = "revoked"
      /\ token[replacedBy[t]] # "free"
      /\ s # t => replacedBy[s] # replacedBy[t]
=============================================================================
