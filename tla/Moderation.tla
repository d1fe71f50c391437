----------------------------- MODULE Moderation -----------------------------
(***************************************************************************)
(* Reports of one post, comment or user, and their review (reports): a     *)
(* review may delete the content and ban its owner before the report gets  *)
(* its new status, each in queries of its own, and tells the reporter of   *)
(* it in the end.  Several administrators review at once, also the same    *)
(* report, and the owner deletes content too.                              *)
(***************************************************************************)
EXTENDS Naturals

CONSTANTS Reporters, Requests, None, MaxFaults

Statuses == {"Pending", "Reviewed", "Actioned", "Dismissed"}
Actions == {"deleteContent", "banUser"}

VARIABLES
    targetType,     \* "content" or "user"
    there,          \* the content, or the user that is reported, has a row
    owner,          \* user.status of the owner, or of the reported user
    report,         \* report.status, "none" without a row
    request,        \* [at, report, status, actions]
    claimed,        \* ghost: the actions that reports and mails say were taken
    banned,         \* ghost: the owner was banned once
    faults

vars == <<targetType, there, owner, report, request, claimed, banned, faults>>
target == <<targetType, there, owner, banned>>

Idle == [at |-> "idle", report |-> None, status |-> "Pending", actions |-> {}]
Points == {"duplicate", "create", "delete", "resolve", "ban", "save", "mail"}

TypeOK ==
    /\ targetType \in {"content", "user"} /\ there \in BOOLEAN
    /\ owner \in {"Active", "Banned"} /\ report \in [Reporters -> Statuses \cup {"none"}]
    /\ request \in [Requests -> {Idle} \cup [at : Points, report : Reporters, status : Statuses,
                                             actions : SUBSET Actions]]
    /\ \A p \in Requests : request[p].at \in {"delete", "resolve", "ban"} =>
           request[p].status = "Actioned" /\ request[p].actions # {}
    /\ claimed \subseteq Actions /\ banned \in BOOLEAN /\ faults \in 0..MaxFaults

Init ==
    /\ targetType \in {"content", "user"} /\ there = TRUE /\ owner = "Active"
    /\ report = [r \in Reporters |-> "none"] /\ request = [p \in Requests |-> Idle]
    /\ claimed = {} /\ banned = FALSE /\ faults = 0

Fault == faults < MaxFaults /\ faults' = faults + 1
To(p, at) == request' = [request EXCEPT ![p].at = at]
\* The request is answered, also with an error.
End(p) == request' = [request EXCEPT ![p] = Idle]

(***************************************************************************)
(* Users.                                                                  *)
(***************************************************************************)
\* ReportsService.create: a row there already, or one that the unique index finds, is refused.
AssertTargetExists(p, r) ==
    /\ request[p] = Idle /\ there
    /\ request' = [request EXCEPT ![p] = [Idle EXCEPT !.at = "duplicate", !.report = r]]
    /\ UNCHANGED <<target, report, claimed, faults>>
FindDuplicate(p) ==
    /\ request[p].at = "duplicate"
    /\ IF report[request[p].report] = "none" THEN To(p, "create") ELSE End(p)
    /\ UNCHANGED <<target, report, claimed, faults>>
Create(p) ==
    /\ request[p].at = "create" /\ End(p)
    /\ report' = [report EXCEPT ![request[p].report] = IF @ = "none" THEN "Pending" ELSE @]
    /\ UNCHANGED <<target, claimed, faults>>

\* The owner deletes the content, a user is deleted with its content.
Remove ==
    /\ there /\ there' = FALSE
    /\ UNCHANGED <<targetType, owner, report, request, claimed, banned, faults>>
\* An administrator lifts the ban.
Unban ==
    /\ owner = "Banned" /\ owner' = "Active"
    /\ UNCHANGED <<targetType, there, report, request, claimed, banned, faults>>

(***************************************************************************)
(* ReportsService.review.                                                  *)
(***************************************************************************)
\* What comes after a step with these actions still to do.
After(actions) ==
    IF "deleteContent" \in actions THEN "delete"
    ELSE IF "banUser" \in actions THEN "resolve" ELSE "save"
\* Both actions are only for Actioned.
Review(p, r, status, actions) ==
    /\ request[p] = Idle /\ report[r] # "none" /\ status # "Actioned" => actions = {}
    /\ request' = [request EXCEPT ![p] =
          [at |-> After(actions), report |-> r, status |-> status, actions |-> actions]]
    /\ UNCHANGED <<target, report, claimed, faults>>

\* adminRemove; users are not deleted, and a row that has gone is not found.
DeleteTarget(p) ==
    /\ request[p].at = "delete"
    /\ \/ /\ targetType = "content" /\ there /\ there' = FALSE
          /\ To(p, After(request[p].actions \ {"deleteContent"}))
       \/ (targetType = "user" \/ ~there) /\ End(p) /\ UNCHANGED there
    /\ UNCHANGED <<targetType, owner, report, claimed, banned, faults>>

\* Mutant: nobody to ban, nothing to do.
ResolveOrSkip(p) ==
    /\ request[p].at = "resolve"
    /\ IF targetType = "user" \/ there THEN To(p, "ban") ELSE To(p, "save")
    /\ UNCHANGED <<target, report, claimed, faults>>
\* The owner is read from the content.
ResolveOwner(p) ==
    /\ request[p].at = "resolve"
    /\ IF targetType = "user" \/ there THEN To(p, "ban") ELSE End(p)
    /\ UNCHANGED <<target, report, claimed, faults>>

\* UsersService.updateStatus: refused for a user that has gone and for the last active
\* administrator; what follows the row, the tokens and the cache, may fail.
BanTargetUser(p) ==
    LET ban == owner' = "Banned" /\ banned' = TRUE
    IN  /\ request[p].at = "ban"
        /\ \/ (targetType = "content" \/ there) /\ ban /\ To(p, "save") /\ UNCHANGED faults
           \/ (targetType = "content" \/ there) /\ ban /\ End(p) /\ Fault
           \/ End(p) /\ UNCHANGED <<owner, banned, faults>>
        /\ UNCHANGED <<targetType, there, report, claimed>>

Save(p) ==
    LET r == request[p].report
    IN  /\ request[p].at = "save"
        /\ report' = [report EXCEPT ![r] = request[p].status]
        /\ claimed' = claimed \cup request[p].actions
        /\ IF request[p].status \in {"Actioned", "Dismissed"} THEN To(p, "mail") ELSE End(p)
        /\ UNCHANGED <<target, faults>>

NotifyReporter(p) ==
    /\ request[p].at = "mail" /\ End(p)
    /\ claimed' = claimed \cup request[p].actions
    /\ UNCHANGED <<target, report, faults>>

\* A query, the mail or the process fails before the next step takes effect.
Break(p) ==
    /\ request[p] # Idle /\ Fault /\ End(p)
    /\ UNCHANGED <<target, report, claimed>>

Next ==
    \/ \E p \in Requests :
          \/ \E r \in Reporters :
                \/ AssertTargetExists(p, r)
                \/ \E s \in Statuses, a \in SUBSET Actions : Review(p, r, s, a)
          \/ FindDuplicate(p) \/ Create(p) \/ DeleteTarget(p) \/ ResolveOwner(p)
          \/ BanTargetUser(p) \/ Save(p) \/ NotifyReporter(p) \/ Break(p)
    \/ Remove \/ Unban
Spec == Init /\ [][Next]_vars

(***************************************************************************)
(* Properties                                                              *)
(***************************************************************************)
\* What a review that has set its report to Actioned was asked to do, and what the
\* reporter is told, has been done: "when an action fails the report stays Pending"
\* (reports.service.ts:105-108, :194-203).
ActionedIsTrue ==
    /\ "deleteContent" \in claimed => targetType = "content" /\ ~there
    /\ "banUser" \in claimed => banned
=============================================================================
