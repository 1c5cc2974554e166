----------------------------- MODULE CasePages -----------------------------
(***************************************************************************)
(* The pages of a case as one person uses them while others work on the    *)
(* same case: the case page and the referral page of the staff, the record *)
(* and the request page of the worker it is about.  A page shows what the  *)
(* server sent when it was loaded, and offers buttons and links by it; the *)
(* server decides about each press by what is true then.                   *)
(***************************************************************************)
EXTENDS Naturals

CONSTANTS
    Viewers,    \* who uses the pages: roles
    MaxUnseen   \* bound: changes by others that a loaded page does not show

VARIABLES
    viewer,     \* the person of this behaviour
    page,       \* the page that is open
    seen,       \* the case as the page shows it
    world,      \* the case as it is
    unseen      \* how many changes by others the page does not show

vars == <<viewer, page, seen, world, unseen>>

Own == "r1"         \* the referral of the agency of this behaviour
Refs == {Own, "r2"}
Settled == {"COMPLETED", "REJECTED"}
Absent == {"NONE", "GONE"}
World ==
    [case : {"PENDING_REVIEW", "OPEN", "CLOSED", "ARCHIVED", "REJECTED"}, trash : BOOLEAN,
     ref : [Refs -> {"NONE", "PENDING", "PROCESSING", "FOR_COMPLIANCE", "GONE"} \cup Settled],
     request : {"none", "open", "finished"}, link : {"none", "active", "dead"},
     doc : {"none", "case", "referral"},
     long : BOOLEAN]   \* too much for the one page of the summary

Staff == viewer \in {"case_manager", "admin"}
Agency == viewer = "agency"

\* The server's rules that several controls share, and that the pages repeat.
There(w, r) == ~w.trash /\ w.ref[r] \notin Absent
Active(w, r) == There(w, r) /\ w.ref[r] \notin Settled
SomeActive(w) == \E r \in Refs : Active(w, r)
ReadsCase(w) == ~w.trash /\ (Staff \/ (Agency /\ Active(w, Own)))
ReadsReferral(w, r) == There(w, r) /\ (Staff \/ (Agency /\ r = Own))
OwnsCase(w) == ~w.trash /\ viewer = "owner"
WritesToClient(w) == Active(w, Own) /\ w.case \notin {"CLOSED", "ARCHIVED"}

Offer(condition, does, to) == IF condition THEN {<<d, to>> : d \in does} ELSE {}

----------------------------------------------------------------------------
(* What the case page offers. *)

CaseHeader(s) ==
    Offer(TRUE, {"export_pdf", "case_log"}, "case")
      \cup Offer(s.case = "ARCHIVED", {"unarchive"}, "case")
      \cup Offer(s.case = "ARCHIVED" /\ Staff, {"delete_case"}, "case")
      \cup Offer(s.case = "CLOSED" /\ ~SomeActive(s), {"archive"}, "case")

CaseSummary(s) ==
    Offer(TRUE, {"edit"}, "case")
      \cup Offer(~(s.case = "OPEN" /\ SomeActive(s)), {"toggle"}, "case")

\* Mutation: completed referrals can be deleted like the others.
ReferralRowAlways(s, r) ==
    Offer(There(s, r), {"open_referral"}, r)
      \cup Offer(There(s, r) /\ Staff, {"delete_referral"}, r)

ReferralRow(s, r) ==
    Offer(There(s, r), {"open_referral"}, r)
      \cup Offer(There(s, r) /\ Staff /\ s.ref[r] # "COMPLETED", {"delete_referral"}, r)

ReferralTable(s) ==
    {<<"refer", "case">>} \cup UNION {ReferralRow(s, r) : r \in Refs}

CaseDocuments(s) ==
    Offer(viewer = "case_manager", {"upload_case"}, "case")
      \cup Offer(s.doc = "case" \/ (s.doc = "referral" /\ (Staff \/ There(s, Own))), {"download"}, "case")
      \cup Offer(s.doc # "none" /\ viewer = "case_manager", {"delete_document"}, "case")

----------------------------------------------------------------------------
(* What the referral page offers; it is the page of the agency's referral. *)

ReferralSummary(s) ==
    Offer(TRUE, {"open_case", "referral_log"}, Own)
      \cup Offer(Agency /\ s.ref[Own] = "PENDING", {"PROCESSING", "FOR_COMPLIANCE", "REJECTED"}, Own)

StatusDialog(s) ==
    Offer(Agency /\ s.ref[Own] \notin Settled \cup {"PENDING"},
          {"PROCESSING", "FOR_COMPLIANCE"} \cup Settled, Own)

ServiceCard(s) ==
    Offer(Agency /\ s.ref[Own] # "COMPLETED", {"drop_service", "requirements"}, Own)

ServiceAddDropdown(s) ==
    Offer(Agency /\ s.ref[Own] # "COMPLETED", {"add_service"}, Own)

Timeline(s) ==
    Offer(Agency /\ s.ref[Own] \notin {"COMPLETED", "PENDING"}, {"milestone"}, Own)

RelatedReferrals(s) ==
    Offer(There(s, "r2") /\ Staff, {"open_referral"}, "r2")
      \cup Offer(There(s, "r2") /\ Agency, {"thread"}, "r2")

Comments(s) == Offer(TRUE, {"comment"}, Own)

ReferralDocuments(s) ==
    Offer(Staff, {"upload_referral"}, Own)
      \cup Offer(s.doc = "referral", {"download"}, Own)

\* The request and the permissions are the server's of the moment of loading.
ClientRequestCard(s) ==
    Offer(Agency /\ WritesToClient(s) /\ s.request = "open", {"reply", "complete", "cancel"}, Own)
      \cup Offer(Agency /\ WritesToClient(s) /\ s.request = "finished", {"reopen"}, Own)
      \cup Offer(Agency /\ WritesToClient(s) /\ s.request # "none", {"review"}, Own)

ClientRequestAccess(s) ==
    Offer(s.link = "active" /\ (Agency \/ viewer = "admin"), {"revoke"}, Own)
      \cup Offer(s.link = "none" /\ s.request # "none" /\ Agency /\ WritesToClient(s), {"issue"}, Own)
      \cup Offer(s.link = "dead" /\ Agency /\ WritesToClient(s), {"reissue"}, Own)

ClientRequestsSection(s) ==
    Offer(Agency /\ WritesToClient(s), {"create"}, Own)
      \cup (IF Agency \/ viewer = "admin" THEN ClientRequestCard(s) \cup ClientRequestAccess(s) ELSE {})

----------------------------------------------------------------------------
(* What the worker's record and request page offer. *)

OwnerRequests(s) ==
    Offer(WritesToClient(s) /\ s.request = "open", {"open_request"}, Own)

OwnerAgencies(s) ==
    UNION {Offer(There(s, r), {"milestones"}, r) : r \in Refs}

OwnerConversation(s) ==
    Offer(s.request = "open", {"answer"}, Own) \cup Offer(TRUE, {"open_case"}, Own)

Offered(s) ==
    CASE page = "case" -> CaseHeader(s) \cup CaseSummary(s) \cup ReferralTable(s) \cup CaseDocuments(s)
      [] page = "referral" -> ReferralSummary(s) \cup StatusDialog(s) \cup ServiceCard(s)
                                \cup ServiceAddDropdown(s) \cup Timeline(s) \cup RelatedReferrals(s)
                                \cup Comments(s) \cup ReferralDocuments(s) \cup ClientRequestsSection(s)
      [] page = "record" -> OwnerRequests(s) \cup OwnerAgencies(s)
      [] page = "request" -> OwnerConversation(s)
      [] page = "elsewhere" -> {}

----------------------------------------------------------------------------
(* What the server does. *)

Transitions ==
    [PENDING |-> {"PROCESSING", "FOR_COMPLIANCE", "REJECTED"},
     PROCESSING |-> {"PROCESSING", "FOR_COMPLIANCE"} \cup Settled,
     FOR_COMPLIANCE |-> {"PROCESSING", "FOR_COMPLIANCE"} \cup Settled,
     COMPLETED |-> {"COMPLETED"}, REJECTED |-> {"REJECTED"}]

Toggles(w) == ~w.trash /\ (w.case = "CLOSED" \/ (w.case = "OPEN" /\ ~SomeActive(w)))
Archives(w) == ~w.trash /\ w.case = "CLOSED" /\ ~SomeActive(w)
Unarchives(w) == ~w.trash /\ w.case = "ARCHIVED"

\* Whether the server grants the press of the viewer: on the case ...
CaseServes(does, w) ==
    CASE does = "case_log" -> ReadsCase(w)
      [] does = "open_case" -> IF viewer = "owner" THEN OwnsCase(w) ELSE ReadsCase(w)
      [] does = "export_pdf" -> Staff /\ ~w.trash /\ ~w.long
      [] does \in {"edit", "upload_case"} -> Staff /\ ~w.trash
      [] does = "refer" -> Staff /\ ~w.trash /\ w.case = "OPEN"
      [] does = "toggle" -> Staff /\ Toggles(w)
      [] does = "archive" -> Staff /\ Archives(w)
      [] does \in {"unarchive", "delete_case"} -> Staff /\ Unarchives(w)
      [] does = "delete_document" -> Staff /\ ~w.trash /\ w.doc # "none"
      [] does = "download" -> ReadsCase(w) /\ w.doc # "none" /\ (w.doc = "referral" /\ Agency => There(w, Own))
      [] OTHER -> FALSE

\* ... on a referral ...
ReferralServes(does, r, w) ==
    CASE does = "delete_referral" -> Staff /\ There(w, r) /\ w.ref[r] # "COMPLETED"
      [] does = "upload_referral" -> Staff /\ There(w, r)
      [] does \in {"open_referral", "referral_log", "comment"} -> ReadsReferral(w, r)
      [] does \in DOMAIN Transitions -> ReadsReferral(w, r) /\ does \in Transitions[w.ref[r]]
      [] does \in {"add_service", "drop_service", "requirements"} ->
           ReadsReferral(w, r) /\ w.ref[r] # "COMPLETED"
      [] does = "milestone" -> ReadsReferral(w, r) /\ w.ref[r] \in {"PROCESSING", "FOR_COMPLIANCE"}
      [] does = "thread" -> There(w, r) /\ There(w, Own)
      [] does = "milestones" -> OwnsCase(w) /\ There(w, r)
      [] OTHER -> FALSE

\* ... and on the request to the client.
RequestServes(does, r, w) ==
    CASE does = "create" -> WritesToClient(w)
      [] does \in {"reply", "complete", "cancel", "issue", "reissue"} -> WritesToClient(w) /\ w.request = "open"
      [] does = "reopen" -> WritesToClient(w) /\ w.request = "finished"
      [] does = "review" -> WritesToClient(w) /\ w.request # "none"
      [] does = "revoke" -> There(w, Own)
      [] does = "open_request" -> OwnsCase(w) /\ There(w, r) /\ w.request # "none"
      [] does = "answer" -> OwnsCase(w) /\ WritesToClient(w) /\ w.request = "open"
      [] OTHER -> FALSE

Served(c, w) ==
    CaseServes(c[1], w) \/ ReferralServes(c[1], c[2], w) \/ RequestServes(c[1], c[2], w)

\* What the request leaves of its link: a completed one stays readable.
Finish(w, link) == [w EXCEPT !.request = "finished", !.link = IF @ = "active" THEN link ELSE @]
\* A link is sent if the client has an address.
Send(w) == {[w EXCEPT !.request = "open", !.link = l] : l \in {"active", IF w.link = "none" THEN "none" ELSE "dead"}}
Deleted(w, r) ==
    [w EXCEPT !.ref[r] = "GONE", !.request = IF r = Own THEN "none" ELSE @, !.link = IF r = Own THEN "none" ELSE @]

\* What a granted press makes of the case.
Done(c, w) ==
    LET does == c[1]  to == c[2] IN
    CASE does = "toggle" -> {[w EXCEPT !.case = IF @ = "OPEN" THEN "CLOSED" ELSE "OPEN"]}
      [] does = "archive" -> {[w EXCEPT !.case = "ARCHIVED"]}
      [] does = "unarchive" -> {[w EXCEPT !.case = "CLOSED"]}
      [] does = "delete_case" -> {[w EXCEPT !.trash = TRUE]}
      [] does = "delete_referral" -> {Deleted(w, to)}
      [] does = "delete_document" -> {[w EXCEPT !.doc = "none"]}
      [] does = "upload_case" -> {[w EXCEPT !.doc = "case"]}
      [] does = "edit" -> {[w EXCEPT !.long = l] : l \in BOOLEAN}
      [] does = "upload_referral" -> {[w EXCEPT !.doc = "referral"]}
      [] does \in DOMAIN Transitions -> {[w EXCEPT !.ref[to] = does]}
      [] does \in {"create", "issue", "reissue", "reopen"} -> Send(w)
      [] does = "complete" -> {Finish(w, "active")}
      [] does = "cancel" -> {Finish(w, "dead")}
      [] does = "revoke" -> {[w EXCEPT !.link = "dead"]}
      [] OTHER -> {w}

When(condition, worlds) == IF condition THEN worlds ELSE {}

\* What others may make of it, each by a right of their own: of the case ...
CaseByOthers(w) ==
    When(w.case = "PENDING_REVIEW", {[w EXCEPT !.case = s] : s \in {"OPEN", "REJECTED"}})
      \cup When(Toggles(w), {[w EXCEPT !.case = IF @ = "OPEN" THEN "CLOSED" ELSE "OPEN"]})
      \cup When(Archives(w), {[w EXCEPT !.case = "ARCHIVED"]})
      \cup When(Unarchives(w), {[w EXCEPT !.case = "CLOSED"]})
      \cup When(w.case = "ARCHIVED", {[w EXCEPT !.trash = ~@]})
      \cup When(~w.trash, {[w EXCEPT !.doc = d] : d \in {"none", "case"}})
      \cup When(~w.trash, {[w EXCEPT !.long = ~@]})

\* ... of a referral ...
ReferralByOthers(w, r) ==
    When(w.case = "OPEN" /\ w.ref[r] = "NONE", {[w EXCEPT !.ref[r] = "PENDING"]})
      \cup When(There(w, r), {[w EXCEPT !.ref[r] = s] : s \in Transitions[w.ref[r]]})
      \cup When(There(w, r) /\ w.ref[r] # "COMPLETED", {Deleted(w, r)})

\* ... and of the request to the client.
RequestByOthers(w) ==
    When(WritesToClient(w), Send(w))
      \cup When(WritesToClient(w) /\ w.request = "open", {Finish(w, l) : l \in {"active", "dead"}})
      \cup When(w.link = "active", {[w EXCEPT !.link = "dead"]})

ByOthers(w) ==
    CaseByOthers(w) \cup (UNION {ReferralByOthers(w, r) : r \in Refs}) \cup RequestByOthers(w)

----------------------------------------------------------------------------
(* The person at the pages. *)

Pages == IF viewer = "owner" THEN {"record", "request"} ELSE {"case", "referral"}

\* Whether the server answers with the page.
Opens(p, w) ==
    CASE p = "case" -> ReadsCase(w)
      [] p = "referral" -> ReadsReferral(w, Own)
      [] p = "record" -> OwnsCase(w)
      [] p = "request" -> OwnsCase(w) /\ There(w, Own) /\ w.request # "none"

Load(p) == page' = p /\ seen' = world' /\ unseen' = 0

Open ==
    /\ UNCHANGED <<viewer, world>>
    /\ \E p \in Pages : Opens(p, world) /\ Load(p)

\* Where the answer to a granted press leads; a download, an export, a log or
\* a message leaves the page as it is, and so does the deletion of a document,
\* which is answered with data instead of a page.
Target(c) ==
    CASE c[1] \in {"export_pdf", "case_log", "referral_log", "download", "thread", "delete_document"} -> "same"
      [] c[1] \in {"refer", "delete_case", "milestones"} \/ c = <<"open_referral", "r2">> -> "elsewhere"
      [] c = <<"open_referral", Own>> -> "referral"
      [] c[1] = "open_case" -> IF viewer = "owner" THEN "record" ELSE "case"
      [] c[1] = "open_request" -> "request"
      [] OTHER -> page

Answered(c) ==
    IF Target(c) = "same" THEN UNCHANGED <<page, seen, unseen>> ELSE Load(Target(c))

Press(c) ==
    /\ c \in Offered(seen)
    /\ Served(c, world)
    /\ world' \in Done(c, world)
    /\ Answered(c)
    /\ UNCHANGED viewer

\* A refusal sends the page back with a message, or shows an error over it.
Refused(c) ==
    /\ c \in Offered(seen)
    /\ ~Served(c, world)
    /\ UNCHANGED <<viewer, world>>
    /\ \/ UNCHANGED <<page, seen, unseen>>
       \/ Opens(page, world) /\ Load(page)

Others ==
    /\ world' \in ByOthers(world)
    /\ page = "elsewhere" \/ unseen < MaxUnseen
    /\ unseen' = IF page = "elsewhere" THEN 0 ELSE unseen + 1
    /\ seen' = IF page = "elsewhere" THEN world' ELSE seen
    /\ UNCHANGED <<viewer, page>>

Init ==
    /\ viewer \in Viewers
    /\ page = "elsewhere"
    /\ world = [case |-> "PENDING_REVIEW", trash |-> FALSE, ref |-> [r \in Refs |-> "NONE"],
                request |-> "none", link |-> "none", doc |-> "none", long |-> FALSE]
    /\ seen = world
    /\ unseen = 0

\* The person goes to another part of the application.
Leave == page # "elsewhere" /\ UNCHANGED <<viewer, world>> /\ page' = "elsewhere" /\ seen' = world /\ unseen' = 0

Next ==
    \/ Open \/ Leave \/ Others
    \/ \E c \in Offered(seen) : Press(c) \/ Refused(c)

Spec == Init /\ [][Next]_vars

----------------------------------------------------------------------------
(* The buttons and links that are refused even on a page that shows the case *)
(* as it is; README names them one by one.                                   *)
Misoffered(c, w) ==
    \/ Agency /\ c[1] \in {"export_pdf", "edit", "refer"}
    \/ c[1] = "export_pdf" /\ w.long
    \/ Agency /\ c = <<"open_referral", "r2">>
    \/ Agency /\ c[1] \in {"open_case", "download"} /\ w.ref[Own] \in Settled
    \/ c[1] = "milestone" /\ w.ref[Own] = "REJECTED"
    \/ c[1] \in {"issue", "reissue"} /\ w.request = "finished"
    \/ c[1] = "toggle" /\ w.case \in {"PENDING_REVIEW", "ARCHIVED", "REJECTED"}
    \/ c[1] = "refer" /\ w.case # "OPEN"
    \/ c[1] = "answer" /\ ~WritesToClient(w)
    \/ c[1] \in {"delete_document", "download"} /\ w.doc = "none"

\* As long as nobody else has changed the case, every button and link the page
\* offers is granted: after each press the page shows what the press has left,
\* and the conditions of the pages follow from those of the server.
OfferedIsServed ==
    unseen = 0 => \A c \in Offered(seen) : Served(c, world) \/ Misoffered(c, world)
=============================================================================
