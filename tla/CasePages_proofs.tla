-------------------------- MODULE CasePages_proofs --------------------------
(* What an up-to-date page offers is served, for any set of viewers and any      *)
(* number of changes by others; and the chat's answers stand after their own     *)
(* questions, in conversations of any length.                                    *)
EXTENDS MCCasePages, SequenceTheorems, TLAPS

\* A page shows the case as it is, but for a document deleted under it: the
\* deletion is answered without a new page.
Shows(s, w) ==
    /\ s.case = w.case /\ s.trash = w.trash /\ s.ref = w.ref
    /\ s.request = w.request /\ s.link = w.link
    /\ s.doc = w.doc \/ w.doc = "none"

\* Referrals are active in an open case only, and a link belongs to a request.
Consistent(w) ==
    /\ w.case # "OPEN" => \A r \in Refs : w.ref[r] \in Absent \cup Settled
    /\ w.link # "none" => w.request # "none"

\* A request goes only with its referral, which never comes back.
Follows(w, v) ==
    /\ w.request # "none" => v.request # "none" \/ v.ref[Own] = "GONE"
    /\ w.ref[Own] = "GONE" => v.ref[Own] = "GONE"

LEMMA Statuses ==
    DOMAIN Transitions = {"PENDING", "PROCESSING", "FOR_COMPLIANCE", "COMPLETED", "REJECTED"}
BY DEF Transitions

\* What Served says of each control.
LEMMA ServedCase ==
  ASSUME NEW to, NEW w
  PROVE  /\ Served(<<"case_log", to>>, w) <=> ReadsCase(w)
         /\ Served(<<"export_pdf", to>>, w) <=> (Staff /\ ~w.trash /\ ~w.long)
         /\ Served(<<"edit", to>>, w) <=> (Staff /\ ~w.trash)
         /\ Served(<<"upload_case", to>>, w) <=> (Staff /\ ~w.trash)
         /\ Served(<<"refer", to>>, w) <=> (Staff /\ ~w.trash /\ w.case = "OPEN")
         /\ Served(<<"toggle", to>>, w) <=> (Staff /\ Toggles(w))
         /\ Served(<<"archive", to>>, w) <=> (Staff /\ Archives(w))
         /\ Served(<<"unarchive", to>>, w) <=> (Staff /\ Unarchives(w))
         /\ Served(<<"delete_case", to>>, w) <=> (Staff /\ Unarchives(w))
         /\ Served(<<"delete_referral", to>>, w) <=>
              (Staff /\ There(w, to) /\ w.ref[to] # "COMPLETED")
         /\ Served(<<"delete_document", to>>, w) <=> (Staff /\ ~w.trash /\ w.doc # "none")
         /\ Served(<<"upload_referral", to>>, w) <=> (Staff /\ There(w, to))
         /\ Served(<<"download", to>>, w) <=>
              (ReadsCase(w) /\ w.doc # "none" /\ (w.doc = "referral" /\ Agency => There(w, Own)))
         /\ Served(<<"open_referral", to>>, w) <=> ReadsReferral(w, to)
BY Statuses DEF Served, CaseServes, ReferralServes, RequestServes

LEMMA ServedReferral ==
  ASSUME NEW to, NEW w
  PROVE  /\ Served(<<"referral_log", to>>, w) <=> ReadsReferral(w, to)
         /\ Served(<<"comment", to>>, w) <=> ReadsReferral(w, to)
         /\ \A does \in {"add_service", "drop_service", "requirements"} :
              Served(<<does, to>>, w) <=> (ReadsReferral(w, to) /\ w.ref[to] # "COMPLETED")
         /\ Served(<<"milestone", to>>, w) <=>
              (ReadsReferral(w, to) /\ w.ref[to] \in {"PROCESSING", "FOR_COMPLIANCE"})
         /\ Served(<<"thread", to>>, w) <=> (There(w, to) /\ There(w, Own))
BY Statuses DEF Served, CaseServes, ReferralServes, RequestServes

LEMMA ServedStatus ==
  ASSUME NEW to, NEW w, NEW does \in DOMAIN Transitions
  PROVE  Served(<<does, to>>, w) <=> (ReadsReferral(w, to) /\ does \in Transitions[w.ref[to]])
BY Statuses DEF Served, CaseServes, ReferralServes, RequestServes

LEMMA ServedRequest ==
  ASSUME NEW to, NEW w
  PROVE  /\ Served(<<"create", to>>, w) <=> WritesToClient(w)
         /\ \A does \in {"reply", "complete", "cancel", "issue", "reissue"} :
              Served(<<does, to>>, w) <=> (WritesToClient(w) /\ w.request = "open")
         /\ Served(<<"reopen", to>>, w) <=> (WritesToClient(w) /\ w.request = "finished")
         /\ Served(<<"review", to>>, w) <=> (WritesToClient(w) /\ w.request # "none")
         /\ Served(<<"revoke", to>>, w) <=> There(w, Own)
BY Statuses DEF Served, CaseServes, ReferralServes, RequestServes

LEMMA ServedOwner ==
  ASSUME NEW to, NEW w
  PROVE  /\ viewer = "owner" => (Served(<<"open_case", to>>, w) <=> OwnsCase(w))
         /\ viewer # "owner" => (Served(<<"open_case", to>>, w) <=> ReadsCase(w))
         /\ Served(<<"milestones", to>>, w) <=> (OwnsCase(w) /\ There(w, to))
         /\ Served(<<"open_request", to>>, w) <=>
              (OwnsCase(w) /\ There(w, to) /\ w.request # "none")
         /\ Served(<<"answer", to>>, w) <=>
              (OwnsCase(w) /\ WritesToClient(w) /\ w.request = "open")
<1>1. viewer = "owner" => (Served(<<"open_case", to>>, w) <=> OwnsCase(w))
  BY Statuses DEF Served, CaseServes, ReferralServes, RequestServes
<1>2. viewer # "owner" => (Served(<<"open_case", to>>, w) <=> ReadsCase(w))
  BY Statuses DEF Served, CaseServes, ReferralServes, RequestServes
<1>3. Served(<<"milestones", to>>, w) <=> (OwnsCase(w) /\ There(w, to))
  BY Statuses DEF Served, CaseServes, ReferralServes, RequestServes
<1>4. Served(<<"open_request", to>>, w) <=>
        (OwnsCase(w) /\ There(w, to) /\ w.request # "none")
  BY Statuses DEF Served, CaseServes, ReferralServes, RequestServes
<1>5. Served(<<"answer", to>>, w) <=>
        (OwnsCase(w) /\ WritesToClient(w) /\ w.request = "open")
  BY Statuses DEF Served, CaseServes, ReferralServes, RequestServes
<1> QED
  BY <1>1, <1>2, <1>3, <1>4, <1>5

----------------------------------------------------------------------------
(* Card by card: what is offered is granted or misoffered. *)

Good(c, w) == Served(c, w) \/ Misoffered(c, w)

LEMMA SameActive ==
  ASSUME NEW s, NEW w, Shows(s, w)
  PROVE  /\ \A r \in Refs : There(s, r) = There(w, r) /\ Active(s, r) = Active(w, r)
         /\ SomeActive(s) = SomeActive(w)
         /\ WritesToClient(s) = WritesToClient(w)
BY DEF Shows, There, Active, SomeActive, WritesToClient, Refs

\* Something is active in an open case only.
LEMMA ActiveIsOpen ==
  ASSUME NEW w, Consistent(w), SomeActive(w)
  PROVE  w.case = "OPEN"
BY DEF Consistent, SomeActive, Active, There, Settled, Absent

LEMMA HeaderGood ==
  ASSUME NEW s, NEW w \in World, Shows(s, w), Consistent(w), ReadsCase(w),
         NEW c \in CaseHeader(s) \cup CaseSummary(s)
  PROVE  Good(c, w)
<1>1. Staff \/ (Agency /\ SomeActive(w) /\ w.case = "OPEN")
  BY ActiveIsOpen DEF ReadsCase, SomeActive, Refs
<1>2. ~w.trash /\ s.case = w.case /\ SomeActive(s) = SomeActive(w)
  BY SameActive DEF ReadsCase, Shows
<1>3. CASE c \in Offer(TRUE, {"export_pdf", "case_log"}, "case")
  <2>1. c = <<"export_pdf", "case">> \/ c = <<"case_log", "case">>
    BY <1>3 DEF Offer
  <2>2. CASE c = <<"export_pdf", "case">>
    BY <1>1, <1>2, <2>2, ServedCase DEF Good, Misoffered
  <2>3. CASE c = <<"case_log", "case">>
    BY <2>3, ServedCase DEF Good
  <2> QED
    BY <2>1, <2>2, <2>3
<1>4. CASE c \in Offer(s.case = "ARCHIVED", {"unarchive"}, "case")
              \cup Offer(s.case = "ARCHIVED" /\ Staff, {"delete_case"}, "case")
  <2>1. /\ c = <<"unarchive", "case">> \/ c = <<"delete_case", "case">>
        /\ w.case = "ARCHIVED"
    BY <1>2, <1>4 DEF Offer
  <2> QED
    BY <1>1, <1>2, <2>1, ServedCase DEF Good, Unarchives
<1>5. CASE c \in Offer(s.case = "CLOSED" /\ ~SomeActive(s), {"archive"}, "case")
  <2>1. c = <<"archive", "case">> /\ w.case = "CLOSED" /\ ~SomeActive(w)
    BY <1>2, <1>5 DEF Offer
  <2> QED
    BY <1>1, <1>2, <2>1, ServedCase DEF Good, Archives
<1>6. CASE c \in Offer(TRUE, {"edit"}, "case")
  <2>1. c = <<"edit", "case">>
    BY <1>6 DEF Offer
  <2> QED
    BY <1>1, <1>2, <2>1, ServedCase DEF Good, Misoffered
<1>7. CASE c \in Offer(~(s.case = "OPEN" /\ SomeActive(s)), {"toggle"}, "case")
  <2>1. c = <<"toggle", "case">> /\ ~(w.case = "OPEN" /\ SomeActive(w))
    BY <1>2, <1>7 DEF Offer
  <2>2. Staff
    BY <1>1, <2>1
  <2> QED
    BY <1>2, <2>1, <2>2, ServedCase DEF Good, Misoffered, Toggles, World
<1> QED
  BY <1>3, <1>4, <1>5, <1>6, <1>7 DEF CaseHeader, CaseSummary

LEMMA TableGood ==
  ASSUME NEW s, NEW w \in World, Shows(s, w), ReadsCase(w),
         NEW c \in ReferralTable(s) \cup CaseDocuments(s)
  PROVE  Good(c, w)
<1>1. Staff \/ (Agency /\ There(w, Own))
  BY DEF ReadsCase, Active
<1>2. ~w.trash /\ s.ref = w.ref /\ \A r \in Refs : There(s, r) <=> There(w, r)
  BY SameActive DEF ReadsCase, Shows
<1>3. CASE c = <<"refer", "case">>
  BY <1>1, <1>2, <1>3, ServedCase DEF Good, Misoffered
<1>4. ASSUME NEW r \in Refs, c \in Offer(There(s, r), {"open_referral"}, r) PROVE Good(c, w)
  <2>1. c = <<"open_referral", r>> /\ There(w, r)
    BY <1>2, <1>4 DEF Offer
  <2>2. CASE Staff \/ r = Own
    <3>1. ReadsReferral(w, r)
      BY <1>1, <2>1, <2>2 DEF ReadsReferral
    <3> QED
      BY <2>1, <3>1, ServedCase DEF Good
  <2>3. CASE Agency /\ r = "r2"
    BY <2>1, <2>3 DEF Good, Misoffered
  <2> QED
    BY <1>1, <2>2, <2>3 DEF Refs
<1>5. ASSUME NEW r \in Refs,
             c \in Offer(There(s, r) /\ Staff /\ s.ref[r] # "COMPLETED", {"delete_referral"}, r)
      PROVE  Good(c, w)
  <2>1. /\ c = <<"delete_referral", r>>
        /\ There(w, r) /\ Staff /\ w.ref[r] # "COMPLETED"
    BY <1>2, <1>5 DEF Offer
  <2> QED
    BY <2>1, ServedCase DEF Good
<1>6. CASE c \in Offer(viewer = "case_manager", {"upload_case"}, "case")
  <2>1. c = <<"upload_case", "case">> /\ Staff
    BY <1>6 DEF Offer, Staff
  <2> QED
    BY <1>2, <2>1, ServedCase DEF Good
<1>7. CASE c \in Offer(s.doc # "none" /\ viewer = "case_manager", {"delete_document"}, "case")
  <2>1. c = <<"delete_document", "case">> /\ Staff
    BY <1>7 DEF Offer, Staff
  <2>2. CASE w.doc = "none"
    BY <2>1, <2>2 DEF Good, Misoffered
  <2>3. CASE w.doc # "none"
    BY <1>2, <2>1, <2>3, ServedCase DEF Good
  <2> QED
    BY <2>2, <2>3
<1>8. CASE c \in Offer(s.doc = "case" \/ (s.doc = "referral" /\ (Staff \/ There(s, Own))),
                       {"download"}, "case")
  <2>1. c = <<"download", "case">>
    BY <1>8 DEF Offer
  <2>2. CASE w.doc = "none"
    BY <2>1, <2>2 DEF Good, Misoffered
  <2>3. CASE w.doc # "none"
    <3>1. Agency => There(w, Own)
      BY <1>1 DEF Agency, Staff
    <3> QED
      BY <2>1, <2>3, <3>1, ServedCase DEF Good
  <2> QED
    BY <2>2, <2>3
<1> QED
  BY <1>3, <1>4, <1>5, <1>6, <1>7, <1>8 DEF ReferralTable, ReferralRow, CaseDocuments

\* The cards of the referral page that are about the referral itself.
LEMMA SummaryGood ==
  ASSUME NEW s, NEW w \in World, Shows(s, w), ReadsReferral(w, Own),
         NEW c \in ReferralSummary(s) \cup StatusDialog(s) \cup ServiceCard(s)
                     \cup ServiceAddDropdown(s) \cup Timeline(s)
  PROVE  Good(c, w)
<1>1. There(w, Own) /\ s.ref = w.ref /\ (Staff \/ Agency)
  BY DEF ReadsReferral, Shows
<1>2. w.ref[Own] \in DOMAIN Transitions /\ ~w.trash
  BY <1>1, Statuses DEF There, Absent, World, Refs, Settled
<1>3. CASE c \in Offer(TRUE, {"open_case", "referral_log"}, Own)
  <2>1. c = <<"open_case", Own>> \/ c = <<"referral_log", Own>>
    BY <1>3 DEF Offer
  <2>2. CASE c = <<"referral_log", Own>>
    BY <2>2, ServedReferral DEF Good
  <2>3. CASE c = <<"open_case", Own>> /\ (Staff \/ Active(w, Own))
    <3>1. ReadsCase(w) /\ viewer # "owner"
      BY <1>1, <1>2, <2>3 DEF ReadsCase, Staff, Agency
    <3> QED
      BY <2>3, <3>1, ServedOwner DEF Good
  <2>4. CASE c = <<"open_case", Own>> /\ Agency /\ ~Active(w, Own)
    BY <1>1, <2>4 DEF Good, Misoffered, Active
  <2> QED
    BY <1>1, <2>1, <2>2, <2>3, <2>4
<1>4. CASE c \in Offer(Agency /\ s.ref[Own] = "PENDING",
                       {"PROCESSING", "FOR_COMPLIANCE", "REJECTED"}, Own)
  <2>1. PICK does \in {"PROCESSING", "FOR_COMPLIANCE", "REJECTED"} : c = <<does, Own>>
    BY <1>4 DEF Offer
  <2>2. w.ref[Own] = "PENDING"
    BY <1>1, <1>4 DEF Offer
  <2>3. does \in DOMAIN Transitions /\ does \in Transitions[w.ref[Own]]
    BY <2>1, <2>2, Statuses DEF Transitions
  <2> QED
    BY <2>1, <2>3, ServedStatus DEF Good
<1>5. CASE c \in StatusDialog(s)
  <2>1. PICK does \in {"PROCESSING", "FOR_COMPLIANCE"} \cup Settled : c = <<does, Own>>
    BY <1>5 DEF StatusDialog, Offer
  <2>2. w.ref[Own] \in {"PROCESSING", "FOR_COMPLIANCE"}
    BY <1>1, <1>2, <1>5, Statuses DEF StatusDialog, Offer, Settled
  <2>3. does \in DOMAIN Transitions /\ does \in Transitions[w.ref[Own]]
    BY <2>1, <2>2, Statuses DEF Transitions, Settled
  <2> QED
    BY <2>1, <2>3, ServedStatus DEF Good
<1>6. CASE c \in ServiceCard(s) \cup ServiceAddDropdown(s)
  <2>1. PICK does \in {"add_service", "drop_service", "requirements"} : c = <<does, Own>>
    BY <1>6 DEF ServiceCard, ServiceAddDropdown, Offer
  <2>2. w.ref[Own] # "COMPLETED"
    BY <1>1, <1>6 DEF ServiceCard, ServiceAddDropdown, Offer
  <2> QED
    BY <2>1, <2>2, ServedReferral DEF Good
<1>7. CASE c \in Timeline(s)
  <2>1. c = <<"milestone", Own>> /\ w.ref[Own] \notin {"COMPLETED", "PENDING"}
    BY <1>1, <1>7 DEF Timeline, Offer
  <2>2. CASE w.ref[Own] = "REJECTED"
    BY <2>1, <2>2 DEF Good, Misoffered
  <2>3. CASE w.ref[Own] # "REJECTED"
    <3>1. w.ref[Own] \in {"PROCESSING", "FOR_COMPLIANCE"}
      BY <1>2, <2>1, <2>3, Statuses
    <3> QED
      BY <2>1, <3>1, ServedReferral DEF Good
  <2> QED
    BY <2>2, <2>3
<1> QED
  BY <1>3, <1>4, <1>5, <1>6, <1>7 DEF ReferralSummary

\* The cards beside it, without the requests.
LEMMA BesideGood ==
  ASSUME NEW s, NEW w \in World, Shows(s, w), ReadsReferral(w, Own),
         NEW c \in RelatedReferrals(s) \cup Comments(s) \cup ReferralDocuments(s)
  PROVE  Good(c, w)
<1>1. There(w, Own) /\ (Staff \/ Agency) /\ ~w.trash
  BY DEF ReadsReferral, There
<1>2. There(s, "r2") <=> There(w, "r2")
  BY SameActive DEF Refs
<1>3. CASE c \in Offer(There(s, "r2") /\ Staff, {"open_referral"}, "r2")
  <2>1. c = <<"open_referral", "r2">> /\ ReadsReferral(w, "r2")
    BY <1>2, <1>3 DEF Offer, ReadsReferral
  <2> QED
    BY <2>1, ServedCase DEF Good
<1>4. CASE c \in Offer(There(s, "r2") /\ Agency, {"thread"}, "r2")
  <2>1. c = <<"thread", "r2">> /\ There(w, "r2")
    BY <1>2, <1>4 DEF Offer
  <2> QED
    BY <1>1, <2>1, ServedReferral DEF Good
<1>5. CASE c \in Comments(s)
  <2>1. c = <<"comment", Own>>
    BY <1>5 DEF Comments, Offer
  <2> QED
    BY <2>1, ServedReferral DEF Good
<1>6. CASE c \in Offer(Staff, {"upload_referral"}, Own)
  <2>1. c = <<"upload_referral", Own>> /\ Staff
    BY <1>6 DEF Offer
  <2> QED
    BY <1>1, <2>1, ServedCase DEF Good
<1>7. CASE c \in Offer(s.doc = "referral", {"download"}, Own)
  <2>1. c = <<"download", Own>>
    BY <1>7 DEF Offer
  <2>2. CASE w.doc = "none"
    BY <2>1, <2>2 DEF Good, Misoffered
  <2>3. CASE w.doc # "none" /\ (Staff \/ Active(w, Own))
    <3>1. ReadsCase(w)
      BY <1>1, <2>3 DEF ReadsCase
    <3> QED
      BY <1>1, <2>1, <2>3, <3>1, ServedCase DEF Good
  <2>4. CASE Agency /\ ~Active(w, Own)
    BY <1>1, <2>1, <2>4 DEF Good, Misoffered, Active
  <2> QED
    BY <1>1, <2>2, <2>3, <2>4
<1> QED
  BY <1>3, <1>4, <1>5, <1>6, <1>7 DEF RelatedReferrals, ReferralDocuments

\* The requests to the client and their links.
LEMMA RequestsGood ==
  ASSUME NEW s, NEW w \in World, Shows(s, w), Consistent(w), ReadsReferral(w, Own),
         NEW c \in ClientRequestsSection(s)
  PROVE  Good(c, w)
<1>1. /\ There(w, Own) /\ s.request = w.request /\ s.link = w.link
      /\ WritesToClient(s) <=> WritesToClient(w)
  BY SameActive DEF ReadsReferral, Shows
<1>2. w.request \in {"none", "open", "finished"}
  BY DEF World
<1>3. CASE c \in Offer(Agency /\ WritesToClient(s), {"create"}, Own)
  <2>1. c = <<"create", Own>> /\ WritesToClient(w)
    BY <1>1, <1>3 DEF Offer
  <2> QED
    BY <2>1, ServedRequest DEF Good
<1>4. CASE c \in ClientRequestCard(s)
  <2>1. CASE c \in Offer(Agency /\ WritesToClient(s) /\ s.request = "open",
                         {"reply", "complete", "cancel"}, Own)
    <3>1. PICK does \in {"reply", "complete", "cancel"} : c = <<does, Own>>
      BY <2>1 DEF Offer
    <3>2. WritesToClient(w) /\ w.request = "open"
      BY <1>1, <2>1 DEF Offer
    <3> QED
      BY <3>1, <3>2, ServedRequest DEF Good
  <2>2. CASE c \in Offer(Agency /\ WritesToClient(s) /\ s.request = "finished", {"reopen"}, Own)
    <3>1. c = <<"reopen", Own>> /\ WritesToClient(w) /\ w.request = "finished"
      BY <1>1, <2>2 DEF Offer
    <3> QED
      BY <3>1, ServedRequest DEF Good
  <2>3. CASE c \in Offer(Agency /\ WritesToClient(s) /\ s.request # "none", {"review"}, Own)
    <3>1. c = <<"review", Own>> /\ WritesToClient(w) /\ w.request # "none"
      BY <1>1, <2>3 DEF Offer
    <3> QED
      BY <3>1, ServedRequest DEF Good
  <2> QED
    BY <1>4, <2>1, <2>2, <2>3 DEF ClientRequestCard
<1>5. CASE c \in ClientRequestAccess(s)
  <2>1. CASE c \in Offer(s.link = "active" /\ (Agency \/ viewer = "admin"), {"revoke"}, Own)
    <3>1. c = <<"revoke", Own>>
      BY <2>1 DEF Offer
    <3> QED
      BY <1>1, <3>1, ServedRequest DEF Good
  <2>2. CASE c \in Offer(s.link = "none" /\ s.request # "none" /\ Agency /\ WritesToClient(s),
                         {"issue"}, Own)
              \cup Offer(s.link = "dead" /\ Agency /\ WritesToClient(s), {"reissue"}, Own)
    <3>1. PICK does \in {"issue", "reissue"} : c = <<does, Own>>
      BY <2>2 DEF Offer
    <3>2. WritesToClient(w) /\ w.request # "none"
      BY <1>1, <2>2 DEF Offer, Consistent
    <3>3. CASE w.request = "open"
      BY <3>1, <3>2, <3>3, ServedRequest DEF Good
    <3>4. CASE w.request = "finished"
      BY <3>1, <3>4 DEF Good, Misoffered
    <3> QED
      BY <1>2, <3>2, <3>3, <3>4
  <2> QED
    BY <1>5, <2>1, <2>2 DEF ClientRequestAccess
<1> QED
  BY <1>3, <1>4, <1>5 DEF ClientRequestsSection

\* The worker's record and request page.
LEMMA OwnerGood ==
  ASSUME NEW s, NEW w \in World, Shows(s, w), OwnsCase(w),
         NEW c,
         \/ c \in OwnerRequests(s) \cup OwnerAgencies(s)
         \/ c \in OwnerConversation(s)
  PROVE  Good(c, w)
<1>1. /\ s.request = w.request
      /\ WritesToClient(s) <=> WritesToClient(w)
      /\ \A r \in Refs : There(s, r) <=> There(w, r)
  BY SameActive DEF Shows
<1>2. CASE c \in OwnerRequests(s)
  <2>1. c = <<"open_request", Own>> /\ WritesToClient(w) /\ w.request = "open"
    BY <1>1, <1>2 DEF OwnerRequests, Offer
  <2>2. There(w, Own)
    BY <2>1 DEF WritesToClient, Active
  <2> QED
    BY <2>1, <2>2, ServedOwner DEF Good
<1>3. CASE c \in OwnerAgencies(s)
  <2>1. PICK r \in Refs : c = <<"milestones", r>> /\ There(s, r)
    BY <1>3 DEF OwnerAgencies, Offer
  <2> QED
    BY <1>1, <2>1, ServedOwner DEF Good
<1>4. CASE c \in Offer(s.request = "open", {"answer"}, Own)
  <2>1. c = <<"answer", Own>> /\ w.request = "open"
    BY <1>1, <1>4 DEF Offer
  <2>2. CASE WritesToClient(w)
    BY <2>1, <2>2, ServedOwner DEF Good
  <2>3. CASE ~WritesToClient(w)
    BY <2>1, <2>3 DEF Good, Misoffered
  <2> QED
    BY <2>2, <2>3
<1>5. CASE c \in Offer(TRUE, {"open_case"}, Own)
  <2>1. c = <<"open_case", Own>> /\ viewer = "owner"
    BY <1>5 DEF Offer, OwnsCase
  <2> QED
    BY <2>1, ServedOwner DEF Good
<1> QED
  BY <1>2, <1>3, <1>4, <1>5 DEF OwnerConversation

----------------------------------------------------------------------------
(* What changes the case keeps it consistent. *)

Keeps(w, v) == v \in World /\ Consistent(v) /\ Follows(w, v)

CaseStates == {"PENDING_REVIEW", "OPEN", "CLOSED", "ARCHIVED", "REJECTED"}

\* A change of the case itself.
LEMMA CaseKeeps ==
  ASSUME NEW w \in World, Consistent(w)
  PROVE  /\ \A x \in CaseStates :
              (x # "OPEN" => \A r \in Refs : w.ref[r] \in Absent \cup Settled)
                => Keeps(w, [w EXCEPT !.case = x])
         /\ \A t \in BOOLEAN : Keeps(w, [w EXCEPT !.trash = t])
         /\ \A l \in BOOLEAN : Keeps(w, [w EXCEPT !.long = l])
         /\ \A d \in {"none", "case", "referral"} : Keeps(w, [w EXCEPT !.doc = d])
         /\ Keeps(w, w)
BY DEF Keeps, Consistent, Follows, World, CaseStates

\* A referral gets another status.
LEMMA StatusKeeps ==
  ASSUME NEW w \in World, Consistent(w), NEW r \in Refs,
         NEW x \in {"PENDING", "PROCESSING", "FOR_COMPLIANCE"} \cup Settled,
         w.ref[r] # "GONE", w.case # "OPEN" => x \in Settled
  PROVE  Keeps(w, [w EXCEPT !.ref[r] = x])
<1> DEFINE v == [w EXCEPT !.ref[r] = x]
<1>1. v = [w EXCEPT !.ref = [w.ref EXCEPT ![r] = x]]
  BY DEF World
<1>2. [w.ref EXCEPT ![r] = x] \in
        [Refs -> {"NONE", "PENDING", "PROCESSING", "FOR_COMPLIANCE", "GONE"} \cup Settled]
  BY DEF World
<1>3. v \in World
  BY <1>1, <1>2 DEF World
<1>4. /\ v.case = w.case /\ v.link = w.link /\ v.request = w.request
      /\ \A q \in Refs : v.ref[q] = IF q = r THEN x ELSE w.ref[q]
  BY <1>1 DEF World
<1> HIDE DEF v
<1>5. Consistent(v)
  BY <1>4 DEF Consistent
<1>6. Follows(w, v)
  BY <1>4 DEF Follows, Refs
<1> QED
  BY <1>3, <1>5, <1>6 DEF Keeps, v

\* A referral is deleted, and its request with it.
LEMMA DeletionKeeps ==
  ASSUME NEW w \in World, Consistent(w), NEW r \in Refs
  PROVE  Keeps(w, Deleted(w, r))
<1> DEFINE v == Deleted(w, r)
<1>1. v = [w EXCEPT !.ref = [w.ref EXCEPT ![r] = "GONE"],
                    !.request = IF r = Own THEN "none" ELSE w.request,
                    !.link = IF r = Own THEN "none" ELSE w.link]
  BY DEF Deleted, World
<1>2. [w.ref EXCEPT ![r] = "GONE"] \in
        [Refs -> {"NONE", "PENDING", "PROCESSING", "FOR_COMPLIANCE", "GONE"} \cup Settled]
  BY DEF World
<1>3. v \in World
  BY <1>1, <1>2 DEF World
<1>4. /\ v.case = w.case
      /\ v.link = IF r = Own THEN "none" ELSE w.link
      /\ v.request = IF r = Own THEN "none" ELSE w.request
      /\ \A q \in Refs : v.ref[q] = IF q = r THEN "GONE" ELSE w.ref[q]
  BY <1>1 DEF World
<1> HIDE DEF v
<1>5. Consistent(v)
  BY <1>4 DEF Consistent, Absent
<1>6. Follows(w, v)
  BY <1>4 DEF Follows, Refs
<1> QED
  BY <1>3, <1>5, <1>6 DEF Keeps, v

\* The request and its link.
LEMMA RequestKeeps ==
  ASSUME NEW w \in World, Consistent(w)
  PROVE  /\ \A v \in Send(w) : Keeps(w, v)
         /\ \A l \in {"active", "dead"} : Keeps(w, Finish(w, l))
         /\ w.request # "none" => Keeps(w, [w EXCEPT !.link = "dead"])
<1>1. ASSUME NEW v \in Send(w) PROVE Keeps(w, v)
  <2>1. PICK l \in {"active", "none", "dead"} : v = [w EXCEPT !.request = "open", !.link = l]
    BY <1>1 DEF Send
  <2>2. /\ v \in World /\ v.case = w.case /\ v.ref = w.ref
        /\ v.request = "open"
    BY <2>1 DEF World
  <2> QED
    BY <2>2 DEF Keeps, Consistent, Follows
<1>2. \A l \in {"active", "dead"} : Keeps(w, Finish(w, l))
  BY DEF Finish, Keeps, Consistent, Follows, World
<1>3. w.request # "none" => Keeps(w, [w EXCEPT !.link = "dead"])
  BY DEF Keeps, Consistent, Follows, World
<1> QED
  BY <1>1, <1>2, <1>3

\* A status follows a status by the table of transitions.
LEMMA TransitionKeeps ==
  ASSUME NEW w \in World, Consistent(w), NEW r \in Refs, There(w, r),
         NEW x \in Transitions[w.ref[r]]
  PROVE  Keeps(w, [w EXCEPT !.ref[r] = x])
<1>1. w.ref[r] \in DOMAIN Transitions
  BY Statuses DEF There, Absent, World, Settled
<1>2. x \in {"PENDING", "PROCESSING", "FOR_COMPLIANCE"} \cup Settled
  BY <1>1, Statuses DEF Transitions, Settled
<1>3. w.ref[r] \in Settled => x \in Settled
  BY DEF Transitions, Settled
<1>4. w.case # "OPEN" => w.ref[r] \in Settled
  BY DEF Consistent, There
<1> QED
  BY <1>2, <1>3, <1>4, StatusKeeps DEF There, Absent

LEMMA OthersKeep ==
  ASSUME NEW w \in World, Consistent(w), NEW v \in ByOthers(w)
  PROVE  Keeps(w, v)
<1>1. (~w.trash /\ ~SomeActive(w)) => \A r \in Refs : w.ref[r] \in Absent \cup Settled
  BY DEF SomeActive, Active, There
<1>2. w.case # "OPEN" => \A r \in Refs : w.ref[r] \in Absent \cup Settled
  BY DEF Consistent
<1>3. CASE v \in CaseByOthers(w)
  <2>1. CASE v \in When(w.case = "PENDING_REVIEW",
                        {[w EXCEPT !.case = s] : s \in {"OPEN", "REJECTED"}})
    BY <1>2, <2>1, CaseKeeps DEF When, CaseStates
  <2>2. CASE v \in When(Toggles(w),
                        {[w EXCEPT !.case = IF @ = "OPEN" THEN "CLOSED" ELSE "OPEN"]})
    <3>1. v = [w EXCEPT !.case = IF w.case = "OPEN" THEN "CLOSED" ELSE "OPEN"]
      BY <2>2 DEF When, World
    <3>2. w.case = "OPEN" => ~w.trash /\ ~SomeActive(w)
      BY <2>2 DEF When, Toggles
    <3> QED
      BY <1>1, <3>1, <3>2, CaseKeeps DEF CaseStates
  <2>3. CASE v \in When(Archives(w), {[w EXCEPT !.case = "ARCHIVED"]})
              \cup When(Unarchives(w), {[w EXCEPT !.case = "CLOSED"]})
    BY <1>2, <2>3, CaseKeeps DEF When, Archives, Unarchives, CaseStates
  <2>4. CASE v \in When(w.case = "ARCHIVED", {[w EXCEPT !.trash = ~@]})
    <3>1. v = [w EXCEPT !.trash = ~w.trash]
      BY <2>4 DEF When, World
    <3>2. (~w.trash) \in BOOLEAN
      OBVIOUS
    <3> QED
      BY <3>1, <3>2, CaseKeeps
  <2>5. CASE v \in When(~w.trash, {[w EXCEPT !.doc = d] : d \in {"none", "case"}})
    BY <2>5, CaseKeeps DEF When
  <2>6. CASE v \in When(~w.trash, {[w EXCEPT !.long = ~@]})
    <3>1. v = [w EXCEPT !.long = ~w.long]
      BY <2>6 DEF When, World
    <3>2. (~w.long) \in BOOLEAN
      OBVIOUS
    <3> QED
      BY <3>1, <3>2, CaseKeeps
  <2> QED
    BY <1>3, <2>1, <2>2, <2>3, <2>4, <2>5, <2>6 DEF CaseByOthers
<1>4. ASSUME NEW r \in Refs, v \in ReferralByOthers(w, r) PROVE Keeps(w, v)
  <2>1. CASE v \in When(w.case = "OPEN" /\ w.ref[r] = "NONE", {[w EXCEPT !.ref[r] = "PENDING"]})
    BY <2>1, StatusKeeps DEF When
  <2>2. CASE v \in When(There(w, r), {[w EXCEPT !.ref[r] = s] : s \in Transitions[w.ref[r]]})
    BY <2>2, TransitionKeeps DEF When
  <2>3. CASE v \in When(There(w, r) /\ w.ref[r] # "COMPLETED", {Deleted(w, r)})
    BY <2>3, DeletionKeeps DEF When
  <2> QED
    BY <1>4, <2>1, <2>2, <2>3 DEF ReferralByOthers
<1>5. CASE v \in RequestByOthers(w)
  <2>1. w.link = "active" => w.request # "none"
    BY DEF Consistent
  <2> QED
    BY <1>5, <2>1, RequestKeeps DEF RequestByOthers, When
<1>6. \/ v \in CaseByOthers(w) \/ v \in RequestByOthers(w)
      \/ \E r \in Refs : v \in ReferralByOthers(w, r)
  BY DEF ByOthers
<1> QED
  BY <1>3, <1>4, <1>5, <1>6

----------------------------------------------------------------------------
(* The pages a person can be on, and what each page lets one press. *)

PageNames == {"case", "referral", "record", "request"}

\* The page is one of the viewer's, and the server answers with it.
Fits(p, w) ==
    /\ p \in PageNames /\ Opens(p, w)
    /\ p \in {"case", "referral"} => Staff \/ Agency
    /\ p \in {"record", "request"} => viewer = "owner"

LEMMA OpensWhat ==
  ASSUME NEW w
  PROVE  /\ Opens("case", w) <=> ReadsCase(w)
         /\ Opens("referral", w) <=> ReadsReferral(w, Own)
         /\ Opens("record", w) <=> OwnsCase(w)
         /\ Opens("request", w) <=> (OwnsCase(w) /\ There(w, Own) /\ w.request # "none")
BY DEF Opens

CasePresses ==
    ({"export_pdf", "case_log", "unarchive", "delete_case", "archive", "edit", "toggle", "refer",
      "upload_case", "download", "delete_document"} \X {"case"})
      \cup ({"open_referral", "delete_referral"} \X Refs)

Quiet == {"add_service", "drop_service", "requirements", "milestone", "comment", "reply", "review"}
ReferralPresses ==
    (({"open_case", "referral_log", "download", "upload_referral",
       "create", "issue", "reissue", "reopen", "complete", "cancel", "revoke"}
        \cup Quiet \cup DOMAIN Transitions) \X {Own})
      \cup ({"open_referral", "thread"} \X {"r2"})

OwnerPresses == {<<"answer", Own>>, <<"open_case", Own>>, <<"open_request", Own>>}
                  \cup ({"milestones"} \X Refs)

LEMMA CaseOffers ==
  ASSUME NEW s, page = "case"
  PROVE  Offered(s) \subseteq CasePresses
<1>1. CaseHeader(s) \cup CaseSummary(s) \subseteq CasePresses
  BY DEF CaseHeader, CaseSummary, Offer, CasePresses
<1>2. ReferralTable(s) \subseteq CasePresses
  BY DEF ReferralTable, ReferralRow, Offer, CasePresses
<1>3. CaseDocuments(s) \subseteq CasePresses
  BY DEF CaseDocuments, Offer, CasePresses
<1> QED
  BY <1>1, <1>2, <1>3 DEF Offered

LEMMA ReferralOffers ==
  ASSUME NEW s, page = "referral"
  PROVE  /\ Offered(s) \subseteq ReferralPresses
         /\ \A to : <<"revoke", to>> \in Offered(s) => s.link = "active"
<1>1. ReferralSummary(s) \cup StatusDialog(s) \subseteq ReferralPresses
  BY Statuses DEF ReferralSummary, StatusDialog, Offer, ReferralPresses, Settled
<1>2. ServiceCard(s) \cup ServiceAddDropdown(s) \cup Timeline(s) \cup Comments(s)
        \subseteq ReferralPresses
  BY DEF ServiceCard, ServiceAddDropdown, Timeline, Comments, Offer, ReferralPresses, Quiet
<1>3. RelatedReferrals(s) \cup ReferralDocuments(s) \subseteq ReferralPresses
  BY DEF RelatedReferrals, ReferralDocuments, Offer, ReferralPresses
<1>4. ClientRequestCard(s) \cup ClientRequestAccess(s) \subseteq ReferralPresses
  BY DEF ClientRequestCard, ClientRequestAccess, Offer, ReferralPresses, Quiet
<1>5. ClientRequestsSection(s) \subseteq ReferralPresses
  BY <1>4 DEF ClientRequestsSection, Offer, ReferralPresses
<1>6. Offered(s) \subseteq ReferralPresses
  BY <1>1, <1>2, <1>3, <1>5 DEF Offered
<1>7. ASSUME NEW to, <<"revoke", to>> \in Offered(s) PROVE s.link = "active"
  <2>1. <<"revoke", to>> \notin ReferralSummary(s) \cup StatusDialog(s)
    BY DEF ReferralSummary, StatusDialog, Offer, Settled
  <2>2. <<"revoke", to>> \notin ServiceCard(s) \cup ServiceAddDropdown(s)
                                 \cup Timeline(s) \cup Comments(s)
    BY DEF ServiceCard, ServiceAddDropdown, Timeline, Comments, Offer
  <2>3. <<"revoke", to>> \notin RelatedReferrals(s) \cup ReferralDocuments(s)
    BY DEF RelatedReferrals, ReferralDocuments, Offer
  <2>4. <<"revoke", to>> \in ClientRequestsSection(s)
    BY <1>7, <2>1, <2>2, <2>3 DEF Offered
  <2>5. <<"revoke", to>> \in ClientRequestAccess(s)
    BY <2>4 DEF ClientRequestsSection, ClientRequestCard, Offer
  <2> QED
    BY <2>5 DEF ClientRequestAccess, Offer
<1> QED
  BY <1>6, <1>7

LEMMA OwnerOffers ==
  ASSUME NEW s, page \in {"record", "request"}
  PROVE  Offered(s) \subseteq OwnerPresses
BY DEF Offered, OwnerRequests, OwnerAgencies, OwnerConversation, Offer, OwnerPresses

----------------------------------------------------------------------------
(* The inductive invariant: a page on which nothing of others is unseen shows   *)
(* the case as it is and is still one the server would send.                    *)

CaseInv ==
    /\ unseen \in Nat
    /\ world \in World /\ Consistent(world)
    /\ seen \in World /\ Consistent(seen)
    /\ Follows(seen, world)
    /\ page = "elsewhere" \/ Fits(page, seen)
    /\ unseen = 0 => Shows(seen, world)

LEMMA InvOffers == CaseInv => OfferedIsServed
<1> SUFFICES ASSUME CaseInv, unseen = 0, NEW c \in Offered(seen)
             PROVE  Good(c, world)
  BY DEF OfferedIsServed, Good
<1>1. Shows(seen, world) /\ world \in World /\ Consistent(world)
  BY DEF CaseInv
<1>2. CASE page = "elsewhere"
  BY <1>2 DEF Offered
<1>3. CASE Fits(page, seen) /\ page = "case"
  <2>1. ReadsCase(world)
    BY <1>1, <1>3, OpensWhat, SameActive DEF Fits, ReadsCase, Shows, Refs
  <2> QED
    BY <1>1, <1>3, <2>1, HeaderGood, TableGood DEF Offered
<1>4. CASE Fits(page, seen) /\ page = "referral"
  <2>1. ReadsReferral(world, Own)
    BY <1>1, <1>4, OpensWhat, SameActive DEF Fits, ReadsReferral, Refs
  <2> QED
    BY <1>1, <1>4, <2>1, SummaryGood, BesideGood, RequestsGood DEF Offered
<1>5. CASE Fits(page, seen) /\ page \in {"record", "request"}
  <2>1. OwnsCase(world)
    BY <1>1, <1>5, OpensWhat DEF Fits, OwnsCase, Shows
  <2> QED
    BY <1>1, <1>5, <2>1, OwnerGood DEF Offered
<1> QED
  BY <1>2, <1>3, <1>4, <1>5 DEF CaseInv, Fits, PageNames

LEMMA InitCaseInv == Init => CaseInv
<1> SUFFICES ASSUME Init PROVE CaseInv
  OBVIOUS
<1>1. /\ world.case = "PENDING_REVIEW" /\ world.link = "none" /\ world.request = "none"
      /\ \A r \in Refs : world.ref[r] = "NONE"
      /\ world \in World
  BY DEF Init, World
<1> QED
  BY <1>1 DEF Init, CaseInv, Consistent, Follows, Shows, Absent, Refs

\* Where the press leads: to a page that the server sends, or nowhere.
Leads(c, w, v) ==
    \/ Target(c) = "same" /\ (v = w \/ v = [w EXCEPT !.doc = "none"])
    \/ Target(c) = "elsewhere"
    \/ Fits(Target(c), v)

LEMMA CasePressKeeps ==
  ASSUME NEW w \in World, Consistent(w), page = "case", Staff \/ Agency,
         NEW c \in CasePresses, Served(c, w), NEW v \in Done(c, w)
  PROVE  Keeps(w, v) /\ Leads(c, w, v)
<1>1. w.case # "OPEN" => \A r \in Refs : w.ref[r] \in Absent \cup Settled
  BY DEF Consistent
<1>2. CASE c \in {"export_pdf", "case_log", "download"} \X {"case"}
  <2>1. v = w
    BY <1>2, Statuses DEF Done
  <2>2. Target(c) = "same"
    BY <1>2 DEF Target
  <2> QED
    BY <2>1, <2>2, CaseKeeps DEF Leads
<1>3. CASE c \in {"refer", "delete_case"} \X {"case"}
  <2>1. v = w \/ v = [w EXCEPT !.trash = TRUE]
    BY <1>3, Statuses DEF Done
  <2>2. Target(c) = "elsewhere"
    BY <1>3 DEF Target
  <2> QED
    BY <2>1, <2>2, CaseKeeps DEF Leads
<1>4. CASE c = <<"delete_document", "case">>
  <2>1. v = [w EXCEPT !.doc = "none"]
    BY <1>4, Statuses DEF Done
  <2>2. Target(c) = "same"
    BY <1>4 DEF Target
  <2> QED
    BY <2>1, <2>2, CaseKeeps DEF Leads
\* The presses that lead back to the page are those of the staff.
<1>5. CASE c \in {"unarchive", "archive", "edit", "toggle", "upload_case"} \X {"case"}
  <2>1. Target(c) = "case"
    BY <1>5 DEF Target
  <2>2. Staff /\ ~w.trash
    BY <1>5, Statuses DEF Served, CaseServes, ReferralServes, RequestServes, Unarchives, Archives, Toggles
  <2>3. Keeps(w, v) /\ v.trash = w.trash
    <3>1. CASE c = <<"toggle", "case">>
      <4>1. v = [w EXCEPT !.case = IF w.case = "OPEN" THEN "CLOSED" ELSE "OPEN"]
        BY <3>1, Statuses DEF Done, World
      <4>2. w.case = "OPEN" => ~SomeActive(w)
        BY <3>1, Statuses DEF Served, CaseServes, ReferralServes, RequestServes, Toggles
      <4>3. w.case = "OPEN" => \A r \in Refs : w.ref[r] \in Absent \cup Settled
        BY <2>2, <4>2 DEF SomeActive, Active, There
      <4> QED
        BY <1>1, <4>1, <4>3, CaseKeeps DEF CaseStates, World
    <3>2. CASE c \in {"unarchive", "archive"} \X {"case"}
      <4>1. v = [w EXCEPT !.case = "ARCHIVED"] \/ v = [w EXCEPT !.case = "CLOSED"]
        BY <3>2, Statuses DEF Done
      <4>2. w.case # "OPEN"
        BY <3>2, Statuses DEF Served, CaseServes, ReferralServes, RequestServes, Unarchives, Archives
      <4> QED
        BY <1>1, <4>1, <4>2, CaseKeeps DEF CaseStates, World
    <3>3. CASE c \in {"edit", "upload_case"} \X {"case"}
      <4>1. v \in {[w EXCEPT !.long = l] : l \in BOOLEAN} \/ v = [w EXCEPT !.doc = "case"]
        BY <3>3, Statuses DEF Done
      <4> QED
        BY <4>1, CaseKeeps DEF World
    <3> QED
      BY <1>5, <3>1, <3>2, <3>3
  <2>4. Fits("case", v)
    BY <2>2, <2>3, OpensWhat DEF Fits, PageNames, ReadsCase
  <2> QED
    BY <2>1, <2>3, <2>4 DEF Leads
<1>6. ASSUME NEW r \in Refs, c = <<"open_referral", r>> PROVE Keeps(w, v) /\ Leads(c, w, v)
  <2>1. v = w /\ ReadsReferral(w, r)
    BY <1>6, Statuses DEF Done, Served, CaseServes, ReferralServes, RequestServes
  <2>2. Target(c) = IF r = Own THEN "referral" ELSE "elsewhere"
    BY <1>6 DEF Target, Refs
  <2>3. r = Own => Fits("referral", v)
    BY <2>1, OpensWhat DEF Fits, PageNames
  <2> QED
    BY <2>1, <2>2, <2>3, CaseKeeps DEF Leads
<1>7. ASSUME NEW r \in Refs, c = <<"delete_referral", r>> PROVE Keeps(w, v) /\ Leads(c, w, v)
  <2>1. v = Deleted(w, r) /\ Staff /\ ~w.trash
    BY <1>7, Statuses DEF Done, Served, CaseServes, ReferralServes, RequestServes, There
  <2>2. Target(c) = "case"
    BY <1>7 DEF Target
  <2>3. v.trash = w.trash
    BY <2>1 DEF Deleted, World
  <2>4. Fits("case", v)
    BY <2>1, <2>3, OpensWhat DEF Fits, PageNames, ReadsCase
  <2> QED
    BY <2>1, <2>2, <2>4, DeletionKeeps DEF Leads
<1>8. \/ c \in {"export_pdf", "case_log", "download"} \X {"case"}
      \/ c \in {"refer", "delete_case"} \X {"case"}
      \/ c = <<"delete_document", "case">>
      \/ c \in {"unarchive", "archive", "edit", "toggle", "upload_case"} \X {"case"}
      \/ \E r \in Refs : c = <<"open_referral", r>> \/ c = <<"delete_referral", r>>
  BY DEF CasePresses
<1> QED
  BY <1>2, <1>3, <1>4, <1>5, <1>6, <1>7, <1>8

LEMMA ReferralPressKeeps ==
  ASSUME NEW w \in World, Consistent(w), page = "referral", Staff \/ Agency,
         NEW c \in ReferralPresses, Served(c, w), NEW v \in Done(c, w),
         c[1] = "revoke" /\ There(w, Own) => w.request # "none"
  PROVE  Keeps(w, v) /\ Leads(c, w, v)
<1>1. Fits("referral", v) <=> There(v, Own)
  BY OpensWhat DEF Fits, PageNames, ReadsReferral
<1>2. CASE c = <<"open_case", Own>>
  <2>1. viewer # "owner"
    BY DEF Staff, Agency
  <2>2. v = w /\ ReadsCase(w) /\ Target(c) = "case"
    BY <1>2, <2>1, Statuses DEF Done, Served, CaseServes, ReferralServes, RequestServes, Target
  <2> QED
    BY <2>2, CaseKeeps, OpensWhat DEF Leads, Fits, PageNames
<1>3. CASE c \in {<<"referral_log", Own>>, <<"download", Own>>, <<"thread", "r2">>}
  <2>1. v = w /\ Target(c) = "same"
    BY <1>3, Statuses DEF Done, Target
  <2> QED
    BY <2>1, CaseKeeps DEF Leads
<1>4. CASE c = <<"open_referral", "r2">>
  <2>1. v = w
    BY <1>4, Statuses DEF Done
  <2>2. Target(c) = "elsewhere"
    BY <1>4 DEF Target, Own
  <2> QED
    BY <2>1, <2>2, CaseKeeps DEF Leads
<1>5. CASE c \in (Quiet \cup {"upload_referral"}) \X {Own}
  <2>1. v = w \/ v = [w EXCEPT !.doc = "referral"]
    <3>1. CASE c = <<"upload_referral", Own>>
      BY <3>1, Statuses DEF Done
    <3>2. CASE c \in Quiet \X {Own}
      <4>1. PICK does \in Quiet : c = <<does, Own>>
        BY <3>2
      <4> QED
        BY <4>1, Statuses DEF Done, Quiet
    <3> QED
      BY <1>5, <3>1, <3>2
  <2>2. Target(c) = "referral"
    BY <1>5 DEF Target, Quiet
  <2>3. There(w, Own)
    BY <1>5, Statuses DEF Served, CaseServes, ReferralServes, RequestServes, Quiet, ReadsReferral, WritesToClient, Active
  <2>4. There(v, Own)
    BY <2>1, <2>3 DEF There, World
  <2> QED
    BY <1>1, <2>1, <2>2, <2>4, CaseKeeps DEF Leads
<1>6. CASE c \in (DOMAIN Transitions) \X {Own}
  <2>1. PICK does \in DOMAIN Transitions : c = <<does, Own>>
    BY <1>6
  <2>2. v = [w EXCEPT !.ref[Own] = does]
    BY <2>1, Statuses DEF Done
  <2>3. There(w, Own) /\ does \in Transitions[w.ref[Own]]
    BY <2>1, Statuses DEF Served, CaseServes, ReferralServes, RequestServes, ReadsReferral
  <2>4. Keeps(w, v)
    BY <2>2, <2>3, TransitionKeeps DEF Refs
  <2>5. v.trash = w.trash /\ v.ref[Own] = does
    BY <2>2 DEF World, Refs
  <2>6. There(v, Own)
    BY <2>1, <2>3, <2>5, Statuses DEF There, Absent
  <2>7. Target(c) = "referral"
    BY <2>1, Statuses DEF Target
  <2> QED
    BY <1>1, <2>4, <2>6, <2>7 DEF Leads
<1>7. CASE c \in {"create", "issue", "reissue", "reopen", "complete", "cancel", "revoke"} \X {Own}
  <2>1. There(w, Own)
    BY <1>7, Statuses DEF Served, CaseServes, ReferralServes, RequestServes, WritesToClient, Active
  <2>2. \/ v \in Send(w) \/ v \in {Finish(w, l) : l \in {"active", "dead"}}
        \/ v = [w EXCEPT !.link = "dead"] /\ w.request # "none"
    BY <1>7, <2>1, Statuses DEF Done
  <2>3. Keeps(w, v)
    BY <2>2, RequestKeeps
  <2>4. v.trash = w.trash /\ v.ref = w.ref
    BY <2>2 DEF Send, Finish, World
  <2>5. There(v, Own)
    BY <2>1, <2>4 DEF There
  <2>6. Target(c) = "referral"
    BY <1>7 DEF Target
  <2> QED
    BY <1>1, <2>3, <2>5, <2>6 DEF Leads
<1> QED
  BY <1>2, <1>3, <1>4, <1>5, <1>6, <1>7 DEF ReferralPresses

LEMMA OwnerPressKeeps ==
  ASSUME NEW w \in World, Consistent(w), viewer = "owner",
         NEW c \in OwnerPresses, Served(c, w), NEW v \in Done(c, w),
         c[1] = "answer" => page = "request"
  PROVE  Keeps(w, v) /\ Leads(c, w, v)
<1>1. v = w
  BY Statuses DEF Done, OwnerPresses
<1>2. Keeps(w, v)
  BY <1>1, CaseKeeps
<1>3. CASE c = <<"answer", Own>>
  <2>1. Target(c) = "request"
    BY <1>3 DEF Target
  <2>2. OwnsCase(w) /\ There(w, Own) /\ w.request # "none"
    BY <1>3, Statuses DEF Served, CaseServes, ReferralServes, RequestServes, WritesToClient, Active
  <2> QED
    BY <1>1, <1>2, <2>1, <2>2, OpensWhat DEF Leads, Fits, PageNames
<1>4. CASE c = <<"open_case", Own>>
  <2>1. Target(c) = "record" /\ OwnsCase(w)
    BY <1>4, Statuses DEF Served, CaseServes, ReferralServes, RequestServes, Target
  <2> QED
    BY <1>1, <1>2, <2>1, OpensWhat DEF Leads, Fits, PageNames
<1>5. CASE c = <<"open_request", Own>>
  <2>1. Target(c) = "request" /\ OwnsCase(w) /\ There(w, Own) /\ w.request # "none"
    BY <1>5, Statuses DEF Served, CaseServes, ReferralServes, RequestServes, Target
  <2> QED
    BY <1>1, <1>2, <2>1, OpensWhat DEF Leads, Fits, PageNames
<1>6. CASE c \in {"milestones"} \X Refs
  <2>1. Target(c) = "elsewhere"
    BY <1>6 DEF Target
  <2> QED
    BY <1>1, <1>2, <2>1 DEF Leads
<1> QED
  BY <1>3, <1>4, <1>5, <1>6 DEF OwnerPresses

\* A new page shows what the server has.
LEMMA Loaded ==
  ASSUME CaseInv, UNCHANGED viewer, Keeps(world, world'),
         NEW p, p = "elsewhere" \/ Fits(p, world'), Load(p)
  PROVE  CaseInv'
<1>1. page' = p /\ seen' = world' /\ unseen' = 0
  BY DEF Load
<1>2. page' = "elsewhere" \/ Fits(page, seen)'
  BY <1>1 DEF Fits, Opens, ReadsCase, ReadsReferral, OwnsCase, Staff, Agency, There, Active
<1> QED
  BY <1>1, <1>2 DEF CaseInv, Keeps, Consistent, Follows, Shows

LEMMA Transitive ==
  ASSUME NEW w, NEW v, NEW u, Follows(w, v), Follows(v, u)
  PROVE  Follows(w, u)
BY DEF Follows

LEMMA PressCaseInv ==
  ASSUME CaseInv, NEW c, Press(c)
  PROVE  CaseInv'
<1>1. /\ c \in Offered(seen) /\ Served(c, world) /\ world' \in Done(c, world)
      /\ UNCHANGED viewer /\ Answered(c)
      /\ world \in World /\ Consistent(world) /\ Consistent(seen) /\ Follows(seen, world)
  BY DEF Press, CaseInv
<1>2. Fits(page, seen)
  BY <1>1 DEF CaseInv, Offered
<1>3. Keeps(world, world') /\ Leads(c, world, world')
  <2>1. CASE page = "case"
    BY <1>1, <1>2, <2>1, CaseOffers, CasePressKeeps DEF Fits
  <2>2. CASE page = "referral"
    <3>1. c \in ReferralPresses
      BY <1>1, <2>2, ReferralOffers
    <3>2. ASSUME c[1] = "revoke", There(world, Own) PROVE world.request # "none"
      <4>1. c = <<"revoke", Own>>
        BY <3>1, <3>2 DEF ReferralPresses
      <4>2. seen.link = "active"
        BY <1>1, <2>2, <4>1, ReferralOffers
      <4> QED
        BY <1>1, <3>2, <4>2 DEF Consistent, Follows, There, Absent
    <3> QED
      BY <1>1, <1>2, <2>2, <3>1, <3>2, ReferralPressKeeps DEF Fits
  <2>3. CASE page \in {"record", "request"}
    <3>1. c \in OwnerPresses /\ viewer = "owner"
      BY <1>1, <1>2, <2>3, OwnerOffers DEF Fits
    <3>2. c[1] = "answer" => page = "request"
      BY <1>1, <2>3 DEF Offered, OwnerRequests, OwnerAgencies, Offer
    <3> QED
      BY <1>1, <3>1, <3>2, OwnerPressKeeps
  <2> QED
    BY <1>2, <2>1, <2>2, <2>3 DEF Fits, PageNames
<1>4. CASE Target(c) = "same"
  <2>1. UNCHANGED <<page, seen, unseen>>
    BY <1>1, <1>4 DEF Answered
  <2>2. world' = world \/ world' = [world EXCEPT !.doc = "none"]
    BY <1>3, <1>4 DEF Leads, Fits, PageNames
  <2>3. /\ world'.case = world.case /\ world'.trash = world.trash /\ world'.ref = world.ref
        /\ world'.request = world.request /\ world'.link = world.link
        /\ world'.doc = world.doc \/ world'.doc = "none"
    BY <1>1, <2>2 DEF World
  <2>4. (unseen = 0 => Shows(seen, world))'
    BY <2>1, <2>3 DEF CaseInv, Shows
  <2>5. (page = "elsewhere" \/ Fits(page, seen))'
    BY <1>1, <1>2, <2>1
    DEF Fits, Opens, ReadsCase, ReadsReferral, OwnsCase, Staff, Agency, There, Active
  <2>6. Follows(seen, world')
    BY <1>1, <1>3, Transitive DEF Keeps
  <2> QED
    BY <1>3, <2>1, <2>4, <2>5, <2>6 DEF CaseInv, Keeps, Consistent, Follows
<1>5. CASE Target(c) # "same"
  <2>1. Load(Target(c))
    BY <1>1, <1>5 DEF Answered
  <2> QED
    BY <1>1, <1>3, <1>5, <2>1, Loaded DEF Leads
<1> QED
  BY <1>4, <1>5

LEMMA NextCaseInv == ASSUME CaseInv, [Next]_vars PROVE CaseInv'
<1>1. Keeps(world, world)
  BY CaseKeeps DEF CaseInv
<1>2. CASE Open
  <2>1. PICK p \in Pages : Opens(p, world) /\ Load(p)
    BY <1>2 DEF Open
  <2>2. UNCHANGED <<viewer, world>>
    BY <1>2 DEF Open
  <2>3. Fits(p, world)
    BY <2>1, OpensWhat DEF Pages, Fits, PageNames, ReadsCase, ReadsReferral
  <2> QED
    BY <1>1, <2>1, <2>2, <2>3, Loaded
<1>3. CASE Leave
  BY <1>1, <1>3, Loaded DEF Leave, Load
<1>4. CASE Others
  <2>1. UNCHANGED <<viewer, page>> /\ Keeps(world, world')
    BY <1>4, OthersKeep DEF Others, CaseInv
  <2>2. CASE page = "elsewhere"
    BY <1>4, <2>1, <2>2, Loaded DEF Others, Load
  <2>3. CASE page # "elsewhere"
    <3>1. seen' = seen /\ unseen' = unseen + 1
      BY <1>4, <2>3 DEF Others
    <3>2. unseen' \in Nat /\ unseen' # 0
      BY <3>1 DEF CaseInv
    <3>3. Fits(page, seen)'
      BY <2>1, <2>3, <3>1
      DEF CaseInv, Fits, Opens, ReadsCase, ReadsReferral, OwnsCase, Staff, Agency, There, Active
    <3>4. Follows(seen, world')
      BY <2>1, Transitive DEF CaseInv, Keeps
    <3> QED
      BY <2>1, <3>1, <3>2, <3>3, <3>4 DEF CaseInv, Keeps, Consistent, Follows
  <2> QED
    BY <2>2, <2>3
<1>5. ASSUME NEW c \in Offered(seen), Press(c) PROVE CaseInv'
  BY <1>5, PressCaseInv
<1>6. CASE UNCHANGED vars
  BY <1>6 DEF vars, CaseInv, Consistent, Follows, Shows,
     Fits, Opens, ReadsCase, ReadsReferral, OwnsCase, Staff, Agency, There, Active
<1>7. ASSUME NEW c \in Offered(seen), Refused(c) PROVE CaseInv'
  <2>1. UNCHANGED <<viewer, world>> /\ page # "elsewhere"
    BY <1>7 DEF Refused, Offered
  <2>2. CASE UNCHANGED <<page, seen, unseen>>
    BY <1>6, <2>1, <2>2 DEF vars
  <2>3. CASE Opens(page, world) /\ Load(page)
    <3>1. Fits(page, world)
      BY <2>1, <2>3 DEF CaseInv, Fits
    <3> QED
      BY <1>1, <2>1, <2>3, <3>1, Loaded
  <2> QED
    BY <1>7, <2>2, <2>3 DEF Refused
<1> QED
  BY <1>2, <1>3, <1>4, <1>5, <1>6, <1>7 DEF Next

\* Every button and link of a page that shows the case as it is, whatever the
\* presses and the changes of others before, is granted or is one of those the
\* README names (the conditions in Show.jsx of cases and referrals against the
\* policies and services of the server).
THEOREM OffersHold == MCSpec => []OfferedIsServed
<1>1. MCInit => CaseInv
  BY InitCaseInv DEF MCInit
<1>2. CaseInv /\ [MCNext]_<<part, vars, feedVars, chatVars>> => CaseInv'
  BY NextCaseInv DEF MCNext
<1> QED
  BY <1>1, <1>2, InvOffers, PTL DEF MCSpec

----------------------------------------------------------------------------
(* The chat. *)

Messages == [who : {"user", "bot"}, of : Nat]
Said(t) == {t[i].of : i \in 1..Len(t)}

\* Each answer right after its question, in a transcript.
Ordered(t) ==
    \A i \in 1..Len(t) :
      t[i].who = "bot" /\ t[i].of # Chat!Welcome => i > 1 /\ t[i - 1] = Chat!Says("user", t[i].of)

\* A request belongs to the last message, and there is one at most.
Awaited ==
    /\ \A r \in requests :
         /\ busy /\ r.of \in Nat /\ current = {r.of}
         /\ transcript # <<>> /\ transcript[Len(transcript)] = Chat!Says("user", r.of)
    /\ \A r, s \in requests : r = s

FromHere ==
    /\ context \subseteq Said(transcript)
    /\ \A r \in requests : r.of \in Said(transcript)
                           /\ r.history \cup r.context \subseteq Said(transcript)

ChatInv ==
    /\ asked \in Nat /\ transcript \in Seq(Messages)
    /\ Ordered(transcript) /\ Awaited /\ FromHere

----------------------------------------------------------------------------
\* A question put at the end of a transcript.
LEMMA AppendQuestion ==
    ASSUME NEW t \in Seq(Messages), Ordered(t), NEW q \in Nat
    PROVE  LET u == Append(t, Chat!Says("user", q)) IN
           /\ u \in Seq(Messages) /\ Ordered(u) /\ Said(t) \cup {q} \subseteq Said(u)
           /\ u # <<>> /\ u[Len(u)] = Chat!Says("user", q)
<1> DEFINE m == Chat!Says("user", q)
           u == Append(t, m)
<1>1. m \in Messages /\ m.who = "user" /\ m.of = q
  BY DEF Chat!Says, Messages
<1>2. /\ u \in Seq(Messages) /\ Len(u) = Len(t) + 1 /\ Len(t) \in Nat
      /\ u[Len(t) + 1] = m /\ \A i \in 1..Len(t) : u[i] = t[i]
  BY <1>1
<1> HIDE DEF u, m
<1>3. Ordered(u)
  <2> SUFFICES ASSUME NEW i \in 1..Len(u), u[i].who = "bot", u[i].of # Chat!Welcome
               PROVE  i > 1 /\ u[i - 1] = Chat!Says("user", u[i].of)
    BY DEF Ordered
  <2>1. i \in 1..Len(t)
    BY <1>1, <1>2
  <2>2. i > 1 /\ t[i - 1] = Chat!Says("user", t[i].of)
    BY <2>1, <1>2 DEF Ordered
  <2>3. i - 1 \in 1..Len(t)
    BY <2>1, <2>2, <1>2
  <2> QED BY <2>1, <2>2, <2>3, <1>2
<1>4. Said(t) \cup {q} \subseteq Said(u)
  BY <1>1, <1>2 DEF Said
<1>5. u # <<>> /\ u[Len(u)] = m
  BY <1>2
<1> QED BY <1>2, <1>3, <1>4, <1>5 DEF u, m

\* The answer to the question a transcript ends with.
LEMMA AppendAnswer ==
    ASSUME NEW t \in Seq(Messages), Ordered(t), NEW q \in Nat,
           t # <<>>, t[Len(t)] = Chat!Says("user", q)
    PROVE  LET u == Append(t, Chat!Says("bot", q)) IN
           /\ u \in Seq(Messages) /\ Ordered(u) /\ Said(t) \cup {q} \subseteq Said(u)
<1> DEFINE m == Chat!Says("bot", q)
           u == Append(t, m)
<1>1. m \in Messages /\ m.of = q
  BY DEF Chat!Says, Messages
<1>2. /\ u \in Seq(Messages) /\ Len(u) = Len(t) + 1 /\ Len(t) \in Nat /\ Len(t) > 0
      /\ u[Len(t) + 1] = m /\ \A i \in 1..Len(t) : u[i] = t[i]
  BY <1>1
<1> HIDE DEF u, m
<1>3. Ordered(u)
  <2> SUFFICES ASSUME NEW i \in 1..Len(u), u[i].who = "bot", u[i].of # Chat!Welcome
               PROVE  i > 1 /\ u[i - 1] = Chat!Says("user", u[i].of)
    BY DEF Ordered
  <2>1. CASE i = Len(t) + 1
    <3>1. i > 1 /\ i - 1 = Len(t) /\ Len(t) \in 1..Len(t)
      BY <2>1, <1>2
    <3>2. u[i - 1] = t[Len(t)]
      BY <3>1, <1>2
    <3> QED BY <3>1, <3>2, <2>1, <1>1, <1>2
  <2>2. CASE i # Len(t) + 1
    <3>1. i \in 1..Len(t)
      BY <2>2, <1>2
    <3>2. i > 1 /\ t[i - 1] = Chat!Says("user", t[i].of)
      BY <3>1, <1>2 DEF Ordered
    <3>3. i - 1 \in 1..Len(t)
      BY <3>1, <3>2, <1>2
    <3> QED BY <3>1, <3>2, <3>3, <1>2
  <2> QED BY <2>1, <2>2
<1>4. Said(t) \cup {q} \subseteq Said(u)
  BY <1>1, <1>2 DEF Said
<1> QED BY <1>2, <1>3, <1>4 DEF u, m

\* The two transcripts a conversation begins with.
LEMMA Fresh ==
    /\ <<>> \in Seq(Messages) /\ Ordered(<<>>)
    /\ <<Chat!Says("bot", Chat!Welcome)>> \in Seq(Messages)
    /\ Ordered(<<Chat!Says("bot", Chat!Welcome)>>)
  BY DEF Ordered, Messages, Chat!Says, Chat!Welcome

----------------------------------------------------------------------------
LEMMA InitChatInv == Chat!Init => ChatInv
  BY Fresh DEF Chat!Init, ChatInv, Awaited, FromHere

\* An answer, a refusal or a failure ends the request under its own question.
LEMMA EndChatInv ==
    ASSUME ChatInv, NEW r \in requests, Chat!Ended(r),
           transcript' = Append(transcript, Chat!Says("bot", r.of)),
           context' \subseteq {r.of}, asked' = asked
    PROVE  ChatInv'
<1>1. requests' = {}
  BY DEF Chat!Ended, ChatInv, Awaited
<1>2. /\ transcript' \in Seq(Messages) /\ Ordered(transcript')
      /\ Said(transcript) \cup {r.of} \subseteq Said(transcript')
  BY AppendAnswer DEF ChatInv, Awaited
<1> QED BY <1>1, <1>2 DEF ChatInv, Awaited, FromHere

LEMMA NextChatInv == ASSUME ChatInv, Chat!Next \/ UNCHANGED chatVars PROVE ChatInv'
<1> USE DEF Chat!chat, Chat!challenge
\* Nothing is on its way when the chat asks for the challenge.
<1>1. CASE Chat!AskForChallenge
  <2> DEFINE t == Append(transcript, Chat!Says("user", asked + 1))
  <2>1. asked' = asked + 1 /\ asked' \in Nat
    BY <1>1 DEF Chat!AskForChallenge, ChatInv
  <2>2. /\ t \in Seq(Messages) /\ Ordered(t) /\ Said(transcript) \subseteq Said(t)
        /\ t # <<>> /\ t[Len(t)] = Chat!Says("user", asked')
    BY <2>1, AppendQuestion DEF ChatInv
  <2>3. Chat!Says("user", asked') \in Messages /\ Chat!Says("bot", asked') \in Messages
    BY <2>1 DEF Chat!Says, Messages
  <2>4. transcript' = Append(t, Chat!Says("bot", asked'))
    BY <1>1, <2>1, <2>3 DEF Chat!AskForChallenge, ChatInv
  <2> HIDE DEF t
  <2>5. /\ transcript' \in Seq(Messages) /\ Ordered(transcript')
        /\ Said(t) \subseteq Said(transcript')
    BY <2>1, <2>2, <2>4, AppendAnswer
  <2>6. requests' = {}
    BY <1>1 DEF Chat!AskForChallenge, ChatInv, Awaited
  <2>7. context' = context
    BY <1>1 DEF Chat!AskForChallenge
  <2> QED BY <2>1, <2>2, <2>5, <2>6, <2>7 DEF ChatInv, Awaited, FromHere
<1>2. CASE Chat!Send
  <2>1. asked' = asked + 1 /\ asked' \in Nat
    BY <1>2 DEF Chat!Send, ChatInv
  <2>2. /\ transcript' \in Seq(Messages) /\ Ordered(transcript')
        /\ Said(transcript) \cup {asked'} \subseteq Said(transcript')
        /\ transcript' # <<>> /\ transcript'[Len(transcript')] = Chat!Says("user", asked')
    BY <1>2, <2>1, AppendQuestion DEF Chat!Send, ChatInv
  <2>3. PICK r : /\ requests' = {r} /\ r.of = asked' /\ r.history = Chat!History
                 /\ r.context = context
    <3> DEFINE sent == [of |-> asked', history |-> Chat!History, context |-> context,
                        first |-> ~verified, token |-> IF verified THEN "none" ELSE token]
    <3>1. requests = {} /\ requests' = requests \cup {sent}
      BY <1>2 DEF Chat!Send, ChatInv, Awaited
    <3>2. sent.of = asked' /\ sent.history = Chat!History /\ sent.context = context
      OBVIOUS
    <3> HIDE DEF sent
    <3> QED BY <3>1, <3>2
  <2>4. Chat!History \subseteq Said(transcript) /\ context \subseteq Said(transcript)
    BY DEF Chat!History, Said, ChatInv, FromHere
  <2>5. busy' /\ current' = {asked'} /\ context' = context
    BY <1>2 DEF Chat!Send
  <2>6. Awaited'
    BY <2>1, <2>2, <2>3, <2>5 DEF Awaited
  <2>7. FromHere'
    BY <2>2, <2>3, <2>4, <2>5 DEF FromHere
  <2> QED BY <2>1, <2>2, <2>6, <2>7 DEF ChatInv
\* Clearing aborts the request: it was the one awaited.
<1>3. CASE Chat!ClearChat
  <2>1. requests' = {} /\ context' = {} /\ asked' = asked
    BY <1>3 DEF Chat!ClearChat, ChatInv, Awaited
  <2> QED BY <1>3, <2>1, Fresh DEF Chat!ClearChat, ChatInv, Awaited, FromHere
<1>4. CASE Chat!NewPage
  <2>1. requests' = {} /\ context' = {} /\ asked' = asked /\ transcript' = <<>>
    BY <1>4 DEF Chat!NewPage
  <2> QED BY <2>1, Fresh DEF ChatInv, Awaited, FromHere
<1>5. CASE Chat!Solve \/ Chat!TokenExpires \/ Chat!WindowEnds \/ UNCHANGED chatVars
  <2>1. UNCHANGED <<asked, Chat!chat>>
    BY <1>5 DEF Chat!Solve, Chat!TokenExpires, Chat!WindowEnds, chatVars
  <2> QED BY <2>1 DEF ChatInv, Awaited, FromHere
<1>6. ASSUME NEW r \in requests, Chat!Replies(r) \/ Chat!Required(r) \/ Chat!Fails(r) PROVE ChatInv'
  BY <1>6, EndChatInv DEF Chat!Replies, Chat!Required, Chat!Fails
<1> QED BY <1>1, <1>2, <1>3, <1>4, <1>5, <1>6 DEF Chat!Next

\* Whenever the chat is cleared, left or answered late, an answer stands right
\* after its question in the conversation it was asked in, and nothing of another
\* conversation is sent along (the abort in handleNewSession of ChatBot.jsx).
THEOREM AnswersCorrect == MCSpec => []AnswersOwnQuestion
<1>1. MCInit => ChatInv
  BY InitChatInv DEF MCInit
<1>2. ChatInv /\ [MCNext]_<<part, vars, feedVars, chatVars>> => ChatInv'
  BY NextChatInv DEF MCNext
<1>3. ChatInv => AnswersOwnQuestion
  BY DEF ChatInv, Ordered, FromHere, Said, AnswersOwnQuestion, Chat!AnswersOwnQuestion
<1> QED
  BY <1>1, <1>2, <1>3, PTL DEF MCSpec
=============================================================================
