--------------------------- MODULE CaseReferralInv ---------------------------
(* The inductive invariant behind the safety properties of CaseReferral.     *)
EXTENDS CaseReferral

\* At most one request is inside a transaction on a case.
LocksExclude ==
    \A v, w \in Workers :
      InTransaction(v) /\ InTransaction(w) /\ session[v].case = session[w].case
        => v = w

\* What each request found under its lock still holds when it writes.
ReferHolds ==
    \A w \in Workers : session[w].op = "refer" =>
      /\ caseRow[session[w].case] = "live"
      /\ caseStatus[session[w].case] = "OPEN"
      /\ ~Duplicate(session[w].case, session[w].agency)

ToggleHolds ==
    \A w \in Workers : session[w].op = "toggle" =>
      /\ caseRow[session[w].case] = "live"
      /\ caseStatus[session[w].case] \in {"OPEN", "CLOSED"}
      /\ caseStatus[session[w].case] = "OPEN" => CanClose(session[w].case)

ArchiveHolds ==
    \A w \in Workers : session[w].op = "archive" =>
      /\ caseRow[session[w].case] = "live"
      /\ caseStatus[session[w].case] = "CLOSED"
      /\ CanClose(session[w].case)

\* A cascade has listed every live referral of its case.
CascadeHolds ==
    \A w \in Workers : session[w].op = "cascade" =>
      /\ caseRow[session[w].case] \in {"live", "trash"}
      /\ LiveReferrals(session[w].case) \subseteq session[w].kids
      /\ \A r \in session[w].kids :
           CaseOf(r) = session[w].case /\ refRow[r] \in {"live", "trash"}
      /\ session[w].since <= clock

Worked == {"OPEN", "CLOSED", "ARCHIVED"}

\* Only cases that passed review reach the trash, a delete or the purge.
WorkedOnly ==
    /\ \A c \in Cases : caseRow[c] = "absent" => caseStatus[c] = "PENDING_REVIEW"
    /\ \A c \in Cases : caseRow[c] \in {"trash", "gone"} => caseStatus[c] \in Worked
    /\ \A w \in Workers : session[w].op \in {"loaded", "cascade"} =>
         /\ caseRow[session[w].case] # "absent"
         /\ caseStatus[session[w].case] \in Worked
    /\ \A c \in plan : caseRow[c] \in {"live", "trash"} /\ caseStatus[c] \in Worked

\* Only a live case has live referrals.
LiveUnderLive ==
    \A r \in Refs : refRow[r] = "live" => caseRow[CaseOf(r)] = "live"

IInv ==
    /\ TypeOK
    /\ LocksExclude
    /\ ReferHolds
    /\ ToggleHolds
    /\ ArchiveHolds
    /\ CascadeHolds
    /\ WorkedOnly
    /\ ReviewedBeforeWork
    /\ LiveUnderLive
    /\ ClosedCaseIsSettled
    /\ OneActiveReferral
    /\ PromptDeleteIsRestorable
    /\ PurgeLeavesNothing
=============================================================================
