---------------------------- MODULE CaseReferral ----------------------------
(***************************************************************************)
(* Cases and their referrals: review, opening and closing, archiving, the  *)
(* trash, restore and the nightly purge of app/Services/CaseService.php,   *)
(* together with the referral operations of ReferralService.php and the    *)
(* soft-delete cascade of Models/Concerns/CascadeSoftDeletes.php.          *)
(*                                                                         *)
(* A case operation is a request that locks the case row, decides on what  *)
(* it reads, writes, and commits; those whose decision reads other rows    *)
(* are split there, so that other requests run in between.  Operations on  *)
(* a referral lock only the referral row and take one step.                *)
(*                                                                         *)
(* Abstractions.  A referral is named by its case, its agency and a copy   *)
(* number.  Time is in units of the deleted_at column (seconds); Retention *)
(* is the trash retention in that unit.  Bounds: MaxRefs referrals are     *)
(* ever sent from a case to an agency, the clock stops at MaxClock, and    *)
(* the purge dies part-way at most MaxAborts times.                        *)
(***************************************************************************)
EXTENDS Integers, FiniteSets

CONSTANTS
    Cases,          \* cases that may be filed, numbered in the order of their ids
    Agencies,       \* agencies a case may be referred to
    Workers,        \* concurrent PHP requests
    Blocked,        \* cases whose purge a RESTRICT foreign key refuses
    Window,         \* CASCADE_DELETED_AT_TOLERANCE_SECONDS
    Retention,      \* trash_retention_days
    MaxRefs,        \* bound: referrals of one case to one agency
    MaxClock,       \* bound: last value of the clock
    MaxAborts       \* bound: purge runs that die part-way

ASSUME CasesAssumption == Cases \subseteq Nat
ASSUME WindowAssumption == Window \in Nat
ASSUME RetentionAssumption == Retention \in Nat \ {0}
ASSUME BlockedAssumption == Blocked \subseteq Cases
ASSUME BoundsAssumption ==
    MaxRefs \in Nat \ {0} /\ MaxClock \in Nat \ {0} /\ MaxAborts \in Nat

Null == 0
Times == 1..MaxClock

CaseStatus == {"PENDING_REVIEW", "OPEN", "CLOSED", "ARCHIVED", "REJECTED"}
ReferralStatus ==
    {"PENDING", "PROCESSING", "FOR_COMPLIANCE", "COMPLETED", "REJECTED"}

\* A row is not yet written, live, soft-deleted, or removed for good.
RowState == {"absent", "live", "trash", "gone"}

Refs == Cases \X Agencies \X (1..MaxRefs)
CaseOf(r) == r[1]
AgencyOf(r) == r[2]

VARIABLES
    clock,       \* now()
    caseRow,     \* state of each row of cases
    caseStatus,  \* its status
    reviewed,    \* cases with reviewed_by and reviewed_at set
    closedAt,    \* its closed_at
    trashedAt,   \* its deleted_at
    refRow,      \* state of each row of referrals
    refStatus,   \* its status
    refTrashed,  \* its deleted_at
    session,     \* the request each worker is serving
    plan,        \* trashed cases the purge has loaded and not yet handled
    aborts,      \* purge runs that died part-way
    trashedBy,   \* history: whether a referral went to the trash with its case
    restored,    \* history: cases ever brought back from the trash
    late         \* history: cases stamped more than Window after their cascade
                 \* began, or over the stamp of an earlier deletion

caseVars == <<caseRow, caseStatus, reviewed, closedAt, trashedAt>>
refVars == <<refRow, refStatus, refTrashed, trashedBy>>
purgeVars == <<plan, aborts>>
historyVars == <<restored, late>>
vars == <<clock, caseVars, refVars, session, purgeVars, historyVars>>

-----------------------------------------------------------------------------
(* What the guards read. *)

Idle == [op |-> "idle"]

\* A request between its SELECT ... FOR UPDATE and its COMMIT.
InTransaction(w) ==
    session[w].op \in {"refer", "toggle", "archive", "cascade"}

Locked(c) == \E w \in Workers : InTransaction(w) /\ session[w].case = c

Settled == {"COMPLETED", "REJECTED"}

LiveReferrals(c) == {r \in Refs : CaseOf(r) = c /\ refRow[r] = "live"}
ActiveReferrals(c) == {r \in LiveReferrals(c) : refStatus[r] \notin Settled}

CanClose(c) == ActiveReferrals(c) = {}

\* Mutation: only a referral nobody has accepted yet counts as a duplicate.
DuplicatePendingOnly(c, a) ==
    \E r \in ActiveReferrals(c) : AgencyOf(r) = a /\ refStatus[r] = "PENDING"

Duplicate(c, a) == \E r \in ActiveReferrals(c) : AgencyOf(r) = a

\* The bound MaxRefs: copies are handed out in order.
NextCopy(r) ==
    /\ refRow[r] = "absent"
    /\ \A n \in 1..(r[3] - 1) : refRow[<<r[1], r[2], n>>] # "absent"

\* Mutation: a completed referral may be taken up again.
TransitionsReopening ==
    [PENDING |-> {"PENDING", "PROCESSING", "FOR_COMPLIANCE", "REJECTED"},
     PROCESSING |-> {"PROCESSING", "FOR_COMPLIANCE", "COMPLETED", "REJECTED"},
     FOR_COMPLIANCE |-> {"FOR_COMPLIANCE", "PROCESSING", "COMPLETED", "REJECTED"},
     COMPLETED |-> {"COMPLETED", "PROCESSING"},
     REJECTED |-> {"REJECTED"}]

Transitions ==
    [PENDING |-> {"PENDING", "PROCESSING", "FOR_COMPLIANCE", "REJECTED"},
     PROCESSING |-> {"PROCESSING", "FOR_COMPLIANCE", "COMPLETED", "REJECTED"},
     FOR_COMPLIANCE |-> {"FOR_COMPLIANCE", "PROCESSING", "COMPLETED", "REJECTED"},
     COMPLETED |-> {"COMPLETED"},
     REJECTED |-> {"REJECTED"}]

\* Mutation: restore looks for the exact stamp of the case.
InWindowExact(r) == refTrashed[r] = trashedAt[CaseOf(r)]

\* The trashed referrals a restore takes for the ones its cascade stamped.
InWindow(r) ==
    /\ trashedAt[CaseOf(r)] - Window <= refTrashed[r]
    /\ refTrashed[r] <= trashedAt[CaseOf(r)] + Window

Revived(c) ==
    {r \in Refs : CaseOf(r) = c /\ refRow[r] = "trash" /\ InWindow(r)}

Expired(c) == caseRow[c] = "trash" /\ trashedAt[c] < clock - Retention

-----------------------------------------------------------------------------
Init ==
    /\ clock = 1
    /\ caseRow = [c \in Cases |-> "absent"]
    /\ caseStatus = [c \in Cases |-> "PENDING_REVIEW"]
    /\ reviewed = {}
    /\ closedAt = [c \in Cases |-> Null]
    /\ trashedAt = [c \in Cases |-> Null]
    /\ refRow = [r \in Refs |-> "absent"]
    /\ refStatus = [r \in Refs |-> "PENDING"]
    /\ refTrashed = [r \in Refs |-> Null]
    /\ trashedBy = [r \in Refs |-> "none"]
    /\ session = [w \in Workers |-> Idle]
    /\ plan = {}
    /\ aborts = 0
    /\ restored = {}
    /\ late = {}

(* Filing and review. *)

CreateCase(c) ==
    /\ caseRow[c] = "absent"
    /\ caseRow' = [caseRow EXCEPT ![c] = "live"]
    /\ UNCHANGED <<clock, caseStatus, reviewed, closedAt, trashedAt, refVars,
                   session, purgeVars, historyVars>>

\* Both transitions lock the row and take it only while it is pending.
InReview(c) ==
    /\ caseRow[c] = "live"
    /\ caseStatus[c] = "PENDING_REVIEW"
    /\ ~Locked(c)

ApproveCase(c) ==
    /\ InReview(c)
    /\ caseStatus' = [caseStatus EXCEPT ![c] = "OPEN"]
    /\ reviewed' = reviewed \cup {c}
    /\ UNCHANGED <<clock, caseRow, closedAt, trashedAt, refVars, session,
                   purgeVars, historyVars>>

RejectCase(c) ==
    /\ InReview(c)
    /\ caseStatus' = [caseStatus EXCEPT ![c] = "REJECTED"]
    /\ UNCHANGED <<clock, caseRow, reviewed, closedAt, trashedAt, refVars,
                   session, purgeVars, historyVars>>

(* Referrals. *)

\* Mutation: the case is read without a lock.
LockForReferralUnlocked(w, c, a) ==
    /\ session[w] = Idle
    /\ caseRow[c] = "live"
    /\ caseStatus[c] = "OPEN"
    /\ ~Duplicate(c, a)
    /\ \E n \in 1..MaxRefs : NextCopy(<<c, a, n>>)
    /\ session' = [session EXCEPT ![w] = [op |-> "refer", case |-> c, agency |-> a]]
    /\ UNCHANGED <<clock, caseVars, refVars, purgeVars, historyVars>>

\* createReferral: lock the case, require it open, look for a duplicate.
LockForReferral(w, c, a) ==
    /\ session[w] = Idle
    /\ ~Locked(c)
    /\ caseRow[c] = "live"
    /\ caseStatus[c] = "OPEN"
    /\ ~Duplicate(c, a)
    /\ \E n \in 1..MaxRefs : NextCopy(<<c, a, n>>)
    /\ session' = [session EXCEPT ![w] = [op |-> "refer", case |-> c, agency |-> a]]
    /\ UNCHANGED <<clock, caseVars, refVars, purgeVars, historyVars>>

CreateReferral(w, r) ==
    /\ session[w].op = "refer"
    /\ CaseOf(r) = session[w].case
    /\ AgencyOf(r) = session[w].agency
    /\ NextCopy(r)
    /\ refRow' = [refRow EXCEPT ![r] = "live"]
    /\ session' = [session EXCEPT ![w] = Idle]
    /\ UNCHANGED <<clock, caseVars, refStatus, refTrashed, trashedBy,
                   purgeVars, historyVars>>

\* Mutation: the decision's word is stored as the status.
UpdateStatusDecision(r, s) ==
    /\ refRow[r] = "live"
    /\ s \in Transitions[refStatus[r]]
    /\ refStatus' = [refStatus EXCEPT ![r] = IF s = "REJECTED" THEN "REJECT" ELSE s]
    /\ UNCHANGED <<clock, caseVars, refRow, refTrashed, trashedBy, session,
                   purgeVars, historyVars>>

\* updateStatus looks only at the referral row, whatever its case's status.
UpdateStatus(r, s) ==
    /\ refRow[r] = "live"
    /\ s \in Transitions[refStatus[r]]
    /\ refStatus' = [refStatus EXCEPT ![r] = s]
    /\ UNCHANGED <<clock, caseVars, refRow, refTrashed, trashedBy, session,
                   purgeVars, historyVars>>

DeleteReferral(r) ==
    /\ refRow[r] = "live"
    /\ refStatus[r] # "COMPLETED"
    /\ refRow' = [refRow EXCEPT ![r] = "trash"]
    /\ refTrashed' = [refTrashed EXCEPT ![r] = clock]
    /\ trashedBy' = [trashedBy EXCEPT ![r] = "user"]
    /\ UNCHANGED <<clock, caseVars, refStatus, session, purgeVars, historyVars>>

(* Closing, reopening, archiving. *)

\* Mutation: closing does not wait for a referral that is being sent.
LockForToggleUnlocked(w, c) ==
    /\ session[w] = Idle
    /\ caseRow[c] = "live"
    /\ caseStatus[c] \in {"OPEN", "CLOSED"}
    /\ caseStatus[c] = "OPEN" => CanClose(c)
    /\ session' = [session EXCEPT ![w] = [op |-> "toggle", case |-> c]]
    /\ UNCHANGED <<clock, caseVars, refVars, purgeVars, historyVars>>

LockForToggle(w, c) ==
    /\ session[w] = Idle
    /\ ~Locked(c)
    /\ caseRow[c] = "live"
    /\ caseStatus[c] \in {"OPEN", "CLOSED"}
    /\ caseStatus[c] = "OPEN" => CanClose(c)
    /\ session' = [session EXCEPT ![w] = [op |-> "toggle", case |-> c]]
    /\ UNCHANGED <<clock, caseVars, refVars, purgeVars, historyVars>>

ToggleCaseStatus(w) ==
    /\ session[w].op = "toggle"
    /\ LET c == session[w].case
           reopening == caseStatus[c] = "CLOSED"
       IN /\ caseStatus' = [caseStatus EXCEPT ![c] = IF reopening THEN "OPEN" ELSE "CLOSED"]
          /\ closedAt' = [closedAt EXCEPT ![c] = IF reopening THEN Null ELSE clock]
    /\ session' = [session EXCEPT ![w] = Idle]
    /\ UNCHANGED <<clock, caseRow, reviewed, trashedAt, refVars, purgeVars,
                   historyVars>>

LockForArchive(w, c) ==
    /\ session[w] = Idle
    /\ ~Locked(c)
    /\ caseRow[c] = "live"
    /\ caseStatus[c] = "CLOSED"
    /\ CanClose(c)
    /\ session' = [session EXCEPT ![w] = [op |-> "archive", case |-> c]]
    /\ UNCHANGED <<clock, caseVars, refVars, purgeVars, historyVars>>

ArchiveCase(w) ==
    /\ session[w].op = "archive"
    /\ caseStatus' = [caseStatus EXCEPT ![session[w].case] = "ARCHIVED"]
    /\ session' = [session EXCEPT ![w] = Idle]
    /\ UNCHANGED <<clock, caseRow, reviewed, closedAt, trashedAt, refVars,
                   purgeVars, historyVars>>

\* Mutation: unarchiving keeps closed_at as it is.
ClosedAtKept(c) == closedAt[c]

\* closed_at ?? now()
ClosedAtOnUnarchive(c) == IF closedAt[c] = Null THEN clock ELSE closedAt[c]

UnarchiveCase(c) ==
    /\ ~Locked(c)
    /\ caseRow[c] = "live"
    /\ caseStatus[c] = "ARCHIVED"
    /\ caseStatus' = [caseStatus EXCEPT ![c] = "CLOSED"]
    /\ closedAt' = [closedAt EXCEPT ![c] = ClosedAtOnUnarchive(c)]
    /\ UNCHANGED <<clock, caseRow, reviewed, trashedAt, refVars, session,
                   purgeVars, historyVars>>

(* The trash. *)

\* Mutation: the status is not checked.
LoadForDeleteAny(w, c) ==
    /\ session[w] = Idle
    /\ caseRow[c] = "live"
    /\ session' = [session EXCEPT ![w] = [op |-> "loaded", case |-> c]]
    /\ UNCHANGED <<clock, caseVars, refVars, purgeVars, historyVars>>

\* The controller loads the model and the service checks its status, both
\* before the transaction and without a lock.
LoadForDelete(w, c) ==
    /\ session[w] = Idle
    /\ caseRow[c] = "live"
    /\ caseStatus[c] = "ARCHIVED"
    /\ session' = [session EXCEPT ![w] = [op |-> "loaded", case |-> c]]
    /\ UNCHANGED <<clock, caseVars, refVars, purgeVars, historyVars>>

\* The first write locks the row; the deleting hook then lists the live
\* children and begins to stamp them.
BeginCascade(w) ==
    /\ session[w].op = "loaded"
    /\ LET c == session[w].case IN
         /\ ~Locked(c)
         /\ caseRow[c] # "gone"
         /\ session' = [session EXCEPT ![w] =
              [op |-> "cascade", case |-> c, kids |-> LiveReferrals(c), since |-> clock]]
    /\ UNCHANGED <<clock, caseVars, refVars, purgeVars, historyVars>>

\* The children carry the time the cascade began, the case the time it ended.
DeleteArchivedCase(w) ==
    /\ session[w].op = "cascade"
    /\ LET c == session[w].case
           kids == session[w].kids
       IN /\ caseRow' = [caseRow EXCEPT ![c] = "trash"]
          /\ trashedAt' = [trashedAt EXCEPT ![c] = clock]
          /\ refRow' = [r \in Refs |-> IF r \in kids THEN "trash" ELSE refRow[r]]
          /\ refTrashed' =
               [r \in Refs |-> IF r \in kids THEN session[w].since ELSE refTrashed[r]]
          /\ trashedBy' =
               [r \in Refs |-> IF r \in kids /\ refRow[r] = "live"
                               THEN "case" ELSE trashedBy[r]]
          /\ late' = IF caseRow[c] = "trash" \/ clock > session[w].since + Window
                     THEN late \cup {c} ELSE late
    /\ session' = [session EXCEPT ![w] = Idle]
    /\ UNCHANGED <<clock, caseStatus, reviewed, closedAt, refStatus, purgeVars,
                   restored>>

\* The purge was faster: the updates of the stale model match no row.
DeleteVanished(w) ==
    /\ session[w].op = "loaded"
    /\ caseRow[session[w].case] = "gone"
    /\ session' = [session EXCEPT ![w] = Idle]
    /\ UNCHANGED <<clock, caseVars, refVars, purgeVars, historyVars>>

RestoreTrashedCase(c) ==
    /\ ~Locked(c)
    /\ caseRow[c] = "trash"
    /\ caseRow' = [caseRow EXCEPT ![c] = "live"]
    /\ caseStatus' = [caseStatus EXCEPT ![c] = "ARCHIVED"]
    /\ trashedAt' = [trashedAt EXCEPT ![c] = Null]
    /\ refRow' = [r \in Refs |-> IF r \in Revived(c) THEN "live" ELSE refRow[r]]
    /\ refTrashed' = [r \in Refs |-> IF r \in Revived(c) THEN Null ELSE refTrashed[r]]
    /\ trashedBy' = [r \in Refs |-> IF r \in Revived(c) THEN "none" ELSE trashedBy[r]]
    /\ restored' = restored \cup {c}
    /\ UNCHANGED <<clock, reviewed, closedAt, refStatus, session, purgeVars,
                   late>>

(* The nightly purge. *)

\* One page of expired trashed cases, read without locks.
PurgeRead ==
    /\ plan = {}
    /\ \E c \in Cases : Expired(c)
    /\ plan' = {c \in Cases : Expired(c)}
    /\ UNCHANGED <<clock, caseVars, refVars, session, aborts, historyVars>>

\* chunkById handles the page in id order.
FirstOf(c, S) == c \in S /\ \A d \in S : c <= d

\* Mutation: only the referrals still in the trash are force-deleted.
PurgeCaseTrashedOnly(c) ==
    /\ FirstOf(c, plan)
    /\ c \notin Blocked
    /\ ~Locked(c)
    /\ caseRow' = [caseRow EXCEPT ![c] = "gone"]
    /\ refRow' = [r \in Refs |->
         IF CaseOf(r) = c /\ refRow[r] = "trash" THEN "gone" ELSE refRow[r]]
    /\ plan' = plan \ {c}
    /\ UNCHANGED <<clock, caseStatus, reviewed, closedAt, trashedAt, refStatus,
                   refTrashed, trashedBy, session, aborts, historyVars>>

\* Force-deletes the loaded case and every referral of it, in one transaction.
PurgeCase(c) ==
    /\ FirstOf(c, plan)
    /\ c \notin Blocked
    /\ ~Locked(c)
    /\ caseRow' = [caseRow EXCEPT ![c] = "gone"]
    /\ refRow' = [r \in Refs |->
         IF CaseOf(r) = c /\ refRow[r] # "absent" THEN "gone" ELSE refRow[r]]
    /\ plan' = plan \ {c}
    /\ UNCHANGED <<clock, caseStatus, reviewed, closedAt, trashedAt, refStatus,
                   refTrashed, trashedBy, session, aborts, historyVars>>

\* Mutation: a refused case rolls the whole page back.
PurgeSkipPage(c) ==
    /\ FirstOf(c, plan)
    /\ c \in Blocked
    /\ plan' = {}
    /\ UNCHANGED <<clock, caseVars, refVars, session, aborts, historyVars>>

\* A case held by a RESTRICT foreign key is rolled back, logged and skipped.
PurgeSkip(c) ==
    /\ FirstOf(c, plan)
    /\ c \in Blocked
    /\ plan' = plan \ {c}
    /\ UNCHANGED <<clock, caseVars, refVars, session, aborts, historyVars>>

\* Any other exception leaves the rest of the page unhandled.
PurgeAbort ==
    /\ plan # {}
    /\ aborts < MaxAborts
    /\ plan' = {}
    /\ aborts' = aborts + 1
    /\ UNCHANGED <<clock, caseVars, refVars, session, historyVars>>

-----------------------------------------------------------------------------
\* Time passes, also while a cascade waits between two of its writes.
Tick ==
    /\ clock < MaxClock
    /\ clock' = clock + 1
    /\ UNCHANGED <<caseVars, refVars, session, purgeVars, historyVars>>

Commit(w) ==
    \/ \E r \in Refs : CreateReferral(w, r)
    \/ ToggleCaseStatus(w)
    \/ ArchiveCase(w)
    \/ DeleteArchivedCase(w)

Next ==
    \/ \E c \in Cases :
         \/ CreateCase(c)
         \/ ApproveCase(c)
         \/ RejectCase(c)
         \/ UnarchiveCase(c)
         \/ RestoreTrashedCase(c)
         \/ PurgeCase(c)
         \/ PurgeSkip(c)
    \/ \E r \in Refs : DeleteReferral(r) \/ \E s \in ReferralStatus : UpdateStatus(r, s)
    \/ \E w \in Workers :
         \/ \E c \in Cases :
              \/ \E a \in Agencies : LockForReferral(w, c, a)
              \/ LockForToggle(w, c)
              \/ LockForArchive(w, c)
              \/ LoadForDelete(w, c)
         \/ BeginCascade(w)
         \/ DeleteVanished(w)
         \/ Commit(w)
    \/ PurgeRead
    \/ PurgeAbort
    \/ Tick

Spec == Init /\ [][Next]_vars

\* Scheduled runs recur, a request that holds a lock commits, and PostgreSQL
\* grants a row lock to waiters in turn, so a purge that keeps being able to
\* take its case does.
Fairness ==
    /\ WF_vars(PurgeRead)
    /\ \A c \in Cases : SF_vars(PurgeCase(c)) /\ WF_vars(PurgeSkip(c))
    /\ \A w \in Workers : WF_vars(Commit(w))

FairSpec == Spec /\ Fairness

-----------------------------------------------------------------------------
(* Properties. *)

SessionType ==
    [op : {"idle"}]
      \cup [op : {"refer"}, case : Cases, agency : Agencies]
      \cup [op : {"toggle", "archive", "loaded"}, case : Cases]
      \cup [op : {"cascade"}, case : Cases, kids : SUBSET Refs, since : Times]

\* Every column and every request holds a value of its vocabulary: a case has
\* one of the statuses of CaseFile, a referral one of ReferralStatusMachine,
\* and deleted_at and closed_at are times of the clock or null.
TypeOK ==
    /\ clock \in Times
    /\ caseRow \in [Cases -> RowState]
    /\ caseStatus \in [Cases -> CaseStatus]
    /\ reviewed \subseteq Cases
    /\ closedAt \in [Cases -> Times \cup {Null}]
    /\ trashedAt \in [Cases -> Times \cup {Null}]
    /\ refRow \in [Refs -> RowState]
    /\ refStatus \in [Refs -> ReferralStatus]
    /\ refTrashed \in [Refs -> Times \cup {Null}]
    /\ trashedBy \in [Refs -> {"none", "user", "case"}]
    /\ session \in [Workers -> SessionType]
    /\ plan \subseteq Cases
    /\ aborts \in 0..MaxAborts
    /\ restored \subseteq Cases
    /\ late \subseteq Cases

\* A case that is closed or archived, and was never brought back from the
\* trash, has no referral an agency still has to answer: the check of
\* canClose() stays true until the close commits and for as long as the case
\* stays closed, whatever other requests do meanwhile.
ClosedCaseIsSettled ==
    \A c \in Cases \ restored :
      caseRow[c] = "live" /\ caseStatus[c] \in {"CLOSED", "ARCHIVED"}
        => ActiveReferrals(c) = {}

\* An agency never has two referrals of one case to answer at a time, unless a
\* restore brought one back: createReferral()'s duplicate check is still true
\* when its insert commits.
OneActiveReferral ==
    \A c \in Cases \ restored : \A r, q \in ActiveReferrals(c) :
      AgencyOf(r) = AgencyOf(q) => r = q

\* No case is worked on, and no agency sees it, before approveCase() has
\* recorded a reviewer, whichever way through trash and restore it went.
ReviewedBeforeWork ==
    /\ \A c \in Cases :
         caseStatus[c] \in {"OPEN", "CLOSED", "ARCHIVED"} => c \in reviewed
    /\ \A r \in Refs : refRow[r] # "absent" => CaseOf(r) \in reviewed

\* A live closed case has a closure date and a live open one has none, also
\* after the case was deleted through a stale page, restored and unarchived.
ClosedAtAgrees ==
    \A c \in Cases : caseRow[c] = "live" =>
      /\ caseStatus[c] = "CLOSED" => closedAt[c] # Null
      /\ caseStatus[c] \in {"PENDING_REVIEW", "OPEN", "REJECTED"} => closedAt[c] = Null

\* Of a case deleted once, by a cascade no longer than the tolerance, restore
\* brings back every referral the cascade took: one that is still in the trash
\* has its case there too, inside the window, whatever was deleted by hand,
\* restored or archived in between.
PromptDeleteIsRestorable ==
    \A r \in Refs :
      refRow[r] = "trash" /\ trashedBy[r] = "case" /\ CaseOf(r) \notin late
        => caseRow[CaseOf(r)] = "trash" /\ InWindow(r)

\* A purged case leaves no referral row behind, live or trashed, not even one
\* that was being sent while the purge ran.
PurgeLeavesNothing ==
    \A r \in Refs : caseRow[CaseOf(r)] = "gone" => refRow[r] \in {"absent", "gone"}

\* A completed or rejected referral keeps that outcome for good, through the
\* trash, a restore and every later update.
OutcomeIsFinal ==
    [][\A r \in Refs : refStatus[r] \in Settled => refStatus'[r] = refStatus[r]]_vars

\* A case that is not held by a foreign key and whose retention is over does
\* not stay in the trash for ever: it is purged, restored or deleted anew,
\* however many other cases the same run has to skip.
ExpiredIsPurged ==
    \A c \in Cases \ Blocked : Expired(c) ~> ~Expired(c)

(* The abstract workflow this module implements. *)

Phase(c) ==
    CASE caseRow[c] = "absent" -> "ABSENT"
      [] caseRow[c] = "live" -> caseStatus[c]
      [] caseRow[c] = "trash" -> "TRASH"
      [] caseRow[c] = "gone" -> "GONE"

Waiting(c) == {AgencyOf(r) : r \in ActiveReferrals(c)}

Board == INSTANCE CaseBoard WITH
    phase <- [c \in Cases |-> Phase(c)],
    waiting <- [c \in Cases |-> Waiting(c)]

\* Every committed step is a step of the workflow of CaseBoard: a referral is
\* sent only from a case that is open at that moment to an agency that has
\* none to answer, and a case is closed or archived only when nobody owes an
\* answer at that moment, not merely when the request last looked.
ImplementsBoard == Board!Spec

(* What comments of the source say, and the code does not do. *)

\* The comment on the tolerance of CascadeSoftDeletes: a child that went to the
\* trash with its case never carries a stamp outside the window around the
\* case's, so a restore finds all of them.
ChildrenStayInWindow ==
    \A r \in Refs :
      refRow[r] = "trash" /\ trashedBy[r] = "case" /\ caseRow[CaseOf(r)] = "trash"
        => InWindow(r)

\* The purge takes only soft-deleted cases whose retention is over.
OnlyExpiredIsPurged ==
    [][\A c \in Cases : caseRow'[c] = "gone" /\ caseRow[c] # "gone" => Expired(c)]_vars
=============================================================================
