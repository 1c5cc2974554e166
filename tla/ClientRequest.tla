---------------------------- MODULE ClientRequest ----------------------------
(***************************************************************************)
(* One request an agency sends to a client about a referral, its capability *)
(* links, the replies and documents, and the two rows it depends on: the   *)
(* referral and the case.  From ReferralClientRequestService.php,          *)
(* ReferralClientAccessService.php and ReferralClientRequestController.php; *)
(* the deletions from ReferralService.php and CaseService.php.             *)
(*                                                                         *)
(* An operation is a PHP request.  Its steps are the locks it takes, one   *)
(* at a time in the order its code takes them, the check of what it read,  *)
(* and the commit.  Besides rows it locks the audit chain: every audited   *)
(* write takes that advisory lock (AuditLog.php) and keeps it until the    *)
(* transaction ends.  A wait-for cycle costs one of its operations its     *)
(* transaction.                                                            *)
(*                                                                         *)
(* Abstractions.  The checklist has one item.  Links and files are         *)
(* numbered in the order they are issued or uploaded; an operation that    *)
(* locks several links takes them at once.  The case is open or closed     *)
(* (CLOSED and ARCHIVED close it alike).  A transaction's writes take      *)
(* effect in its commit.  Rows of milestones, messages, users and other    *)
(* requests are left out, and so is the notice a client sends to ask for   *)
(* another link, which locks nothing of these.  Bounds: MaxLinks, MaxClock *)
(* and MaxUploads.                                                         *)
(***************************************************************************)
EXTENDS Integers, Sequences, FiniteSets

CONSTANTS
    Workers,      \* concurrent PHP requests
    Browsers,     \* client browsers, each with a session
    Lifetime,     \* client_link_lifetime_days
    Dues,         \* due dates an agency may set, Null for none
    MaxLinks,     \* bound: links ever issued
    MaxClock,     \* bound: last value of the clock
    MaxUploads    \* bound: files ever uploaded

ASSUME LifetimeAssumption == Lifetime \in Nat \ {0}
ASSUME DuesAssumption == Dues \subseteq Nat
ASSUME BoundsAssumption ==
    /\ MaxLinks \in Nat \ {0} /\ MaxClock \in Nat \ {0}
    /\ MaxUploads \in Nat

Null == 0
Links == 1..MaxLinks
Files == 1..MaxUploads
Status == {"none", "OPEN", "CLIENT_RESPONDED", "COMPLETED", "CANCELLED"}
Ops == {"create", "message", "issue", "reply", "complete", "cancel", "reopen",
        "revoke", "use", "settle", "toggle",
        "deleteReferral", "deleteCase", "restoreCase"}

(* Steps of an operation: "check"; "chain", the lock of the audit chain;   *)
(* "links", the links it reads or writes; a row locked FOR UPDATE; a row   *)
(* written without a locking read; or the key of a row that an insert      *)
(* refers to.                                                              *)

\* Mutation: a reply checks before it locks.
ReplyStepsCheckFirst == <<"check", "request", "referral", "case", "links", "chain">>

\* Mutation: a reply locks nothing.
ReplyStepsUnlocked == <<"check", "chain">>

ReplySteps == <<"request", "referral", "case", "links", "check", "chain">>

\* Mutation: a transition of the request locks the referral first.
TransitionStepsReferralFirst ==
    <<"referral", "request", "case", "check", "chain", "links">>

\* The update of the request is audited before the links are written.
TransitionSteps == <<"request", "referral", "case", "check", "chain", "links">>

\* Mutation: issuing a link does not lock the request row.
IssueStepsUnlocked == <<"check", "links", "chain">>

IssueSteps == <<"request", "check", "links", "chain">>

\* A deletion reaches a milestone or message, and with it the chain, before
\* the request; a cascade from the case comes to the referral last.
StepsOf(op) ==
    CASE op = "reply" -> ReplySteps
      [] op \in {"complete", "cancel", "reopen"} -> TransitionSteps
      [] op = "issue" -> IssueSteps
      [] op \in {"revoke", "use"} -> <<"links", "check", "chain">>
      [] op = "create" -> <<"check", "referralKey", "chain", "caseKey">>
      [] op = "message" -> <<"check", "requestKey", "chain">>
      [] op = "settle" -> <<"referral", "check", "chain", "caseKey">>
      [] op = "toggle" -> <<"case", "check", "chain">>
      [] op = "deleteReferral" -> <<"referral", "check", "chain", "requestWrite">>
      [] op = "deleteCase" ->
           <<"caseWrite", "check", "chain", "requestWrite", "referralWrite">>
      [] op = "restoreCase" ->
           <<"case", "check", "chain", "requestWrite", "referralWrite">>
      [] OTHER -> <<>>

VARIABLES
    clock,      \* now()
    status,     \* the request's status, "none" before it exists
    due,        \* its due_at
    refStatus,  \* the referral's status: active, COMPLETED or REJECTED
    case,       \* the case: open or closed
    trashed,    \* what a soft-delete took: "no", "referral" (and request), "case" (and all)
    expires,    \* each link's expires_at, Null before it is issued
    revoked,    \* links with revoked_at set
    viewer,     \* each browser's session: the link, and the expiry it saw
    rows,       \* attachment rows ever committed
    docs,       \* the live ones among them
    objects,    \* files in the bucket
    uploads,    \* files uploaded so far
    session     \* the operation each worker is running

caseVars == <<refStatus, case, trashed>>
linkVars == <<expires, revoked, viewer>>
fileVars == <<rows, docs, objects, uploads>>
vars == <<clock, status, due, caseVars, linkVars, fileVars, session>>

-----------------------------------------------------------------------------
(* Transactions and locks. *)

\* done counts the steps taken.  live are the links locked and seen the live
\* documents the check read, files the objects a reply has stored.
Idle == [op |-> "idle", done |-> 0, link |-> Null, live |-> {}, seen |-> {}, files |-> {}]

Unfinished(w) == session[w].done < Len(StepsOf(session[w].op))
NextStep(w) == StepsOf(session[w].op)[session[w].done + 1]
Taken(w) == {StepsOf(session[w].op)[i] : i \in 1..session[w].done}
Running(w, op) == session[w].op = op /\ session[w].done = Len(StepsOf(op))

Keys == {"requestKey", "referralKey", "caseKey"}
Writes == {"requestWrite", "referralWrite", "caseWrite"}

Resource(step) ==
    CASE step \in {"request", "requestWrite", "requestKey"} -> "request"
      [] step \in {"referral", "referralWrite", "referralKey"} -> "referral"
      [] step \in {"case", "caseWrite", "caseKey"} -> "case"
      [] OTHER -> step

\* Foreign-key checks conflict with FOR UPDATE only, not with each other and
\* not with an UPDATE that leaves the key alone.
Conflict(s, t) ==
    /\ Resource(s) = Resource(t)
    /\ s # "check"
    /\ s \in Keys => t \notin Keys \cup Writes
    /\ t \in Keys => s \notin Keys \cup Writes

(* What the guards read. *)

Writable == refStatus = "active" /\ case = "open" /\ trashed = "no"
Answerable == status \in {"OPEN", "CLIENT_RESPONDED"}
Terminal == {"COMPLETED", "CANCELLED"}
Accessible == Writable /\ status \notin {"none", "CANCELLED"}

Live(l) == expires[l] > clock /\ l \notin revoked
LiveLinks == {l \in Links : Live(l)}

\* The links an operation locks when it comes to them.
Wanted(w) ==
    CASE session[w].op \in {"reply", "revoke", "use"} -> {session[w].link} \cap Links
      [] session[w].op \in {"issue", "cancel"} -> LiveLinks
      [] session[w].op = "complete" -> {l \in LiveLinks : due > expires[l]}
      [] session[w].op = "reopen" -> {l \in Links : expires[l] # Null} \ revoked
      [] OTHER -> {}

\* v holds what w would lock next.
Blocks(v, w) ==
    /\ v # w
    /\ \E held \in Taken(v) :
         /\ Conflict(held, NextStep(w))
         /\ held = "links" => session[v].live \cap Wanted(w) # {}

\* A set of operations each of which waits for another of them is a deadlock.
WaitsFor(w, v) == Unfinished(w) /\ Blocks(v, w)
Deadlocked(S) == S # {} /\ \A w \in S : \E v \in S : WaitsFor(w, v)

NoViewer == [link |-> Null, seen |-> Null]
CanView(b) ==
    /\ viewer[b] # NoViewer
    /\ viewer[b].seen = expires[viewer[b].link]
    /\ Live(viewer[b].link)
    /\ Accessible

-----------------------------------------------------------------------------
Init ==
    /\ clock = 1
    /\ status = "none"
    /\ due = Null
    /\ refStatus = "active"
    /\ case = "open"
    /\ trashed = "no"
    /\ expires = [l \in Links |-> Null]
    /\ revoked = {}
    /\ viewer = [b \in Browsers |-> NoViewer]
    /\ rows = {} /\ docs = {} /\ objects = {} /\ uploads = 0
    /\ session = [w \in Workers |-> Idle]

\* What is read, without a lock, before the operation's transaction.
Reachable(op, l) ==
    CASE op = "create" -> status = "none"
      [] op = "reply" ->
           /\ Writable /\ Answerable
           /\ l # Null => \E b \in Browsers : CanView(b) /\ viewer[b].link = l
      [] op = "revoke" -> trashed = "no" /\ l # Null /\ expires[l] # Null
      [] op = "use" -> l # Null /\ Live(l) /\ Accessible
      [] op = "deleteCase" -> case = "closed" /\ trashed = "no"
      [] op = "restoreCase" -> trashed = "case"
      [] op \in {"settle", "deleteReferral"} -> trashed = "no"
      [] op = "toggle" -> trashed # "case"
      [] OTHER -> status # "none" /\ trashed = "no"

\* The bound: no link is issued that has no number left.
WithinBounds(op) == op = "issue" => expires[MaxLinks] = Null

\* A reply of the OFW who owns the case comes without a link.
Begin(w, op, l) ==
    /\ session[w] = Idle
    /\ op \notin {"reply", "revoke", "use"} => l = Null
    /\ Reachable(op, l)
    /\ WithinBounds(op)
    /\ session' = [session EXCEPT ![w].op = op, ![w].link = l]
    /\ UNCHANGED <<clock, status, due, caseVars, linkVars, fileVars>>

\* A locking read finds only a live row, that of a restore only a trashed one;
\* the other rows are written by id.
Found(w) ==
    CASE session[w].op = "toggle" -> trashed # "case"
      [] session[w].op = "restoreCase" -> session[w].done = 0 => trashed = "case"
      [] session[w].op = "deleteCase" -> session[w].done = 0 => trashed = "no"
      [] NextStep(w) \in {"request", "referral", "case"} -> trashed = "no"
      [] OTHER -> TRUE

Acquire(w) ==
    /\ Unfinished(w)
    /\ NextStep(w) # "check"
    /\ \A v \in Workers : ~Blocks(v, w)
    /\ Found(w)
    /\ session' = [session EXCEPT ![w].done = @ + 1,
           ![w].live = IF NextStep(w) = "links" THEN Wanted(w) ELSE @]
    /\ UNCHANGED <<clock, status, due, caseVars, linkVars, fileVars>>

Stop(w) ==
    /\ session' = [session EXCEPT ![w] = Idle]
    /\ UNCHANGED <<clock, status, due, caseVars, linkVars, fileVars>>

NotFound(w) ==
    /\ Unfinished(w)
    /\ NextStep(w) # "check"
    /\ \A v \in Workers : ~Blocks(v, w)
    /\ ~Found(w)
    /\ Stop(w)

\* PostgreSQL fails one transaction of a wait-for cycle.
DeadlockVictim(w) ==
    /\ \E S \in SUBSET Workers : w \in S /\ Deadlocked(S)
    /\ Stop(w)

\* What the service checks with the locks it has by then.
Allowed(w) ==
    CASE session[w].op = "create" -> Writable
      [] session[w].op = "message" -> Writable
      [] session[w].op = "issue" -> Writable /\ Answerable
      [] session[w].op = "reply" ->
           /\ Writable /\ Answerable
           /\ session[w].link # Null => Live(session[w].link)
      [] session[w].op \in {"complete", "cancel"} -> Writable /\ Answerable
      [] session[w].op = "reopen" -> Writable /\ status \in Terminal
      [] session[w].op = "revoke" -> trashed = "no" /\ session[w].link \notin revoked
      [] session[w].op = "use" -> Live(session[w].link) /\ Accessible
      [] session[w].op = "settle" -> refStatus = "active"
      [] session[w].op = "toggle" ->
           case = "open" /\ trashed = "no" => refStatus # "active"
      [] session[w].op = "deleteReferral" -> refStatus # "COMPLETED"
      [] OTHER -> TRUE

Checking(w) == Unfinished(w) /\ NextStep(w) = "check"

Check(w) ==
    /\ Checking(w)
    /\ Allowed(w)
    /\ session' = [session EXCEPT ![w].done = @ + 1,
           ![w].seen = IF session[w].op = "reply" THEN docs ELSE {}]
    /\ UNCHANGED <<clock, status, due, caseVars, linkVars, fileVars>>

Refuse(w) == Checking(w) /\ ~Allowed(w) /\ Stop(w)

\* A transaction whose audit entry, event or commit fails writes no row.
Fail(w) ==
    /\ session[w].op # "idle"
    /\ ~Unfinished(w)
    /\ Stop(w)

End(w) == session' = [session EXCEPT ![w] = Idle]

(* The agency. *)

CommitCreate(w, d) ==
    /\ Running(w, "create")
    /\ status = "none"
    /\ status' = "OPEN"
    /\ due' = d
    /\ End(w)
    /\ UNCHANGED <<clock, caseVars, linkVars, fileVars>>

\* Its row is left out; what it locked is what matters here.
CommitMessage(w) == Running(w, "message") /\ Stop(w)

\* issue and reissue: revoke the usable links, then create the next one.
CommitIssue(w, l) ==
    /\ Running(w, "issue")
    /\ expires[l] = Null
    /\ \A k \in 1..(l - 1) : expires[k] # Null
    /\ revoked' = revoked \cup session[w].live
    /\ expires' = [expires EXCEPT ![l] = clock + Lifetime]
    /\ End(w)
    /\ UNCHANGED <<clock, status, due, caseVars, viewer, fileVars>>

\* Completing extends the links it locked to the due date.
CommitComplete(w) ==
    /\ Running(w, "complete")
    /\ status' = "COMPLETED"
    /\ expires' = [l \in Links |-> IF l \in session[w].live THEN due ELSE expires[l]]
    /\ End(w)
    /\ UNCHANGED <<clock, due, caseVars, revoked, viewer, fileVars>>

\* Mutation: cancelling leaves the links alone.
CommitCancelKeepsLinks(w) ==
    /\ Running(w, "cancel")
    /\ status' = "CANCELLED"
    /\ End(w)
    /\ UNCHANGED <<clock, due, caseVars, linkVars, fileVars>>

CommitCancel(w) ==
    /\ Running(w, "cancel")
    /\ status' = "CANCELLED"
    /\ revoked' = revoked \cup session[w].live
    /\ End(w)
    /\ UNCHANGED <<clock, due, caseVars, expires, viewer, fileVars>>

CommitReopen(w) ==
    /\ Running(w, "reopen")
    /\ status' = "OPEN"
    /\ revoked' = revoked \cup session[w].live
    /\ End(w)
    /\ UNCHANGED <<clock, due, caseVars, expires, viewer, fileVars>>

CommitRevoke(w) ==
    /\ Running(w, "revoke")
    /\ revoked' = revoked \cup {session[w].link}
    /\ End(w)
    /\ UNCHANGED <<clock, status, due, caseVars, expires, viewer, fileVars>>

(* The client. *)

\* exchange: the browser's session remembers the link and its expiry.
CommitUse(w, b) ==
    /\ Running(w, "use")
    /\ viewer' = [viewer EXCEPT ![b] =
           [link |-> session[w].link, seen |-> expires[session[w].link]]]
    /\ End(w)
    /\ UNCHANGED <<clock, status, due, caseVars, expires, revoked, fileVars>>

Upload(w) ==
    /\ Running(w, "reply")
    /\ uploads < MaxUploads
    /\ uploads' = uploads + 1
    /\ objects' = objects \cup {uploads + 1}
    /\ session' = [session EXCEPT ![w].files = @ \cup {uploads + 1}]
    /\ UNCHANGED <<clock, status, due, caseVars, linkVars, rows, docs>>

\* A failed upload deletes the objects of the files before it.
UploadFails(w) ==
    /\ Running(w, "reply")
    /\ objects' = objects \ session[w].files
    /\ End(w)
    /\ UNCHANGED <<clock, status, due, caseVars, linkVars, rows, docs, uploads>>

\* The last file of a reply; each one supersedes the item's other documents.
LastOf(F) == {f \in F : \A g \in F : g <= f}

\* Mutation: a reply sets the status of a request under way.
CommitReplyInProgress(w) ==
    /\ Running(w, "reply")
    /\ status' = "IN_PROGRESS"
    /\ rows' = rows \cup session[w].files
    /\ docs' = IF session[w].files = {} THEN docs
               ELSE (docs \ session[w].seen) \cup LastOf(session[w].files)
    /\ End(w)
    /\ UNCHANGED <<clock, due, caseVars, linkVars, objects, uploads>>

\* Mutation: a new document does not supersede the earlier ones.
CommitReplyKeepsOld(w) ==
    /\ Running(w, "reply")
    /\ status' = "CLIENT_RESPONDED"
    /\ rows' = rows \cup session[w].files
    /\ docs' = docs \cup session[w].files
    /\ End(w)
    /\ UNCHANGED <<clock, due, caseVars, linkVars, objects, uploads>>

CommitReply(w) ==
    /\ Running(w, "reply")
    /\ status' = "CLIENT_RESPONDED"
    /\ rows' = rows \cup session[w].files
    /\ docs' = IF session[w].files = {} THEN docs
               ELSE (docs \ session[w].seen) \cup LastOf(session[w].files)
    /\ End(w)
    /\ UNCHANGED <<clock, due, caseVars, linkVars, objects, uploads>>

(* The referral and the case. *)

\* updateStatus: only what it settles matters here.
CommitSettle(w, s) ==
    /\ Running(w, "settle")
    /\ refStatus' = s
    /\ End(w)
    /\ UNCHANGED <<clock, status, due, case, trashed, linkVars, fileVars>>

CommitToggle(w) ==
    /\ Running(w, "toggle")
    /\ case' = IF case = "open" THEN "closed" ELSE "open"
    /\ End(w)
    /\ UNCHANGED <<clock, status, due, refStatus, trashed, linkVars, fileVars>>

CommitDeleteReferral(w) ==
    /\ Running(w, "deleteReferral")
    /\ trashed' = "referral"
    /\ End(w)
    /\ UNCHANGED <<clock, status, due, refStatus, case, linkVars, fileVars>>

CommitDeleteCase(w) ==
    /\ Running(w, "deleteCase")
    /\ trashed' = "case"
    /\ End(w)
    /\ UNCHANGED <<clock, status, due, refStatus, case, linkVars, fileVars>>

\* The restored case is ARCHIVED; its cascade brings back referral and request.
CommitRestoreCase(w) ==
    /\ Running(w, "restoreCase")
    /\ trashed' = "no"
    /\ case' = "closed"
    /\ End(w)
    /\ UNCHANGED <<clock, status, due, refStatus, linkVars, fileVars>>

Tick ==
    /\ clock < MaxClock
    /\ clock' = clock + 1
    /\ UNCHANGED <<status, due, caseVars, linkVars, fileVars, session>>

-----------------------------------------------------------------------------
Transaction(w) ==
    \/ \E op \in Ops, l \in Links \cup {Null} : Begin(w, op, l)
    \/ Acquire(w)
    \/ NotFound(w)
    \/ DeadlockVictim(w)
    \/ Check(w)
    \/ Refuse(w)
    \/ Fail(w)

AgencyStep(w) ==
    \/ \E d \in Dues : CommitCreate(w, d)
    \/ CommitMessage(w)
    \/ \E l \in Links : CommitIssue(w, l)
    \/ CommitComplete(w)
    \/ CommitCancel(w)
    \/ CommitReopen(w)
    \/ CommitRevoke(w)

ClientStep(w) ==
    \/ \E b \in Browsers : CommitUse(w, b)
    \/ Upload(w)
    \/ UploadFails(w)
    \/ CommitReply(w)

CaseStep(w) ==
    \/ \E s \in {"COMPLETED", "REJECTED"} : CommitSettle(w, s)
    \/ CommitToggle(w)
    \/ CommitDeleteReferral(w)
    \/ CommitDeleteCase(w)
    \/ CommitRestoreCase(w)

Next ==
    \/ \E w \in Workers : Transaction(w)
    \/ \E w \in Workers : AgencyStep(w)
    \/ \E w \in Workers : ClientStep(w)
    \/ \E w \in Workers : CaseStep(w)
    \/ Tick

Spec == Init /\ [][Next]_vars

-----------------------------------------------------------------------------
(* Properties that hold. *)

Session ==
    [op : Ops \cup {"idle"}, done : 0..6, link : Links \cup {Null},
     live : SUBSET Links, seen : SUBSET Files, files : SUBSET Files]

\* Every variable keeps its type: the request takes only the statuses its code
\* writes, documents are attachment rows, and stored files are numbered in order.
TypeOK ==
    /\ clock \in 1..MaxClock
    /\ status \in Status
    /\ due \in Dues \cup {Null}
    /\ refStatus \in {"active", "COMPLETED", "REJECTED"}
    /\ case \in {"open", "closed"}
    /\ trashed \in {"no", "referral", "case"}
    /\ expires \in [Links -> Nat]
    /\ revoked \in SUBSET Links
    /\ viewer \in [Browsers -> [link : Links \cup {Null}, seen : Nat]]
    /\ rows \in SUBSET Files /\ docs \in SUBSET Files /\ objects \in SUBSET Files
    /\ uploads \in 0..MaxUploads
    /\ session \in [Workers -> Session]

\* However issue, reissue, reopen and revoke overlap, a client never has two
\* usable links to a request: issuing revokes the one before it.
OneUsableLink == \A k, l \in LiveLinks : k = l

\* A cancelled request has no usable link, even when a link was being issued
\* while it was cancelled.
CancelledIsDark == status = "CANCELLED" => LiveLinks = {}

\* Two replies at once leave one live document for the checklist item, and
\* every live document is a committed row.
OneLiveDocument ==
    /\ \A f, g \in docs : f = g
    /\ docs \subseteq rows

\* Which operations can deadlock.  Without a deletion or restore among them
\* there are two ways: a transition, which holds the audit chain and wants a
\* link, against a revocation or use of that link, which wants the chain; and a
\* settling or new request, which holds the chain and wants the case's key,
\* against the closing or reopening of the case.  Replies, messages and link
\* issues are in no other cycle.
DeadlocksAreKnown ==
    \A S \in SUBSET Workers : Deadlocked(S) =>
      LET among(ops) == \E w \in S : session[w].op \in ops IN
        \/ among({"deleteReferral", "deleteCase", "restoreCase"})
        \/ among({"complete", "cancel", "reopen"}) /\ among({"revoke", "use"})
        \/ among({"create", "settle"}) /\ among({"toggle"})

\* A reply that took time to upload is committed only to an open request of an
\* active referral and an open case, and never through a revoked link.
RepliesInTime ==
    [][\A w \in Workers : CommitReply(w) =>
           Writable /\ Answerable /\ session[w].link \notin revoked]_vars

\* A finished request leaves its status only by being reopened, and reopening
\* leaves no link usable: a late reply cannot revive it.
FinishedStaysFinished ==
    [][(status \in Terminal /\ status' # status) =>
           (status' = "OPEN" /\ LiveLinks' = {})]_vars
=============================================================================
