# Verification of Bayanihan One Window

Bayanihan One Window is a Laravel application (PHP, PostgreSQL, Redis, object
storage) with a React front end over Inertia. Case managers file cases for
overseas workers, refer them to government agencies and talk to the client
through tokenised links; clients register, file and answer on their own portal.
Every change is written to a hash-chained audit log. This directory models the
parts in which concurrency, failure, ordering or stale state decide whether the
system is correct: TLA+ modules, TLC configurations that check them on small
instances, and proofs for every value of the constants, checked by TLAPS.

`PROJECT.json` lists components, runs, mutants, the source lines each definition
models, findings, hazards and theorems. This file says what they mean.

## 1. The system

On the **server** concurrency comes from three sides: PHP requests, each with
its own PostgreSQL connection at READ COMMITTED; queue workers; and scheduled
commands (`routes/console.php`: purge 02:00 daily, archive on the 1st, prune
after it, chain verification weekly, orphan cleanup daily, all
`withoutOverlapping`). They meet in database rows, in advisory and row locks, in
cache entries and in the bucket. A transaction can fail at any statement, and
what is outside the database (objects, queued mail, cache) is not rolled back
with it.

In the **browser** it comes from one person and the network: visits that
interrupt each other, requests beside the router that answer late or never,
timers, dialogs closed and opened for something else in between, and pages that
still show what the server said minutes ago. Server and browser meet in two
ways: the server decides about each request by what is true then, and the page
acts on the answer with callbacks chosen when the request was sent.

What the models take from Inertia (external code, modelled from its use): a page
has one synchronous visit at a time and a newer one interrupts it;
`router.reload` runs beside it; validation errors reach `onError`; a redirect
reaches `onSuccess`, even with a refusal in its flash message; an error page or
a lost answer reaches only `onFinish`.

### Modelled: server

| Component | State | Operations | Hard part | Correct when |
|---|---|---|---|---|
| Audit log | rows with `prev_hash`, chain sequence, checkpoints, archives | write in a transaction, archive a month, prune, verify | lock held from a nested insert to the outer commit; savepoint rollbacks; deletion by month of a chain ordered by number; paged reads during deletes | the chain never forks, always verifies untampered, only archived rows go |
| Cases | status, review, closure date, trash date | file, approve, reject, close, reopen, archive, unarchive, delete, restore, purge | decisions on unlocked reads; cascades over seconds that nothing bounds; restore recognises children by time | a closed case owes nothing, restore brings back what a prompt deletion took, purge takes only expired cases |
| Referrals | status, trash date | refer, update status, delete | check-then-insert without a unique index; status changes under a closed case | one active referral per agency, outcomes are final |
| Client requests | status, links, sessions, attachments, objects | create, message, issue, reply, complete, cancel, reopen, revoke, use of a link | replies upload for seconds inside the transaction; rows, links and the audit chain locked in different orders; sessions that copy a link's expiry | one usable link, a cancelled request is dark, replies in time, no lost document, deadlocks only where the lock orders are known to cross |

### Modelled: front end

| Component | State | Operations | Hard part | Correct when |
|---|---|---|---|---|
| List pages (nine) | props, search box, timer, noted parameters, stored filters, export dialog | type, choose, sort, page, clear, open the export, change its dates, remind, open again | a search delayed by 300 or 400 ms overtakes or is overtaken by a filter; the number of rows is asked for again while older requests are under way; two people at one browser | the choice made while typing survives; nobody gets another's filters; the number shown is that of the file |
| Forms and dialogs (96) | text, subject, busy flag, latch | type, open, leave, address, submit, answer | every handler has its own callbacks; an answer arrives at a dialog that is open for something else | nothing sent is lost, stored twice, stored for another, or leaves the button dead |
| Unsaved changes | two flags of a hook, the question | visits, closing the tab, saving | flags armed before a check that fails; reloads from callbacks | text goes only after the question |
| Filing a case, a referral, a registration | steps, person, parts of the form, probes | pick, link, type, step, search, probe, submit | data of the person before; lists that are paged; late probes | the case is the person's own, what the page knew is not sent, the status is about the text |
| Pages of a case | what was loaded, what is true | open, press, others' changes | four roles with different rules, repeated in pages and routes | what is offered is served |
| Notification lists | answers in flight, busy rows | poll, page, mark | answers overtake each other | the list comes to show the truth |
| Chat assistant | transcript, one request, challenge | ask, clear, verify | an answer after Clear | each answer after its own question |

### Not modelled

The reasons are in `PROJECT.json`, component by component, and section 7 says
what a model of the larger ones would need: one-time codes, invites and user
administration, MFA, stored files and retention, attachment versions, delivery
tracking, surveys, versioned caches, message threads, reference data. Dashboards,
reports and exports, the tracking portal, help articles, malware scanning,
middleware, schema and deployment are queries, rendering or configuration
without a protocol of their own.

## 2. Modules

| Module | What it is |
|---|---|
| `AuditChain` | writers, archive, prune and verification of the audit log |
| `CaseReferral` | cases and referrals with row locks, stale reads, cascades, purge |
| `CaseBoard` | abstract specification of the case workflow, implemented by `CaseReferral` |
| `ClientRequest` | one client request, its links, sessions and replies, with its referral and case |
| `ListTables`, `ListPages` | the filters, columns, chips and exports of the list pages as tables; the page that behaves by them |
| `FormKinds`, `FormsOfCases`, `FormsOfReferrals`, `FormsOfClients`, `FormsOfAccounts`, `FormsOfAdmins` | the kinds of handlers and dialogs, and every form in those words |
| `PageForms` | one form from the first key to the answer |
| `UnsavedGuard`, `GuardedForms` | the hook `useUnsavedChanges` and the forms it guards |
| `CaseFiling`, `ReferralFiling`, `Registration` | the three pages that file in steps, with their server side |
| `CasePages` | what four pages offer to four roles, against what the routes serve |
| `NotificationFeed`, `Assistant` | the notification lists and the chat |
| `AuditChainInv`, `CaseReferralInv`, `ClientRequestInv` | inductive invariants |
| `..._proofs` (eight modules) | theorems and proofs |
| `MC...` | finite sets, symmetry and compositions for TLC; `MCPageForms`, `MCFilings` and `MCCasePages` extend one component and instantiate the others beside it |

### 2.1 AuditChain

A writer is a database transaction. `Stamp` is `AuditLogger::write` or the
observer taking `now()`; `LockAndReadPrev` is the `creating` hook of `AuditLog`,
which takes `pg_advisory_xact_lock` and then reads the newest visible row;
`Insert` numbers the row; `DropRow` is the observer's savepoint rolling back
after a failed insert, which gives the lock back only when that savepoint took
it. `Commit` and `Rollback` end the outer transaction. `ArchivePeriod`, the
`Prune*` actions (plan outside the transaction, checkpoint, mass delete) and the
`Verify*` actions (checkpoint, then OFFSET pages without a transaction) are the
commands.

Abstractions: time is the calendar month, the only unit in which the jobs group
rows; rows are immutable, so a row's digest is its number. No transaction stays
open across two month ends. There is one pruner and one archiver, as scheduled.

### 2.2 CaseReferral and CaseBoard

An operation whose decision reads other rows is split at its lock: `LockFor...`
is the `SELECT ... FOR UPDATE` with the checks made under it, and the commit is
a later step, so others run in between. `LoadForDelete` is the unlocked read of
the delete page; `BeginCascade` and `DeleteArchivedCase` are the cascade, whose
children carry the time it began and whose case carries the time it ended.
Between the two stamps any time may pass: a cascade waits for row locks and for
the chain lock, and nothing in the code bounds that. `RestoreTrashedCase`
revives every child inside the tolerance window. `PurgeRead` loads a page of
expired cases without a lock; `PurgeCase`, `PurgeSkip` (a RESTRICT foreign key)
and `PurgeAbort` handle it in id order. `updateStatus` looks at the referral row
alone and is one step. History variables record which referrals a cascade took,
which cases were restored, and which were stamped again or later than the
tolerance allows (`late`); no guard reads them.

`CaseBoard` has no rows, locks or time: a phase per case and the set of agencies
that still owe an answer. `ImplementsBoard` maps a row's state and status to a
phase and the agencies of the active referrals to that set. The refinement says
that decisions hold at the commit and not merely when they were made: a referral
is sent from a case that is open at that moment, and a case closes when at that
moment nobody owes an answer. The board is as permissive as the code where the
code is: the trash takes a case in any phase after review, and the purge in any
phase.

### 2.3 ClientRequest

A worker runs one operation: `Begin` (the controller's unlocked guards), then
the steps of `StepsOf(op)` in the order of the code, then the commit. A step is a
check of what was read (`Check`, `Refuse`), or a lock (`Acquire`): a row
`FOR UPDATE`, a row written without a locking read, the key of a row that an
insert refers to, the links the operation reads or writes, or the audit chain,
whose advisory lock the first audited write takes and keeps to the end. So a
reply locks request, referral, case and its link, checks, and then takes the
chain; a transition takes the chain with the update of the request and its links
after that; `revoke` and `use` (`revokeAccessLink`, `exchange`) lock the link,
check, and then want the chain; a deletion has the chain before it comes to the
request. `NotFound` is a locking read that finds no live row, `Fail` an audit
entry, event or commit that fails, and `DeadlockVictim` PostgreSQL ending one
transaction of a wait-for cycle. `Conflict` says which locks exclude each other:
the check of a foreign key waits for `FOR UPDATE` only. A reply stores objects
one by one between its locks and the commit; `UploadFails` removes them, `Fail`
after the loop does not. `CommitUse` gives a browser a session that copies the
link's expiry; `CanView` compares the copy.

Abstractions: one checklist item; the case is open or closed; an operation that
locks several links takes them at once; a transaction's reads are in `Check` and
its writes in the commit, which is exact for the rows it locks and is the reason
that `live` and `seen` carry what it read; rows of milestones, messages and users
are left out, and so is the notice by which a client asks for another link.

### 2.4 ListTables and ListPages

A page is a row of tables: which filters it has and how many values each holds,
which headers sort and by which key, which filters become chips, what is kept in
`localStorage`, and which filters the export carries. `ListPages` looks at one
page and one of its filters or columns, the *knob*. `shown` is what the props
say, `box` the search box, `timer` the text a running timer of 300 or 400 ms
will send, `pending` the parameters the hook noted at the last visit, `visit`
the visit in flight. A click builds its parameters from the same source the code
uses, which differs by page: the staff lists from `pendingParamsRef` or the
props, the administrator's from their own state. `Answer` echoes the parameters,
as the controllers do. `Open` is the page opened afresh, by the same person or
by the next one at the browser, with the filters it finds stored.

The export dialog of Cases, Clients and Referrals asks for the number of rows
whenever it opens, its dates change, or new props give the page another query
builder: `AskCount` hides the number and sends a request beside those under way
(`overtaken`), which nobody cancels. `CountArrives` shows whichever answer comes,
and `ExportQuery` is what the Export button would fetch at that moment.

Two rows with the two values of the knob stand for the data; cell contents,
hidden columns and page sizes are left out, and so is how a list of values is
spelled in an address.

### 2.5 FormKinds, FormsOf..., PageForms

A form is a record of two halves. The handler says through what the text goes
(visit or fetch), which callbacks clear the text, close the dialog or free the
button, and which refusals the server has. The dialog says whether the button is
disabled, latched (`ConfirmDialog`) or the inputs frozen while busy, how it can
be left, whether leaving drops the text or remounts the component, and whether
it can be opened for more than one subject. The modules `FormsOf...` give each
form and dialog they list as a change of a common kind, so that a row shows what is
peculiar to its code. `PageForms` gives those words their meaning: `Answer`
applies the callbacks of an ending to whatever the form is open for by then.
`TableHolds` says which combinations of words keep the properties.

Texts are numbers; validation of single fields is not looked at. A subject is a
referral, a row, a person. The comment box of the referral page stays open and
has a home, the referral itself: `Readdress` is the choice of a comment to reply
to, which empties the box, and `cancelReply`, which takes the choice back and
keeps the text.

Not in the table are requests without a text or a dialog of their own: signing
out, the exchange of a link's token on arrival, the vote on a help article, and
the steps of the onboarding; read marks and chat have modules of their own.

### 2.6 UnsavedGuard, GuardedForms

`useUnsavedChanges` hears every visit before it starts. `Go` follows its order of
tests: `bypass`, then `allow` for the same address, then whether the form is
dirty, then the question. `Submission` consumes the bypass and leaves the
allowance. A row of `GuardedForms` says when a form arms the bypass, whether it
lies over its page's links, and how its page visits itself. Back and Forward of
the browser do not reach the hook and are not in the model.

### 2.7 CaseFiling, ReferralFiling, Registration

`CaseFiling`: a field is empty, odd (filled, against a rule of both page and
server), strict (against a rule of the server alone: the length of the summary,
the employer, the position or a contact number, an address that only looks like
one, a category that is no longer active) or ok; `whose` is the history of whose
name the form holds. The page opens blank, with the own record of an OFW, with
the record staff come from (`?client_id=`, on step 2), or, for a next of kin's
account, with the list of clients. `Pick`, `LinkDuplicate`, `SwitchToNew`,
`SwitchToExisting`, next of kin, `GoOn`, `Back` and the confirmation are
actions; the cards of a client's data can be typed in for a new client only.
`ServerErrors` is `StoreCaseRequest`, `Target` is `resolveFilingClient`, and
`Created` says for whom the case is and whose data it wrote. Left out: records
on file hold what the rules accept, and an issue deleted meanwhile keeps its
row, so `exists` passes. `ReferralFiling`: the list of cases is paged and
searched and comes with the pairs already referred of the cases on its page
only; others refer, finish and close meanwhile. `Registration`: the page opens
blank or, by Back to edit from the review, with all but the password; the
address is probed 500 ms after the last key and probes answer late; refusals
wipe passwords and leave the widget's token spent.

### 2.8 CasePages

`world` is the case as it is, `seen` as the page shows it. `Offered` translates
the conditions of the pages (`Case/Show`, `Referral/Show`, `OFW/CaseDetail`,
`Tracking/Show`), `Served` those of controllers, form requests, policies and
services, case by case (`CaseServes`), for a referral (`ReferralServes`) and for
a request (`RequestServes`), and `Press` what a press does. `long` stands for a
summary that does not fit the one page of its PDF. `Others` is any change by a
colleague that the page does not show.

### 2.9 NotificationFeed, Assistant

`useJsonPoll` asks on a timer and after clicks, and neither cancels nor numbers
its requests: `Serve` fixes what an answer holds, `Answer` is its arrival, in any
order. In `Assistant` one request is awaited; Clear aborts it and begins a new
transcript; the challenge stands before the first message and comes back when
the server's window is over.

## 3. Runs

Passing runs:

| Run | Shows | Bounds |
|---|---|---|
| `audit_chain_safety` | the chain never forks and grows at its end, verifies outside three named circumstances, verification raises no other false alarm, only archived rows are deleted | 2 writers, 4 numbers (one pre-chain row), 4 months, pages of 2 |
| `audit_chain_liveness` | whoever waits for the chain lock gets it | 2 writers, 2 numbers, 2 months |
| `case_referral_safety` | the invariants of cases and referrals, that what a prompt deletion took can be restored, and the refinement to `CaseBoard` | 1 case, 1 agency, 2 referrals, 2 requests, 4 seconds, one aborted purge |
| `case_referral_purge` | an expired case leaves the trash although an earlier one is refused every night | 2 cases, no agency, 1 request, one aborted purge |
| `client_request_links` | one usable link, cancelling ends access, finished requests stay so, deadlocks are of the known kinds | 2 operations, 2 links, 2 days, a due date or none |
| `client_request_documents` | types, one live document after concurrent replies with uploads, replies in time | 2 operations, 1 browser, 2 uploads, 1 link |
| `list_pages` | a filter chosen while typing survives the search; nobody gets another person's filters; the number in the export dialog is that of the file; the page comes to rest | all nine pages, every filter and column, 3 clicks or words, 2 people |
| `page_forms` | for the forms and dialogs of the table but those named below: nothing sent is lost, nothing is stored twice or for another, the button comes back; and unsaved text goes only after the question | 96 forms, 2 texts, 2 subjects; 13 guarded forms, 3 texts |
| `filings` | who walks the steps is refused only for what the page has no rule about; a case is its person's; a pair the list knew is not sent; the status is about the typed address | 2 records (one full, one bare), 1 kin, 2 choices; 2 cases on 2 pages, 2 agencies, 2 changes by others; 2 addresses, 4 typed |
| `case_pages` | what is offered on an up-to-date page is served, but for the controls named below; lists of notifications settle; answers stay with their questions | 4 roles, 2 referrals, 1 unseen change; 2 notifications on 2 pages, 2 requests in flight, 4 events; 3 questions |

The bounds are the smallest at which the interesting case happens. Two
transactions are enough for a fork, a lost update or a two-party deadlock, and
the proofs cover any number. Four months are one to fill, one to be archivable
and two for retention and clock to pass it; page size 2 with 4 numbers puts a
page boundary inside the table. Two copies of one referral are needed for a
duplicate; a window of one second in a clock of four gives cascades inside and
outside of it. Two links make a reissue. In a list two values of one filter show
a lost or a mixed one, and three clicks are: type, choose, choose again; or
choose, open the export, change its dates, while answers come in any order. In a
form two texts show one lost under another and two subjects one stored for the
wrong one. Two requests in flight are enough to overtake.

A composite run (`page_forms`, `filings`, `case_pages`) chooses one of its parts
in the initial state and keeps the variables of the others still; it is the
union of its parts' state spaces, not their product, because the parts share no
state. Deadlock checking is on in the audit and client-request runs. It is off
in the case runs, where everything may be purged and the clock may be at its
bound, and in the front-end runs, where the person may stop.

Violation runs each check one sentence of the repository that the code does not
keep; the finding in `PROJECT.json` quotes it:

| Run | Divergence |
|---|---|
| `case_referral_purge_restored` | the purge removes a case that was restored after the purge had loaded its page |
| `case_referral_restore` | a cascade that waits longer than the restore window, or a second deletion through a stale page, leaves referrals in the trash that the restore of their case does not find |

`UntamperedChainVerifies` and `NoFalseAlarm` name the three circumstances they
exclude as hypotheses (rows out of month order, a table pruned empty, pre-chain
rows of several months); section 5 says where they come from.
`PromptDeleteIsRestorable` is about cases deleted once by a cascade no longer than
the window, and `case_referral_restore` shows that the code bounds neither;
`ClosedCaseIsSettled` and `OneActiveReferral` exclude cases that were restored,
because restore brings referrals back without asking. `CountIsOfExport` excludes a
number brought by a request that had been overtaken, `SentIsUnreferred` a case
that was paged or searched away before its agency was settled. `GoesWhereMeant`
allows the comment box, and no other form, to store a text for the page itself.
`NothingLost`, `StoredOnce`, `NeverStuck`, `LeavingAsks` and `OfferedIsServed`
exclude forms and controls by name; each name is a fault of section 5, and a form
of the table that is not named is one that the run has tried.

### Fairness

`FairSpec` of `AuditChain` is strong fairness of taking the chain lock
(PostgreSQL queues advisory-lock waiters) and of ending a transaction that
holds it (a request finishes, fails, or its connection closes and the server
rolls back). Nothing forces a waiter to give up. `FairSpec` of `CaseReferral` is
weak fairness of the nightly read, of skipping and of committing, and strong
fairness of purging a case, whose row lock is free again and again; aborted runs
are bounded by `MaxAborts`, so that they are not assumed away but finite.
`FairSpec` of `ListPages` is weak fairness of the timer and of a visit ending,
in an answer or in a failure: a timer fires, a request succeeds or times out.
`Fairness` of `NotificationFeed` is weak fairness of the poll (an interval), of
each request being served and answered or failing, and of each PATCH; failures
count against `MaxEvents`, so an outage ends. No click is ever assumed.
`ClientRequest`, the forms and the filing pages have no liveness property: they
wait for people.

## 4. Proofs

Every theorem is for all values of the constants that satisfy the named
assumptions, which TLC evaluates for the values of each run. The server's proof
modules prove `TypeOK` first, then that `IInv` holds initially and is kept by
every step, and take the listed theorems from it.

*AuditChain.* `NoFork` is not inductive: two rows may share a predecessor if the
second hash was computed before the first row was committed. `IInv` therefore
says who may have computed a hash or hold rows back (only the lock holder), that
committed rows precede held ones, and that no row lies between a row and the one
its hash names (`NoSkip`). `UntamperedChain` adds that what the pruner decided
still holds when it deletes (`PlanHolds`), which needs that open transactions
stamp this month or the last one (`Young`), and that rows are in month order,
pre-chain rows go together, and each row names a surviving row or is the oldest
and anchored. `CommitsOnlyAppend` follows from the numbering.
`PrunesOnlyArchived` needs `ArchiveHolds`: a month is archived only when it is
older than anything an open transaction can still commit. `AlarmsAreTrue` is
about the paged walk: `WalkHolds` says that the rows walked are exactly those of
the pages before, by rank, and that the walk goes on only after full pages, so
that what is committed meanwhile lies behind it (`WalkGrows`); then the row the
walk compares with is the true predecessor (`PageAccepted`), and a full page
leads to the beginning of the next by counting (`PageWalked`).

*CaseReferral.* What a request saw under its lock still holds when it writes:
one conjunct per operation, and `LocksExclude`, which makes that possible.
Referral updates do not take the case lock, so the step that needs care is a
referral operation under a case that is being closed: it can only settle, and
settled stays settled. `LiveUnderLive` and `WorkedOnly` carry cascade, restore
and purge. `PromptDelete` rests on `CascadeHolds`: what a cascade is about to
take is all that lives under its case, so a child that went with a case has the
stamp of that cascade's beginning, and its case one at most a window later
unless the history says `late`; restore takes the case and every such child in
one step. `DatesCorrect` follows every path that closes, reopens, archives and
restores a case. `Implements` splits into the initial state and one step per
action, each a step of `CaseBoard` or a stutter.

*ClientRequest.* `StepsInOrder` says that a worker has taken a prefix of the
steps of its operation, and `LocksExclude` and `LinksExclude` that locks which
conflict have one holder. Every operation that issues, extends or revokes links
in bulk holds the request row, hence the links it locked (`LinkHolds`) contain
every usable one until the commit, which gives `OneLink` and `CancelEndsAccess`.
A reply holds all three rows and its link, hence `ReplyHolds`: the request is
open, the case is open, the link is not revoked, and the documents it retires
are all there are. `KnownDeadlocks` is for sets of any size. In the order
request, referral, case, links, chain every operation that is no deletion locks
upward (`LocksUpward`) but for two steps: a transition comes to the links, and a
new or settling request to the key of its case, with the chain already locked
(`Backwards`). Whoever waits at one of those waits for a revocation or use of
the link, or for the closing of the case, which are the pairs the property
names; in a set without them and without deletions everybody waits for somebody
whose next lock ranks higher, which cannot go on.

*ListPages.* `OwnFilters`: what is stored under a person's key was left by that
person (`KeptByOwner`), because the page reads the key before it saves.
`FilterKept`: while a search timer runs, the visit made meanwhile is the one the
hook noted (`Noted`), so the search that follows carries it. `CountMatches` rests on
`CountInv`: while the dialog is open the newest request asks for what the button
would fetch at this moment, and so does the number on display unless an older
request brought it (`Current`). The button's query changes when the dialog opens,
its dates change, or an answer brings new props, and each of the three hides the
number and asks again; that the reminders' dialog belongs to another page
(`Apart`) keeps everything else away.

*CaseFiling.* `WalkAccepted` rests on `StepInv`: a step the person has left by
Next has no errors as long as it is not touched, because typing touches only the
fields of the open step and whatever changes a former step takes its mark away.
That no error of the steps means no error of the server but those of
`LeftToServer` is then a comparison of two sets of rules: lengths, addresses
that only look like ones and categories no longer active, which the page knows
nothing of, and the addresses of those who are not notified. `FiledRight` rests
on `PickedIsShown`: a client that is picked is on record and the person on the
page is that client. It assumes that the names of the records are not those the
model gives to a new client, the own profile and nobody (`RecordsAssumption`).

*Filings.* `MCFilings` puts the three pages side by side, so its theorems are
about the specification the run checks. Those of `CaseFiling` carry over, since a
step of `FilingNext` is a step of that page or leaves it alone. `SentCorrect` rests
on `ListKnows`: of the cases on its list the page knows every active referral, but
for what others did since. `StatusCorrect` rests on `Probes`: at most one probe is
due or under way and it is about the address in the field.

*PageForms.* The theorems are for any table of forms and any number of texts and
subjects. Four conditions on a row say what its callbacks must do: `KeepsText`,
`SendsOnce`, `StartsAnew` and `Recovers`. `FormsAssumption` says that every form
of the table meets them or is known not to; TLC evaluates it for the forms of
the code, so it is checked, not trusted. From there `NothingIsLost`,
`NothingIsDoubled`, `NothingIsMixed` and `NothingIsStuck` have one invariant
each over a common one: a form that cannot be sent while it is busy has one
request under way (`OneInv`). A text on its way is in the form or was let go of,
and one that was sent and is neither stored nor let go of is in one of the two
places (`LostInv`); what is in the form or on its way is not stored yet, and
what is both is in a form blocked until its answer comes (`OnceInv`); what is in
the form was meant for the subject it is open for, or for another and the form is
the comment box back at its page (`MeantInv`); a form is busy
or latched only while a request of its own will come back (`StuckInv`). The
conditions say where the faults of section 5 come from: each named form breaks
the one of its property.

*UnsavedGuard*, in the same module. `QuestionComesFirst` is for any table: the
bypass is never left armed except by a form that arms it before its own check or by
its neighbour on the page (`NotArmed`), so if those are known
(`GuardTableAssumption`, evaluated like the other), no other form can lose text
unasked.

*CasePages.* `OffersHold` is for any viewers and any number of unseen changes.
Its invariant `CaseInv` says that a page on which nothing is unseen shows the
case as it is, but for a document deleted under it (`Shows`), and that the
server would still send that page (`Fits`). For this, every press must lead to a
page that its viewer may read afterwards (`Leads`), which needs facts about the
case itself: referrals are active in an open case only, a link belongs to a
request (`Consistent`), and a request goes only with its referral (`Follows`).
The last is what Revoke on a stale page needs, whose grant does not look at the
request: as long as the referral is there, the request whose link the page shows
is there too. Given `CaseInv`, the property is proved card by card: what the
card offers is served or is one of the controls of section 5.

*Assistant*, in the same module. `AnswersCorrect` rests on `Awaited`: a request that
is not aborted belongs to the last message.

Only model-checked are the liveness properties (`LockIsServed`, `ExpiredIsPurged`,
`ComesToRest`, `FeedSettles`): liveness under fairness and ENABLED are out of the
prover's reach. Every other property of a passing run has a theorem, about the
specification of its component for any constants or, where a run looks at several
parts (`page_forms`, `filings`, `case_pages`), about their composition. No module
with a theorem declares a RECURSIVE operator or reaches one.

## 5. Known faults

What the models show and the properties exclude by name. The first list of each
group is what the operator in brackets holds.

**Forms** (`MCPageForms`).
- The button never comes back after some ending (`DeadEnds`): the dialogs of
  attachment_remove, case_details, comment, email_resend, forgot_password,
  invite_resend, resend_code, review_reject, settings, survey_delete,
  trash_restore. Their flag is freed in `onSuccess`, after an `await` that throws,
  or by options that are passed as data and never run, or a latched
  `ConfirmDialog` stays open.
- The text is emptied while the answer was a refusal or was lost (`Emptied`):
  list_decide, referral_decide, referral_status, milestone, request_reply,
  requirement_add, requirement_edit, mfa_proof. The six password and code forms
  of the same list empty a secret on purpose.
- The same requirement can be added twice by a second press (`Doubled`).
- A reply to a comment that is given up stays in the box and goes out as a comment
  to everybody who reads the referral (`Misdirected`): `cancelReply` clears the
  target and keeps the text (`Referral/Show.jsx:1004`).
- An answer to one subject closes or empties the dialog that is open for another
  by then: the administrator's issue, category, agency, service, status and user
  forms, attachment and requirement dialogs, reviews, comments, surveys and the
  trash. No property states it; `Answer` shows it.
- `MfaConfirmDialog` hands its proof to `UserFormModal.jsx:516`, which expects an
  object with a reason, so changing a user's role that way is always refused.
- `UpdateProfileInformationForm` is mounted by no page.

**Unsaved text** (`GuardFaults`). The own profile arms the bypass before it
checks (`Profile/Edit.jsx:167`), so a failed check spends it on the next link,
which the comment at `useUnsavedChanges.jsx:20` warns of; the agency, user and
service dialogs do the same and lose text to a closed tab. Needless questions
come up on the referral page and the agency page (searching their lists), for a
search timer that fires under a dialog, and for the reload after an upload.

**Lists.** The visit of a search notes its own parameters, so the *next* search
drops a filter chosen in between (`Client/Index.jsx:237` says that it must not).
The audit log, activity, users, agencies and trash do not remember a filter
chosen while the timer runs. Reminders are narrowed by the tab at the time of
confirming, not of ticking (`OverdueReferrals/Index.jsx:108`). Dates have no
chips. The number of rows in the export dialog is that of an older question when
its answer comes last (`ExportDialog.jsx:71` cancels nothing, though
`Client/Index.jsx` says that the count always matches). The exports of clients
and referrals join two values of one filter into one that nothing has
(`Client/Index.jsx:128`, `Referral/Index.jsx:89`), the categories excepted,
which are appended one by one; no model says how a list is spelled. The action
and module lists of the audit log are lazy props that nothing requests, so those
filters are never offered.

**Filing.** Parts that a picked record lacks keep what the form held before,
also what another record left there on arrival (`?client_id=`, then Back). The
summary, the employer, the position and the contact number have a length only
the server knows, and a category may have been retired since the page was
opened: each is refused on the last step (`LeftToServer`). The picker's records
carry no employment dates, so step 1 takes the work as present, the server
refuses the missing start with a toast only, and a saved end date becomes null;
a next of kin who stays on Existing files against the own record; the page
uses a staff-only address for them; next-of-kin ids are not validated, so rows
are deleted and created again; `selected_nok_index` is stale after a row is
removed. On the referral page a case that is not on the list (reached by a link,
or turned away) has no warned pairs. In the registration, Submit is disabled
without a reason after a refusal wiped the passwords and when a probe answers
"taken" after its step was left; a spent challenge token is sent again because
the widget is not reset.

**Controls that are refused on an up-to-date page** (`Misoffered`): for an agency
on the case page Export PDF, Edit, Refer and the rows of other agencies, and its
link to the case and downloads once its referral is finished; Export PDF of a
case too long for one page (`CaseController.php:600`); Add Milestone on a
rejected referral; issuing a link for a finished request; Close and Reopen on a
case that is pending review, archived or rejected; Refer on a case that is not
open; the client's reply when referral or case have ended; a document already
deleted, because the deletion answers JSON and the page keeps it. On a stale page
the button is worse: Close Case on a case that a colleague has closed reopens it
(`CaseService.php:889` toggles).

**Notifications and chat.** A late answer shows the rows of another page until
the next poll; marking reloads the page of its render; a failed PATCH on the OFW
page is swallowed. With a session window of 0, the default, every message after
the first is refused once, then challenged again; a token that fails leaves the
widget until it expires; the stored flag survives a 422 although the comment
says it is dropped.

**Server**, visible in the models and without a run of its own:
- A prune can punch a hole when two rows cross a month end in the other order
  (`AuditLogger.php:495` stamps before the lock, `PruneAuditLogs.php:43` wants an
  oldest-first prefix). After a prune of everything the next row has no
  predecessor and never matches the checkpoint (`AuditLog.php:199`,
  `PruneAuditLogs.php:102`). Pre-chain rows of several months fail verification
  once some are pruned (`VerifyAuditChain.php:38`). These are the three
  circumstances.
- A case that is no longer archived goes to the trash when the delete page was
  loaded before (`CaseService.php:1280` against `:1265`); deleted twice, or by a
  cascade that waits longer than two seconds, it leaves children outside the
  restore window (`CaseService.php:1298`, `CascadeSoftDeletes.php:35`; run
  `case_referral_restore`); `rejectCase` announces a soft-delete and performs
  none (`CaseService.php:275`).
- Completing a request with a later due date ends the session of its viewer,
  whose copy of the expiry is compared; a reply that fails after its uploads
  leaves objects that no row names; a request can be created under a referral
  settled after the check (`ReferralClientRequestService.php:34`).
- Two requests can deadlock, and one of them then fails: completing, cancelling or
  reopening a request, which holds the audit chain and wants the link
  (`ReferralClientRequestService.php:415`), against revoking or using that link
  (`:355`, `ReferralClientAccessService.php:100`); settling a referral or creating
  a request, which holds the chain and wants the key of the case, against closing
  the case; and deletions against anything (`DeadlocksAreKnown`).

## 6. What is not modelled

- Contents: the text of rows, redaction, mail bodies, layout.
- In `AuditChain`: two prunes or two archive runs at once (started by hand), the
  repair command, and the business rows locked around the chain lock, which
  `ClientRequest` has for its part.
- In `CaseReferral`: field edits, categories, milestones, comments, the deletion
  of files after a purge, and the status path of `updateCase`, which no route
  reaches.
- In `ClientRequest`: review and visibility of attachments, several checklist
  items, delivery of the mail that carries the token, the notice by which a client
  asks for another link (two presses leave two), and the manual reissue that
  repairs a reopen whose issue failed.
- In the front end: single characters and messages of fields, page sizes, hidden
  columns, the export dialog of the audit log (it counts nothing), the forms
  section 2.5 names, drafts of address lists, uploads after filing, Back and
  Forward, two tabs of one person except through the server, maps, charts and
  help pages.

`PROJECT.json` lists the hazards the code is exposed to, each with the
properties about it; seven have none and say why: four that do go wrong and are
named above (the three circumstances of the audit log, objects without a row),
the joined values of an export, and two that need a planned model. Left out
there, for want of a model: the attempt counter of one-time codes written back
over counted guesses (`OtpService.php:86`), a duplicate POST of an invite
(`RegisterViaInviteController.php:73`), two administrators who demote each other
(`AdminUserController.php:544`), one MFA code for two logins
(`MfaService.php:96`), a file restored past its retention
(`CleanupOrphanedFiles.php:301`), two heads of a version group
(`ReferralService.php:1150`), webhooks out of order or early
(`ResendWebhookController.php:77`), a retried mail job
(`EmailEventSubscriber.php:214`), and a stale payload under a new generation
(`ReportsService.php:65`).

## 7. Further work

In this order:

1. `EmailDelivery`: messages, log rows and webhook events with any order,
   duplicates and early arrival; queue retries by job id. Abstract specification:
   a status that only advances.
2. `OneTimeCode`: code and attempts as cache entries, concurrent verifies, the
   counter reset, expiry. Abstract specification: an atomic single-use code.
3. `Accounts`: invites, e-mail change, last administrator; composes with
   `OneTimeCode` and the server side of `Registration`.
4. `FileRetention`: documents, objects, the sweep with its cached dates; composes
   with the trash of `CaseReferral`.
5. `MfaChallenge`, `Survey`, `AttachmentVersions`, `VersionedCache`.
6. Composition of `AuditChain` and `CaseReferral`: the chain lock among their row
   locks, with deadlock victims, as `ClientRequest` has it for its own.
