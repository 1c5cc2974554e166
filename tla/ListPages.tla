----------------------------- MODULE ListPages -----------------------------
(***************************************************************************)
(* One list page of the staff front end in the browser: the search box     *)
(* with its delay, the filters, the headers, the paginator, the visits     *)
(* they make to the server, the filters put back when the page is opened   *)
(* again, the export dialog with its count of rows, and the reminders of   *)
(* the overdue list.                                                       *)
(*                                                                         *)
(* A page has one synchronous visit at a time: a new one cancels the one   *)
(* in flight, whose answer is then never shown.  The server's answer echoes *)
(* the parameters it was asked for, and the page shows them as its props   *)
(* and its address.  A behaviour looks at one page and one of its filters  *)
(* or columns, the knob, with two rows p and q that carry the two values   *)
(* of the knob; a knob that is a column has two orders instead.            *)
(***************************************************************************)
EXTENDS ListTables, Integers

CONSTANTS
    Pages,       \* the pages looked at, a subset of AllPages
    Users,       \* the people who share the browser
    MaxClicks    \* bound: how many times somebody types or clicks

AllPages == {"Cases", "Clients", "Referrals", "Users", "Agencies", "Trash", "Overdue",
             "AuditLog", "Activity"}

ASSUME PagesAssumption == Pages \subseteq AllPages
ASSUME ClicksAssumption == MaxClicks \in Nat

VARIABLES
    page, knob, \* what the behaviour looks at
    user,       \* who is signed in
    shown,      \* the parameters of the list on the screen
    box,        \* the text in the search box
    timer,      \* the text a running search timer will send
    timerId,    \* whether searchTimeout.current still holds an id
    pending,    \* pendingParamsRef.current
    visit,      \* the visit in flight
    loading,    \* the skeleton rows are shown
    chips,      \* the filters the administrator's pages keep beside the props
    stored,     \* localStorage: the filters left by each user, and who left them
    ticked,     \* rows ticked on the overdue list
    dialog,     \* its confirmation dialog
    sending,    \* its reminders on their way
    exportOpen, \* exportDialogOpen
    dates,      \* the range of dates in the export dialog
    countState, \* what the dialog says of the number of rows
    counted,    \* the query whose rows the number counts
    counting,   \* the newest request for a number, while it is under way
    overtaken,  \* the older ones, which nobody cancels
    window,     \* history: the last visit made while the timer was running
    restored,   \* history: whose filters the open page put back
    late,       \* history: the number came from a request already overtaken
    clicks

list == <<shown, box, timer, timerId, pending, visit, loading, chips, stored, window, restored>>
overdue == <<ticked, dialog, sending>>
count == <<countState, counted, counting, overtaken, late>>
exports == <<exportOpen, dates, count>>
vars == <<page, knob, user, list, overdue, exports, clicks>>

----------------------------------------------------------------------------
(* Parameters, and what is true of each page. *)

Rows == {"p", "q"}
Params == [search : {"", "a"}, set : SUBSET Rows, page : 1..2]
Plain == [search |-> "", set |-> {}, page |-> 1]

\* At most one value: the visit in flight, the timer, a ref that may be null.
Opt(S) == {{}} \cup {{x} : x \in S}
The(o) == CHOOSE x \in o : TRUE
OrElse(o, x) == IF o = {} THEN x ELSE The(o)

\* Pages that merge a click into the props and remember it while a search waits.
FromProps == {"Cases", "Clients", "Referrals"}
KeepsChips == {"Users", "Agencies"}
Remembers == FromProps \cup KeepsChips
Searches == AllPages \ {"Overdue"}

\* Timelines merge into the props without remembering, and copy the search of
\* every answer into the box.
Timelines == {"AuditLog", "Activity"}

FieldsOf(p) ==
    CASE p = "Cases" -> Joined(CasesGroups, CasesScalars)
      [] p = "Clients" -> Joined(ClientsGroups, One({"date_from", "date_to"}))
      [] p = "Referrals" -> Joined(ReferralsGroups, ReferralsScalars)
      [] p = "Users" -> UsersPanel
      [] p = "Agencies" -> AgenciesFilters
      [] p = "Trash" -> One({})
      [] p = "Overdue" -> OverdueFilters
      [] p = "AuditLog" -> AuditLogFilters
      [] p = "Activity" -> ActivityFilters

ColumnsOf(p) ==
    CASE p = "Cases" -> CasesColumnsA @@ CasesColumnsB
      [] p = "Clients" -> ClientsColumnsA @@ ClientsColumnsB
      [] p = "Referrals" -> ReferralsColumns
      [] p = "Users" -> UsersColumns
      [] p = "Agencies" -> AgenciesColumns
      [] p = "Overdue" -> OverdueColumns
      [] p \in {"Trash"} \cup Timelines -> Still({})

ServedSorts(p) ==
    CASE p = "Cases" -> CasesSortKeys
      [] p = "Clients" -> ClientsSortKeys
      [] p = "Referrals" -> ReferralsSortKeys
      [] p = "Overdue" -> OverdueSortKeys

ChipsOf(p) ==
    CASE p = "Cases" -> CasesChips
      [] p = "Clients" -> ClientsChips
      [] p = "Referrals" -> ReferralsChips
      [] p = "AuditLog" -> AuditLogChips
      [] p = "Activity" -> {}
      [] OTHER -> DOMAIN FieldsOf(p)

ExportOf(p) ==
    CASE p = "Cases" -> CasesExport
      [] p = "Clients" -> ClientsExport
      [] p = "Referrals" -> ReferralsExport

Knobs(p) ==
    {[field |-> f, kind |-> FieldsOf(p)[f]] : f \in DOMAIN FieldsOf(p)}
    \cup {[field |-> k, kind |-> "sort"] : k \in Sent(ColumnsOf(p))}
    \cup {[field |-> "none", kind |-> "none"]}

\* The rows that match a knob's values, no value meaning no restriction.
Matching(values) == IF knob.kind = "sort" \/ values = {} THEN Rows ELSE values

----------------------------------------------------------------------------
Init ==
    /\ page \in Pages
    /\ knob \in Knobs(page)
    /\ user \in Users
    /\ shown = Plain
    /\ box = ""
    /\ timer = {} /\ timerId = FALSE /\ pending = {}
    /\ visit = {} /\ loading = FALSE
    /\ chips = {}
    /\ stored = [u \in Users |-> {}]
    /\ window = {} /\ restored = {}
    /\ ticked = {} /\ dialog = {} /\ sending = {}
    /\ exportOpen = FALSE /\ dates = 1
    /\ countState = "idle" /\ counted = {} /\ counting = {} /\ overtaken = {} /\ late = FALSE
    /\ clicks = 0

\* The two dialogs cover the page.
Click ==
    /\ clicks < MaxClicks
    /\ dialog = {} /\ ~exportOpen
    /\ clicks' = clicks + 1
    /\ UNCHANGED <<page, knob, user, exports>>

\* The skeleton follows the visit's events; a cancelled visit finishes before
\* the one that took its place starts.
Skeleton == [start |-> TRUE, finish |-> FALSE, cancel |-> FALSE]

\* A visit to the list: parameters without a value are dropped, and a page
\* that works from its props notes the visit while the timer's id is set.
UpdateTable(params, id, noted) ==
    /\ visit' = {params}
    /\ loading' = (Skeleton.start /\ page # "Activity")
    /\ pending' = IF page \in FromProps /\ id THEN {params} ELSE noted
    /\ window' = IF timer # {} /\ timer' # {} THEN {params} ELSE {}

Later(params) == [params EXCEPT !.page = 1]

----------------------------------------------------------------------------
(* The search box. *)

Type ==
    /\ Click
    /\ page \in Searches
    /\ \E text \in {"", "a"} \ {box} :
         box' = text /\ timer' = {text}
    /\ timerId' = TRUE
    /\ window' = IF timer = {} THEN {} ELSE window
    /\ UNCHANGED <<shown, pending, visit, loading, chips, stored, restored, overdue>>

\* Mutation: the search merges into the props alone.
TimerFiresFromProps ==
    /\ timer # {}
    /\ timer' = {}
    /\ timerId' = (timerId /\ page \notin FromProps)
    /\ UpdateTable([Later(shown) EXCEPT !.search = The(timer)], timerId, {})
    /\ UNCHANGED <<page, knob, user, shown, box, chips, stored, restored, overdue, exports,
                   clicks>>

\* Mutation: the timer is an interval that nobody stops.
TimerFiresAgain ==
    /\ timer # {}
    /\ UNCHANGED <<timer, timerId>>
    /\ LET base == IF page \in FromProps THEN OrElse(pending, shown) ELSE shown
       IN  UpdateTable([Later(base) EXCEPT !.search = The(timer)], timerId, {})
    /\ UNCHANGED <<page, knob, user, shown, box, chips, stored, restored, overdue, exports,
                   clicks>>

\* 400 ms after the last key (300 on the trash and the activity feed).  The id is cleared after the
\* visit, so a page that works from its props notes this very visit too.
TimerFires ==
    /\ timer # {}
    /\ timer' = {}
    /\ timerId' = (timerId /\ page \notin FromProps)
    /\ LET base == IF page \in FromProps THEN OrElse(pending, shown) ELSE shown
       IN  UpdateTable([Later(base) EXCEPT !.search = The(timer)], timerId, {})
    /\ UNCHANGED <<page, knob, user, shown, box, chips, stored, restored, overdue, exports,
                   clicks>>

\* Cases alone keeps part of the waiting search.
ForgetSearch ==
    /\ page \in {"Clients", "Referrals"} \cup Timelines
    /\ timerId' = FALSE
    /\ UpdateTable([Later(shown) EXCEPT !.search = ""], FALSE, {})

\* Cases stops the timer but keeps its id and what was noted.
StopSearch ==
    /\ page = "Cases"
    /\ UNCHANGED timerId
    /\ UpdateTable([Later(shown) EXCEPT !.search = ""], timerId, pending)

ClearSearch ==
    /\ Click
    /\ box # ""
    /\ box' = ""
    /\ timer' = {}
    /\ ForgetSearch \/ StopSearch
    /\ UNCHANGED <<shown, chips, stored, restored, overdue>>

----------------------------------------------------------------------------
(* Filters, order and pages.  All start from the list on the screen. *)

Filters == knob.kind \in {"one", "many", "default"}

\* Ticking a value of a group adds or removes it; a select replaces it.  A group
\* with a default starts from it.
Toggled(values, v) ==
    CASE knob.kind = "many" -> (values \ {v}) \cup ({v} \ values)
      [] knob.kind = "default" -> (Matching(values) \ {v}) \cup ({v} \ Matching(values))
      [] OTHER -> {v} \ values

\* The administrator's pages show the choice before the server has answered.
SetFilter(values) ==
    /\ UpdateTable([Later(shown) EXCEPT !.set = values], timerId, pending)
    /\ chips' = IF page \in KeepsChips THEN values ELSE chips

ToggleFilter ==
    /\ Click
    /\ UNCHANGED <<shown, box, timer, timerId, stored, restored, overdue>>
    /\ Filters
    /\ \E v \in Rows :
         SetFilter(Toggled(IF page \in KeepsChips THEN chips ELSE shown.set, v))

\* The status tabs.  On Cases they start from what was noted, and use it up.
QuickStatus ==
    /\ Click
    /\ UNCHANGED <<shown, box, timer, timerId, chips, stored, restored, overdue>>
    /\ page \in FromProps /\ knob.field = "status"
    /\ \E v \in Opt(Rows) :
         IF page = "Cases"
         THEN UpdateTable([Later(OrElse(pending, shown)) EXCEPT !.set = v], timerId, {})
         ELSE UpdateTable([Later(shown) EXCEPT !.set = v], timerId, pending)

\* Only Clients and Referrals show one chip per value, and the audit log one per role.
OneChipPerValue == page \in FromProps \/ (page = "AuditLog" /\ knob.kind # "default")

RemoveChip ==
    /\ Click
    /\ UNCHANGED <<shown, box, timer, timerId, stored, restored, overdue>>
    /\ Filters /\ page # "Cases" /\ knob.field \in ChipsOf(page)
    /\ \E v \in (IF page \in KeepsChips THEN chips ELSE shown.set) :
         SetFilter(IF OneChipPerValue THEN shown.set \ {v} ELSE {})

\* Cases and Clients drop the search but leave its text and its timer alone;
\* Referrals and the timelines drop all three but keep the timer's id; the others
\* keep the search.
ClearAll ==
    /\ Click
    /\ page # "Trash"
    /\ box' = IF page \in {"Referrals"} \cup Timelines THEN "" ELSE box
    /\ timer' = IF page \in {"Referrals"} \cup Timelines THEN {} ELSE timer
    /\ IF page \in FromProps \cup Timelines
       THEN UpdateTable(Plain, timerId, pending)
       ELSE UpdateTable([Later(shown) EXCEPT !.set = IF Filters THEN {} ELSE @], timerId, {})
    /\ chips' = {}
    /\ UNCHANGED <<shown, timerId, stored, restored, overdue>>

Sort ==
    /\ Click
    /\ UNCHANGED <<shown, box, timer, timerId, chips, stored, restored, overdue>>
    /\ knob.kind = "sort"
    /\ \E direction \in Rows :
         UpdateTable([Later(shown) EXCEPT !.set = {direction}], timerId, pending)

GoToPage ==
    /\ Click
    /\ UNCHANGED <<shown, box, timer, timerId, chips, stored, restored, overdue>>
    /\ UpdateTable([shown EXCEPT !.page = 3 - shown.page], timerId, pending)

----------------------------------------------------------------------------
(* The export dialog of Cases, Clients and Referrals.  It stays mounted when  *)
(* it is closed, and asks for the number of rows whenever it opens, its dates *)
(* change, or the props give the page a new query builder.                    *)

\* What the Export button would ask for: the filters of the props, which are
\* those of the list on the screen, and the dialog's own dates.
ExportQuery ==
    [search |-> shown.search, dates |-> dates,
     set |-> IF knob.field \in ExportOf(page) THEN shown.set ELSE {}]

AskCount ==
    /\ countState' = "loading"
    /\ counting' = {ExportQuery'}
    /\ overtaken' = overtaken \cup counting

OpenExport ==
    /\ clicks < MaxClicks /\ clicks' = clicks + 1
    /\ page \in FromProps /\ ~exportOpen
    /\ exportOpen' = TRUE
    /\ UNCHANGED <<page, knob, user, list, overdue, dates, counted, late>>
    /\ AskCount

ChooseDates ==
    /\ exportOpen
    /\ clicks < MaxClicks /\ clicks' = clicks + 1
    /\ dates' = 3 - dates
    /\ UNCHANGED <<page, knob, user, list, overdue, exportOpen, counted, late>>
    /\ AskCount

\* Cancel, the backdrop, or Export with two dates in order.
LeaveExport ==
    /\ exportOpen
    /\ exportOpen' = FALSE
    /\ UNCHANGED <<page, knob, user, list, overdue, dates, count, clicks>>

\* A request for the number ends: the newest, or one that was overtaken.
CountEnds(query) ==
    \/ query \in counting /\ counting' = {} /\ late' = FALSE /\ UNCHANGED overtaken
    \/ query \in overtaken /\ overtaken' = overtaken \ {query} /\ late' = TRUE
       /\ UNCHANGED counting

\* The dialog shows whatever number arrives, also while a newer one is asked for.
CountArrives ==
    \E query \in counting \cup overtaken :
      /\ CountEnds(query)
      /\ countState' = "ready" /\ counted' = {query}
      /\ UNCHANGED <<page, knob, user, list, overdue, exportOpen, dates, clicks>>

CountFails ==
    \E query \in counting \cup overtaken :
      /\ CountEnds(query)
      /\ countState' = "error"
      /\ UNCHANGED <<page, knob, user, list, overdue, exportOpen, dates, counted, clicks>>

\* Mutation: the filters are no dependency of the effect.
RecountNever == UNCHANGED <<countState, counting, overtaken>>

\* New props while the dialog is open.
Recount == IF exportOpen THEN AskCount ELSE UNCHANGED <<countState, counting, overtaken>>

----------------------------------------------------------------------------
(* The server's answers and the browser's storage. *)

\* Cases and Referrals refuse a key they do not sort by; Clients ignores it.
Refused(params) ==
    /\ knob.kind = "sort" /\ params.set # {}
    /\ page \in {"Cases", "Referrals"}
    /\ knob.field \notin ServedSorts(page)

\* Mutation: the key in the browser's storage leaves the user out.
SharedSlot(u) == CHOOSE v \in Users : TRUE

Slot(u) == u

\* The props change with the answer, and the page saves them for its user.
Answer ==
    /\ visit # {}
    /\ visit' = {}
    /\ loading' = Skeleton.finish
    /\ shown' = IF Refused(The(visit)) THEN shown ELSE The(visit)
    /\ stored' = IF page \in Remembers
                 THEN [stored EXCEPT ![Slot(user)] = {[by |-> user, params |-> shown']}]
                 ELSE stored
    /\ box' = IF page \in Timelines /\ shown'.search # shown.search THEN shown'.search ELSE box
    /\ UNCHANGED <<page, knob, user, timer, timerId, pending, chips, window,
                   restored, overdue, exportOpen, dates, counted, late, clicks>>
    /\ Recount

\* The network fails or the server answers with an error page.
Fail ==
    /\ visit # {}
    /\ visit' = {}
    /\ loading' = Skeleton.finish
    /\ UNCHANGED <<page, knob, user, shown, box, timer, timerId, pending, chips, stored,
                   window, restored, overdue, exports, clicks>>

\* Somebody opens the page afresh, the same person or the next one to sign in.
\* What they left is read before the page saves its own filters, and asked for
\* again without the page number.
Open ==
    /\ clicks < MaxClicks /\ clicks' = clicks + 1
    /\ user' \in Users
    /\ shown' = Plain
    /\ timer' = {} /\ timerId' = FALSE /\ pending' = {} /\ window' = {}
    /\ LET left == stored[Slot(user')]
           back == page \in Remembers /\ left # {} /\ Later(The(left).params) # Plain
       IN  /\ visit' = IF back THEN {Later(The(left).params)} ELSE {}
           /\ loading' = IF back THEN Skeleton.start ELSE Skeleton.finish
           /\ box' = IF back THEN The(left).params.search ELSE ""
           /\ chips' = IF back /\ page \in KeepsChips THEN The(left).params.set ELSE {}
           /\ restored' = IF back THEN {The(left).by} ELSE {}
    /\ stored' = IF page \in Remembers
                 THEN [stored EXCEPT ![Slot(user')] = {[by |-> user', params |-> Plain]}]
                 ELSE stored
    /\ ticked' = {} /\ dialog' = {} /\ sending' = {}
    /\ exportOpen' = FALSE /\ dates' = 1
    /\ countState' = "idle" /\ counted' = {} /\ counting' = {} /\ overtaken' = {} /\ late' = FALSE
    /\ UNCHANGED <<page, knob>>

----------------------------------------------------------------------------
(* The overdue list: ticking rows and sending reminders. *)

OnScreen == IF loading THEN {} ELSE Matching(shown.set)

Tick ==
    /\ Click
    /\ page = "Overdue"
    /\ \E r \in OnScreen : ticked' = (ticked \ {r}) \cup ({r} \ ticked)
    /\ UNCHANGED <<list, dialog, sending>>

\* The header's box counts the ticks, it does not compare them with the rows.
TickAll ==
    /\ Click
    /\ page = "Overdue"
    /\ ticked' = IF Cardinality(ticked) = Cardinality(Matching(shown.set))
                 THEN {} ELSE Matching(shown.set)
    /\ UNCHANGED <<list, dialog, sending>>

\* One row, the ticked rows, or everything: no ids at all.
Remind ==
    /\ Click
    /\ page = "Overdue" /\ sending = {}
    /\ dialog' \in {{[ids |-> {r}]} : r \in OnScreen}
                   \cup {{[ids |-> ticked]}, {[ids |-> {}]}}
    /\ UNCHANGED <<list, ticked, sending>>

CancelDialog ==
    /\ dialog # {}
    /\ dialog' = {}
    /\ UNCHANGED <<page, knob, user, list, ticked, sending, exports, clicks>>

\* The status is read from the address when the dialog is confirmed.  The
\* request takes the place of a visit in flight.
ConfirmSend ==
    /\ dialog # {}
    /\ sending' = {[ids |-> The(dialog).ids, set |-> IF knob.kind = "one" THEN shown.set ELSE {}]}
    /\ dialog' = {}
    /\ visit' = {} /\ loading' = Skeleton.cancel
    /\ UNCHANGED <<page, knob, user, shown, box, timer, timerId, pending, chips, stored,
                   window, restored, ticked, exports, clicks>>

\* The server comes back to the plain list, unless the page has left for
\* another visit; the ticks go either way.
RemindersSent ==
    /\ sending # {}
    /\ shown' = IF visit = {} THEN Plain ELSE shown
    /\ sending' = {} /\ ticked' = {}
    /\ UNCHANGED <<page, knob, user, box, timer, timerId, pending, visit, loading, chips,
                   stored, window, restored, dialog, exports, clicks>>

\* It failed, or another visit took its place.
SendFails ==
    /\ sending # {}
    /\ sending' = {} /\ ticked' = {}
    /\ UNCHANGED <<page, knob, user, list, dialog, exports, clicks>>

----------------------------------------------------------------------------
Gesture ==
    \/ Type \/ ClearSearch
    \/ ToggleFilter \/ QuickStatus \/ RemoveChip \/ ClearAll \/ Sort \/ GoToPage
    \/ Open
    \/ Tick \/ TickAll \/ Remind

Exporting ==
    \/ OpenExport \/ ChooseDates \/ LeaveExport
    \/ CountArrives \/ CountFails

Next ==
    \/ Gesture
    \/ Exporting
    \/ TimerFires
    \/ Answer \/ Fail
    \/ CancelDialog \/ ConfirmSend \/ RemindersSent \/ SendFails

Fairness ==
    /\ WF_vars(TimerFires)
    /\ WF_vars(Answer \/ Fail)

Spec == Init /\ [][Next]_vars
FairSpec == Spec /\ Fairness

----------------------------------------------------------------------------
\* A filter, a tab or an order chosen while the search timer of Cases, Clients
\* or Referrals runs is part of the search that follows, though the server has
\* not answered the choice yet (the reason for pendingParamsRef).
FilterDuringTypingKept ==
    [][(TimerFires /\ page \in FromProps /\ window # {})
         => The(visit').set = The(window).set]_vars

\* The page puts back only filters that the person signed in left, never those
\* of the one who used the browser before (the key carries the user's id).
OwnFiltersOnly == restored \subseteq {user}

\* The number of rows the open dialog shows is that of the file its button would
\* fetch, whatever was typed, answered or chosen meanwhile ("so the preview
\* reflects the exact export that will run").  The one exception is a number that
\* a newer request had overtaken: no request is cancelled, so it may come last.
CountIsOfExport ==
    (exportOpen /\ countState = "ready" /\ ~late) => counted = {ExportQuery}

\* Left alone, the page comes to rest: no timer, no visit, no skeleton.
ComesToRest == <>[](timer = {} /\ visit = {} /\ ~loading)

=============================================================================
