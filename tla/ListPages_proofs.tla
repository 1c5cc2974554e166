-------------------------- MODULE ListPages_proofs --------------------------
(* Proofs about ListPages, for any people at the browser, any of the pages and  *)
(* any number of clicks.                                                        *)
EXTENDS ListPages, TLAPS

LEMMA TheOnly == ASSUME NEW x PROVE The({x}) = x
  BY DEF The

----------------------------------------------------------------------------
(* The browser's storage. *)

\* What is kept under a person's key was left by that person.
KeptByOwner ==
    /\ DOMAIN stored = Users
    /\ \A u \in Users : stored[u] = {} \/ \E left : stored[u] = {left} /\ left.by = u

OwnInv == user \in Users /\ KeptByOwner /\ OwnFiltersOnly

LEMMA InitOwn == Init => OwnInv
  BY DEF Init, OwnInv, KeptByOwner, OwnFiltersOnly

\* Saving a page's filters under the key of its reader.
LEMMA SaveOwn ==
    ASSUME KeptByOwner
    PROVE  \A u \in Users : \A left :
             left.by = u /\ stored' \in {stored, [stored EXCEPT ![u] = {left}]}
               => KeptByOwner'
<1> SUFFICES ASSUME NEW u \in Users, NEW left, left.by = u,
                    stored' \in {stored, [stored EXCEPT ![u] = {left}]}
             PROVE  KeptByOwner'
  OBVIOUS
<1>1. CASE stored' = stored
  BY <1>1 DEF KeptByOwner
<1>2. CASE stored' = [stored EXCEPT ![u] = {left}]
  <2>1. /\ DOMAIN stored' = Users /\ stored'[u] = {left}
        /\ \A v \in Users \ {u} : stored'[v] = stored[v]
    BY <1>2 DEF KeptByOwner
  <2> QED BY <2>1 DEF KeptByOwner
<1> QED BY <1>1, <1>2

\* Everything but an answer and opening the page leaves the storage alone.
LEMMA OwnStays == ASSUME OwnInv, UNCHANGED <<user, stored, restored>> PROVE OwnInv'
  BY DEF OwnInv, KeptByOwner, OwnFiltersOnly

LEMMA GestureOwn == ASSUME OwnInv, Gesture, ~Open PROVE OwnInv'
<1>1. UNCHANGED <<user, stored, restored>>
  BY DEF Gesture, Type, ClearSearch, ToggleFilter, QuickStatus, RemoveChip, ClearAll, Sort,
         GoToPage, Tick, TickAll, Remind, Click, list
<1> QED BY <1>1, OwnStays

LEMMA NextOwn == ASSUME OwnInv, [Next]_vars PROVE OwnInv'
<1>1. CASE Gesture /\ ~Open
  BY <1>1, GestureOwn
<1>2. CASE Open
  <2> DEFINE left == stored[Slot(user')]
             back == page \in Remembers /\ left # {} /\ Later(The(left).params) # Plain
  <2>1. user' \in Users
    BY <1>2 DEF Open
  <2>2. restored' = IF back THEN {The(left).by} ELSE {}
    BY <1>2 DEF Open
  <2>3. left # {} => The(left).by = user'
    <3>1. left = {} \/ \E mine : left = {mine} /\ mine.by = user'
      BY <2>1 DEF Slot, OwnInv, KeptByOwner
    <3> HIDE DEF left
    <3> QED BY <3>1, TheOnly
  <2> DEFINE leaves == [by |-> user', params |-> Plain]
  <2>4. leaves.by = user' /\ stored' \in {stored, [stored EXCEPT ![user'] = {leaves}]}
    BY <1>2 DEF Open, Slot
  <2>5. KeptByOwner'
    <3>1. KeptByOwner
      BY DEF OwnInv
    <3> HIDE DEF left, back, leaves
    <3> QED BY <2>1, <2>4, <3>1, SaveOwn
  <2> QED BY <2>1, <2>2, <2>3, <2>5 DEF OwnInv, OwnFiltersOnly
<1>3. CASE Answer
  <2>1. UNCHANGED <<user, restored>>
    BY <1>3 DEF Answer
  <2> DEFINE leaves == [by |-> user, params |-> shown']
  <2>2. leaves.by = user /\ stored' \in {stored, [stored EXCEPT ![user] = {leaves}]}
    BY <1>3 DEF Answer, Slot
  <2>3. KeptByOwner /\ user \in Users
    BY DEF OwnInv
  <2> HIDE DEF leaves
  <2>4. KeptByOwner'
    BY <2>2, <2>3, SaveOwn
  <2> QED BY <2>1, <2>3, <2>4 DEF OwnInv, OwnFiltersOnly
<1>4. CASE TimerFires \/ Fail \/ CancelDialog \/ ConfirmSend \/ RemindersSent \/ SendFails
  BY <1>4, OwnStays DEF TimerFires, Fail, CancelDialog, ConfirmSend, RemindersSent, SendFails, list
<1>5. CASE Exporting
  BY <1>5, OwnStays DEF Exporting, OpenExport, ChooseDates, LeaveExport, CountArrives, CountFails,
                        list
<1>6. CASE UNCHANGED vars
  BY <1>6, OwnStays DEF vars, list
<1> QED BY <1>1, <1>2, <1>3, <1>4, <1>5, <1>6 DEF Next, Gesture

\* Nobody gets the filters that another person left in the browser: the page
\* reads the key of the person signed in before it saves, and saves under it.
THEOREM OwnFilters == Spec => []OwnFiltersOnly
<1>1. OwnInv => OwnFiltersOnly
  BY DEF OwnInv
<1> QED BY InitOwn, NextOwn, <1>1, PTL DEF Spec

----------------------------------------------------------------------------
(* The waiting search. *)

\* On the pages that work from their props, a waiting search has its id, and a
\* visit made meanwhile is the one that was noted.
Noted ==
    page \in FromProps =>
      /\ timer # {} => timerId
      /\ timer # {} /\ window # {} => pending = window /\ \E params : window = {params}

LEMMA InitNoted == Init => Noted
  BY DEF Init, Noted

\* A visit made with the search waiting is noted, whatever the handler passes on.
LEMMA UpdateNoted ==
    ASSUME Noted, NEW params, NEW noted, UpdateTable(params, timerId, noted),
           timer' \in {{}, timer}, UNCHANGED <<page, timerId>>
    PROVE  Noted'
  BY DEF Noted, UpdateTable

LEMMA ListStays ==
    ASSUME Noted, UNCHANGED <<page, timer, timerId, pending, window>>
    PROVE  Noted'
  BY DEF Noted

LEMMA GestureNoted == ASSUME Noted, Gesture PROVE Noted'
<1>1. CASE Type
  BY <1>1 DEF Type, Click, Noted
<1>2. CASE ClearSearch
  BY <1>2 DEF ClearSearch, Click, ForgetSearch, StopSearch, UpdateTable, Noted
<1>3. CASE ToggleFilter
  BY <1>3, UpdateNoted DEF ToggleFilter, SetFilter, Click
<1>4. CASE QuickStatus
  BY <1>4, UpdateNoted DEF QuickStatus, Click
<1>5. CASE RemoveChip
  BY <1>5, UpdateNoted DEF RemoveChip, SetFilter, Click
<1>6. CASE ClearAll
  BY <1>6, UpdateNoted DEF ClearAll, Click
<1>7. CASE Sort
  BY <1>7, UpdateNoted DEF Sort, Click
<1>8. CASE GoToPage
  BY <1>8, UpdateNoted DEF GoToPage, Click
<1>9. CASE Open
  BY <1>9 DEF Open, Noted
<1>10. CASE Tick \/ TickAll \/ Remind
  BY <1>10, ListStays DEF Tick, TickAll, Remind, Click, list
<1> QED BY <1>1, <1>2, <1>3, <1>4, <1>5, <1>6, <1>7, <1>8, <1>9, <1>10 DEF Gesture

LEMMA NextNoted == ASSUME Noted, [Next]_vars PROVE Noted'
<1>1. CASE TimerFires
  BY <1>1 DEF TimerFires, Noted
<1>2. CASE Answer \/ Fail \/ CancelDialog \/ ConfirmSend \/ RemindersSent \/ SendFails
  BY <1>2, ListStays DEF Answer, Fail, CancelDialog, ConfirmSend, RemindersSent, SendFails, list
<1>3. CASE Exporting
  BY <1>3, ListStays DEF Exporting, OpenExport, ChooseDates, LeaveExport, CountArrives, CountFails,
                         list
<1>4. CASE UNCHANGED vars
  BY <1>4, ListStays DEF vars, list
<1> QED BY <1>1, <1>2, <1>3, <1>4, GestureNoted DEF Next

\* The search that fires starts from what was noted.
LEMMA SearchKeeps ==
    ASSUME Noted, TimerFires, page \in FromProps, window # {}
    PROVE  The(visit').set = The(window).set
<1>1. PICK params : window = {params} /\ pending = {params}
  BY DEF TimerFires, Noted
<1> DEFINE base == OrElse(pending, shown)
<1>2. base = params
  BY <1>1, TheOnly DEF OrElse
<1>3. visit' = {[Later(base) EXCEPT !.search = The(timer)]}
  BY DEF TimerFires, UpdateTable
<1> HIDE DEF base
<1>4. The(visit') = [Later(params) EXCEPT !.search = The(timer)]
  BY <1>2, <1>3, TheOnly
<1>5. The(visit').set = params.set
  BY <1>4 DEF Later
<1> QED BY <1>1, <1>5, TheOnly

\* A filter, tab or order chosen while the search waits goes along with it on
\* every page that has pendingParamsRef, however often the person clicks.
THEOREM FilterKept == Spec => FilterDuringTypingKept
<1>1. Noted /\ [Next]_vars =>
        [(TimerFires /\ page \in FromProps /\ window # {})
            => (The(visit').set = The(window).set)]_vars
  BY SearchKeeps
<1> QED BY InitNoted, NextNoted, <1>1, PTL DEF Spec, FilterDuringTypingKept

----------------------------------------------------------------------------
(* The export dialog. *)

\* The dialog is one of the pages that work from their props, the reminders are
\* the overdue list's.
Apart ==
    /\ exportOpen => page \in FromProps
    /\ dialog # {} \/ sending # {} => page = "Overdue"

\* While the dialog is open the newest request still asks for what its button
\* would fetch, and so does the number on display if that request brought it.
Current ==
    exportOpen =>
      /\ counting = {} \/ counting = {ExportQuery}
      /\ countState = "ready" /\ ~late => counted = {ExportQuery}

CountInv == Apart /\ Current

LEMMA InitCount == Init => CountInv
  BY DEF Init, CountInv, Apart, Current

\* A gesture on the page finds the dialog closed and leaves it so.
LEMMA ClosedCount ==
    ASSUME ~exportOpen', UNCHANGED page, Apart,
           dialog' # {} \/ sending' # {} => dialog # {} \/ sending # {} \/ page = "Overdue"
    PROVE  CountInv'
  BY DEF CountInv, Apart, Current

LEMMA GestureCount == ASSUME CountInv, Gesture PROVE CountInv'
<1>1. CASE Open
  BY <1>1, ClosedCount DEF Open, CountInv
<1>2. CASE Tick \/ TickAll \/ Remind
  BY <1>2, ClosedCount DEF Tick, TickAll, Remind, Click, exports, CountInv
<1>3. CASE Type \/ ClearSearch \/ ToggleFilter \/ QuickStatus \/ RemoveChip \/ ClearAll \/ Sort
           \/ GoToPage
  <2>1. Click /\ UNCHANGED overdue
    BY <1>3 DEF Type, ClearSearch, ToggleFilter, QuickStatus, RemoveChip, ClearAll, Sort, GoToPage
  <2> QED BY <2>1, ClosedCount DEF Click, exports, overdue, CountInv
<1> QED BY <1>1, <1>2, <1>3 DEF Gesture

\* The dialog and the filters of the list both stay.
LEMMA CountStays ==
    ASSUME CountInv, UNCHANGED <<page, knob, shown, exports>>,
           dialog' # {} \/ sending' # {} => dialog # {} \/ sending # {}
    PROVE  CountInv'
<1>1. UNCHANGED <<exportOpen, countState, counted, counting, late, ExportQuery>>
  BY DEF exports, count, ExportQuery
<1> QED BY <1>1 DEF CountInv, Apart, Current

\* A new request is asked for the query as it now is, and hides the number.
LEMMA AskedCount ==
    ASSUME AskCount, Apart'
    PROVE  CountInv'
<1>1. countState' = "loading" /\ counting' = {ExportQuery'}
  BY DEF AskCount
<1> QED BY <1>1 DEF CountInv, Current

LEMMA ExportingCount == ASSUME CountInv, Exporting PROVE CountInv'
<1>1. CASE OpenExport \/ ChooseDates
  <2>1. AskCount /\ Apart'
    BY <1>1 DEF OpenExport, ChooseDates, CountInv, Apart, overdue
  <2> QED BY <2>1, AskedCount
<1>2. CASE LeaveExport
  BY <1>2, ClosedCount DEF LeaveExport, overdue, CountInv
<1>3. CASE CountArrives \/ CountFails
  <2>1. Apart' /\ UNCHANGED <<exportOpen, ExportQuery>>
    BY <1>3 DEF CountArrives, CountFails, CountInv, Apart, overdue, list, ExportQuery
  <2>2. PICK query \in counting \cup overtaken :
          /\ CountEnds(query)
          /\ countState' = "error" \/ counted' = {query}
    BY <1>3 DEF CountArrives, CountFails
  <2>3. CASE query \in counting /\ counting' = {} /\ late' = FALSE
    BY <1>3, <2>1, <2>2, <2>3 DEF CountInv, Current, CountFails
  <2>4. CASE late' = TRUE /\ counting' = counting
    BY <2>1, <2>4 DEF CountInv, Current
  <2> QED BY <2>2, <2>3, <2>4 DEF CountEnds
<1> QED BY <1>1, <1>2, <1>3 DEF Exporting

LEMMA AnswerCount == ASSUME CountInv, Answer PROVE CountInv'
<1>1. UNCHANGED <<page, exportOpen, dialog, sending>> /\ Recount
  BY DEF Answer, overdue
<1>2. Apart'
  BY <1>1 DEF CountInv, Apart
<1>3. CASE exportOpen
  BY <1>1, <1>2, <1>3, AskedCount DEF Recount
<1>4. CASE ~exportOpen
  BY <1>1, <1>2, <1>4 DEF CountInv, Current
<1> QED BY <1>3, <1>4

LEMMA NextCount == ASSUME CountInv, [Next]_vars PROVE CountInv'
<1>1. CASE TimerFires \/ Fail
  BY <1>1, CountStays DEF TimerFires, Fail, overdue
<1>2. CASE CancelDialog \/ ConfirmSend \/ SendFails
  BY <1>2, CountStays DEF CancelDialog, ConfirmSend, SendFails, list
<1>3. CASE RemindersSent
  <2>1. ~exportOpen' /\ UNCHANGED page /\ dialog' = dialog /\ sending' = {}
    BY <1>3 DEF RemindersSent, exports, CountInv, Apart, FromProps
  <2> QED BY <2>1, ClosedCount DEF CountInv
<1>4. CASE UNCHANGED vars
  BY <1>4, CountStays DEF vars, list, overdue
<1> QED BY <1>1, <1>2, <1>3, <1>4, GestureCount, ExportingCount, AnswerCount DEF Next

\* The number in the export dialog counts the rows of the file its button would
\* fetch at that moment, however visits, dates and requests interleave, unless
\* it came from a request that a newer one had overtaken.
THEOREM CountMatches == Spec => []CountIsOfExport
<1>1. CountInv => CountIsOfExport
  BY DEF CountInv, Current, CountIsOfExport
<1> QED BY InitCount, NextCount, <1>1, PTL DEF Spec
=============================================================================
