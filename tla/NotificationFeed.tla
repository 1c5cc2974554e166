-------------------------- MODULE NotificationFeed --------------------------
(***************************************************************************)
(* The places that show notifications: the staff's page of notifications,  *)
(* the bell in the header of the OFW portal and the number in the staff's  *)
(* sidebar.  Each of them asks the server on a timer; the page and the     *)
(* bell, which use the hook useJsonPoll, also after a click.  Nothing      *)
(* cancels or numbers the requests, so an answer may overtake another.     *)
(***************************************************************************)
EXTENDS Naturals, FiniteSets

CONSTANTS
    Notes,      \* the notifications of one person
    PageOf,     \* the page of the list each of them is on
    MaxFlight,  \* bound: requests for the list in flight at once
    MaxEvents   \* bound: clicks, new notifications and failures

VARIABLES
    place,     \* where the behaviour looks: "page", "bell" or "sidebar"
    asked,     \* the page of the list that is chosen
    loading,   \* isLoading
    failed,    \* error
    shown,     \* the last answer, if there was one
    fetches,   \* the requests for the list, and what the server has answered
    marking,   \* the rows whose button is busy, "all" for Mark All Read
    patches,   \* the requests that mark a row, or all, as read
    unread,    \* the server's: the notifications without read_at
    events     \* how much has happened so far

vars == <<place, asked, loading, failed, shown, fetches, marking, patches, unread, events>>

Slots == 1..MaxFlight
Pages == IF place = "page" THEN {PageOf[n] : n \in Notes} ELSE {1}
On(p) == IF place = "page" THEN {n \in Notes : PageOf[n] = p} ELSE Notes
Current(p) == [page |-> p, unread |-> unread \cap On(p)]

Event == events < MaxEvents /\ events' = events + 1

\* What is asked for is fixed now, what is answered when the server gets to it;
\* ends are the busy buttons that wait for this answer.
Fetch(p, ends) ==
    \E s \in Slots :
      /\ \A f \in fetches : f.slot # s
      /\ fetches' = fetches \cup {[slot |-> s, page |-> p, ends |-> ends, answer |-> {}]}

----------------------------------------------------------------------------
(* The timer and the person. *)

\* Mutation: the list is asked for when it is mounted, never again.
PollNever == FALSE /\ UNCHANGED vars

\* Every 60 seconds; the timer of the page is started anew with its address.  One
\* slot is left for what a click or the end of a mark asks for.
Poll ==
    /\ Cardinality(fetches) < MaxFlight - 1
    /\ Fetch(asked, {})
    /\ UNCHANGED <<place, asked, loading, failed, shown, marking, patches, unread, events>>

ChangePage ==
    /\ Event
    /\ place = "page" /\ ~loading /\ ~failed
    /\ asked' \in Pages \ {asked}
    /\ loading' = TRUE
    /\ Fetch(asked', {})
    /\ UNCHANGED <<place, failed, shown, marking, patches, unread>>

\* Try Again on the page; any page the OFW goes to makes the bell ask.
AskAgain ==
    /\ Event
    /\ (place = "page" /\ failed) \/ place = "bell"
    /\ Fetch(asked, {})
    /\ UNCHANGED <<place, asked, loading, failed, shown, marking, patches, unread>>

\* The rows as they are on the screen; the bell keeps them after a failure.
OnScreen == UNION {c.unread : c \in IF place = "page" /\ (loading \/ failed) THEN {} ELSE shown}

\* One flag for all rows: marking a second row gives the first button back.  The
\* request remembers the page that was chosen when the row was drawn.
MarkRead ==
    /\ Event
    /\ place # "sidebar"
    /\ \E n \in OnScreen \ (IF place = "page" THEN marking ELSE {}) :
         /\ patches' = patches \cup {[notes |-> {n}, busy |-> n, page |-> asked, done |-> {}]}
         /\ marking' = IF place = "page" THEN (marking \cap {"all"}) \cup {n} ELSE {}
    /\ UNCHANGED <<place, asked, loading, failed, shown, fetches, unread>>

MarkAllRead ==
    /\ Event
    /\ place = "page" /\ OnScreen # {} /\ "all" \notin marking
    /\ patches' = patches \cup {[notes |-> Notes, busy |-> "all", page |-> asked, done |-> {}]}
    /\ marking' = marking \cup {"all"}
    /\ UNCHANGED <<place, asked, loading, failed, shown, fetches, unread>>

----------------------------------------------------------------------------
(* The server. *)

Arrives ==
    /\ Event
    /\ \E n \in Notes \ unread : unread' = unread \cup {n}
    /\ UNCHANGED <<place, asked, loading, failed, shown, fetches, marking, patches>>

Serve(s) ==
    /\ \E f \in fetches :
         /\ f.slot = s /\ f.answer = {}
         /\ fetches' = (fetches \ {f}) \cup {[f EXCEPT !.answer = {Current(f.page)}]}
    /\ UNCHANGED <<place, asked, loading, failed, shown, marking, patches, unread, events>>

\* A row that is read already is answered with 404; all of them never are.
Mark(p) ==
    /\ p.done = {}
    /\ unread' = unread \ p.notes
    /\ patches' = (patches \ {p})
                    \cup {[p EXCEPT !.done = {p.busy = "all" \/ p.notes \subseteq unread}]}
    /\ UNCHANGED <<place, asked, loading, failed, shown, fetches, marking, events>>

----------------------------------------------------------------------------
(* The answers. *)

\* Whatever was asked for last, an answer takes the place of the one before.
Answer(s) ==
    /\ \E f \in fetches :
         /\ f.slot = s /\ f.answer # {}
         /\ shown' = f.answer
         /\ fetches' = fetches \ {f}
         /\ marking' = marking \ f.ends
    /\ loading' = FALSE /\ failed' = FALSE
    /\ UNCHANGED <<place, asked, patches, unread, events>>

\* The sidebar passes over a failure in silence.
FetchFails(s) ==
    /\ Event
    /\ \E f \in fetches :
         /\ f.slot = s
         /\ fetches' = fetches \ {f}
         /\ marking' = marking \ f.ends
    /\ loading' = FALSE
    /\ failed' = (place # "sidebar")
    /\ UNCHANGED <<place, asked, shown, patches, unread>>

\* The page asks for the list again if the row was marked, the bell in any case.
MarkAnswered(p) ==
    /\ p.done # {}
    /\ patches' = patches \ {p}
    /\ IF place = "bell" \/ TRUE \in p.done
       THEN Fetch(p.page, {p.busy}) /\ UNCHANGED marking
       ELSE marking' = marking \ {p.busy} /\ UNCHANGED fetches
    /\ UNCHANGED <<place, asked, loading, failed, shown, unread, events>>

\* The request is lost, before or after the server has seen it.
MarkFails(p) ==
    /\ Event
    /\ patches' = patches \ {p}
    /\ IF place = "bell" THEN Fetch(p.page, {}) ELSE UNCHANGED fetches
    /\ marking' = marking \ {p.busy}
    /\ UNCHANGED <<place, asked, loading, failed, shown, unread>>

Init ==
    /\ place \in {"page", "bell", "sidebar"}
    /\ asked = 1
    /\ loading = TRUE /\ failed = FALSE /\ shown = {}
    /\ fetches = {[slot |-> 1, page |-> 1, ends |-> {}, answer |-> {}]}
    /\ marking = {} /\ patches = {}
    /\ unread \in SUBSET Notes
    /\ events = 0

Next ==
    \/ Poll \/ ChangePage \/ AskAgain \/ MarkRead \/ MarkAllRead \/ Arrives
    \/ \E s \in Slots : Serve(s) \/ Answer(s) \/ FetchFails(s)
    \/ \E p \in patches : Mark(p) \/ MarkAnswered(p) \/ MarkFails(p)

\* The timer goes on, and every request is answered in the end.
Fairness ==
    /\ WF_vars(Poll)
    /\ \A s \in Slots : WF_vars(Serve(s) \/ Answer(s))
    /\ WF_vars(\E p \in patches : Mark(p) \/ MarkAnswered(p))

Spec == Init /\ [][Next]_vars
FairSpec == Spec /\ Fairness

----------------------------------------------------------------------------
(* In whatever order the answers came, once nothing new happens the place     *)
(* shows what the server has of the page that is chosen, and no button stays  *)
(* busy: the timer makes up for answers that overtook each other and for      *)
(* failures the code passes over in silence.                                  *)
FeedSettles == <>[](shown = {Current(asked)} /\ ~loading /\ ~failed /\ marking = {})
=============================================================================
