---------------------------- MODULE ReferralFiling ----------------------------
(* The page on which a case is referred to an agency (Pages/Referral/Create.jsx): *)
(* a case from a paged and searched list, an agency that has no active referral   *)
(* of that case, and the submission, while others refer, finish and close.  The   *)
(* list answers with the pairs already referred of the cases on its page only.    *)
EXTENDS Naturals, FiniteSets

CONSTANTS Cases, Agencies,
          PageOf,       \* the page of the list an open case is on
          MaxElsewhere  \* bound: changes made by others

Pages == {PageOf[c] : c \in Cases}

VARIABLES
    step,       \* createStep
    chosen,     \* data.case_id, as a set
    agency,     \* data.agcy_id, as a set
    recalled,   \* selectedCaseRef: the case last seen in the list while chosen
    listed,     \* the cases of the page of the list
    warned,     \* caseReferrals: the pairs the page shows as referred
    timer,      \* a search typed, not yet visited
    visit,      \* the visit under way
    sending,    \* processing
    open,       \* server: the cases that can be referred
    active,     \* server: the pairs with an active referral
    news,       \* history: pairs referred by others since the page was told
    blind,      \* history: step 2 was left while the case was not on the page
    gone,       \* the referral is created and the page left
    elsewhere   \* history: changes made by others

page == <<step, chosen, agency, recalled>>
list == <<listed, warned, timer, visit>>
server == <<open, active>>
vars == <<step, chosen, agency, recalled, listed, warned, timer, visit, sending, open, active,
          news, blind, gone, elsewhere>>

Pairs == Cases \X Agencies

\* ReferralController::create: a page of the open cases, and what of them is referred.
OnPage(p) == {c \in open : PageOf[c] = p}
Told(p) == {pair \in active : pair[1] \in OnPage(p)}

Init ==
    /\ open = Cases /\ active \in SUBSET Pairs
    /\ listed = OnPage(1) /\ warned = Told(1)
    /\ chosen \in {{}} \cup {{c} : c \in Cases}
    /\ recalled = chosen \cap listed
    /\ step = IF chosen = {} THEN 1 ELSE 2
    /\ agency = {} /\ timer = {} /\ visit = {} /\ sending = FALSE
    /\ news = {} /\ blind = FALSE /\ gone = FALSE /\ elsewhere = 0

\* The page is still there: a created referral leads away from it.
Here == ~gone

\* selectedCase: the chosen case as the list has it, or as it was last seen.
Selected == IF chosen \subseteq listed THEN chosen ELSE recalled
Referred == {pair \in warned : pair[1] \in chosen /\ pair[2] \in agency} # {}

-----------------------------------------------------------------------------
(* The list *)

\* Paging visits at once, searching 300 ms after the last key.
TurnTo(p) ==
    /\ Here /\ ~sending /\ step = 1
    /\ visit' = {p}
    /\ UNCHANGED <<page, listed, warned, timer, sending, server, news, blind, gone, elsewhere>>

Search(p) ==
    /\ Here /\ ~sending /\ step = 1
    /\ timer' = {p}
    /\ UNCHANGED <<page, listed, warned, visit, sending, server, news, blind, gone, elsewhere>>

TimerFires ==
    /\ Here /\ ~sending /\ timer # {}
    /\ visit' = timer /\ timer' = {}
    /\ UNCHANGED <<page, listed, warned, sending, server, news, blind, gone, elsewhere>>

\* The visit keeps the page's state; the case is recalled when the list shows it.
Answer ==
    /\ Here /\ visit # {}
    /\ \E p \in visit :
         /\ listed' = OnPage(p) /\ warned' = Told(p)
         /\ recalled' = IF chosen # {} /\ chosen \subseteq OnPage(p) THEN chosen ELSE recalled
    /\ visit' = {}
    /\ news' = IF step = 3 THEN news ELSE {}
    /\ UNCHANGED <<step, chosen, agency, timer, sending, server, blind, gone, elsewhere>>

-----------------------------------------------------------------------------
(* The steps *)

\* Another case takes the agency and the remarks away.
PickCase(c) ==
    /\ Here /\ ~sending /\ step = 1 /\ c \in listed
    /\ chosen' = {c} /\ recalled' = {c} /\ agency' = {}
    /\ UNCHANGED <<step, list, sending, server, news, blind, gone, elsewhere>>

PickAgency(a) ==
    /\ Here /\ ~sending /\ step = 2
    /\ \A c \in chosen : <<c, a>> \notin warned
    /\ agency' = {a}
    /\ UNCHANGED <<step, chosen, recalled, list, sending, server, news, blind, gone, elsewhere>>

LeaveCases ==
    /\ Here /\ ~sending /\ step = 1 /\ Selected # {} /\ chosen # {}
    /\ step' = 2
    /\ UNCHANGED <<chosen, agency, recalled, list, sending, server, news, blind, gone, elsewhere>>

\* Mutation: an agency chosen before goes through, whatever the list says by now.
LeaveAgenciesUnchecked ==
    /\ Here /\ ~sending /\ step = 2 /\ agency # {}
    /\ step' = 3
    /\ blind' = ~(chosen \subseteq listed)
    /\ UNCHANGED <<chosen, agency, recalled, list, sending, server, news, gone, elsewhere>>

LeaveAgencies ==
    /\ Here /\ ~sending /\ step = 2 /\ agency # {} /\ ~Referred
    /\ step' = 3
    /\ blind' = ~(chosen \subseteq listed)
    /\ UNCHANGED <<chosen, agency, recalled, list, sending, server, news, gone, elsewhere>>

Back ==
    /\ Here /\ ~sending /\ step > 1
    /\ step' = step - 1
    /\ UNCHANGED <<chosen, agency, recalled, list, sending, server, news, blind, gone, elsewhere>>

\* Submitting interrupts a visit of the list.
Submit ==
    /\ Here /\ ~sending /\ step = 3 /\ chosen # {} /\ agency # {}
    /\ sending' = TRUE /\ visit' = {}
    /\ UNCHANGED <<page, listed, warned, timer, server, news, blind, gone, elsewhere>>

-----------------------------------------------------------------------------
(* The server *)

\* StoreReferralRequest and createReferral, under the lock of the case.
Created ==
    /\ sending
    /\ chosen \subseteq open /\ (chosen \X agency) \cap active = {}
    /\ active' = active \cup (chosen \X agency) /\ gone' = TRUE
    /\ sending' = FALSE
    /\ UNCHANGED <<page, list, open, news, blind, elsewhere>>

Refused ==
    /\ sending
    /\ \/ (chosen \X agency) \cap active # {}
       \/ ~(chosen \subseteq open)
    /\ sending' = FALSE
    /\ UNCHANGED <<page, list, server, news, blind, gone, elsewhere>>

Lost ==
    /\ sending
    /\ sending' = FALSE
    /\ UNCHANGED <<page, list, server, news, blind, gone, elsewhere>>

\* Other people at work on the same cases.
OthersRefer(pair) ==
    /\ elsewhere < MaxElsewhere
    /\ pair[1] \in open /\ pair \notin active
    /\ active' = active \cup {pair} /\ news' = news \cup {pair} /\ elsewhere' = elsewhere + 1
    /\ UNCHANGED <<page, list, sending, open, blind, gone>>

OthersFinish(pair) ==
    /\ elsewhere < MaxElsewhere /\ pair \in active
    /\ active' = active \ {pair} /\ elsewhere' = elsewhere + 1
    /\ UNCHANGED <<page, list, sending, open, news, blind, gone>>

OthersClose(c) ==
    /\ elsewhere < MaxElsewhere /\ c \in open
    /\ \A pair \in active : pair[1] # c
    /\ open' = open \ {c} /\ elsewhere' = elsewhere + 1
    /\ UNCHANGED <<page, list, sending, active, news, blind, gone>>

Next ==
    \/ \E p \in Pages : TurnTo(p) \/ Search(p)
    \/ TimerFires \/ Answer
    \/ \E c \in Cases : PickCase(c) \/ OthersClose(c)
    \/ \E a \in Agencies : PickAgency(a)
    \/ LeaveCases \/ LeaveAgencies \/ Back \/ Submit
    \/ Created \/ Refused \/ Lost
    \/ \E pair \in Pairs : OthersRefer(pair) \/ OthersFinish(pair)

Spec == Init /\ [][Next]_vars

-----------------------------------------------------------------------------
(* Properties *)

\* A submission is refused as already referred only for a referral others made after the
\* page was told, if the case was on the page of the list when the agency was settled: what
\* the list knew is never sent (selectedAgencyIsReferred, ReferralController::create).
SentIsUnreferred == sending /\ ~blind => (chosen \X agency) \cap active \subseteq news
=============================================================================
