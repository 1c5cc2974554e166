---------------------------- MODULE UnsavedGuard ----------------------------
(***************************************************************************)
(* useUnsavedChanges: the question a page asks before a visit takes unsaved *)
(* text away.  The hook looks at every visit of the router just before it   *)
(* starts.  Two flags of the hook let a visit pass: bypass, armed by        *)
(* bypassNext() for the form's own submission and by the answer to the      *)
(* question, and allow, which the submission leaves behind for a reload of  *)
(* the page.  A behaviour is one form of the table on its page.             *)
(***************************************************************************)
EXTENDS Naturals

CONSTANTS
    Table,      \* the guarded forms: a function from names to rows
    MaxTexts,   \* bound: how many texts are typed in a behaviour
    Known       \* the forms known to fail a property, by property

\* early: the form arms bypass before it checks the text itself.
\* checks: it checks the text before it sends it.
\* neighbour: another form of the page arms the page's bypass in the same way.
\* covered: the form is a dialog over the page, whose links are out of reach.
\* stays: the page stays when the text has been saved.
\* visits: how the page visits itself, keeping its state: a search or a page of
\* its list, the reload after something else was stored.
\* reloads: the callback of a successful save reloads the page at once.
Keeping == {"search", "reload"}
Rows == [early : BOOLEAN, checks : BOOLEAN, neighbour : BOOLEAN, covered : BOOLEAN,
         stays : BOOLEAN, visits : SUBSET Keeping, reloads : BOOLEAN]

VARIABLES
    form,      \* the form the behaviour is about
    page,      \* whether the person is still on the page
    text,      \* what the form holds
    saved,     \* what the server has of it
    typed,     \* how many texts have been typed so far
    flight,    \* the text on its way to the server
    bypass,    \* bypassRef
    allow,     \* allowReloadRef
    question,  \* the visit the question is about, while it is asked
    taken,     \* history: the visits that took unsaved text away
    agreed     \* history: those the person was asked about and agreed to

vars == <<form, page, text, saved, typed, flight, bypass, allow, question,
          taken, agreed>>

row == Table[form]
dirty == text # saved

Init ==
    /\ form \in DOMAIN Table
    /\ page = "here" /\ text = 0 /\ saved = 0 /\ typed = 0
    /\ flight = {} /\ bypass = FALSE /\ allow = FALSE /\ question = {}
    /\ taken = {} /\ agreed = {}

Calm == page = "here" /\ question = {}

Type ==
    /\ Calm /\ typed < MaxTexts
    /\ typed' = typed + 1 /\ text' = typed'
    /\ UNCHANGED <<form, page, saved, flight, bypass, allow, question, taken, agreed>>

\* Discard, Cancel, the backdrop of the dialog.
Discard ==
    /\ Calm /\ dirty
    /\ text' = saved
    /\ UNCHANGED <<form, page, saved, typed, flight, bypass, allow, question, taken, agreed>>

----------------------------------------------------------------------------
(* The visits, as the hook's handler of "before" sees them. *)

\* A visit that starts: another page, the same page anew, or the page as it is.
Starts(kind) ==
    /\ page' = IF kind = "other" THEN "gone" ELSE page
    /\ text' = IF kind = "same" THEN saved ELSE text
    /\ taken' = IF dirty /\ kind \notin Keeping THEN taken \cup {<<kind, text>>} ELSE taken
    /\ flight' = IF kind \in Keeping THEN flight ELSE {}

\* Mutation: a visit that is not a GET returns before the flag is consumed.
SubmissionKeepsFlag ==
    /\ bypass' = TRUE
    /\ UNCHANGED allow

\* The form's own submission: bypass is armed and consumed by the visit itself,
\* which leaves the allowance for the reload that may follow it.
Submission ==
    /\ bypass' = FALSE
    /\ allow' = TRUE

\* A link, a search, a reload: the bypass first, then the allowance for the same
\* address, then the question.  A page shown anew has new flags.
Go(kind) ==
    /\ Calm
    /\ IF bypass \/ (allow /\ kind # "other") \/ ~dirty
       THEN /\ Starts(kind)
            /\ bypass' = FALSE
            /\ allow' = (allow /\ kind \in Keeping /\ bypass)
            /\ UNCHANGED question
       ELSE /\ question' = {kind}
            /\ UNCHANGED <<page, text, taken, flight, bypass, allow>>
    /\ UNCHANGED <<form, saved, typed, agreed>>

FollowLink == (row.covered => ~dirty) /\ (Go("other") \/ Go("same"))

\* Over a dialog only the timer of a search typed before it was opened is left,
\* and it fires before the dialog can be sent.
VisitItself ==
    \E kind \in row.visits :
      /\ (kind = "search" /\ row.covered) => (flight = {} /\ ~allow)
      /\ Go(kind)

\* confirmNavigation repeats the visit by its address alone, so that the page
\* comes anew even if the visit was to keep its state.
Confirm ==
    \E kind \in question :
      LET way == IF kind = "other" THEN "other" ELSE "same" IN
      /\ Starts(way)
      /\ agreed' = agreed \cup {<<way, text>>}
      /\ question' = {} /\ bypass' = FALSE
      /\ allow' = FALSE
      /\ UNCHANGED <<form, saved, typed>>

Stay ==
    /\ question # {}
    /\ question' = {}
    /\ UNCHANGED <<form, page, text, saved, typed, flight, bypass, allow, taken, agreed>>

\* The tab is closed or loaded anew: the browser asks, unless bypass is armed.
CloseTab ==
    /\ page = "here"
    /\ page' = "gone"
    /\ taken' = IF dirty THEN taken \cup {<<"tab", text>>} ELSE taken
    /\ agreed' = IF dirty /\ ~bypass THEN agreed \cup {<<"tab", text>>} ELSE agreed
    /\ UNCHANGED <<form, text, saved, typed, flight, bypass, allow, question>>

----------------------------------------------------------------------------
(* Saving. *)

\* The text fails the form's own check; nothing is sent.
SubmitInvalid ==
    /\ Calm /\ dirty /\ flight = {} /\ row.checks
    /\ bypass' = (bypass \/ row.early)
    /\ UNCHANGED <<form, page, text, saved, typed, flight, allow, question, taken, agreed>>

\* The other form of the page is sent, or fails its check.
NeighbourSubmits ==
    /\ Calm /\ row.neighbour
    /\ \/ Submission /\ flight' = {}
       \/ bypass' = TRUE /\ UNCHANGED <<allow, flight>>
    /\ UNCHANGED <<form, page, text, saved, typed, question, taken, agreed>>

Submit ==
    /\ Calm /\ dirty /\ flight = {}
    /\ Submission
    /\ flight' = {text}
    /\ UNCHANGED <<form, page, text, saved, typed, question, taken, agreed>>

\* The reload of a callback finds the form as it was before the callback.
Reloaded ==
    /\ question' = IF row.reloads /\ ~bypass /\ ~allow THEN {"reload"} ELSE question
    /\ allow' = (allow /\ (~row.reloads \/ bypass))
    /\ bypass' = (bypass /\ ~row.reloads)

\* A dialog closes with what it holds; a page keeps what was typed since.
Saved ==
    /\ page = "here"
    /\ \E t \in flight :
         /\ saved' = t
         /\ text' = IF row.covered \/ ~row.stays THEN t ELSE text
    /\ page' = IF row.stays THEN page ELSE "gone"
    /\ flight' = {}
    /\ Reloaded
    /\ UNCHANGED <<form, typed, taken, agreed>>

\* Refused by the server, or no answer.
NotSaved ==
    /\ page = "here" /\ flight # {}
    /\ flight' = {}
    /\ UNCHANGED <<form, page, text, saved, typed, bypass, allow, question, taken, agreed>>

Next ==
    \/ Type \/ Discard
    \/ FollowLink \/ VisitItself \/ Confirm \/ Stay \/ CloseTab
    \/ SubmitInvalid \/ NeighbourSubmits \/ Submit \/ Saved \/ NotSaved

Spec == Init /\ [][Next]_vars

----------------------------------------------------------------------------
\* No link to another page and no closed tab takes unsaved text away unless the
\* person was asked and agreed.
LeavingAsks ==
    \A loss \in taken :
      loss[1] # "same" => loss \in agreed \/ <<form, loss[1]>> \in Known.unasked

(* What LeavingAsks asks of a table. *)

\* A form whose bypass can be armed without a visit to consume it.
Arms(guarded) == guarded.early \/ guarded.neighbour

\* The rows are rows, and the forms that arm are known: for a closed tab, and
\* for a link unless the form lies over the links.
TableHolds ==
    \A f \in DOMAIN Table :
      /\ Table[f] \in Rows
      /\ Arms(Table[f]) =>
           /\ <<f, "tab">> \in Known.unasked
           /\ Table[f].covered \/ <<f, "other">> \in Known.unasked
=============================================================================
