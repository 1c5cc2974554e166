----------------------------- MODULE PageForms -----------------------------
(***************************************************************************)
(* A form or a dialog of a page, from the first key to the answer of the   *)
(* server, as one person uses it.  A behaviour looks at one form of the    *)
(* table, which may be opened for two subjects, one after the other.       *)
(***************************************************************************)
EXTENDS FormKinds, Naturals

CONSTANTS
    Table,      \* the forms looked at: a function from names to rows
    Subjects,   \* what a form can be opened for: referrals, rows, people
    MaxTexts,   \* bound: how many texts are typed in a behaviour
    Known       \* the forms known to fail a property, by property

VARIABLES
    form,     \* the form the behaviour is about
    open,     \* what it is open for, if it is open
    text,     \* the text in it, 0 when it is empty
    typed,    \* how many texts have been typed so far
    busy,     \* the handler's flag: saving, processing, sending
    latched,  \* the button of its ConfirmDialog has been pressed
    flight,   \* the requests on their way, and whether this form still awaits them
    stored,   \* how often each text was stored for each subject
    meant,    \* history: the subject each text was typed for
    sent,     \* history: the texts that were sent
    given,    \* history: the texts the person typed over or walked away from
    unsure    \* history: the texts whose answer never came

history == <<meant, sent, given, unsure>>
vars == <<form, open, text, typed, busy, latched, flight, stored, history>>

Texts == 1..MaxTexts
row == Table[form]
First == CHOOSE s \in Subjects : TRUE

\* What is left when the form closes: one with a home is back at the page's own subject.
Closed == IF row.home THEN {First} ELSE {}

Init ==
    /\ form \in DOMAIN Table
    /\ open = IF row.leave = "no" THEN {First} ELSE {}
    /\ text = 0 /\ typed = 0
    /\ busy = FALSE /\ latched = FALSE /\ flight = {}
    /\ stored = [t \in Texts |-> [s \in Subjects |-> 0]]
    /\ meant = [t \in Texts |-> {}]
    /\ sent = {} /\ given = {} /\ unsure = {}

----------------------------------------------------------------------------
(* What the person does. *)

\* A new text in the place of the old; for a question, the wish to have it done.
NewText(for) ==
    /\ typed < MaxTexts
    /\ typed' = typed + 1
    /\ text' = typed'
    /\ meant' = [meant EXCEPT ![typed'] = {for}]

\* Mutation: choosing another row changes the subject of an open form, no more.
OpenOver ==
    /\ \E s \in (IF row.many THEN Subjects ELSE {First}) :
         /\ open' = {s}
         /\ IF row.types THEN UNCHANGED <<text, typed, meant>> ELSE NewText(s)
    /\ busy' = (busy /\ ~row.rearms)
    /\ given' = IF text' = text THEN given ELSE given \cup {text}
    /\ UNCHANGED <<form, latched, flight, stored, sent, unsure>>

Open ==
    /\ open = {}
    /\ \E s \in (IF row.many THEN Subjects ELSE {First}) :
         /\ open' = {s}
         /\ IF row.types
            THEN /\ text' = IF row.fresh THEN 0 ELSE text
                 /\ UNCHANGED <<typed, meant>>
            ELSE NewText(s)
    /\ busy' = (busy /\ ~row.rearms)
    /\ given' = IF text' = text THEN given ELSE given \cup {text}
    /\ UNCHANGED <<form, latched, flight, stored, sent, unsure>>

Leave ==
    /\ open # {}
    /\ row.leave = "free" \/ (row.leave = "idle" /\ ~busy)
    /\ open' = {} /\ latched' = FALSE
    /\ \E drop \in row.drops : text' = IF drop THEN 0 ELSE text
    /\ IF row.remounts
       THEN /\ busy' = FALSE
            /\ flight' = {[r EXCEPT !.mine = FALSE] : r \in flight}
       ELSE UNCHANGED <<busy, flight>>
    /\ given' = given \cup {text}
    /\ UNCHANGED <<form, typed, stored, meant, sent, unsure>>

Type ==
    /\ row.types
    /\ ~(row.frozen /\ busy)
    /\ \E s \in open : NewText(s)
    /\ given' = given \cup {text}
    /\ UNCHANGED <<form, open, busy, latched, flight, stored, sent, unsure>>

\* The server keeps the text, for the subject the request names; 2 stands for
\* twice or more.
Store(request) ==
    stored' = [stored EXCEPT ![request.text][request.for] = IF @ = 2 THEN 2 ELSE @ + 1]

\* Closing takes the latch with it, and a component's own state.
Closing(moments) ==
    /\ open' = IF row.closes \cap moments # {} THEN Closed ELSE open
    /\ latched' = (latched /\ open' # {})

\* Mutation: whatever the handler empties, it empties before it knows the answer.
ClearingEarly(moments) ==
    text' = IF row.clears # {} THEN 0 ELSE text

\* Mutation: the form keeps what was stored.
ClearingNever(moments) ==
    UNCHANGED text

Clearing(moments) ==
    text' = IF row.clears \cap moments # {} THEN 0 ELSE text

\* Mutation: the flag is given back by a success alone.
FreeingLate(moments) ==
    busy' = (busy /\ (row.frees = {} \/ "success" \notin moments))

Freeing(moments) ==
    busy' = (busy /\ row.frees \cap moments = {})

\* The button, or Enter.  Sending interrupts the visit in flight, whose
\* onFinish runs before the new visit starts.
Submit ==
    /\ open # {} /\ text # 0
    /\ ~(busy /\ (row.returns \/ row.disables)) /\ ~latched
    /\ \E s \in open, n \in 1..2 :
         /\ \A r \in flight : r.nr # n
         /\ flight' = (IF row.via = "visit" THEN {} ELSE flight)
                         \cup {[nr |-> n, text |-> text, for |-> s, mine |-> TRUE]}
    /\ Clearing({"submit"})
    /\ open' = IF "submit" \in row.closes THEN Closed ELSE open
    /\ latched' = (row.latches /\ open' # {})
    /\ busy' = (row.frees # {})
    /\ sent' = sent \cup {text}
    /\ \/ UNCHANGED stored
       \/ row.via = "visit" /\ \E r \in flight : Store(r)
    /\ UNCHANGED <<form, typed, meant, given, unsure>>

\* Another subject is named in a form that stays on the page, which empties it, or the name
\* is taken back, which leaves the text for the page's own subject.
Readdress ==
    /\ row.home
    /\ \E s \in Subjects :
         /\ open' = {s}
         /\ text' = IF s = First THEN text ELSE 0
    /\ given' = IF text' = text THEN given ELSE given \cup {text}
    /\ UNCHANGED <<form, typed, busy, latched, flight, stored, meant, sent, unsure>>

----------------------------------------------------------------------------
(* What the server and the network do. *)

\* The callbacks an ending reaches.
Events(ending) ==
    CASE ending \in {"stored", "flash"} -> {"success", "finish"}
      [] ending = "errors" -> {"error", "finish"}
      [] ending = "lost" -> IF row.via = "visit" THEN {"finish"} ELSE {"error", "finish"}
      [] ending = "interrupted" -> {"finish"}

\* What the callbacks do to the form, whatever it is open for by then; those
\* of a component that is gone reach only the page around it.
Answer(request, ending) ==
    /\ flight' = flight \ {request}
    /\ Closing(Events(ending))
    /\ IF request.mine
       THEN /\ Clearing(Events(ending))
            /\ Freeing(Events(ending))
       ELSE /\ text' = IF open' = {} THEN 0 ELSE text
            /\ busy' = (busy /\ open' # {})
    /\ UNCHANGED <<form, typed, meant, sent, given>>

Accepted ==
    \E r \in flight :
      /\ Answer(r, "stored")
      /\ Store(r)
      /\ UNCHANGED unsure

Refused ==
    \E r \in flight, refusal \in row.refusals :
      /\ Answer(r, refusal)
      /\ UNCHANGED <<stored, unsure>>

\* An error page, or no answer; the server may have stored the text.
Lost ==
    \E r \in flight :
      /\ Answer(r, "lost")
      /\ Store(r) \/ UNCHANGED stored
      /\ unsure' = unsure \cup {r.text}

\* Another visit of the same page takes the place of this one.
Interrupted ==
    /\ row.via = "visit"
    /\ \E r \in flight :
         /\ Answer(r, "interrupted")
         /\ Store(r) \/ UNCHANGED stored
         /\ unsure' = unsure \cup {r.text}

Next ==
    \/ Open \/ Leave \/ Type \/ Readdress \/ Submit
    \/ Accepted \/ Refused \/ Lost \/ Interrupted

Spec == Init /\ [][Next]_vars

----------------------------------------------------------------------------
(* What the properties ask of a table, of every form that is not known to fail *)
(* one. *)

\* While it is busy the form cannot be sent.
Blocks(r) == (r.returns \/ r.disables) /\ r.frees # {}

\* A second request never joins the first: the router has one visit, a fetch
\* goes by the form's own flag, which nothing but an answer gives back.
OneAtATime(r) == r.via = "visit" \/ (Blocks(r) /\ ~r.rearms /\ ~r.remounts)

\* It is emptied by a success alone, and never by one that carries a refusal.
KeepsText(r) ==
    /\ OneAtATime(r)
    /\ r.clears \subseteq {"success"}
    /\ r.refusals \subseteq {"errors"} \/ r.clears = {}

\* It is emptied when it is sent, or by a success and out of reach until then.
SendsOnce(r) ==
    /\ OneAtATime(r)
    /\ \/ "submit" \in r.clears
       \/ /\ r.clears \cap {"success", "finish"} # {}
          /\ Blocks(r) /\ ~r.rearms
          /\ r.remounts => r.drops = {TRUE}

\* Opening it for another subject shows none of the old text.
StartsAnew(r) == (r.types /\ r.many) => r.fresh

\* Every ending gives back the flag that blocks it and closes its ConfirmDialog.
Recovers(r) ==
    /\ Blocks(r) => "finish" \in r.frees
    /\ r.latches => ~r.home /\ {"submit", "finish"} \cap r.closes # {}

TableHolds ==
    \A f \in DOMAIN Table :
      /\ Table[f].refusals \subseteq Refusal
      /\ (Table[f].types /\ f \notin Known.lost) => KeepsText(Table[f])
      /\ (Table[f].creates /\ f \notin Known.twice) => SendsOnce(Table[f])
      /\ StartsAnew(Table[f])
      /\ Table[f].home => f \in Known.mixed
      /\ f \notin Known.stuck => Recovers(Table[f])

\* There is a subject to open a form for, and the forms that break a rule are
\* known for it.
ASSUME FormsAssumption == MaxTexts \in Nat /\ Subjects # {} /\ TableHolds

----------------------------------------------------------------------------
\* A text that was sent and not stored is still in the form, unless the person
\* replaced it or walked away: a refusal, an error page or a lost answer costs
\* nobody what they wrote.
NothingLost ==
    (row.types /\ form \notin Known.lost) =>
      \A t \in sent :
        \/ t = text \/ t \in given
        \/ \E r \in flight : r.text = t
        \/ \E s \in Subjects : stored[t][s] > 0

\* What was typed or asked for once is stored once, however often the button is
\* pressed, unless its answer never came and the person tried again.
StoredOnce ==
    (row.creates /\ form \notin Known.twice) =>
      \A t \in Texts \ unsure, s \in Subjects : stored[t][s] <= 1

\* A text is stored only for the subject it was typed for, though the dialog
\* was left and opened for another one in between; in a form that is known for it,
\* for the page's own subject as well, when the name it was typed for was taken back.
GoesWhereMeant ==
    \A t \in Texts, s \in Subjects :
      stored[t][s] > 0 => s \in meant[t] \/ (form \in Known.mixed /\ s = First)

\* With nothing on its way the button can be pressed: however a request ended,
\* the person can try again.
NeverStuck ==
    (flight = {} /\ form \notin Known.stuck)
      => ~(busy /\ (row.returns \/ row.disables)) /\ ~latched
=============================================================================
