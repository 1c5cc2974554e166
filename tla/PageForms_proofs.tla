-------------------------- MODULE PageForms_proofs --------------------------
(* Which forms keep what they are given, for any table of forms, any subjects    *)
(* and any number of texts: every form that obeys the rules of TableHolds in     *)
(* PageForms.  And which forms can lose unsaved text without a question: those   *)
(* that arm the bypass of useUnsavedChanges before they check, or that share     *)
(* their page with such a form, and no others.                                   *)
EXTENDS MCPageForms, TLAPS

Requests == [nr : 1..2, text : Texts, for : Subjects, mine : BOOLEAN]

\* The types, and what has not been typed yet: nobody meant it, sent it or
\* stored it.
FormsType ==
    /\ form \in DOMAIN Table
    /\ open \subseteq Subjects /\ \A a, b \in open : a = b
    /\ typed \in 0..MaxTexts /\ text \in 0..typed
    /\ busy \in BOOLEAN /\ latched \in BOOLEAN
    /\ flight \subseteq Requests /\ \A r \in flight : r.text <= typed
    /\ stored \in [Texts -> [Subjects -> 0..2]]
    /\ meant \in [Texts -> SUBSET Subjects]
    /\ sent \subseteq 1..typed
    /\ \A t \in Texts : t > typed =>
         meant[t] = {} /\ \A s \in Subjects : stored[t][s] = 0

LEMMA FirstSubject == First \in Subjects
BY FormsAssumption DEF First

LEMMA FormsTypeInit == Init => FormsType
<1> SUFFICES ASSUME Init PROVE FormsType
  OBVIOUS
<1>1. open \subseteq Subjects /\ \A a, b \in open : a = b
  BY FirstSubject DEF Init
<1>2. typed \in 0..MaxTexts /\ text \in 0..typed
  BY FormsAssumption DEF Init
<1>3. /\ stored \in [Texts -> [Subjects -> 0..2]]
      /\ meant \in [Texts -> SUBSET Subjects]
      /\ \A t \in Texts : meant[t] = {} /\ \A s \in Subjects : stored[t][s] = 0
  BY DEF Init
<1> QED
  BY <1>1, <1>2, <1>3 DEF Init, FormsType

\* What the server's keeping a text does to the store.
LEMMA StoreKeeps ==
  ASSUME FormsType, NEW r \in flight, Store(r)
  PROVE  /\ stored' \in [Texts -> [Subjects -> 0..2]]
         /\ \A t \in Texts, s \in Subjects : stored'[t][s] >= stored[t][s]
         /\ \A t \in Texts, s \in Subjects :
              (t # r.text \/ s # r.for) => stored'[t][s] = stored[t][s]
         /\ stored'[r.text][r.for] > 0
         /\ stored[r.text][r.for] = 0 => stored'[r.text][r.for] = 1
<1>1. r.text \in Texts /\ r.for \in Subjects
  BY DEF FormsType, Requests
<1>2. stored[r.text] \in [Subjects -> 0..2] /\ stored[r.text][r.for] \in 0..2
  BY <1>1 DEF FormsType
<1> DEFINE now == IF stored[r.text][r.for] = 2 THEN 2 ELSE stored[r.text][r.for] + 1
<1>3. now \in 0..2 /\ now > 0 /\ now >= stored[r.text][r.for]
      /\ (stored[r.text][r.for] = 0 => now = 1)
  BY <1>2
<1>4. stored' = [stored EXCEPT ![r.text] = [stored[r.text] EXCEPT ![r.for] = now]]
  BY <1>1, <1>2 DEF Store, FormsType
<1> HIDE DEF now
<1>5. [stored[r.text] EXCEPT ![r.for] = now] \in [Subjects -> 0..2]
  BY <1>1, <1>2, <1>3
<1>6. stored' \in [Texts -> [Subjects -> 0..2]]
  BY <1>1, <1>4, <1>5 DEF FormsType
<1>7. \A t \in Texts, s \in Subjects :
        stored'[t][s] = IF t = r.text /\ s = r.for THEN now ELSE stored[t][s]
  BY <1>1, <1>2, <1>4 DEF FormsType
<1>8. \A t \in Texts, s \in Subjects : stored[t][s] \in 0..2
  BY DEF FormsType
<1> QED
  BY <1>1, <1>3, <1>6, <1>7, <1>8

\* A new text is one that nobody has seen.
LEMMA NewTextKeeps ==
  ASSUME FormsType, NEW s \in Subjects, NewText(s)
  PROVE  /\ typed' = typed + 1 /\ text' = typed'
         /\ typed' \in Texts /\ typed' \in 0..MaxTexts /\ text' \in 0..typed'
         /\ meant' \in [Texts -> SUBSET Subjects] /\ meant'[typed'] = {s}
         /\ \A t \in Texts : t # typed' => meant'[t] = meant[t]
         /\ \A q \in Subjects : stored[typed'][q] = 0
<1>1. typed' = typed + 1 /\ text' = typed' /\ typed' \in Texts /\ typed' > typed
  BY FormsAssumption DEF FormsType, NewText, Texts
<1>2. meant' = [meant EXCEPT ![typed'] = {s}]
  BY DEF NewText
<1>3. \A q \in Subjects : stored[typed'][q] = 0
  BY <1>1 DEF FormsType
<1>4. typed' \in 0..MaxTexts /\ text' \in 0..typed'
  BY <1>1, FormsAssumption DEF Texts
<1>5. meant' \in [Texts -> SUBSET Subjects]
  BY <1>1, <1>2 DEF FormsType
<1>6. meant'[typed'] = {s} /\ \A t \in Texts : t # typed' => meant'[t] = meant[t]
  BY <1>1, <1>2 DEF FormsType
<1> QED
  BY <1>1, <1>3, <1>4, <1>5, <1>6

\* What an answer does to the form, whichever way the request ended.
LEMMA AnswerKeeps ==
  ASSUME FormsType, NEW r \in flight, NEW ending, Answer(r, ending)
  PROVE  /\ form' = form /\ typed' = typed /\ meant' = meant /\ sent' = sent
         /\ given' = given
         /\ flight' = flight \ {r} /\ text' \in {0, text}
         /\ open' = open \/ open' = {} \/ (row.home /\ open' = {First})
         /\ busy' \in BOOLEAN /\ latched' \in BOOLEAN
         /\ (busy' => busy) /\ (latched' => latched)
BY DEF Answer, Closing, Closed, Clearing, Freeing, FormsType

\* What leaving does: the requests go on, and an unmounted form awaits none.
LEMMA LeaveKeeps ==
  ASSUME FormsType, Leave
  PROVE  /\ form' = form /\ typed' = typed /\ stored' = stored /\ meant' = meant
         /\ sent' = sent /\ unsure' = unsure /\ given' = given \cup {text}
         /\ open' = {} /\ latched' = FALSE
         /\ text' \in {0, text} /\ (row.drops = {TRUE} => text' = 0)
         /\ busy' = (busy /\ ~row.remounts)
         /\ flight' \subseteq Requests
         /\ \A q \in flight' : \E r \in flight :
              q.text = r.text /\ q.for = r.for /\ q.mine = (r.mine /\ ~row.remounts)
         /\ \A r \in flight : \E q \in flight' :
              q.text = r.text /\ q.for = r.for /\ q.mine = (r.mine /\ ~row.remounts)
         /\ (\A q, r \in flight : q = r) => \A q, r \in flight' : q = r
<1> DEFINE off(r) == [r EXCEPT !.mine = FALSE]
<1>1. \A r \in flight : r \in Requests /\ r.mine \in BOOLEAN
  BY DEF FormsType, Requests
<1>2. \A r \in flight : /\ off(r) \in Requests /\ off(r).text = r.text
                        /\ off(r).for = r.for /\ off(r).mine = FALSE
  BY DEF FormsType, Requests
<1>3. IF row.remounts
      THEN busy' = FALSE /\ flight' = {off(r) : r \in flight}
      ELSE busy' = busy /\ flight' = flight
  BY DEF Leave
<1> HIDE DEF off
<1>4. busy' = (busy /\ ~row.remounts)
  <2>1. busy \in BOOLEAN
    BY DEF FormsType
  <2>2. CASE row.remounts
    BY <1>3, <2>1, <2>2
  <2>3. CASE ~row.remounts
    BY <1>3, <2>1, <2>3
  <2> QED
    BY <2>2, <2>3
<1>5. /\ flight' \subseteq Requests
      /\ \A q \in flight' : \E r \in flight :
           q.text = r.text /\ q.for = r.for /\ q.mine = (r.mine /\ ~row.remounts)
      /\ \A r \in flight : \E q \in flight' :
           q.text = r.text /\ q.for = r.for /\ q.mine = (r.mine /\ ~row.remounts)
  <2>1. CASE row.remounts
    <3>1. flight' = {off(r) : r \in flight}
      BY <1>3, <2>1
    <3>2. \A r \in flight : (r.mine /\ ~row.remounts) = FALSE
      BY <1>1, <2>1
    <3> QED
      BY <1>2, <3>1, <3>2
  <2>2. CASE ~row.remounts
    <3>1. flight' = flight
      BY <1>3, <2>2
    <3>2. \A r \in flight : r.mine = (r.mine /\ ~row.remounts)
      BY <1>1, <2>2
    <3> QED
      BY <1>1, <3>1, <3>2
  <2> QED
    BY <2>1, <2>2
<1>6. (\A q, r \in flight : q = r) => \A q, r \in flight' : q = r
  BY <1>3
<1>7. text' \in {0, text} /\ (row.drops = {TRUE} => text' = 0)
  <2>1. PICK drop \in row.drops : text' = IF drop THEN 0 ELSE text
    BY DEF Leave
  <2>2. row.drops = {TRUE} => drop = TRUE
    BY <2>1
  <2>3. text' \in {0, text}
    BY <2>1
  <2>4. drop = TRUE => text' = 0
    BY <2>1
  <2> QED
    BY <2>2, <2>3, <2>4
<1> QED
  BY <1>4, <1>5, <1>6, <1>7 DEF Leave

LEMMA FormsTypeStep == FormsType /\ [Next]_vars => FormsType'
<1> SUFFICES ASSUME FormsType, [Next]_vars PROVE FormsType'
  OBVIOUS
<1>0. MaxTexts \in Nat /\ typed \in Nat /\ text \in Nat
  BY FormsAssumption DEF FormsType
<1>1. ASSUME form' = form, open' \subseteq Subjects, \A a, b \in open' : a = b,
             typed' = typed, text' \in 0..typed, busy' \in BOOLEAN, latched' \in BOOLEAN,
             flight' \subseteq Requests, \A r \in flight' : r.text <= typed,
             meant' = meant, stored' = stored, sent' \subseteq 1..typed
      PROVE  FormsType'
  BY <1>1 DEF FormsType, Texts
<1>2. ASSUME NEW s \in Subjects, NewText(s), form' = form, open' \subseteq Subjects,
             \A a, b \in open' : a = b, busy' \in BOOLEAN, latched' \in BOOLEAN,
             flight' = flight, stored' = stored, sent' = sent
      PROVE  FormsType'
  <2>1. \A r \in flight' : r.text <= typed'
    <3> SUFFICES ASSUME NEW r \in flight PROVE r.text <= typed'
      BY <1>2
    <3>1. r.text \in Nat /\ r.text <= typed
      BY DEF FormsType, Requests, Texts
    <3> QED
      BY <1>0, <1>2, <3>1, NewTextKeeps
  <2>2. sent' \subseteq 1..typed'
    BY <1>0, <1>2, NewTextKeeps DEF FormsType
  <2>3. \A t \in Texts : t > typed' =>
          meant'[t] = {} /\ \A q \in Subjects : stored'[t][q] = 0
    BY <1>0, <1>2, NewTextKeeps DEF FormsType, Texts
  <2> QED
    BY <1>2, <2>1, <2>2, <2>3, NewTextKeeps DEF FormsType, Texts
<1>3. ASSUME NEW r \in flight, NEW ending, Answer(r, ending),
             Store(r) \/ stored' = stored
      PROVE  FormsType'
  <2>1. /\ form' = form /\ typed' = typed /\ meant' = meant /\ sent' = sent
        /\ flight' \subseteq flight /\ text' \in {0, text}
        /\ open' = open \/ open' = {} \/ open' = {First}
        /\ busy' \in BOOLEAN /\ latched' \in BOOLEAN
    BY <1>3, AnswerKeeps
  <2>2. stored' \in [Texts -> [Subjects -> 0..2]]
    BY <1>3, StoreKeeps DEF FormsType
  <2>3. \A t \in Texts : t > typed => \A s \in Subjects : stored'[t][s] = 0
    <3>1. r.text \in Texts /\ r.text <= typed
      BY DEF FormsType, Requests
    <3>2. \A t \in Texts : t > typed => t # r.text
      BY <1>0, <3>1 DEF Texts
    <3> QED
      BY <1>3, <3>2, StoreKeeps DEF FormsType
  <2> QED
    BY <1>0, <2>1, <2>2, <2>3, FirstSubject DEF FormsType, Texts
<1>4. CASE Open
  <2>1. PICK s \in (IF row.many THEN Subjects ELSE {First}) :
          /\ open' = {s}
          /\ IF row.types
             THEN /\ text' = IF row.fresh THEN 0 ELSE text
                  /\ UNCHANGED <<typed, meant>>
             ELSE NewText(s)
    BY <1>4 DEF Open
  <2>2. s \in Subjects
    BY <2>1, FirstSubject
  <2>3. /\ form' = form /\ busy' \in BOOLEAN /\ latched' = latched /\ flight' = flight
        /\ stored' = stored /\ sent' = sent
    BY <1>4 DEF Open
  <2>4. CASE row.types
    BY <1>0, <1>1, <2>1, <2>2, <2>3, <2>4 DEF FormsType
  <2>5. CASE ~row.types
    BY <1>2, <2>1, <2>2, <2>3, <2>5 DEF FormsType
  <2> QED
    BY <2>4, <2>5
<1>5. CASE Leave
  <2>1. \A r \in flight : r.text <= typed
    BY DEF FormsType
  <2>2. /\ form' = form /\ typed' = typed /\ stored' = stored /\ meant' = meant
        /\ sent' = sent /\ open' = {} /\ latched' = FALSE /\ text' \in {0, text}
        /\ busy' \in BOOLEAN /\ flight' \subseteq Requests
        /\ \A q \in flight' : \E r \in flight : q.text = r.text
    BY <1>5, LeaveKeeps
  <2>3. \A q \in flight' : q.text <= typed
    BY <2>1, <2>2
  <2>4. text' \in 0..typed /\ sent' \subseteq 1..typed
    BY <1>0, <2>2 DEF FormsType
  <2> QED
    BY <1>1, <2>2, <2>3, <2>4
<1>6. CASE Type
  BY <1>2, <1>6 DEF Type, FormsType
<1>7. CASE Submit
  <2>1. PICK s \in open, n \in 1..2 :
          flight' = (IF row.via = "visit" THEN {} ELSE flight)
                       \cup {[nr |-> n, text |-> text, for |-> s, mine |-> TRUE]}
    BY <1>7 DEF Submit
  <2>2. text \in Texts /\ text \in 1..typed
    BY <1>0, <1>7 DEF Submit, FormsType, Texts
  <2>3. flight' \subseteq Requests /\ \A r \in flight' : r.text <= typed
    <3> DEFINE new == [nr |-> n, text |-> text, for |-> s, mine |-> TRUE]
    <3>1. new \in Requests /\ new.text = text
      BY <2>2 DEF FormsType, Requests
    <3>2. flight' \subseteq flight \cup {new}
      BY <2>1
    <3> HIDE DEF new
    <3>3. \A r \in flight' : r.text <= typed
      BY <2>2, <3>1, <3>2 DEF FormsType
    <3> QED
      BY <3>1, <3>2, <3>3 DEF FormsType
  <2>4. /\ form' = form /\ typed' = typed /\ text' \in {0, text}
        /\ open' \subseteq Subjects /\ \A a, b \in open' : a = b
        /\ busy' \in BOOLEAN /\ latched' \in BOOLEAN /\ meant' = meant
        /\ sent' = sent \cup {text}
    BY <1>7, FirstSubject DEF Submit, Clearing, Closed, FormsType
  <2>5. CASE stored' = stored
    BY <1>0, <1>1, <2>2, <2>3, <2>4, <2>5 DEF FormsType
  <2>6. CASE \E r \in flight : Store(r)
    <3>1. PICK r \in flight : Store(r)
      BY <2>6
    <3>2. r.text \in Texts /\ r.text <= typed
      BY DEF FormsType, Requests
    <3>3. \A t \in Texts : t > typed => t # r.text
      BY <1>0, <3>2 DEF Texts
    <3>4. \A t \in Texts : t > typed => \A q \in Subjects : stored'[t][q] = 0
      BY <3>1, <3>3, StoreKeeps DEF FormsType
    <3>5. stored' \in [Texts -> [Subjects -> 0..2]]
      BY <3>1, StoreKeeps
    <3> QED
      BY <1>0, <2>2, <2>3, <2>4, <3>4, <3>5 DEF FormsType, Texts
  <2> QED
    BY <1>7, <2>5, <2>6 DEF Submit
<1>8. CASE Accepted
  BY <1>3, <1>8 DEF Accepted
<1>9. CASE Refused
  BY <1>3, <1>9 DEF Refused
<1>10. CASE Lost
  BY <1>3, <1>10 DEF Lost
<1>11. CASE Interrupted
  BY <1>3, <1>11 DEF Interrupted
<1>12. CASE Readdress
  <2>1. PICK s \in Subjects : open' = {s} /\ text' = IF s = First THEN text ELSE 0
    BY <1>12 DEF Readdress
  <2> QED
    BY <1>0, <1>1, <1>12, <2>1 DEF Readdress, FormsType
<1>13. CASE UNCHANGED vars
  BY <1>1, <1>13 DEF vars, history, FormsType
<1> QED
  BY <1>4, <1>5, <1>6, <1>7, <1>8, <1>9, <1>10, <1>11, <1>12, <1>13 DEF Next

----------------------------------------------------------------------------
(* One request at a time. *)

Alone ==
    /\ \A q, r \in flight : q = r
    /\ (row.via # "visit" /\ flight # {}) => busy = TRUE

OneInv == OneAtATime(row) => Alone

LEMMA OneInit == Init => OneInv
BY DEF Init, OneInv, Alone

LEMMA SameRow == FormsType /\ [Next]_vars => form' = form /\ row' = row
<1>1. FormsType /\ [Next]_vars => form' = form
  BY DEF Next, Open, Leave, Type, Readdress, Submit, Accepted, Refused, Lost, Interrupted,
     Answer, vars, history
<1> QED
  BY <1>1 DEF row

\* While the request of a form that blocks is on its way, a fetch is not sent.
LEMMA OneStep == FormsType /\ OneInv /\ [Next]_vars => OneInv'
<1> SUFFICES ASSUME FormsType, OneInv, [Next]_vars, OneAtATime(row) PROVE Alone'
  BY SameRow DEF OneInv
<1>0. row' = row /\ Alone
  BY SameRow DEF OneInv
<1>1. ASSUME flight' = flight, busy' = busy PROVE Alone'
  BY <1>0, <1>1 DEF Alone
<1>2. ASSUME NEW r \in flight, NEW ending, Answer(r, ending) PROVE Alone'
  BY <1>0, <1>2, AnswerKeeps DEF Alone
<1>3. CASE Open
  <2>1. flight' = flight /\ busy' = (busy /\ ~row.rearms)
    BY <1>3 DEF Open
  <2>2. row.via # "visit" => busy' = busy
    <3>1. row.via # "visit" => ~row.rearms
      BY DEF OneAtATime
    <3>2. busy \in BOOLEAN
      BY DEF FormsType
    <3> QED
      BY <2>1, <3>1, <3>2
  <2> QED
    BY <1>0, <2>1, <2>2 DEF Alone
<1>4. CASE Leave
  <2>1. /\ busy' = (busy /\ ~row.remounts)
        /\ (\A q, r \in flight : q = r) => \A q, r \in flight' : q = r
        /\ flight' # {} => flight # {}
    BY <1>4, LeaveKeeps
  <2>2. row.via # "visit" => busy' = busy
    <3>1. row.via # "visit" => ~row.remounts
      BY DEF OneAtATime
    <3>2. busy \in BOOLEAN
      BY DEF FormsType
    <3> QED
      BY <2>1, <3>1, <3>2
  <2> QED
    BY <1>0, <2>1, <2>2 DEF Alone
<1>5. CASE Submit
  <2>1. PICK s \in open, n \in 1..2 :
          flight' = (IF row.via = "visit" THEN {} ELSE flight)
                       \cup {[nr |-> n, text |-> text, for |-> s, mine |-> TRUE]}
    BY <1>5 DEF Submit
  <2>2. busy' = (row.frees # {})
    BY <1>5 DEF Submit
  <2>3. CASE row.via = "visit"
    BY <1>0, <2>1, <2>3 DEF Alone
  <2>4. CASE row.via # "visit"
    <3>1. Blocks(row)
      BY <2>4 DEF OneAtATime
    <3>2. flight = {}
      BY <1>0, <1>5, <2>4, <3>1 DEF Submit, Blocks, Alone
    <3>3. busy' = TRUE
      BY <2>2, <3>1 DEF Blocks
    <3> QED
      BY <1>0, <2>1, <2>4, <3>2, <3>3 DEF Alone
  <2> QED
    BY <2>3, <2>4
<1>6. CASE Type \/ Readdress \/ UNCHANGED vars
  BY <1>1, <1>6 DEF Type, Readdress, vars
<1>7. CASE Accepted \/ Refused \/ Lost \/ Interrupted
  BY <1>2, <1>7 DEF Accepted, Refused, Lost, Interrupted
<1> QED
  BY <1>3, <1>4, <1>5, <1>6, <1>7 DEF Next

----------------------------------------------------------------------------
(* Nothing is lost. *)

\* Where a text that was sent can still be found.
Kept(t) ==
    \/ t = text \/ t \in given
    \/ \E r \in flight : r.text = t
    \/ \E s \in Subjects : stored[t][s] > 0

\* The text on its way is in the form or was let go of, and what was sent and is
\* in the form is what is on its way.
LostInv ==
    (row.types /\ form \notin Known.lost) =>
      /\ \A t \in sent : Kept(t)
      /\ \A r \in flight :
           /\ r.text = text \/ r.text \in given
           /\ ~r.mine => r.text \in given
           /\ text \in sent => text = r.text

LEMMA LostInit == Init => LostInv
BY DEF Init, LostInv

LEMMA LostStep == FormsType /\ OneInv /\ LostInv /\ [Next]_vars => LostInv'
<1> SUFFICES ASSUME FormsType, OneInv, LostInv, [Next]_vars,
                    row.types, form \notin Known.lost
             PROVE  /\ \A t \in sent' : Kept(t)'
                    /\ \A r \in flight' :
                         /\ r.text = text' \/ r.text \in given'
                         /\ ~r.mine => r.text \in given'
                         /\ text' \in sent' => text' = r.text
  BY SameRow DEF LostInv
<1> DEFINE Goal == /\ \A t \in sent' : Kept(t)'
                   /\ \A r \in flight' :
                        /\ r.text = text' \/ r.text \in given'
                        /\ ~r.mine => r.text \in given'
                        /\ text' \in sent' => text' = r.text
<1>0. KeepsText(row)
  BY FormsAssumption DEF TableHolds, FormsType, row
<1>1. Alone
  BY <1>0 DEF OneInv, KeepsText
<1>2. /\ \A t \in sent : Kept(t)
      /\ \A r \in flight : /\ r.text = text \/ r.text \in given
                           /\ ~r.mine => r.text \in given
                           /\ text \in sent => text = r.text
  BY DEF LostInv
<1>3. 0 \notin sent /\ typed + 1 \notin sent
  BY FormsAssumption DEF FormsType
\* Another text in the form, the old one let go of.
<1>4. ASSUME sent' = sent, stored' = stored, text' = text \/ text' \notin sent,
             given \subseteq given', text' = text \/ text \in given',
             \A q \in flight' : \E r \in flight : q.text = r.text /\ q.mine = r.mine,
             \A r \in flight : \E q \in flight' : q.text = r.text
      PROVE  Goal
  <2>1. \A t \in sent : Kept(t)'
    <3> SUFFICES ASSUME NEW t \in sent PROVE Kept(t)'
      OBVIOUS
    <3>1. CASE t = text
      BY <1>4, <3>1 DEF Kept
    <3>2. CASE t \in given
      BY <1>4, <3>2 DEF Kept
    <3>3. CASE \E r \in flight : r.text = t
      BY <1>4, <3>3 DEF Kept
    <3>4. CASE \E s \in Subjects : stored[t][s] > 0
      BY <1>4, <3>4 DEF Kept
    <3> QED
      BY <1>2, <3>1, <3>2, <3>3, <3>4 DEF Kept
  <2>2. ASSUME NEW q \in flight'
        PROVE  /\ q.text = text' \/ q.text \in given'
               /\ ~q.mine => q.text \in given'
               /\ text' \in sent' => text' = q.text
    <3>1. PICK r \in flight : q.text = r.text /\ q.mine = r.mine
      BY <1>4
    <3> QED
      BY <1>2, <1>4, <3>1
  <2> QED
    BY <1>4, <2>1, <2>2
<1>5. CASE Open
  <2>1. /\ text' \in {0, text} /\ flight' = flight /\ stored' = stored /\ sent' = sent
        /\ given' = IF text' = text THEN given ELSE given \cup {text}
    BY <1>5 DEF Open
  <2> QED
    BY <1>3, <1>4, <2>1
<1>6. CASE Leave
  <2>1. /\ sent' = sent /\ stored' = stored /\ given' = given \cup {text}
        /\ text' \in {0, text}
        /\ \A q \in flight' : \E r \in flight : q.text = r.text
        /\ \A r \in flight : \E q \in flight' : q.text = r.text
    BY <1>6, LeaveKeeps
  <2>2. ASSUME NEW q \in flight'
        PROVE  q.text \in given' /\ (text' \in sent' => text' = q.text)
    <3>1. PICK r \in flight : q.text = r.text
      BY <2>1
    <3> QED
      BY <1>2, <1>3, <2>1, <3>1
  <2>3. \A t \in sent' : Kept(t)'
    <3> SUFFICES ASSUME NEW t \in sent PROVE Kept(t)'
      BY <2>1
    <3>1. CASE t = text \/ t \in given
      BY <2>1, <3>1 DEF Kept
    <3>2. CASE \E r \in flight : r.text = t
      BY <2>1, <3>2 DEF Kept
    <3>3. CASE \E s \in Subjects : stored[t][s] > 0
      BY <2>1, <3>3 DEF Kept
    <3> QED
      BY <1>2, <3>1, <3>2, <3>3 DEF Kept
  <2> QED
    BY <2>2, <2>3
<1>7. CASE Type
  <2>1. PICK s \in open : NewText(s)
    BY <1>7 DEF Type
  <2>2. text' = typed + 1
    BY <2>1, NewTextKeeps DEF FormsType
  <2> QED
    BY <1>3, <1>4, <1>7, <2>2 DEF Type
<1>8. CASE Submit
  <2>1. PICK s \in open, n \in 1..2 :
          flight' = (IF row.via = "visit" THEN {} ELSE flight)
                       \cup {[nr |-> n, text |-> text, for |-> s, mine |-> TRUE]}
    BY <1>8 DEF Submit
  <2>2. "submit" \notin row.clears
    BY <1>0 DEF KeepsText
  <2>3. text' = text /\ sent' = sent \cup {text} /\ given' = given
    BY <1>8, <2>2 DEF Submit, Clearing
  <2>4. flight' = {[nr |-> n, text |-> text, for |-> s, mine |-> TRUE]}
    <3>1. CASE row.via = "visit"
      BY <2>1, <3>1
    <3>2. CASE row.via # "visit"
      <4>1. Blocks(row)
        BY <1>0, <3>2 DEF KeepsText, OneAtATime
      <4>2. flight = {}
        BY <1>1, <1>8, <3>2, <4>1 DEF Submit, Blocks, Alone
      <4> QED
        BY <2>1, <4>2
    <3> QED
      BY <3>1, <3>2
  <2>5. \A t \in Texts, q \in Subjects : stored[t][q] > 0 => stored'[t][q] > 0
    <3>1. CASE stored' = stored
      BY <3>1
    <3>2. CASE \E r \in flight : Store(r)
      <4>1. \A t \in Texts, q \in Subjects : stored'[t][q] >= stored[t][q]
        BY <3>2, StoreKeeps
      <4>2. \A t \in Texts, q \in Subjects : stored[t][q] \in 0..2 /\ stored'[t][q] \in 0..2
        BY <3>2, StoreKeeps DEF FormsType
      <4> QED
        BY <4>1, <4>2
    <3> QED
      BY <1>8, <3>1, <3>2 DEF Submit
  <2>6. \A t \in sent' : Kept(t)'
    <3> SUFFICES ASSUME NEW t \in sent, t # text, t \notin given PROVE Kept(t)'
      BY <2>3 DEF Kept
    <3>1. t \in Texts
      BY FormsAssumption DEF FormsType, Texts
    <3>2. \A r \in flight : r.text # t
      BY <1>2
    <3>3. PICK q \in Subjects : stored[t][q] > 0
      BY <1>2, <3>2 DEF Kept
    <3> QED
      BY <2>5, <3>1, <3>3 DEF Kept
  <2>7. \A r \in flight' : r.text = text /\ r.mine = TRUE
    BY <2>4
  <2> QED
    BY <2>3, <2>6, <2>7
\* The only request ends: the form keeps the text unless it is stored.
<1>9. ASSUME NEW r \in flight, NEW ending, Answer(r, ending),
             \/ Store(r)
             \/ stored' = stored /\ (r.mine => text' = text)
      PROVE  Goal
  <2>1. flight' = {} /\ sent' = sent /\ given' = given /\ text' \in {0, text}
    BY <1>1, <1>9, AnswerKeeps DEF Alone
  <2>2. r.text \in Texts /\ r.for \in Subjects /\ r.mine \in BOOLEAN
    BY DEF FormsType, Requests
  <2>3. \A t \in sent' : Kept(t)'
    <3> SUFFICES ASSUME NEW t \in sent, t \notin given PROVE Kept(t)'
      BY <2>1 DEF Kept
    <3>1. CASE t = r.text /\ Store(r)
      BY <2>2, <3>1, StoreKeeps DEF Kept
    <3>2. CASE t = r.text /\ ~Store(r)
      BY <1>2, <1>9, <2>2, <3>2 DEF Kept
    <3>3. CASE t # r.text
      <4>1. t # text /\ t \in Texts
        BY <1>2, <3>3, FormsAssumption DEF FormsType, Texts
      <4>2. \A q \in flight : q.text # t
        BY <1>1, <3>3 DEF Alone
      <4>3. PICK s \in Subjects : stored[t][s] > 0
        BY <1>2, <4>1, <4>2 DEF Kept
      <4>4. stored'[t][s] = stored[t][s]
        BY <1>9, <3>3, <4>1, StoreKeeps
      <4> QED
        BY <4>3, <4>4 DEF Kept
    <3> QED
      BY <3>1, <3>2, <3>3
  <2> QED
    BY <2>1, <2>3
<1>10. CASE Accepted
  BY <1>9, <1>10 DEF Accepted
<1>11. CASE Refused
  <2>1. PICK r \in flight, refusal \in row.refusals :
          Answer(r, refusal) /\ stored' = stored
    BY <1>11 DEF Refused
  <2>2. r.mine => text' = text
    <3>1. row.refusals \subseteq Refusal
      BY FormsAssumption DEF TableHolds, FormsType, row
    <3>2. CASE row.clears = {}
      BY <2>1, <3>2 DEF Answer, Clearing
    <3>3. CASE refusal = "errors"
      <4>1. row.clears \cap Events(refusal) = {}
        BY <1>0, <3>3 DEF KeepsText, Events
      <4> QED
        BY <2>1, <4>1 DEF Answer, Clearing
    <3> QED
      BY <1>0, <3>1, <3>2, <3>3 DEF KeepsText, Refusal
  <2> QED
    BY <1>9, <2>1, <2>2
<1>12. ASSUME NEW r \in flight, NEW ending \in {"lost", "interrupted"}, Answer(r, ending),
              Store(r) \/ UNCHANGED stored
       PROVE  Goal
  <2>1. row.clears \cap Events(ending) = {}
    BY <1>0 DEF KeepsText, Events
  <2>2. r.mine => text' = text
    BY <1>12, <2>1 DEF Answer, Clearing
  <2> QED
    BY <1>9, <1>12, <2>2
<1>13. CASE Lost
  BY <1>12, <1>13 DEF Lost
<1>14. CASE Interrupted
  BY <1>12, <1>14 DEF Interrupted
<1>15. CASE Readdress
  <2>1. /\ text' \in {0, text} /\ flight' = flight /\ stored' = stored /\ sent' = sent
        /\ given' = IF text' = text THEN given ELSE given \cup {text}
    BY <1>15 DEF Readdress
  <2> QED
    BY <1>3, <1>4, <2>1
<1>16. CASE UNCHANGED vars
  BY <1>4, <1>16 DEF vars, history
<1> QED
  BY <1>5, <1>6, <1>7, <1>8, <1>10, <1>11, <1>13, <1>14, <1>15, <1>16 DEF Next

----------------------------------------------------------------------------
(* Stored once. *)

Unstored(t) == t \notin unsure => \A s \in Subjects : stored[t][s] = 0

\* What is in the form or on its way is not stored yet; what is both is in a
\* form that is blocked until its answer comes.
OnceInv ==
    (row.creates /\ form \notin Known.twice) =>
      /\ \A t \in Texts \ unsure, s \in Subjects : stored[t][s] <= 1
      /\ text # 0 => Unstored(text)
      /\ \A r \in flight :
           /\ Unstored(r.text)
           /\ r.text = text => r.mine /\ busy = TRUE /\ "submit" \notin row.clears

LEMMA OnceInit == Init => OnceInv
BY DEF Init, OnceInv

LEMMA OnceStep == FormsType /\ OneInv /\ OnceInv /\ [Next]_vars => OnceInv'
<1> DEFINE Goal ==
      /\ \A t \in Texts \ unsure', s \in Subjects : stored'[t][s] <= 1
      /\ text' # 0 => Unstored(text)'
      /\ \A r \in flight' :
           /\ Unstored(r.text)'
           /\ r.text = text' => r.mine /\ busy' = TRUE /\ "submit" \notin row.clears
<1> SUFFICES ASSUME FormsType, OneInv, OnceInv, [Next]_vars,
                    row.creates, form \notin Known.twice
             PROVE  Goal
  BY SameRow DEF OnceInv
<1>0. SendsOnce(row)
  BY FormsAssumption DEF TableHolds, FormsType, row
<1>1. Alone
  BY <1>0 DEF OneInv, SendsOnce
<1>2. /\ \A t \in Texts \ unsure, s \in Subjects : stored[t][s] <= 1
      /\ text # 0 => Unstored(text)
      /\ \A r \in flight :
           /\ Unstored(r.text)
           /\ r.text = text => r.mine /\ busy = TRUE /\ "submit" \notin row.clears
  BY DEF OnceInv
<1>3. \A r \in flight : /\ r \in Requests /\ r.text \in Texts /\ r.for \in Subjects
                        /\ r.text # 0 /\ r.text # typed + 1
  BY FormsAssumption DEF FormsType, Requests, Texts
<1>4. text # 0 => text \in Texts
  BY FormsAssumption DEF FormsType, Texts
<1> HIDE DEF Goal
\* Nothing is stored and no request begins.
<1>5. ASSUME stored' = stored, unsure' = unsure, text' # 0 => Unstored(text'),
             \A q \in flight' : \E r \in flight :
               /\ q.text = r.text
               /\ q.text = text' => r.text = text /\ q.mine = r.mine /\ busy' = busy
      PROVE  Goal
  <2>1. \A q \in flight' :
          /\ Unstored(q.text)'
          /\ q.text = text' => q.mine /\ busy' = TRUE /\ "submit" \notin row.clears
    BY <1>2, <1>5 DEF Unstored
  <2> QED
    BY <1>2, <1>5, <2>1 DEF Goal, Unstored
<1>6. ASSUME NEW s \in Subjects, NewText(s) PROVE text' = typed + 1 /\ Unstored(text')
  BY <1>6, NewTextKeeps DEF Unstored
<1>7. CASE Open
  <2>1. /\ flight' = flight /\ stored' = stored /\ unsure' = unsure
        /\ busy' = (busy /\ ~row.rearms)
    BY <1>7 DEF Open
  <2>2. (text' \in {0, text} \/ text' = typed + 1) /\ (text' # 0 => Unstored(text'))
    BY <1>2, <1>6, <1>7, FirstSubject DEF Open
  <2>3. ASSUME NEW r \in flight, r.text = text' PROVE r.text = text /\ busy' = busy
    <3>1. r.text = text
      BY <1>3, <2>2, <2>3
    <3>2. ~row.rearms /\ busy \in BOOLEAN
      BY <1>0, <1>2, <3>1 DEF SendsOnce, FormsType
    <3> QED
      BY <2>1, <3>1, <3>2
  <2> QED
    BY <1>5, <2>1, <2>2, <2>3
<1>8. CASE Leave
  <2>1. /\ stored' = stored /\ unsure' = unsure /\ text' \in {0, text}
        /\ row.drops = {TRUE} => text' = 0
        /\ busy' = (busy /\ ~row.remounts)
        /\ \A q \in flight' : \E r \in flight :
             q.text = r.text /\ q.for = r.for /\ q.mine = (r.mine /\ ~row.remounts)
    BY <1>8, LeaveKeeps
  <2>2. ASSUME NEW q \in flight', NEW r \in flight,
               q.text = r.text, q.mine = (r.mine /\ ~row.remounts), q.text = text'
        PROVE  r.text = text /\ q.mine = r.mine /\ busy' = busy
    <3>1. r.text = text /\ text' # 0
      BY <1>3, <2>1, <2>2
    <3>2. ~row.remounts
      BY <1>0, <1>2, <2>1, <3>1 DEF SendsOnce
    <3>3. r.mine \in BOOLEAN /\ busy \in BOOLEAN
      BY <1>3 DEF FormsType, Requests
    <3> QED
      BY <2>1, <2>2, <3>1, <3>2, <3>3
  <2>3. text' # 0 => Unstored(text')
    BY <1>2, <2>1
  <2> QED
    BY <1>5, <2>1, <2>2, <2>3
<1>9. CASE Type
  <2>1. PICK s \in open : NewText(s)
    BY <1>9 DEF Type
  <2>2. text' = typed + 1 /\ Unstored(text')
    BY <1>6, <2>1 DEF FormsType
  <2> QED
    BY <1>3, <1>5, <1>9, <2>2 DEF Type
<1>10. CASE Submit
  <2>1. PICK s \in open, n \in 1..2 :
          flight' = (IF row.via = "visit" THEN {} ELSE flight)
                       \cup {[nr |-> n, text |-> text, for |-> s, mine |-> TRUE]}
    BY <1>10 DEF Submit
  <2>2. \A r \in flight : r.text # text
    <3> SUFFICES ASSUME NEW r \in flight, r.text = text PROVE FALSE
      OBVIOUS
    <3>1. busy = TRUE /\ Blocks(row)
      BY <1>0, <1>2 DEF SendsOnce
    <3> QED
      BY <1>10, <3>1 DEF Submit, Blocks
  <2>3. flight' = {[nr |-> n, text |-> text, for |-> s, mine |-> TRUE]}
    <3>1. CASE row.via = "visit"
      BY <2>1, <3>1
    <3>2. CASE row.via # "visit"
      <4>1. Blocks(row)
        BY <1>0, <3>2 DEF SendsOnce, OneAtATime
      <4>2. flight = {}
        BY <1>1, <1>10, <3>2, <4>1 DEF Submit, Blocks, Alone
      <4> QED
        BY <2>1, <4>2
    <3> QED
      BY <3>1, <3>2
  <2>4. /\ text \in Texts /\ text # 0 /\ unsure' = unsure /\ busy' = (row.frees # {})
        /\ text' = IF "submit" \in row.clears THEN 0 ELSE text
    <3>1. row.clears \cap {"submit"} # {} <=> "submit" \in row.clears
      OBVIOUS
    <3> QED
      BY <1>10, <1>4, <3>1 DEF Submit, Clearing
  <2>5. "submit" \notin row.clears => busy' = TRUE
    BY <1>0, <2>4 DEF SendsOnce, Blocks
  <2>6. /\ \A t \in Texts \ unsure, q \in Subjects : stored'[t][q] <= 1
        /\ \A q \in Subjects : stored'[text][q] = stored[text][q]
    <3>1. CASE stored' = stored
      BY <1>2, <3>1
    <3>2. CASE \E r \in flight : Store(r)
      <4>1. PICK r \in flight : Store(r)
        BY <3>2
      <4>2. \A q \in Subjects : stored'[text][q] = stored[text][q]
        BY <2>2, <2>4, <4>1, StoreKeeps
      <4>3. ASSUME NEW t \in Texts \ unsure, NEW q \in Subjects PROVE stored'[t][q] <= 1
        <5>1. CASE t = r.text /\ q = r.for
          <6>1. stored[t][q] = 0
            BY <1>2, <5>1 DEF Unstored
          <6> QED
            BY <4>1, <5>1, <6>1, StoreKeeps
        <5>2. CASE ~(t = r.text /\ q = r.for)
          BY <1>2, <4>1, <5>2, StoreKeeps
        <5> QED
          BY <5>1, <5>2
      <4> QED
        BY <4>2, <4>3
    <3> QED
      BY <1>10, <3>1, <3>2 DEF Submit
  <2>7. Unstored(text)' \/ text' # text
    BY <1>2, <2>4, <2>6 DEF Unstored
  <2>8. ASSUME NEW r \in flight'
        PROVE  /\ Unstored(r.text)'
               /\ r.text = text' => r.mine /\ busy' = TRUE /\ "submit" \notin row.clears
    <3>1. r.text = text /\ r.mine = TRUE
      BY <2>3
    <3>2. Unstored(r.text)'
      BY <1>2, <2>4, <2>6, <3>1 DEF Unstored
    <3> QED
      BY <2>4, <2>5, <3>1, <3>2
  <2> QED
    BY <2>4, <2>6, <2>7, <2>8 DEF Goal
\* The only request ends: what was stored for certain is in the form no more.
<1>11. ASSUME NEW r \in flight, NEW ending, Answer(r, ending), unsure \subseteq unsure',
              \/ stored' = stored
              \/ Store(r) /\ (r.text \in unsure' \/ text' # r.text)
       PROVE  Goal
  <2>1. flight' = {} /\ text' \in {0, text}
    BY <1>1, <1>11, AnswerKeeps DEF Alone
  <2>2. CASE stored' = stored
    BY <1>2, <1>11, <2>1, <2>2 DEF Goal, Unstored
  <2>3. CASE Store(r) /\ (r.text \in unsure' \/ text' # r.text)
    <3>1. ASSUME NEW t \in Texts \ unsure', NEW q \in Subjects PROVE stored'[t][q] <= 1
      <4>1. CASE t = r.text /\ q = r.for
        <5>1. stored[t][q] = 0
          BY <1>2, <1>11, <4>1 DEF Unstored
        <5> QED
          BY <2>3, <4>1, <5>1, StoreKeeps
      <4>2. CASE ~(t = r.text /\ q = r.for)
        BY <1>2, <1>11, <2>3, <4>2, StoreKeeps
      <4> QED
        BY <4>1, <4>2
    <3>2. text' # 0 => Unstored(text)'
      <4> SUFFICES ASSUME text' # 0, text' \notin unsure', NEW q \in Subjects
                   PROVE  stored'[text'][q] = 0
        BY DEF Unstored
      <4>1. text' = text /\ text \in Texts /\ text # r.text
        BY <1>4, <2>1, <2>3
      <4>2. stored'[text][q] = stored[text][q]
        BY <2>3, <4>1, StoreKeeps
      <4> QED
        BY <1>2, <1>11, <4>1, <4>2 DEF Unstored
    <3> QED
      BY <2>1, <3>1, <3>2 DEF Goal
  <2> QED
    BY <1>11, <2>2, <2>3
<1>12. CASE Accepted
  <2>1. PICK r \in flight : Answer(r, "stored") /\ Store(r) /\ unsure' = unsure
    BY <1>12 DEF Accepted
  <2>2. text' # r.text
    <3>1. CASE r.text # text
      BY <1>3, <2>1, <3>1, AnswerKeeps
    <3>2. CASE r.text = text
      <4>1. row.clears \cap Events("stored") # {} /\ r.mine
        BY <1>0, <1>2, <3>2 DEF SendsOnce, Events
      <4> QED
        BY <1>3, <2>1, <4>1 DEF Answer, Clearing
    <3> QED
      BY <3>1, <3>2
  <2> QED
    BY <1>11, <2>1, <2>2
<1>13. CASE Refused
  BY <1>11, <1>13 DEF Refused
<1>14. CASE Lost
  BY <1>11, <1>14 DEF Lost
<1>15. CASE Interrupted
  BY <1>11, <1>15 DEF Interrupted
<1>16. CASE Readdress
  <2>1. /\ stored' = stored /\ unsure' = unsure /\ flight' = flight /\ busy' = busy
        /\ text' \in {0, text}
    BY <1>16 DEF Readdress
  <2> QED
    BY <1>2, <1>3, <1>5, <2>1
<1>17. CASE UNCHANGED vars
  BY <1>2, <1>5, <1>17 DEF vars, history
<1> QED
  BY <1>7, <1>8, <1>9, <1>10, <1>12, <1>13, <1>14, <1>15, <1>16, <1>17 DEF Next

----------------------------------------------------------------------------
(* Stored for whom it was meant. *)

\* Whom a text may reach: the subject it was typed for, and in a form that is known to fall
\* back the page's own.
Fallback == IF form \in Known.mixed THEN {First} ELSE {}

\* The form shows a text, and sends it, only for a subject it may reach.
MeantInv ==
    /\ \A t \in Texts, s \in Subjects : stored[t][s] > 0 => s \in meant[t] \cup Fallback
    /\ \A r \in flight : r.for \in meant[r.text] \cup Fallback
    /\ text # 0 => open \subseteq meant[text] \cup Fallback
    /\ (~row.many /\ ~row.home) =>
         /\ open \subseteq {First}
         /\ \A t \in Texts : t <= typed => meant[t] = {First}

LEMMA MeantInit == Init => MeantInv
<1> SUFFICES ASSUME Init PROVE MeantInv
  OBVIOUS
<1>1. /\ open \subseteq {First} /\ text = 0 /\ flight = {}
      /\ \A t \in Texts, s \in Subjects : stored[t][s] = 0
      /\ \A t \in Texts : ~(t <= typed)
  BY FormsAssumption DEF Init, Texts
<1> QED
  BY <1>1 DEF MeantInv

LEMMA MeantStep == FormsType /\ MeantInv /\ [Next]_vars => MeantInv'
<1> DEFINE Goal ==
      /\ \A t \in Texts, s \in Subjects : stored'[t][s] > 0 => s \in meant'[t] \cup Fallback
      /\ \A r \in flight' : r.for \in meant'[r.text] \cup Fallback
      /\ text' # 0 => open' \subseteq meant'[text'] \cup Fallback
      /\ (~row.many /\ ~row.home) =>
           /\ open' \subseteq {First}
           /\ \A t \in Texts : t <= typed' => meant'[t] = {First}
<1> SUFFICES ASSUME FormsType, MeantInv, [Next]_vars
             PROVE  Goal
  <2>1. FormsType /\ [Next]_vars => row' = row /\ Fallback' = Fallback
    BY SameRow DEF Fallback
  <2> QED
    BY <2>1 DEF MeantInv
<1>1. StartsAnew(row) /\ (row.home => First \in Fallback)
  BY FormsAssumption DEF TableHolds, FormsType, row, Fallback
<1>2. /\ \A t \in Texts, s \in Subjects : stored[t][s] > 0 => s \in meant[t] \cup Fallback
      /\ \A r \in flight : r.for \in meant[r.text] \cup Fallback
      /\ text # 0 => open \subseteq meant[text] \cup Fallback
      /\ (~row.many /\ ~row.home) =>
           /\ open \subseteq {First}
           /\ \A t \in Texts : t <= typed => meant[t] = {First}
  BY DEF MeantInv
<1>3. \A r \in flight : r.text \in Texts /\ r.for \in Subjects /\ r.text # typed + 1
  BY FormsAssumption DEF FormsType, Requests, Texts
<1>4. text # 0 => text \in Texts /\ text <= typed
  BY FormsAssumption DEF FormsType, Texts
<1> HIDE DEF Goal
\* No new text and no new subject but the page's own.
<1>5. ASSUME meant' = meant, typed' = typed, stored' = stored \/ \E r \in flight : Store(r),
             open' \subseteq open \/ (row.home /\ open' \subseteq {First}), text' \in {0, text},
             \A q \in flight' : q.for \in meant[q.text] \cup Fallback
      PROVE  Goal
  <2>1. ASSUME NEW t \in Texts, NEW s \in Subjects, stored'[t][s] > 0
        PROVE  s \in meant[t] \cup Fallback
    <3>1. CASE stored' = stored
      BY <1>2, <2>1, <3>1
    <3>2. CASE \E r \in flight : Store(r)
      BY <1>2, <2>1, <3>2, StoreKeeps
    <3> QED
      BY <1>5, <3>1, <3>2
  <2> QED
    BY <1>1, <1>2, <1>5, <2>1 DEF Goal
\* A new text, for the subject the form is open for.
<1>6. ASSUME NEW s \in Subjects, NewText(s), open' \subseteq {s},
             stored' = stored, flight' = flight, (~row.many /\ ~row.home) => s = First
      PROVE  Goal
  <2>1. /\ typed' = typed + 1 /\ text' = typed' /\ meant'[typed'] = {s}
        /\ \A t \in Texts : t # typed' => meant'[t] = meant[t]
        /\ \A q \in Subjects : stored[typed'][q] = 0
    BY <1>6, NewTextKeeps
  <2>2. \A t \in Texts, q \in Subjects : stored'[t][q] > 0 => q \in meant'[t] \cup Fallback
    BY <1>2, <1>6, <2>1
  <2>3. \A r \in flight' : r.for \in meant'[r.text] \cup Fallback
    BY <1>2, <1>3, <1>6, <2>1
  <2>4. (~row.many /\ ~row.home) => \A t \in Texts : t <= typed' => meant'[t] = {First}
    BY <1>2, <1>6, <2>1 DEF FormsType, Texts
  <2> QED
    BY <1>6, <2>1, <2>2, <2>3, <2>4 DEF Goal
<1>7. CASE Open
  <2>1. PICK s \in (IF row.many THEN Subjects ELSE {First}) :
          /\ open' = {s}
          /\ IF row.types
             THEN /\ text' = IF row.fresh THEN 0 ELSE text
                  /\ UNCHANGED <<typed, meant>>
             ELSE NewText(s)
    BY <1>7 DEF Open
  <2>2. s \in Subjects /\ (~row.many => s = First)
    BY <2>1, FirstSubject
  <2>3. flight' = flight /\ stored' = stored
    BY <1>7 DEF Open
  <2>4. CASE row.types
    <3>1. /\ typed' = typed /\ meant' = meant
          /\ text' = IF row.fresh THEN 0 ELSE text
      BY <2>1, <2>4
    <3>2. text' # 0 => open' \subseteq meant[text'] \cup Fallback
      <4>1. CASE row.many
        BY <1>1, <2>4, <3>1, <4>1 DEF StartsAnew
      <4>2. CASE ~row.many /\ ~row.home
        BY <1>2, <1>4, <2>1, <2>2, <3>1, <4>2
      <4>3. CASE ~row.many /\ row.home
        BY <1>1, <2>1, <2>2, <4>3
      <4> QED
        BY <4>1, <4>2, <4>3
    <3> QED
      BY <1>2, <2>1, <2>2, <2>3, <3>1, <3>2 DEF Goal
  <2>5. CASE ~row.types
    BY <1>6, <2>1, <2>2, <2>3, <2>5
  <2> QED
    BY <2>4, <2>5
<1>8. CASE Leave
  <2>1. /\ meant' = meant /\ typed' = typed /\ stored' = stored /\ open' = {}
        /\ text' \in {0, text}
        /\ \A q \in flight' : \E r \in flight : q.text = r.text /\ q.for = r.for
    BY <1>8, LeaveKeeps
  <2>2. \A q \in flight' : q.for \in meant[q.text] \cup Fallback
    BY <1>2, <2>1
  <2> QED
    BY <1>5, <2>1, <2>2
<1>9. CASE Type
  <2>1. PICK s \in open : NewText(s)
    BY <1>9 DEF Type
  <2>2. s \in Subjects /\ open \subseteq {s}
    BY DEF FormsType
  <2>3. (~row.many /\ ~row.home) => s = First
    BY <1>2
  <2> QED
    BY <1>6, <1>9, <2>1, <2>2, <2>3 DEF Type
<1>10. CASE Submit
  <2>1. PICK s \in open, n \in 1..2 :
          flight' = (IF row.via = "visit" THEN {} ELSE flight)
                       \cup {[nr |-> n, text |-> text, for |-> s, mine |-> TRUE]}
    BY <1>10 DEF Submit
  <2>2. /\ text # 0 /\ meant' = meant /\ typed' = typed /\ text' \in {0, text}
        /\ open' \subseteq open \/ (row.home /\ open' \subseteq {First})
        /\ stored' = stored \/ \E r \in flight : Store(r)
    BY <1>10 DEF Submit, Clearing, Closed
  <2>3. \A q \in flight' : q \in flight \/ (q.text = text /\ q.for = s)
    BY <2>1
  <2>4. \A q \in flight' : q.for \in meant[q.text] \cup Fallback
    BY <1>2, <2>2, <2>3
  <2> QED
    BY <1>5, <2>2, <2>4
<1>11. ASSUME NEW r \in flight, NEW ending, Answer(r, ending), stored' = stored \/ Store(r)
       PROVE  Goal
  BY <1>2, <1>5, <1>11, AnswerKeeps
<1>12. CASE Accepted
  BY <1>11, <1>12 DEF Accepted
<1>13. CASE Refused
  BY <1>11, <1>13 DEF Refused
<1>14. CASE Lost
  BY <1>11, <1>14 DEF Lost
<1>15. CASE Interrupted
  BY <1>11, <1>15 DEF Interrupted
<1>16. CASE Readdress
  <2>1. PICK s \in Subjects : open' = {s} /\ text' = IF s = First THEN text ELSE 0
    BY <1>16 DEF Readdress
  <2>2. row.home /\ flight' = flight /\ stored' = stored /\ meant' = meant /\ typed' = typed
    BY <1>16 DEF Readdress
  <2>3. text' # 0 => open' \subseteq meant'[text'] \cup Fallback
    BY <1>1, <2>1, <2>2
  <2> QED
    BY <1>2, <2>2, <2>3 DEF Goal
<1>17. CASE UNCHANGED vars
  BY <1>2, <1>5, <1>17 DEF vars, history
<1> QED
  BY <1>7, <1>8, <1>9, <1>10, <1>12, <1>13, <1>14, <1>15, <1>16, <1>17 DEF Next

----------------------------------------------------------------------------
(* Never stuck. *)

\* A flag that blocks the form, and a latch that is on, have a request on its
\* way that will take them back.
StuckInv ==
    form \notin Known.stuck =>
      /\ busy => row.frees # {}
      /\ (busy /\ Blocks(row)) => \E r \in flight : r.mine = TRUE
      /\ latched => flight # {} /\ row.latches /\ "submit" \notin row.closes

LEMMA StuckInit == Init => StuckInv
BY DEF Init, StuckInv

LEMMA StuckStep == FormsType /\ StuckInv /\ [Next]_vars => StuckInv'
<1> DEFINE Goal ==
      /\ busy' => row.frees # {}
      /\ (busy' /\ Blocks(row)) => \E r \in flight' : r.mine = TRUE
      /\ latched' => flight' # {} /\ row.latches /\ "submit" \notin row.closes
<1> SUFFICES ASSUME FormsType, StuckInv, [Next]_vars, form \notin Known.stuck
             PROVE  Goal
  <2>1. FormsType /\ [Next]_vars => form' = form /\ row' = row
    BY SameRow
  <2> QED
    BY <2>1 DEF StuckInv, Blocks
<1>1. Recovers(row)
  BY FormsAssumption DEF TableHolds, FormsType, row
<1>2. /\ busy => row.frees # {}
      /\ (busy /\ Blocks(row)) => \E r \in flight : r.mine = TRUE
      /\ latched => flight # {} /\ row.latches /\ "submit" \notin row.closes
  BY DEF StuckInv
<1> HIDE DEF Goal
<1>3. ASSUME flight' = flight, busy' => busy, latched' = latched PROVE Goal
  BY <1>2, <1>3 DEF Goal
<1>4. CASE Open
  BY <1>3, <1>4 DEF Open
<1>5. CASE Leave
  <2>1. /\ latched' = FALSE /\ busy' = (busy /\ ~row.remounts)
        /\ \A r \in flight : \E q \in flight' :
             q.text = r.text /\ q.for = r.for /\ q.mine = (r.mine /\ ~row.remounts)
    BY <1>5, LeaveKeeps
  <2>2. ASSUME busy', Blocks(row) PROVE \E q \in flight' : q.mine = TRUE
    <3>1. busy /\ ~row.remounts
      BY <2>1, <2>2
    <3>2. PICK r \in flight : r.mine = TRUE
      BY <1>2, <2>2, <3>1
    <3>3. PICK q \in flight' : q.mine = (r.mine /\ ~row.remounts)
      BY <2>1
    <3> QED
      BY <3>1, <3>2, <3>3
  <2> QED
    BY <1>2, <2>1, <2>2 DEF Goal
<1>6. CASE Submit
  <2>1. PICK s \in open, n \in 1..2 :
          flight' = (IF row.via = "visit" THEN {} ELSE flight)
                       \cup {[nr |-> n, text |-> text, for |-> s, mine |-> TRUE]}
    BY <1>6 DEF Submit
  <2>2. \E r \in flight' : r.mine = TRUE
    <3> DEFINE new == [nr |-> n, text |-> text, for |-> s, mine |-> TRUE]
    <3>1. new \in flight' /\ new.mine = TRUE
      BY <2>1
    <3> QED
      BY <3>1
  <2>3. /\ busy' = (row.frees # {})
        /\ open' = IF "submit" \in row.closes THEN Closed ELSE open
        /\ latched' = (row.latches /\ open' # {})
    BY <1>6 DEF Submit
  <2>4. latched' => row.latches /\ "submit" \notin row.closes
    BY <1>1, <2>3 DEF Recovers, Closed
  <2> QED
    BY <2>2, <2>3, <2>4 DEF Goal
\* Whichever way a request ends, onFinish runs.
<1>7. ASSUME NEW r \in flight, NEW ending, Answer(r, ending), "finish" \in Events(ending)
      PROVE  Goal
  <2>1. flight' = flight \ {r} /\ (busy' => busy) /\ (latched' => latched)
    BY <1>7, AnswerKeeps
  <2>2. ~latched'
    <3> SUFFICES ASSUME latched PROVE ~latched'
      BY <2>1
    <3>1. "finish" \in row.closes /\ ~row.home
      BY <1>1, <1>2 DEF Recovers
    <3> QED
      BY <1>7, <3>1 DEF Answer, Closing, Closed
  <2>3. ASSUME busy', Blocks(row) PROVE \E q \in flight' : q.mine = TRUE
    <3>1. PICK q \in flight : q.mine = TRUE
      BY <1>2, <2>1, <2>3
    <3>2. CASE r.mine
      <4>1. row.frees \cap Events(ending) # {}
        BY <1>1, <1>7, <2>3 DEF Recovers
      <4> QED
        BY <1>7, <2>3, <3>2, <4>1 DEF Answer, Freeing
    <3>3. CASE ~r.mine
      BY <2>1, <3>1, <3>3
    <3> QED
      BY <3>2, <3>3
  <2> QED
    BY <1>2, <2>1, <2>2, <2>3 DEF Goal
<1>8. CASE Accepted
  BY <1>7, <1>8 DEF Accepted, Events
<1>9. CASE Refused
  <2>1. row.refusals \subseteq Refusal
    BY FormsAssumption DEF TableHolds, FormsType, row
  <2> QED
    BY <1>7, <1>9, <2>1 DEF Refused, Events, Refusal
<1>10. CASE Lost
  BY <1>7, <1>10 DEF Lost, Events
<1>11. CASE Interrupted
  BY <1>7, <1>11 DEF Interrupted, Events
<1>12. CASE Type \/ Readdress \/ UNCHANGED vars
  BY <1>3, <1>12 DEF Type, Readdress, vars
<1> QED
  BY <1>4, <1>5, <1>6, <1>8, <1>9, <1>10, <1>11, <1>12 DEF Next

----------------------------------------------------------------------------
(* The guard. *)

GuardNext == Guard!Next \/ UNCHANGED guardVars

\* A loss the person agreed to, or a form that is known for it.
Excused(loss) == loss \in agreed \/ <<guarded, loss[1]>> \in GuardKnown.unasked

\* The bypass of a form that does not arm it is never left armed.
NotArmed == bypass \in BOOLEAN /\ (bypass => Guard!Arms(Guard!row))

GuardInv == guarded \in DOMAIN GuardTable /\ NotArmed /\ Guard!LeavingAsks

LEMMA GuardInit == Guard!Init => GuardInv
BY DEF Guard!Init, GuardInv, NotArmed, Guard!LeavingAsks

\* Every step leaves the form as it is, and either arms the bypass of a form
\* that arms or leaves it unarmed.
LEMMA NotArmedStep ==
  Guard!TableHolds /\ GuardInv /\ GuardNext => guarded' = guarded /\ NotArmed'
<1> SUFFICES ASSUME Guard!TableHolds, GuardInv, GuardNext
             PROVE  guarded' = guarded /\ NotArmed'
  OBVIOUS
<1> USE DEF GuardInv, NotArmed
<1>1. ASSUME UNCHANGED <<guarded, bypass>> PROVE guarded' = guarded /\ NotArmed'
  BY <1>1 DEF Guard!row
<1>2. ASSUME guarded' = guarded, bypass' = FALSE PROVE guarded' = guarded /\ NotArmed'
  BY <1>2
<1>3. CASE \/ Guard!Type \/ Guard!Discard \/ Guard!Stay \/ Guard!CloseTab
           \/ Guard!NotSaved \/ UNCHANGED guardVars
  BY <1>1, <1>3 DEF Guard!Type, Guard!Discard, Guard!Stay, Guard!CloseTab,
     Guard!NotSaved, guardVars
<1>4. ASSUME NEW kind, Guard!Go(kind) PROVE guarded' = guarded /\ NotArmed'
  BY <1>1, <1>2, <1>4 DEF Guard!Go, Guard!Starts
<1>5. CASE Guard!FollowLink \/ Guard!VisitItself
  BY <1>4, <1>5 DEF Guard!FollowLink, Guard!VisitItself
<1>6. CASE Guard!Confirm \/ Guard!Submit
  BY <1>2, <1>6 DEF Guard!Confirm, Guard!Submit, Guard!Submission
<1>7. CASE Guard!SubmitInvalid
  <2>1. guarded' = guarded /\ bypass' = (bypass \/ Guard!row.early)
    BY <1>7 DEF Guard!SubmitInvalid
  <2>2. GuardTable[guarded] \in Guard!Rows
    BY DEF Guard!TableHolds
  <2>3. Guard!row.early \in BOOLEAN
    BY <2>2 DEF Guard!row, Guard!Rows
  <2> QED
    BY <2>1, <2>3 DEF Guard!row, Guard!Arms
<1>8. CASE Guard!NeighbourSubmits
  <2>1. guarded' = guarded /\ Guard!row.neighbour /\ (bypass' = FALSE \/ bypass' = TRUE)
    BY <1>8 DEF Guard!NeighbourSubmits, Guard!Submission
  <2> QED
    BY <2>1 DEF Guard!row, Guard!Arms
<1>9. CASE Guard!Saved
  <2>1. guarded' = guarded /\ bypass' = (bypass /\ ~Guard!row.reloads)
    BY <1>9 DEF Guard!Saved, Guard!Reloaded
  <2>2. GuardTable[guarded] \in Guard!Rows
    BY DEF Guard!TableHolds
  <2>3. Guard!row.reloads \in BOOLEAN
    BY <2>2 DEF Guard!row, Guard!Rows
  <2> QED
    BY <2>1, <2>3 DEF Guard!row
<1> QED
  BY <1>3, <1>5, <1>6, <1>7, <1>8, <1>9 DEF GuardNext, Guard!Next

\* What a step takes away is excused: it was agreed to, or the bypass was armed.
LEMMA LeavingAsksStep ==
  Guard!TableHolds /\ GuardInv /\ GuardNext => Guard!LeavingAsks'
<1> SUFFICES ASSUME Guard!TableHolds, GuardInv, GuardNext PROVE Guard!LeavingAsks'
  OBVIOUS
<1>1. guarded' = guarded /\ guarded \in DOMAIN GuardTable
  BY NotArmedStep DEF GuardInv
<1>2. ASSUME agreed \subseteq agreed',
             \A loss \in taken' \ taken : loss[1] = "same" \/ Excused(loss)'
      PROVE  Guard!LeavingAsks'
  BY <1>1, <1>2 DEF GuardInv, Guard!LeavingAsks, Excused
<1>3. CASE taken' = taken /\ agreed' = agreed
  BY <1>2, <1>3
<1>4. ASSUME NEW kind, Guard!Go(kind), Guard!dirty, kind = "other", ~Guard!row.covered
      PROVE  Guard!LeavingAsks'
  <2>1. CASE bypass
    <3>1. <<guarded, "other">> \in GuardKnown.unasked
      BY <1>1, <1>4, <2>1 DEF GuardInv, NotArmed, Guard!TableHolds, Guard!row
    <3>2. taken' \subseteq taken \cup {<<kind, draft>>} /\ agreed' = agreed
      BY <1>4 DEF Guard!Go, Guard!Starts
    <3> QED
      BY <1>1, <1>2, <1>4, <3>1, <3>2 DEF Excused
  <2>2. CASE ~bypass
    BY <1>3, <1>4, <2>2 DEF Guard!Go
  <2> QED
    BY <2>1, <2>2
<1>5. ASSUME NEW kind, Guard!Go(kind),
             kind = "same" \/ kind \in Guard!Keeping \/ ~Guard!dirty
      PROVE  Guard!LeavingAsks'
  <2>1. agreed' = agreed /\ \A loss \in taken' \ taken : loss[1] = "same"
    BY <1>5 DEF Guard!Go, Guard!Starts
  <2> QED
    BY <1>2, <2>1
<1>6. CASE Guard!FollowLink
  BY <1>4, <1>5, <1>6 DEF Guard!FollowLink
<1>7. CASE Guard!VisitItself
  <2>1. Guard!row.visits \subseteq Guard!Keeping
    BY <1>1 DEF Guard!TableHolds, Guard!row, Guard!Rows
  <2> QED
    BY <1>5, <1>7, <2>1 DEF Guard!VisitItself
<1>8. CASE Guard!Confirm
  <2>1. PICK way \in {"other", "same"} :
          Guard!Starts(way) /\ agreed' = agreed \cup {<<way, draft>>}
    BY <1>8 DEF Guard!Confirm
  <2>2. taken' \subseteq taken \cup {<<way, draft>>}
    BY <2>1 DEF Guard!Starts
  <2> QED
    BY <1>2, <2>1, <2>2 DEF Excused
<1>9. CASE Guard!CloseTab
  <2>1. CASE Guard!dirty /\ bypass
    <3>1. <<guarded, "tab">> \in GuardKnown.unasked
      BY <1>1, <2>1 DEF GuardInv, NotArmed, Guard!TableHolds, Guard!row
    <3>2. taken' = taken \cup {<<"tab", draft>>} /\ agreed' = agreed
      BY <1>9, <2>1 DEF Guard!CloseTab
    <3> QED
      BY <1>1, <1>2, <3>1, <3>2 DEF Excused
  <2>2. CASE Guard!dirty /\ ~bypass
    <3>1. taken' = taken \cup {<<"tab", draft>>} /\ agreed' = agreed \cup {<<"tab", draft>>}
      BY <1>9, <2>2 DEF Guard!CloseTab
    <3> QED
      BY <1>2, <3>1 DEF Excused
  <2>3. CASE ~Guard!dirty
    BY <1>3, <1>9, <2>3 DEF Guard!CloseTab
  <2> QED
    BY <2>1, <2>2, <2>3
<1>10. CASE \/ Guard!Type \/ Guard!Discard \/ Guard!Stay \/ Guard!SubmitInvalid
            \/ Guard!NeighbourSubmits \/ Guard!Submit \/ Guard!Saved \/ Guard!NotSaved
            \/ UNCHANGED guardVars
  BY <1>3, <1>10 DEF Guard!Type, Guard!Discard, Guard!Stay, Guard!SubmitInvalid,
     Guard!NeighbourSubmits, Guard!Submit, Guard!Saved, Guard!NotSaved, guardVars
<1> QED
  BY <1>6, <1>7, <1>8, <1>9, <1>10 DEF GuardNext, Guard!Next

----------------------------------------------------------------------------
(* The forms and the guard together. *)

FormsInv ==
    FormsType /\ OneInv /\ LostInv /\ OnceInv /\ MeantInv /\ StuckInv

LEMMA FormsStep == FormsInv /\ [Next]_vars => FormsInv'
BY FormsTypeStep, OneStep, LostStep, OnceStep, MeantStep, StuckStep DEF FormsInv

LEMMA FormsInductive == MCSpec => []FormsInv
<1>1. MCInit => FormsInv
  BY FormsTypeInit, OneInit, LostInit, OnceInit, MeantInit, StuckInit DEF MCInit, FormsInv
<1>2. [MCNext]_<<half, vars, guardVars>> => [Next]_vars
  BY DEF MCNext
<1>3. FormsInv /\ [MCNext]_<<half, vars, guardVars>> => FormsInv'
  BY <1>2, FormsStep
<1> QED
  BY <1>1, <1>3, PTL DEF MCSpec

\* For any table whose forms obey KeepsText or are known not to: what was sent is
\* stored, or on its way, or still in the form for all that the server, the
\* network and the callbacks of the handler do.
THEOREM NothingIsLost == MCSpec => []NothingLost
<1>1. FormsInv => NothingLost
  BY DEF FormsInv, LostInv, Kept, NothingLost
<1> QED
  BY <1>1, FormsInductive, PTL

\* For any table whose forms obey SendsOnce or are known not to: no order of
\* presses, answers, departures and returns stores one text twice.
THEOREM NothingIsDoubled == MCSpec => []StoredOnce
<1>1. FormsInv => StoredOnce
  BY DEF FormsInv, OnceInv, StoredOnce
<1> QED
  BY <1>1, FormsInductive, PTL

\* For any table whose forms obey StartsAnew and, but for those that are known for it,
\* have no subject of the page to fall back to: a text is stored for no subject but the one
\* it was typed for, or in the known ones the page's own.
THEOREM NothingIsMixed == MCSpec => []GoesWhereMeant
<1>1. FormsInv => GoesWhereMeant
  BY DEF FormsInv, MeantInv, Fallback, GoesWhereMeant
<1> QED
  BY <1>1, FormsInductive, PTL

\* For any table whose forms obey Recovers or are known not to: once nothing is on
\* its way the button can be pressed, however the requests ended.
THEOREM NothingIsStuck == MCSpec => []NeverStuck
<1>1. FormsInv => NeverStuck
  <2> SUFFICES ASSUME FormsInv, flight = {}, form \notin Known.stuck
               PROVE  ~(busy /\ (row.returns \/ row.disables)) /\ ~latched
    BY DEF NeverStuck
  <2> QED
    BY DEF FormsInv, StuckInv, Blocks
<1> QED
  BY <1>1, FormsInductive, PTL

\* For any table in which the forms that arm the bypass early, or lie beside one
\* that does, are known: no other form loses unsaved text to a link or a closed
\* tab without the question of useUnsavedChanges.
THEOREM QuestionComesFirst == MCSpec => []LeavingAsks
<1>1. MCInit => GuardInv
  BY GuardInit DEF MCInit
<1>2. [MCNext]_<<half, vars, guardVars>> => GuardNext
  BY DEF MCNext, GuardNext
<1>3. GuardInv /\ [MCNext]_<<half, vars, guardVars>> => GuardInv'
  BY <1>2, GuardTableAssumption, NotArmedStep, LeavingAsksStep DEF GuardInv
<1>4. GuardInv => LeavingAsks
  BY DEF GuardInv, LeavingAsks
<1> QED
  BY <1>1, <1>3, <1>4, PTL DEF MCSpec
=============================================================================
