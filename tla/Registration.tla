----------------------------- MODULE Registration -----------------------------
(* The four steps of an account's registration (Pages/Auth/Register.jsx): the    *)
(* account with its address probed while it is typed, the person, the address,   *)
(* the last employment; and the submission the server may refuse                 *)
(* (OfwRegistrationController::store).                                           *)
EXTENDS Naturals, FiniteSets

CONSTANTS Mails,    \* well-formed addresses
          Taken,    \* those of them that have an account
          MaxTyped  \* bound: addresses typed

VARIABLES
    step,       \* currentStep
    mail,       \* data.email: one of Mails, or {} when it is none
    emailStatus,
    timer,      \* the probe waits for 500 ms without a key
    probe,      \* the addresses whose probe is under way and not aborted
    part,       \* what the fields of each step hold
    token,      \* turnstileToken
    errors,     \* the steps the server's errors on the page belong to
    sending,    \* processing
    gone,       \* the review page is reached
    typed       \* history: addresses typed

probing == <<mail, emailStatus, timer, probe, typed>>
vars == <<step, mail, emailStatus, timer, probe, typed, part, token, errors, sending, gone>>

\* What the fields of each step make up.
AccountPart == {"password"}
PersonPart == {"person"}
AddressPart == {"address"}
WorkPart == {"work"}
PartNames == AccountPart \cup PersonPart \cup AddressPart \cup WorkPart
OfStep == [password |-> 1, person |-> 2, address |-> 3, work |-> 4]

\* An odd part is filled against a rule the page knows: an age out of bounds, dates in the
\* wrong order.  A late one breaks a rule only the server has: dates in the future.
Filled == {"late", "ok"}

\* A blank page, or the one led back to from the review: the password alone is missing.
Init ==
    /\ step = 1 /\ emailStatus = "unknown" /\ probe = {}
    /\ mail \in {{}} \cup {{a} : a \in Mails} /\ timer = (mail # {})
    /\ part = [p \in PartNames |-> IF mail = {} \/ p \in AccountPart THEN "empty" ELSE "ok"]
    /\ token = "none" /\ errors = {} /\ sending = FALSE /\ gone = FALSE /\ typed = 0

Here == ~gone /\ ~sending

-----------------------------------------------------------------------------
(* The gates *)

\* stepComplete
Complete(s) ==
    /\ \A p \in PartNames : OfStep[p] = s => part[p] \in Filled
    /\ s = 1 => mail # {} /\ emailStatus # "taken"

AllComplete == \A s \in 1..4 : Complete(s)

-----------------------------------------------------------------------------
(* The probe of the address *)

\* Mutation: the cleanup clears the timer and lets a probe under way answer.
TypeMailUnaborted(m) ==
    /\ Here /\ step = 1 /\ typed < MaxTyped /\ m # mail
    /\ mail' = m /\ typed' = typed + 1 /\ timer' = (m # {})
    /\ emailStatus' = IF m = {} THEN "unknown" ELSE emailStatus
    /\ UNCHANGED <<step, probe, part, token, errors, sending, gone>>

\* A key aborts the probe under way; the status stays until the next probe starts.
TypeMail(m) ==
    /\ Here /\ step = 1 /\ typed < MaxTyped /\ m # mail
    /\ mail' = m /\ typed' = typed + 1 /\ timer' = (m # {}) /\ probe' = {}
    /\ emailStatus' = IF m = {} THEN "unknown" ELSE emailStatus
    /\ UNCHANGED <<step, part, token, errors, sending, gone>>

ProbeStarts ==
    /\ ~gone /\ timer
    /\ timer' = FALSE /\ emailStatus' = "checking" /\ probe' = probe \cup mail
    /\ UNCHANGED <<step, mail, typed, part, token, errors, sending, gone>>

ProbeAnswers ==
    /\ ~gone
    /\ \E m \in probe :
         /\ emailStatus' = IF m \in Taken THEN "taken" ELSE "available"
         /\ probe' = probe \ {m}
    /\ UNCHANGED <<step, mail, timer, typed, part, token, errors, sending, gone>>

\* A failed probe leaves the address to the server.
ProbeFails ==
    /\ ~gone /\ probe # {}
    /\ \E m \in probe : probe' = probe \ {m}
    /\ emailStatus' = "unknown"
    /\ UNCHANGED <<step, mail, timer, typed, part, token, errors, sending, gone>>

-----------------------------------------------------------------------------
(* Typing, and the steps *)

\* Another date of birth can put the employment's dates in the wrong order.
Fill(p) ==
    /\ Here /\ OfStep[p] = step
    /\ \E filled \in {"empty", "ok"} \cup (IF p \in {"person", "work"} THEN {"odd"} ELSE {})
                     \cup (IF p = "work" THEN {"late"} ELSE {}) :
         \E work \in IF p = "person" /\ part["work"] = "ok" THEN {"ok", "odd"} ELSE {part["work"]} :
            part' = [part EXCEPT !["work"] = work, ![p] = filled]
    /\ UNCHANGED <<step, probing, token, errors, sending, gone>>

GoOn ==
    /\ Here /\ step < 4 /\ Complete(step)
    /\ step' = step + 1 /\ errors' = {}
    /\ UNCHANGED <<probing, part, token, sending, gone>>

Back ==
    /\ Here /\ step > 1
    /\ step' = step - 1 /\ errors' = {}
    /\ UNCHANGED <<probing, part, token, sending, gone>>

\* The challenge on the last step gives a token, which expires.
Challenge ==
    /\ Here /\ step = 4
    /\ token' \in {"none", "fresh"} \ {token}
    /\ UNCHANGED <<step, probing, part, errors, sending, gone>>

CanSubmit == step = 4 /\ AllComplete /\ token # "none"

Submit ==
    /\ Here /\ CanSubmit
    /\ errors' = {} /\ sending' = TRUE
    /\ UNCHANGED <<step, probing, part, token, gone>>

-----------------------------------------------------------------------------
(* The server *)

\* reset('password', 'password_confirmation') after every submission; a token is good once.
Finished ==
    /\ sending' = FALSE
    /\ part' = [part EXCEPT !["password"] = "empty"]
    /\ token' = "spent"

Accepted ==
    /\ sending /\ token = "fresh" /\ part["work"] = "ok"
    /\ gone' = TRUE /\ Finished
    /\ UNCHANGED <<step, probing, errors>>

\* VerifyTurnstile refuses a spent token first; then an address with capitals, or a date.
Reasons == IF token = "spent" THEN {{4}}
           ELSE {reasons \in (SUBSET {1, 4}) \ {{}} : part["work"] = "late" <=> 4 \in reasons}

\* stepOfError leads back to the earliest step with an error.
Refused ==
    /\ sending
    /\ errors' \in Reasons
    /\ step' = CHOOSE s \in errors' : \A t \in errors' : s <= t
    /\ Finished
    /\ UNCHANGED <<probing, gone>>

Lost ==
    /\ sending /\ Finished
    /\ UNCHANGED <<step, probing, errors, gone>>

Next ==
    \/ \E m \in {{}} \cup {{a} : a \in Mails} : TypeMail(m)
    \/ ProbeStarts \/ ProbeAnswers \/ ProbeFails
    \/ \E p \in PartNames : Fill(p)
    \/ GoOn \/ Back \/ Challenge \/ Submit
    \/ Accepted \/ Refused \/ Lost

Spec == Init /\ [][Next]_vars

-----------------------------------------------------------------------------
(* Properties *)

\* When no probe is due or under way, the page calls the typed address taken only if it is,
\* and available only if it is: no late answer is about an address typed before (the effect
\* on data.email aborts, Register.jsx).
StatusIsOfTyped ==
    ~timer /\ probe = {} =>
        /\ emailStatus = "taken" => mail # {} /\ mail \subseteq Taken
        /\ emailStatus = "available" => mail # {} /\ mail \cap Taken = {}
=============================================================================
