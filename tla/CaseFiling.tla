------------------------------ MODULE CaseFiling ------------------------------
(* The page on which a case is created (Pages/Case/Create.jsx), in three steps: *)
(* whose case it is, what it is about, and the narrative; and what the server   *)
(* makes of it (StoreCaseRequest, CaseService, ClientProfileService).  A field  *)
(* is empty, odd (filled, against a rule of both the page and the server),      *)
(* strict (against a rule of the server alone: a length, an address that is     *)
(* none, a category that is no longer active) or ok.                            *)
EXTENDS Naturals, Sequences, FiniteSets, SequencesExt

CONSTANTS Records,      \* the clients on record
          HasAddress,   \* those of them with an address, with work, with kin
          HasWork,
          HasKin,
          OwnRecord,    \* the record of an OFW who files
          MaxKin,       \* bound: rows of next of kin
          MaxFlaws,     \* bound: fields that are not ok in one go
          MaxChoices    \* bound: choices of a client

\* The records have names of their own, and the own record is one of them.
ASSUME RecordsAssumption ==
    OwnRecord \in Records /\ Records \cap {"new", "own", "nobody"} = {}

VARIABLES
    filer,      \* who creates the case: staff, kin (a next of kin's account) or ofw
    step,       \* currentStep
    source,     \* clientSource: existing or new
    picked,     \* selected_client_id, as a set
    field,      \* the state of each field
    whose,      \* history: whose name the form holds
    kin,        \* next_of_kin: the e-mail address of each row
    filedBy,    \* client_type: OFW or NEXT_OF_KIN
    notified,   \* selected_nok_index, from 1; 0 when none is selected
    asking,     \* showCreateModal
    sending,    \* processing
    stored,     \* history: what the last case wrote, as a set
    walked,     \* history: steps left by Next since the page or a choice opened
    choices     \* history: clients chosen, sources switched

vars == <<filer, step, source, picked, field, whose, kin, filedBy, notified,
          asking, sending, stored, walked, choices>>
form == <<field, whose, kin, filedBy, notified>>
history == <<stored, walked, choices>>

States == {"empty", "odd", "strict", "ok"}
Filers == {"staff", "kin", "ofw"}

\* The fields each card of a step shows.
PersonFields == {"person", "mail"}
AddressFields == {"address"}
WorkFields == {"work", "arrival", "start", "end"}
ConsentField == {"consent"}
CategoryField == {"category"}
AboutFields == CategoryField \cup {"issue"}
StoryField == {"summary"}

Fields == PersonFields \cup AddressFields \cup WorkFields \cup ConsentField
          \cup AboutFields \cup StoryField

-----------------------------------------------------------------------------
(* What each step asks *)

Flawed(fs, bad) == {f \in fs : field[f] \in bad}

SelectedMail == IF notified \in DOMAIN kin THEN kin[notified] ELSE "empty"

\* canProceed: the gate of Next.
CanProceed ==
    CASE step = 1 -> /\ Flawed({"person", "mail", "address", "work", "arrival"}, {"empty"}) = {}
                     /\ \A row \in DOMAIN kin : kin[row] # "empty"
      [] step = 2 -> /\ Flawed({"category", "issue"}, {"empty"}) = {}
                     /\ IF filedBy = "NEXT_OF_KIN" THEN SelectedMail # "empty"
                                                   ELSE field["mail"] # "empty"
      [] OTHER    -> TRUE

\* Mutation: the dates of the employment are left to the server.
StepOneErrorsBut == Flawed({"person"}, {"empty", "odd"})
                    \cup Flawed({"mail", "address", "work", "arrival"}, {"empty"})
                    \cup (IF \E row \in DOMAIN kin : kin[row] = "empty" THEN {"kin"} ELSE {})

\* validateStep: what Next refuses, by field.
StepOneErrors == Flawed({"person", "start", "end"}, {"empty", "odd"})
                 \cup Flawed({"mail", "address", "work", "arrival"}, {"empty"})
                 \cup (IF \E row \in DOMAIN kin : kin[row] = "empty" THEN {"kin"} ELSE {})
StepTwoErrors == Flawed({"category", "issue"}, {"empty"})
                 \cup (IF filedBy = "NEXT_OF_KIN"
                       THEN IF SelectedMail \in {"empty", "odd"} THEN {"kin"} ELSE {}
                       ELSE Flawed({"mail"}, {"empty", "odd"}))
StepErrors == IF step = 1 THEN StepOneErrors ELSE StepTwoErrors

\* canSubmit: the gate of Create Case.
CanSubmit ==
    /\ Flawed({"person", "category", "issue", "summary"}, {"empty"}) = {}
    /\ (IF filedBy = "NEXT_OF_KIN" THEN SelectedMail ELSE field["mail"]) # "empty"
    /\ source = "existing" \/ field["consent"] = "ok"

\* StoreCaseRequest: what the server refuses.
ServerErrors == Flawed(Fields, {"odd", "strict"})
                \cup Flawed(Fields \ (ConsentField \cup StoryField), {"empty"})
                \cup (IF \E row \in DOMAIN kin : kin[row] # "ok" THEN {"kin"} ELSE {})

-----------------------------------------------------------------------------
(* The page opens *)

\* fillFromClient: parts the record does not have stay as they are in the form.
\* The picker's record carries no dates of employment: the work counts as present.
FilledFrom(record, dated, old) ==
    [f \in Fields |->
        CASE f \in {"person", "mail"} -> "ok"
          [] f = "address" /\ record \in HasAddress -> "ok"
          [] f \in {"work", "arrival", "end"} /\ record \in HasWork -> "ok"
          [] f = "start" /\ record \in HasWork -> IF dated THEN "ok" ELSE "empty"
          [] OTHER -> old[f]]

Blank == [f \in Fields |-> "empty"]

\* An OFW's own record, or the one staff come from, fills the page on arrival, its kin
\* excepted, which come under another name than the filler reads.  A next of kin's account,
\* and staff who come from the record of a next of kin, begin with the list of clients.
Init ==
    /\ filer \in Filers
    /\ kin = <<>> /\ filedBy = "OFW" /\ notified = 0
    /\ \/ \E record \in CASE filer = "ofw" -> {OwnRecord} [] filer = "staff" -> Records [] OTHER -> {} :
            /\ step = 2 /\ source = "existing" /\ picked = {record}
            /\ field = FilledFrom(record, TRUE, Blank) /\ whose = record
       \/ /\ filer # "ofw"
          /\ step = 1 /\ source \in (IF filer = "kin" THEN {"existing"} ELSE {"new", "existing"})
          /\ picked = {} /\ field = Blank /\ whose = "nobody"
    /\ asking = FALSE /\ sending = FALSE
    /\ stored = {} /\ walked = {} /\ choices = 0

\* The person can work on the page: no request is under way and no dialog is open.
Free == ~sending /\ ~asking /\ stored = {}

-----------------------------------------------------------------------------
(* The client *)

\* A client confirmed in the profile summary: fill the form, go on to step 2.
Confirmed(record) ==
    /\ picked' = {record} /\ source' = "existing" /\ step' = 2
    /\ field' = FilledFrom(record, FALSE, field)
    /\ whose' = record
    /\ kin' = IF record \in HasKin THEN <<"ok">> ELSE kin
    /\ walked' = {} /\ choices' = choices + 1
    /\ UNCHANGED <<filer, filedBy, notified, asking, sending, stored>>

\* The picker answers staff only.
Pick(record) ==
    /\ Free /\ step = 1 /\ choices < MaxChoices /\ filer = "staff"
    /\ source = "existing"
    /\ Confirmed(record)

\* Linking the record that has the e-mail address typed for a new client.
LinkDuplicate(record) ==
    /\ Free /\ step = 1 /\ choices < MaxChoices /\ filer = "staff"
    /\ source = "new" /\ field["mail"] = "ok"
    /\ Confirmed(record)

\* Mutation: going over to a new client leaves selected_client_id in the form.
SwitchKeepsPick ==
    /\ Free /\ step = 1 /\ choices < MaxChoices /\ source = "existing"
    /\ source' = "new" /\ choices' = choices + 1
    /\ UNCHANGED <<filer, step, picked, form, asking, sending, stored, walked>>

SwitchToNew ==
    /\ Free /\ step = 1 /\ choices < MaxChoices /\ source = "existing"
    /\ source' = "new" /\ picked' = {} /\ choices' = choices + 1
    /\ UNCHANGED <<filer, step, form, asking, sending, stored, walked>>

SwitchToExisting ==
    /\ Free /\ step = 1 /\ choices < MaxChoices /\ source = "new"
    /\ source' = "existing" /\ choices' = choices + 1
    /\ UNCHANGED <<filer, step, picked, form, asking, sending, stored, walked>>

-----------------------------------------------------------------------------
(* Typing *)

\* Fields that are typed together, and on which step: the issue is on the third one too.
Group == [person |-> PersonFields, address |-> AddressFields, work |-> WorkFields,
          consent |-> ConsentField, about |-> AboutFields, issue |-> {"issue"},
          summary |-> StoryField]
GroupStep == [person |-> 1, address |-> 1, work |-> 1, consent |-> 1, about |-> 2, issue |-> 3,
              summary |-> 3]

\* The fields a rule can refuse for more than being empty.
CanBeOdd == {"person", "mail", "start", "end"}
CanBeStrict == {"person", "mail", "work", "arrival", "category", "summary"}

\* How much is wrong with what was filled in so far, outside a group.
Flaws(g) == Cardinality({f \in Fields \ Group[g] : field[f] \in {"odd", "strict"}})
            + Cardinality({row \in DOMAIN kin : kin[row] # "ok"})

\* What belongs to the client is on the page for a new one only.
Fill(g) ==
    /\ Free /\ step = GroupStep[g]
    /\ step = 1 => source = "new"
    /\ \E wrong \in UNION {kSubset(n, Group[g]) : n \in 0..(MaxFlaws - Flaws(g))},
          how \in {"empty", "odd", "strict"} :
         /\ how # "empty" => wrong # {}
         /\ how = "odd" => wrong \subseteq CanBeOdd
         /\ how = "strict" => wrong \subseteq CanBeStrict
         /\ field' = [f \in Fields |-> IF f \in wrong THEN how
                                       ELSE IF f \in Group[g] THEN "ok" ELSE field[f]]
    /\ whose' = IF g = "person" THEN "new" ELSE whose
    /\ walked' = walked \ {step}
    /\ UNCHANGED <<filer, step, source, picked, kin, filedBy, notified, asking, sending,
                   stored, choices>>

\* addNok and updateNokField: a row, with its e-mail address in some state.
AddKin(mail) ==
    /\ Free /\ step = 1 /\ source = "new" /\ Len(kin) < MaxKin
    /\ mail # "ok" => Flaws("consent") < MaxFlaws
    /\ kin' = Append(kin, mail)
    /\ walked' = walked \ {step}
    /\ UNCHANGED <<filer, step, source, picked, field, whose, filedBy, notified, asking, sending,
                   stored, choices>>

\* removeNok: the selected index stays what it was.
RemoveKin(row) ==
    /\ Free /\ step = 1 /\ source = "new"
    /\ kin' = RemoveAt(kin, row)
    /\ walked' = walked \ {step}
    /\ UNCHANGED <<filer, step, source, picked, field, whose, filedBy, notified, asking, sending,
                   stored, choices>>

FileFor(type) ==
    /\ Free /\ step = 2 /\ filedBy # type
    /\ filedBy' = type /\ walked' = walked \ {2}
    /\ UNCHANGED <<filer, step, source, picked, field, whose, kin, notified, asking, sending,
                   stored, choices>>

Notify(row) ==
    /\ Free /\ step = 2 /\ filedBy = "NEXT_OF_KIN" /\ notified # row
    /\ notified' = row /\ walked' = walked \ {2}
    /\ UNCHANGED <<filer, step, source, picked, field, whose, kin, filedBy, asking, sending,
                   stored, choices>>

-----------------------------------------------------------------------------
(* The steps *)

\* handleNext
GoOn ==
    /\ Free /\ step < 3 /\ CanProceed /\ StepErrors = {}
    /\ step' = step + 1 /\ walked' = walked \cup {step}
    /\ UNCHANGED <<filer, source, picked, form, asking, sending, stored, choices>>

\* handleBack
Back ==
    /\ Free /\ step > 1
    /\ step' = step - 1
    /\ UNCHANGED <<filer, source, picked, form, asking, sending, history>>

\* handleSubmit opens the summary, handleConfirmSubmit sends the form.
AskToCreate ==
    /\ Free /\ step = 3 /\ CanSubmit
    /\ asking' = TRUE
    /\ UNCHANGED <<filer, step, source, picked, form, sending, history>>

Dismiss ==
    /\ asking
    /\ asking' = FALSE
    /\ UNCHANGED <<filer, step, source, picked, form, sending, history>>

Confirm ==
    /\ asking
    /\ asking' = FALSE /\ sending' = TRUE
    /\ UNCHANGED <<filer, step, source, picked, form, history>>

-----------------------------------------------------------------------------
(* The server *)

\* resolveFilingClient: an OFW's case is always the own one; a picked client, a new
\* one, or the client of the filer's account follow in this order.  Staff have none.
Target ==
    CASE filer = "ofw" -> {OwnRecord}
      [] filer # "ofw" /\ picked # {} -> picked
      [] filer # "ofw" /\ picked = {} /\ source = "new" -> {"new"}
      [] filer = "kin" /\ picked = {} /\ source # "new" -> {"own"}
      [] OTHER -> {}

\* The case is created, and address, work and kin of its client are written over.
Created ==
    /\ sending /\ ServerErrors = {} /\ Target # {}
    /\ \E client \in Target : stored' = {[for |-> client, of |-> whose]}
    /\ sending' = FALSE
    /\ UNCHANGED <<filer, step, source, picked, form, asking, walked, choices>>

\* The page keeps its step and says the first of the messages in passing.
Refused ==
    /\ sending
    /\ ServerErrors # {} \/ Target = {}
    /\ sending' = FALSE
    /\ UNCHANGED <<filer, step, source, picked, form, asking, history>>

Lost ==
    /\ sending
    /\ sending' = FALSE
    /\ UNCHANGED <<filer, step, source, picked, form, asking, history>>

Next ==
    \/ \E r \in Records : Pick(r) \/ LinkDuplicate(r)
    \/ SwitchToNew \/ SwitchToExisting
    \/ \E g \in DOMAIN Group : Fill(g)
    \/ \E mail \in States : AddKin(mail)
    \/ \E row \in DOMAIN kin : RemoveKin(row) \/ Notify(row)
    \/ \E type \in {"OFW", "NEXT_OF_KIN"} : FileFor(type)
    \/ GoOn \/ Back \/ AskToCreate \/ Dismiss \/ Confirm
    \/ Created \/ Refused \/ Lost

Spec == Init /\ [][Next]_vars

-----------------------------------------------------------------------------
(* Properties *)

\* What the page has no rule about: what only the server knows, and the addresses of those
\* who are not notified.
LeftToServer ==
    Flawed(Fields, {"strict"})
    \cup (IF filedBy = "NEXT_OF_KIN" THEN Flawed({"mail"}, {"odd"}) ELSE {})
    \cup (IF \E row \in DOMAIN kin :
               \/ kin[row] = "strict"
               \/ kin[row] = "odd" /\ (filedBy = "OFW" \/ row # notified)
          THEN {"kin"} ELSE {})

\* Whoever walked both steps, changed nothing since and may press Create Case is refused by
\* the server for nothing the page has a rule about: only for lengths, addresses and
\* categories, and for the addresses of those who are not notified (validateStep and
\* canSubmit against StoreCaseRequest).
WalkedIsAccepted ==
    step = 3 /\ walked = {1, 2} /\ CanSubmit => ServerErrors \subseteq LeftToServer

\* A case that staff file is filed for the person on the page: for a client on record only
\* under that client's own name, and under a name typed for a new client only for a new one
\* (handleConfirmSubmit, resolveFilingClient).
FiledForItsPerson ==
    filer = "staff" => \A case \in stored :
        /\ case.for \in Records => case.of = case.for
        /\ case.of = "new" => case.for = "new"
=============================================================================
