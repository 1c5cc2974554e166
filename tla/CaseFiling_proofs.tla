-------------------------- MODULE CaseFiling_proofs --------------------------
(* Proofs about CaseFiling, for any records, any number of choices, of kin and  *)
(* of flaws in what is typed.                                                   *)
EXTENDS CaseFiling, SequenceTheorems, TLAPS

\* The fields and the kin hold what a field can hold, and odd only where the page has a rule.
FieldsTyped ==
    /\ step \in 1..3
    /\ kin \in Seq(States) /\ filedBy \in {"OFW", "NEXT_OF_KIN"}
    /\ field \in [Fields -> States]
    /\ \A f \in Fields : field[f] = "odd" => f \in CanBeOdd

----------------------------------------------------------------------------
(* The steps. *)

\* A step left by Next and not touched since has no errors: the first wherever
\* the person is, the second when the third is open, where the issue can be taken back.
StepsHold ==
    /\ 1 \in walked => StepOneErrors = {}
    /\ step = 3 => StepTwoErrors \subseteq {"issue"}

StepInv == FieldsTyped /\ StepsHold

\* What a group holds are fields, all of one step.
LEMMA GroupFields ==
    ASSUME NEW g \in DOMAIN Group
    PROVE  Group[g] \subseteq Fields
  BY DEF Group, Fields, PersonFields, AddressFields, WorkFields, ConsentField, AboutFields,
     CategoryField, StoryField

\* What typing in a group leaves in the fields.
LEMMA Filling ==
    ASSUME NEW g \in DOMAIN Group, Fill(g), FieldsTyped
    PROVE  /\ field' \in [Fields -> States]
           /\ \A f \in Fields : field'[f] = "odd" => f \in CanBeOdd
           /\ \A f \in Fields : f \notin Group[g] => field'[f] = field[f]
<1>1. PICK wrong \in SUBSET Group[g], how \in {"empty", "odd", "strict"} :
        /\ how = "odd" => wrong \subseteq CanBeOdd
        /\ field' = [f \in Fields |-> IF f \in wrong THEN how
                                      ELSE IF f \in Group[g] THEN "ok" ELSE field[f]]
  BY DEF Fill, kSubset
<1>2. field' \in [Fields -> States]
  BY <1>1 DEF FieldsTyped, States
<1>3. \A f \in Fields : field'[f] = "odd" => f \in CanBeOdd
  BY <1>1 DEF FieldsTyped
<1>4. \A f \in Fields : f \notin Group[g] => field'[f] = field[f]
  BY <1>1
<1> QED BY <1>2, <1>3, <1>4

\* The fields of the first step are not typed on a later one, nor those of the second,
\* the issue excepted, on the third.
LEMMA TypedElsewhere ==
    ASSUME NEW g \in DOMAIN Group
    PROVE  /\ GroupStep[g] # 1 => Group[g] \subseteq {"category", "issue", "summary"}
           /\ GroupStep[g] = 3 => Group[g] \subseteq {"issue", "summary"}
  BY DEF Group, GroupStep, AboutFields, CategoryField, StoryField

LEMMA AppendTyped ==
    ASSUME kin \in Seq(States), NEW mail \in States PROVE Append(kin, mail) \in Seq(States)
  BY AppendProperties

LEMMA RemoveTyped ==
    ASSUME kin \in Seq(States), NEW row \in DOMAIN kin PROVE RemoveAt(kin, row) \in Seq(States)
<1>1. row \in 1..Len(kin) /\ Len(kin) \in Nat
  BY LenProperties
<1>2. SubSeq(kin, 1, row - 1) \in Seq(States)
  BY <1>1, SubSeqProperties
<1>3. SubSeq(kin, row + 1, Len(kin)) \in Seq(States)
  BY <1>1, SubSeqProperties
<1> QED BY <1>2, <1>3, ConcatProperties DEF RemoveAt

LEMMA FilledFromTyped ==
    ASSUME NEW record, NEW dated \in BOOLEAN, NEW old \in [Fields -> States],
           \A f \in Fields : old[f] = "odd" => f \in CanBeOdd
    PROVE  LET new == FilledFrom(record, dated, old) IN
           new \in [Fields -> States] /\ \A f \in Fields : new[f] = "odd" => f \in CanBeOdd
  BY DEF FilledFrom, States

LEMMA InitSteps == Init => StepInv
<1> SUFFICES ASSUME Init PROVE StepInv
  OBVIOUS
<1>1. Blank \in [Fields -> States] /\ \A f \in Fields : Blank[f] # "odd"
  BY DEF Blank, States
<1>2. (step = 1 \/ step = 2) /\ walked = {} /\ kin = <<>> /\ filedBy = "OFW"
  BY Zenon DEF Init
<1>3. field = Blank \/ \E record : field = FilledFrom(record, TRUE, Blank)
  BY Zenon DEF Init
<1>4. field \in [Fields -> States] /\ \A f \in Fields : field[f] = "odd" => f \in CanBeOdd
  <2>1. CASE field = Blank
    BY <1>1, <2>1
  <2>2. ASSUME NEW record, field = FilledFrom(record, TRUE, Blank)
        PROVE  field \in [Fields -> States] /\ \A f \in Fields : field[f] = "odd" => f \in CanBeOdd
    <3> DEFINE new == FilledFrom(record, TRUE, Blank)
    <3>1. new \in [Fields -> States] /\ \A f \in Fields : new[f] = "odd" => f \in CanBeOdd
      BY <1>1, FilledFromTyped
    <3> HIDE DEF new
    <3> QED BY <2>2, <3>1 DEF new
  <2> QED BY <1>3, <2>1, <2>2
<1>5. FieldsTyped
  BY <1>2, <1>4 DEF FieldsTyped
<1> QED BY <1>2, <1>5 DEF StepInv, StepsHold

\* The errors of a step depend on its fields, the kin and who is notified.
LEMMA SameErrors ==
    /\ UNCHANGED <<kin, field>> => StepOneErrors' = StepOneErrors
    /\ UNCHANGED <<kin, field, filedBy, notified>> => StepTwoErrors' = StepTwoErrors
  BY DEF StepOneErrors, StepTwoErrors, Flawed, SelectedMail

LEMMA NextSteps == ASSUME StepInv, [Next]_vars PROVE StepInv'
<1> USE DEF StepInv, StepsHold, FieldsTyped
\* A record fills the form and starts the walk again, at the second step.
<1>1. ASSUME NEW r \in Records, Confirmed(r) PROVE StepInv'
  <2>1. field' = FilledFrom(r, FALSE, field)
    BY <1>1 DEF Confirmed
  <2>2. field' \in [Fields -> States] /\ \A f \in Fields : field'[f] = "odd" => f \in CanBeOdd
    BY <2>1, FilledFromTyped
  <2>3. step' = 2 /\ walked' = {} /\ kin' \in Seq(States) /\ filedBy' = filedBy
    <3>1. <<"ok">> \in Seq(States)
      BY DEF States
    <3> QED BY <1>1, <3>1 DEF Confirmed
  <2> QED BY <2>2, <2>3
<1>2. ASSUME NEW r \in Records, Pick(r) \/ LinkDuplicate(r) PROVE StepInv'
  BY <1>1, <1>2 DEF Pick, LinkDuplicate
<1>3. ASSUME NEW g \in DOMAIN Group, Fill(g) PROVE StepInv'
  <2>1. FieldsTyped'
    BY <1>3, Filling DEF Fill
  <2>2. walked' = walked \ {step} /\ step' = step /\ UNCHANGED <<kin, filedBy, notified>>
    BY <1>3 DEF Fill
  <2>3. \A f \in Fields : f \notin Group[g] => field'[f] = field[f]
    BY <1>3, Filling
  <2>4. 1 \in walked' => StepOneErrors' = {}
    <3> SUFFICES ASSUME 1 \in walked, step # 1 PROVE StepOneErrors' = StepOneErrors
      BY <2>2
    <3>1. Group[g] \subseteq {"category", "issue", "summary"}
      BY <1>3, TypedElsewhere DEF Fill
    <3>2. \A f \in {"person", "start", "end", "mail", "address", "work", "arrival"} :
            f \in Fields /\ f \notin Group[g]
      BY <3>1 DEF Fields, PersonFields, AddressFields, WorkFields
    <3>3. \A f \in {"person", "start", "end", "mail", "address", "work", "arrival"} :
            field'[f] = field[f]
      BY <2>3, <3>2
    <3> QED BY <2>2, <3>3 DEF StepOneErrors, Flawed
  <2>5. step' = 3 => StepTwoErrors' \subseteq {"issue"}
    <3> SUFFICES ASSUME step = 3 PROVE StepTwoErrors' \subseteq {"issue"}
      BY <2>2
    <3>1. Group[g] \subseteq {"issue", "summary"}
      BY <1>3, TypedElsewhere DEF Fill
    <3>2. \A f \in {"category", "mail"} : f \in Fields /\ f \notin Group[g]
      BY <3>1 DEF Fields, PersonFields, AboutFields, CategoryField
    <3>3. \A f \in {"category", "mail"} : field'[f] = field[f]
      BY <2>3, <3>2
    <3>4. StepTwoErrors \subseteq {"issue"}
      OBVIOUS
    <3> QED BY <2>2, <3>3, <3>4 DEF StepTwoErrors, Flawed, SelectedMail
  <2> QED BY <2>1, <2>4, <2>5
\* The kin are edited on the first step, who files and is notified on the second.
<1>4. ASSUME NEW mail \in States, AddKin(mail) PROVE StepInv'
  BY <1>4, AppendTyped DEF AddKin
<1>5. ASSUME NEW k \in DOMAIN kin, RemoveKin(k) PROVE StepInv'
  BY <1>5, RemoveTyped DEF RemoveKin
<1>6. ASSUME NEW k \in DOMAIN kin, Notify(k) PROVE StepInv'
  BY <1>6, SameErrors DEF Notify
<1>7. ASSUME NEW type \in {"OFW", "NEXT_OF_KIN"}, FileFor(type) PROVE StepInv'
  BY <1>7, SameErrors DEF FileFor
<1>8. CASE GoOn
  BY <1>8, SameErrors DEF GoOn, StepErrors, form
<1>9. CASE Back
  BY <1>9, SameErrors DEF Back, form, history
<1>10. ASSUME UNCHANGED <<step, form, walked>> PROVE StepInv'
  BY <1>10, SameErrors DEF form
<1>11. CASE \/ SwitchToNew \/ SwitchToExisting \/ AskToCreate \/ Dismiss \/ Confirm
            \/ Created \/ Refused \/ Lost \/ UNCHANGED vars
  BY <1>10, <1>11 DEF SwitchToNew, SwitchToExisting, AskToCreate, Dismiss, Confirm, Created,
     Refused, Lost, vars, history, form
<1> QED BY <1>2, <1>3, <1>4, <1>5, <1>6, <1>7, <1>8, <1>9, <1>11 DEF Next

\* What the server refuses is what the page leaves to it.
LEMMA StepsAccepted == StepInv => WalkedIsAccepted
<1> SUFFICES ASSUME StepInv, step = 3, walked = {1, 2}, CanSubmit,
                    NEW e \in ServerErrors
             PROVE  e \in LeftToServer
  BY DEF WalkedIsAccepted
<1> USE DEF Flawed
<1>1. StepOneErrors = {} /\ StepTwoErrors \subseteq {"issue"}
  BY DEF StepInv, StepsHold
<1>2. \A f \in {"person", "start", "end"} : field[f] \notin {"empty", "odd"}
  BY <1>1 DEF StepOneErrors
<1>3. \A f \in {"mail", "address", "work", "arrival"} : field[f] # "empty"
  BY <1>1 DEF StepOneErrors
<1>4. field["category"] # "empty" /\ field["issue"] # "empty"
  BY DEF CanSubmit
<1>5. filedBy # "NEXT_OF_KIN" => field["mail"] # "odd"
  BY <1>1 DEF StepTwoErrors
<1>6. \A f \in Fields : field[f] = "odd" => f \in CanBeOdd
  BY DEF StepInv, FieldsTyped
\* A field that is refused is odd or strict, or an address the server looks at alone.
<1>7. ASSUME e \in Fields, field[e] = "strict" PROVE e \in LeftToServer
  BY <1>7 DEF LeftToServer
<1>8. ASSUME e \in Fields, field[e] = "odd" PROVE e \in LeftToServer
  <2>1. e = "mail"
    BY <1>2, <1>6, <1>8 DEF CanBeOdd
  <2> QED BY <1>5, <1>8, <2>1 DEF LeftToServer
<1>9. ASSUME e \in Fields \ (ConsentField \cup StoryField), field[e] = "empty" PROVE FALSE
  BY <1>2, <1>3, <1>4, <1>9 DEF Fields, PersonFields, AddressFields, WorkFields, ConsentField,
     AboutFields, CategoryField, StoryField
\* A row of kin is not empty, and the one notified is not odd.
<1>10. ASSUME NEW row \in DOMAIN kin, kin[row] # "ok", e = "kin" PROVE e \in LeftToServer
  <2>1. kin[row] \in States
    BY <1>10, ElementOfSeq, LenProperties DEF StepInv, FieldsTyped
  <2>2. kin[row] # "empty"
    BY <1>1, <1>10 DEF StepOneErrors
  <2>3. ASSUME kin[row] = "odd", filedBy # "OFW" PROVE row # notified
    <3>1. filedBy = "NEXT_OF_KIN"
      BY <2>3 DEF StepInv, FieldsTyped
    <3> QED BY <1>1, <1>10, <2>3, <3>1 DEF StepTwoErrors, SelectedMail
  <2> QED BY <1>10, <2>1, <2>2, <2>3 DEF LeftToServer, States
<1> QED BY <1>7, <1>8, <1>9, <1>10 DEF ServerErrors

\* Whoever walked the first two steps and may press Create Case is refused by the server
\* only for what the page has no rule about, whatever was gone back to, changed and walked
\* again (validateStep and canSubmit of Create.jsx against StoreCaseRequest).
THEOREM WalkAccepted == Spec => []WalkedIsAccepted
BY InitSteps, NextSteps, StepsAccepted, PTL DEF Spec

----------------------------------------------------------------------------
(* The person. *)

\* Of a page that staff use: a client picked is on record, and the person's data
\* on the page is that client's; a case that was stored is for its person.
PickedIsShown ==
    filer = "staff" =>
      picked = {} \/ \E r \in Records : /\ picked = {r} /\ source = "existing"
                                        /\ whose = r

PersonInv ==
    /\ picked \subseteq Records
    /\ PickedIsShown /\ FiledForItsPerson

LEMMA InitPerson == Init => PersonInv
<1> SUFFICES ASSUME Init PROVE PersonInv
  OBVIOUS
<1>1. stored = {} /\ OwnRecord \in Records
  BY RecordsAssumption DEF Init
<1>2. picked = {} \/ \E r \in Records : picked = {r} /\ source = "existing" /\ whose = r
  BY <1>1 DEF Init
<1> QED BY <1>1, <1>2 DEF PersonInv, PickedIsShown, FiledForItsPerson

LEMMA NextPerson == ASSUME PersonInv, [Next]_vars PROVE PersonInv'
<1> USE DEF PersonInv
\* Whoever picks a client gets that client's name on the page.
<1>1. ASSUME NEW r \in Records, Confirmed(r) PROVE PersonInv'
  <2>1. /\ picked' = {r} /\ source' = "existing" /\ whose' = r
        /\ UNCHANGED <<filer, stored>>
    BY <1>1 DEF Confirmed
  <2> QED BY <2>1 DEF PickedIsShown, FiledForItsPerson
<1>2. ASSUME NEW r \in Records, Pick(r) \/ LinkDuplicate(r) PROVE PersonInv'
  BY <1>1, <1>2 DEF Pick, LinkDuplicate
\* Whoever goes over to a new client gives the client picked up.
<1>3. CASE SwitchToNew
  BY <1>3 DEF SwitchToNew, form, PickedIsShown, FiledForItsPerson
\* No client is picked as long as the data is typed for a new one.
<1>4. CASE SwitchToExisting
  BY <1>4 DEF SwitchToExisting, form, PickedIsShown, FiledForItsPerson
<1>5. ASSUME UNCHANGED <<filer, picked, source, stored>>,
             source = "existing" => whose' = whose
      PROVE  PersonInv'
  BY <1>5 DEF PickedIsShown, FiledForItsPerson
<1>6. ASSUME NEW g \in DOMAIN Group, Fill(g) PROVE PersonInv'
  <2>1. g = "person" => source = "new"
    BY <1>6 DEF Fill, GroupStep
  <2> QED BY <1>5, <1>6, <2>1 DEF Fill
<1>7. ASSUME NEW mail \in States, AddKin(mail) PROVE PersonInv'
  BY <1>5, <1>7 DEF AddKin
<1>8. ASSUME NEW k \in DOMAIN kin, RemoveKin(k) PROVE PersonInv'
  BY <1>5, <1>8 DEF RemoveKin
<1>9. ASSUME UNCHANGED <<filer, picked, source, stored, whose>> PROVE PersonInv'
  BY <1>5, <1>9
<1>10. ASSUME NEW k \in DOMAIN kin, Notify(k) PROVE PersonInv'
  BY <1>9, <1>10 DEF Notify
<1>11. ASSUME NEW type, FileFor(type) PROVE PersonInv'
  BY <1>9, <1>11 DEF FileFor
<1>12. CASE GoOn \/ Back \/ AskToCreate \/ Dismiss \/ Confirm
  BY <1>9, <1>12 DEF GoOn, Back, AskToCreate, Dismiss, Confirm, form, history
\* The client of the case is the one picked, or a new one when none is.
<1>13. CASE Created
  <2>1. PICK client \in Target : stored' = {[for |-> client, of |-> whose]}
    BY <1>13 DEF Created
  <2>2. UNCHANGED <<filer, picked, source, whose>>
    BY <1>13 DEF Created, form
  <2>3. ASSUME filer = "staff"
        PROVE  /\ client \in Records => whose = client
               /\ whose = "new" => client = "new"
    <3>1. CASE picked = {}
      <4>1. client = "new"
        BY <2>1, <2>3, <3>1 DEF Target
      <4> QED BY <4>1, RecordsAssumption
    <3>2. ASSUME NEW r \in Records, picked = {r}, whose = r
          PROVE  /\ client \in Records => whose = client
                 /\ whose = "new" => client = "new"
      <4>1. client = r
        BY <2>1, <2>3, <3>2 DEF Target
      <4> QED BY <3>2, <4>1
    <3> QED BY <2>3, <3>1, <3>2 DEF PickedIsShown
  <2>4. FiledForItsPerson'
    BY <2>1, <2>2, <2>3 DEF FiledForItsPerson
  <2> QED BY <2>2, <2>4 DEF PickedIsShown
<1>14. CASE Refused \/ Lost \/ UNCHANGED vars
  BY <1>9, <1>14 DEF Refused, Lost, form, history, vars
<1> QED BY <1>2, <1>3, <1>4, <1>6, <1>7, <1>8, <1>10, <1>11, <1>12, <1>13, <1>14 DEF Next

\* A case that staff file is for the person whose name is on the page, however
\* often clients were picked, linked and given up before (resolveFilingClient
\* goes by selected_client_id, which a new client takes away).
THEOREM FiledRight == Spec => []FiledForItsPerson
<1>1. PersonInv => FiledForItsPerson
  BY DEF PersonInv
<1> QED BY InitPerson, NextPerson, <1>1, PTL DEF Spec
=============================================================================
