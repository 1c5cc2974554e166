---------------------------- MODULE Filings_proofs ----------------------------
(* Proofs about the three pages side by side: those of CaseFiling carry over,   *)
(* and those of ReferralFiling and Registration follow, for every set of cases, *)
(* agencies and addresses, every way the cases are spread over the pages, any   *)
(* number of changes by others and any amount of typing.                        *)
EXTENDS MCFilings, CaseFiling_proofs

----------------------------------------------------------------------------
(* The case. *)

\* A step of the open page is a step of the case's page, or leaves it alone.
LEMMA CaseSteps == [FilingNext]_all => [Next]_vars
  BY DEF FilingNext, all

\* Beside the two other pages too, whoever walked the first two steps of a case
\* is refused only for what validateStep leaves to StoreCaseRequest.
THEOREM WalkAcceptedHere == FilingSpec => []WalkedIsAccepted
<1>1. FilingInit => StepInv
  BY InitSteps DEF FilingInit
<1>2. StepInv /\ [FilingNext]_all => StepInv'
  BY CaseSteps, NextSteps
<1> QED BY <1>1, <1>2, StepsAccepted, PTL DEF FilingSpec

\* Beside the two other pages too, a case that staff file is for the person on
\* the page (resolveFilingClient).
THEOREM FiledRightHere == FilingSpec => []FiledForItsPerson
<1>1. FilingInit => PersonInv
  BY InitPerson DEF FilingInit
<1>2. PersonInv /\ [FilingNext]_all => PersonInv'
  BY CaseSteps, NextPerson
<1>3. PersonInv => FiledForItsPerson
  BY DEF PersonInv
<1> QED BY <1>1, <1>2, <1>3, PTL DEF FilingSpec

----------------------------------------------------------------------------
(* The referral. *)

\* While the page is there it knows every active referral of the cases on its
\* list, but for those made by others since it was told.
ListKnows ==
    ~gone => \A pair \in active : pair[1] \in listed => pair \in warned \cup news

\* A pair settled with its case on the list is free but for what others did since.
SettledIsFree ==
    (~gone /\ referralStep = 3 /\ ~blind) => (chosen \X agency) \cap active \subseteq news

\* A submission comes from the last step and leaves no visit of the list behind.
SendsFromLast == referring => referralStep = 3 /\ visit = {} /\ ~gone

ReferralTyped ==
    /\ active \subseteq Referral!Pairs /\ referralStep \in 1..3
    /\ chosen \subseteq Cases /\ agency \subseteq Agencies

ReferralInv == ReferralTyped /\ ListKnows /\ SettledIsFree /\ SendsFromLast

LEMMA InitReferral == Referral!Init => ReferralInv
<1> SUFFICES ASSUME Referral!Init PROVE ReferralInv
  OBVIOUS
<1>1. ReferralTyped /\ SettledIsFree /\ SendsFromLast
  BY DEF Referral!Init, ReferralTyped, Referral!Pairs, SettledIsFree, SendsFromLast
<1>2. ListKnows
  BY DEF Referral!Init, ListKnows, Referral!Told
<1> QED BY <1>1, <1>2 DEF ReferralInv

\* The pair that goes on to the last step was on the list, and not referred there.
LEMMA LeaveAgenciesSettles ==
    ASSUME ReferralInv, Referral!LeaveAgencies PROVE SettledIsFree'
<1> SUFFICES ASSUME chosen \subseteq listed,
                    NEW pair \in (chosen \X agency) \cap active
             PROVE  pair \in news
  BY DEF Referral!LeaveAgencies, SettledIsFree, Referral!server
<1>1. pair[1] \in chosen /\ pair[2] \in agency /\ pair[1] \in listed
  OBVIOUS
<1>2. pair \in warned \cup news
  BY <1>1 DEF ReferralInv, ListKnows, Referral!LeaveAgencies, Referral!Here
<1>3. pair \notin warned
  BY <1>1 DEF Referral!LeaveAgencies, Referral!Referred
<1> QED BY <1>2, <1>3

LEMMA NextReferral == ASSUME ReferralInv, Referral!Next \/ UNCHANGED referralVars PROVE ReferralInv'
<1> USE DEF ReferralInv, ReferralTyped, ListKnows, SettledIsFree, SendsFromLast,
            Referral!Here, Referral!page, Referral!list, Referral!server
<1>1. ASSUME NEW p \in Referral!Pages, Referral!TurnTo(p) \/ Referral!Search(p) PROVE ReferralInv'
  BY <1>1 DEF Referral!TurnTo, Referral!Search
<1>2. CASE Referral!TimerFires
  BY <1>2 DEF Referral!TimerFires
<1>3. CASE Referral!Answer
  <2>1. ReferralTyped' /\ SendsFromLast' /\ SettledIsFree'
    BY <1>3 DEF Referral!Answer
  <2>2. ListKnows'
    BY <1>3 DEF Referral!Answer, Referral!Told
  <2> QED BY <2>1, <2>2
<1>4. ASSUME NEW c \in Cases, Referral!PickCase(c) PROVE ReferralInv'
  BY <1>4 DEF Referral!PickCase
<1>5. ASSUME NEW c \in Cases, Referral!OthersClose(c) PROVE ReferralInv'
  BY <1>5 DEF Referral!OthersClose
<1>6. ASSUME NEW a \in Agencies, Referral!PickAgency(a) PROVE ReferralInv'
  BY <1>6 DEF Referral!PickAgency
<1>7. CASE Referral!LeaveCases
  BY <1>7 DEF Referral!LeaveCases
<1>8. CASE Referral!LeaveAgencies
  <2>1. ReferralTyped' /\ SendsFromLast' /\ ListKnows'
    BY <1>8 DEF Referral!LeaveAgencies
  <2> QED BY <1>8, <2>1, LeaveAgenciesSettles
<1>9. CASE Referral!Back
  BY <1>9 DEF Referral!Back
<1>10. CASE Referral!Submit
  BY <1>10 DEF Referral!Submit
<1>11. CASE Referral!Created
  <2>1. gone' /\ ~referring' /\ referralStep' = referralStep
    BY <1>11 DEF Referral!Created
  <2>2. ListKnows' /\ SettledIsFree' /\ SendsFromLast'
    BY <2>1
  <2>3. ReferralTyped'
    BY <1>11 DEF Referral!Created, Referral!Pairs
  <2> QED BY <2>2, <2>3
<1>12. CASE Referral!Refused \/ Referral!Lost
  BY <1>12 DEF Referral!Refused, Referral!Lost
<1>13. ASSUME NEW pair \in Referral!Pairs, Referral!OthersRefer(pair) PROVE ReferralInv'
  BY <1>13 DEF Referral!OthersRefer
<1>14. ASSUME NEW pair \in Referral!Pairs, Referral!OthersFinish(pair) PROVE ReferralInv'
  BY <1>14 DEF Referral!OthersFinish
<1>15. CASE UNCHANGED referralVars
  BY <1>15 DEF referralVars
<1> QED
  BY <1>1, <1>2, <1>3, <1>4, <1>5, <1>6, <1>7, <1>8, <1>9, <1>10, <1>11, <1>12, <1>13,
     <1>14, <1>15 DEF Referral!Next

\* What the list showed as referred is never submitted: between the check of the
\* agency step (selectedAgencyIsReferred) and the server's answer only others can
\* have referred the pair, wherever the list was turned or searched meanwhile.
THEOREM SentCorrect == FilingSpec => []SentIsUnreferred
<1>1. FilingInit => ReferralInv
  BY InitReferral DEF FilingInit
<1>2. ReferralInv /\ [FilingNext]_all => ReferralInv'
  BY NextReferral DEF FilingNext, all
<1>3. ReferralInv => SentIsUnreferred
  BY DEF ReferralInv, SettledIsFree, SendsFromLast, SentIsUnreferred, Referral!SentIsUnreferred
<1> QED BY <1>1, <1>2, <1>3, PTL DEF FilingSpec

----------------------------------------------------------------------------
(* The registration. *)


\* One probe at most is due or under way, and it is about the address in the
\* field; when there is none, the status is about that address.
Probes ==
    /\ mail = {} \/ \E a \in Mails : mail = {a}
    /\ keyTimer \in BOOLEAN
    /\ probe \subseteq mail
    /\ keyTimer => probe = {} /\ mail # {}
    /\ mail = {} => emailStatus = "unknown"

AccountInv == Probes /\ Account!StatusIsOfTyped

LEMMA InitAccount == Account!Init => AccountInv
  BY DEF Account!Init, AccountInv, Probes, Account!StatusIsOfTyped

LEMMA NextAccount == ASSUME AccountInv, Account!Next \/ UNCHANGED accountVars PROVE AccountInv'
<1> USE DEF AccountInv, Probes, Account!StatusIsOfTyped
<1>1. ASSUME NEW m \in {{}} \cup {{a} : a \in Mails}, Account!TypeMail(m) PROVE AccountInv'
  BY <1>1 DEF Account!TypeMail
<1>2. CASE Account!ProbeStarts
  BY <1>2 DEF Account!ProbeStarts
\* The address whose probe answers is the one in the field.
<1>3. CASE Account!ProbeAnswers
  BY <1>3 DEF Account!ProbeAnswers
<1>4. CASE Account!ProbeFails
  BY <1>4 DEF Account!ProbeFails
<1>5. ASSUME UNCHANGED Account!probing PROVE AccountInv'
  BY <1>5 DEF Account!probing
<1>6. ASSUME NEW p \in Account!PartNames, Account!Fill(p) PROVE AccountInv'
  BY <1>6, <1>5 DEF Account!Fill
<1>7. CASE Account!GoOn \/ Account!Back \/ Account!Challenge \/ Account!Submit
  BY <1>7, <1>5 DEF Account!GoOn, Account!Back, Account!Challenge, Account!Submit
<1>8. CASE Account!Accepted \/ Account!Refused \/ Account!Lost
  BY <1>8, <1>5 DEF Account!Accepted, Account!Refused, Account!Lost
<1>9. CASE UNCHANGED accountVars
  BY <1>9, <1>5 DEF accountVars, Account!probing
<1> QED BY <1>1, <1>2, <1>3, <1>4, <1>6, <1>7, <1>8, <1>9 DEF Account!Next

\* What the page says of an address is about the address in the field, whatever
\* order the probes answer in: the effect on data.email aborts what is under way.
THEOREM StatusCorrect == FilingSpec => []StatusIsOfTyped
<1>1. FilingInit => AccountInv
  BY InitAccount DEF FilingInit
<1>2. AccountInv /\ [FilingNext]_all => AccountInv'
  BY NextAccount DEF FilingNext, all
<1>3. AccountInv => StatusIsOfTyped
  BY DEF AccountInv, StatusIsOfTyped
<1> QED BY <1>1, <1>2, <1>3, PTL DEF FilingSpec
=============================================================================
