------------------------------ MODULE MCFilings ------------------------------
(* The three pages on which something is filed in steps: one of them is open in *)
(* the tab, the variables of the others stay as they are.                       *)
EXTENDS CaseFiling

CONSTANTS Cases, Agencies, PageOf, MaxElsewhere,  \* as in ReferralFiling
          Mails, Taken, MaxTyped                  \* as in Registration

VARIABLES opened,  \* the page that is open
          referralStep, chosen, agency, recalled, listed, warned, timer, visit, referring, open,
          active, news, blind, gone, elsewhere,
          formStep, mail, emailStatus, keyTimer, probe, part, token, errors, registering, done, typed

Referral == INSTANCE ReferralFiling WITH step <- referralStep, sending <- referring

Account == INSTANCE Registration WITH
    step <- formStep, timer <- keyTimer, sending <- registering, gone <- done

referralVars == <<referralStep, chosen, agency, recalled, listed, warned, timer, visit, referring,
                  open, active, news, blind, gone, elsewhere>>
accountVars == <<formStep, mail, emailStatus, keyTimer, probe, part, token, errors, registering,
                 done, typed>>
all == <<opened, vars, referralVars, accountVars>>

\* A page that is not open begins in one way only.
FilingInit ==
    /\ opened \in {"case", "referral", "account"}
    /\ Init /\ (opened # "case" => filer = "staff" /\ source = "new")
    /\ Referral!Init /\ (opened # "referral" => chosen = {} /\ active = {})
    /\ Account!Init /\ (opened # "account" => mail = {})

FilingNext ==
    \/ opened = "case" /\ Next /\ UNCHANGED <<opened, referralVars, accountVars>>
    \/ opened = "referral" /\ Referral!Next /\ UNCHANGED <<opened, vars, accountVars>>
    \/ opened = "account" /\ Account!Next /\ UNCHANGED <<opened, vars, referralVars>>

FilingSpec == FilingInit /\ [][FilingNext]_all

-----------------------------------------------------------------------------
(* The properties of the two other pages *)

\* What the list knew to be referred is never sent (ReferralFiling).
SentIsUnreferred == Referral!SentIsUnreferred

\* What the registration says of an address is about the address typed (Registration).
StatusIsOfTyped == Account!StatusIsOfTyped

-----------------------------------------------------------------------------
(* Values for the constants *)

TwoRecords == {"full", "bare"}
OneFull == {"full"}
TwoCases == {"c1", "c2"}
TwoAgencies == {"a1", "a2"}
OnePerPage == [c \in TwoCases |-> IF c = "c1" THEN 1 ELSE 2]
TwoMails == {"known", "fresh"}
OneMail == {"known"}
=============================================================================
