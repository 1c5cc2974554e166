---------------------------- MODULE MCPageForms ----------------------------
(* The forms of the pages, and the question before their text is taken away: a  *)
(* behaviour looks at a form of PageForms or at a guarded form of UnsavedGuard, *)
(* the variables of the other stay as they are.                                 *)
EXTENDS PageForms, FormsOfCases, FormsOfReferrals, FormsOfClients,
        FormsOfAccounts, FormsOfAdmins, GuardedForms

CONSTANTS
    s1, s2,
    GuardTable, MaxGuarded, GuardKnown   \* Table, MaxTexts and Known of UnsavedGuard

TwoSubjects == {s1, s2}
AllForms == CaseForms @@ ReferralForms @@ ClientForms @@ AccountForms @@ AdminForms

(* The forms that fail a property as the code stands; README names them one by *)
(* one.  Everywhere else the property holds. *)

\* Emptied while the answer was a refusal or never came.
Emptied ==
    {"mfa_proof", "confirm_password", "delete_user", "mfa_action", "mfa_challenge",
     "own_password", "reset_password", "list_decide", "referral_decide",
     "referral_status", "milestone", "request_reply", "requirement_add",
     "requirement_edit"}

\* A second press, or the same text again, before the first was answered.
Doubled == {"requirement_add"}

\* A reply that is given up stays in the box, for everybody who reads the referral.
Misdirected == {"comment"}

\* Some ending gives neither the flag nor the button back.
DeadEnds ==
    {"attachment_remove", "case_details", "comment", "email_resend",
     "forgot_password", "invite_resend", "resend_code", "review_reject", "settings",
     "survey_delete", "trash_restore"}

KnownFaults ==
    [lost |-> Emptied, twice |-> Doubled, mixed |-> Misdirected, stuck |-> DeadEnds]

----------------------------------------------------------------------------
(* The guarded forms. *)

VARIABLES half, guarded, page, draft, saved, drafts, saving, bypass, allow, question, taken,
          agreed

Guard == INSTANCE UnsavedGuard WITH
    Table <- GuardTable, MaxTexts <- MaxGuarded, Known <- GuardKnown,
    form <- guarded, text <- draft, typed <- drafts, flight <- saving

guardVars == <<guarded, page, draft, saved, drafts, saving, bypass, allow, question, taken,
               agreed>>

GuardFaults ==
    [unasked |-> {<<"own_profile", "other">>} \cup
                 ({"own_profile", "agency_form", "user_form", "service_form"} \X {"tab"})]

\* The table is one that the theorem about the guard speaks of.
ASSUME GuardTableAssumption == Guard!TableHolds

----------------------------------------------------------------------------
\* The half that is not looked at begins in one way only, and stays there.
MCInit ==
    /\ half \in {"forms", "guard"}
    /\ Init /\ (half = "guard" => form = CHOOSE f \in DOMAIN Table : TRUE)
    /\ Guard!Init /\ (half = "forms" => guarded = CHOOSE f \in DOMAIN GuardTable : TRUE)
MCNext ==
    /\ UNCHANGED half
    /\ \/ half = "forms" /\ Next /\ UNCHANGED guardVars
       \/ half = "guard" /\ Guard!Next /\ UNCHANGED vars
MCSpec == MCInit /\ [][MCNext]_<<half, vars, guardVars>>

\* Unsaved text goes to no link and no closed tab without the question
\* (UnsavedGuard).
LeavingAsks == Guard!LeavingAsks
=============================================================================
