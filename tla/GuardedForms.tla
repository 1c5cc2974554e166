---------------------------- MODULE GuardedForms ----------------------------
(* The forms that useUnsavedChanges guards, page by page. *)
EXTENDS TLC

\* A form in its page: it checks first, then arms the bypass, and stays.
OnPage == [early |-> FALSE, checks |-> TRUE, neighbour |-> FALSE, covered |-> FALSE,
           stays |-> TRUE, visits |-> {}, reloads |-> FALSE]

\* A dialog over its page.
Overlay == [OnPage EXCEPT !.covered = TRUE]

Early(guarded) == [guarded EXCEPT !.early = TRUE]
Unchecked(guarded) == [guarded EXCEPT !.checks = FALSE]
Leaving(guarded) == [guarded EXCEPT !.stays = FALSE]
Visiting(guarded, kinds) == [guarded EXCEPT !.visits = kinds]

\* The profile arms it before it checks, and so does the password form below it.
OwnProfileGuard == [Early(OnPage) EXCEPT !.neighbour = TRUE]

OfwProfileGuard == OnPage

\* The search for a code leads to the page that takes it.
PortalGuard == Leaving(OnPage)

\* Searching and paging through the cases goes by router.get with the page's state.
ReferralGuard == Visiting(Leaving(OnPage), {"search"})

\* Nothing is checked before it is sent.
SettingsGuard == Unchecked(OnPage)

\* The agency's page is paged through while it is edited.
AgencyPageGuard == Visiting(Unchecked(OnPage), {"search"})

\* An upload that was started before the dialog was opened reloads the case.
CaseDetailsGuard == Visiting(Unchecked(Overlay), {"reload"})

\* The dialogs of the lists; a search typed just before starts a moment later.
AgencyModalGuard == Visiting(Early(Overlay), {"search"})

\* Creating a user reloads the list from the callback.
UserModalGuard == [Visiting(Early(Overlay), {"search"}) EXCEPT !.reloads = TRUE]

ServiceModalGuard == Early(Overlay)
CategoryModalGuard == Overlay
IssueModalGuard == Overlay
StatusModalGuard == Overlay

GuardedForms ==
    [own_profile     |-> OwnProfileGuard,
     ofw_profile     |-> OfwProfileGuard,
     portal          |-> PortalGuard,
     referral_create |-> ReferralGuard,
     settings        |-> SettingsGuard,
     agency_page     |-> AgencyPageGuard,
     case_details    |-> CaseDetailsGuard,
     agency_form     |-> AgencyModalGuard,
     user_form       |-> UserModalGuard,
     service_form    |-> ServiceModalGuard,
     category_form   |-> CategoryModalGuard,
     issue_form      |-> IssueModalGuard,
     status_form     |-> StatusModalGuard]
=============================================================================
