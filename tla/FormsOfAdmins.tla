--------------------------- MODULE FormsOfAdmins ---------------------------
(***************************************************************************)
(* The administrator's forms, and an agency's own services.                *)
(***************************************************************************)
EXTENDS FormKinds

(* Modals the page mounts for one row: useForm, and onClose on success. *)

SaveUser == Saves(Visit)
InviteUser == Visit
UserModal == Remounts(Modal)

SaveAgency == Visit
AgencyModal == Remounts(Modal)

SaveService == Visit
ServiceModal == Remounts(Modal)

SaveStatus == Visit
StatusForm == Remounts(Modal)

SaveCategory == Visit
CategoryModal == Remounts(Modal)

SaveIssue == Visit
IssueModal == Remounts(Modal)

----------------------------------------------------------------------------
(* An agency's page and the settings. *)

\* The agency is edited in the page itself; nothing but Cancel leaves it.
SaveAgencyPage == Saves(Visit)
AgencyPageForm == Single(Modal)

\* A setting that deletes sooner is asked about; the page keeps no busy flag.
SaveSettings == [Saves(Unflagged(Visit)) EXCEPT !.closes = {"success", "error"}]
SettingsDialog == Asks(Hides(Single(Modal)))

\* A setting that needs no question is sent at once.
SaveSettingsNow == Saves(Unflagged(Visit))
SettingsBox == Pressable(Inline)

----------------------------------------------------------------------------
(* An agency's services. *)

CreateOwnService == Guarded(Visit)
CreateServiceModal == Single(Modal)
UpdateOwnService == Saves(Guarded(Visit))
EditServiceModal == Modal

\* The dialog closes as it sends; its target goes when the server has deleted it.
DeleteOwnService == [Saves(Guarded(Visit)) EXCEPT !.closes = {"submit", "success"}]

\* The options are passed as the data of the visit, so no callback is registered: the
\* page that comes back is mounted anew, and nothing else takes the flag back.
ResendInvite == [Flashes(At(Saves(Visit), {"success", "error"})) EXCEPT !.frees = {"success", "error"}]
ResendInviteButton == Single(Picker)

----------------------------------------------------------------------------
(* Questions on the rows of the administrator's lists: they close as they send *)
(* and keep no flag. *)

Ask == Flashes(At(Saves(Unflagged(Visit)), {"submit"}))

UserQuestions == Question
AgencyQuestions == Question
AgencyPageQuestions == Question
ServiceQuestions == Question
IssueQuestions == Question
CategoryQuestions == Question
StatusQuestions == Question
RetryQuestion == Question
MaintenanceQuestion == Single(Question)

AdminForms ==
    [user_edit       |-> Row(SaveUser, UserModal),
     user_invite     |-> Row(InviteUser, UserModal),
     agency_form     |-> Row(SaveAgency, AgencyModal),
     service_form    |-> Row(SaveService, ServiceModal),
     status_form     |-> Row(SaveStatus, StatusForm),
     category_form   |-> Row(SaveCategory, CategoryModal),
     issue_form      |-> Row(SaveIssue, IssueModal),
     agency_page     |-> Row(SaveAgencyPage, AgencyPageForm),
     settings        |-> Row(SaveSettings, SettingsDialog),
     settings_now    |-> Row(SaveSettingsNow, SettingsBox),
     own_service_new |-> Row(CreateOwnService, CreateServiceModal),
     own_service_edit |-> Row(UpdateOwnService, EditServiceModal),
     own_service_del |-> Row(DeleteOwnService, Question),
     invite_resend   |-> Row(ResendInvite, ResendInviteButton),
     ask_user        |-> Row(Ask, UserQuestions),
     ask_agency      |-> Row(Ask, AgencyQuestions),
     ask_agency_page |-> Row(Ask, AgencyPageQuestions),
     ask_service     |-> Row(Ask, ServiceQuestions),
     ask_issue       |-> Row(Ask, IssueQuestions),
     ask_category    |-> Row(Ask, CategoryQuestions),
     ask_status      |-> Row(Ask, StatusQuestions),
     ask_retry       |-> Row(Ask, RetryQuestion),
     ask_maintenance |-> Row(Ask, MaintenanceQuestion)]
=============================================================================
