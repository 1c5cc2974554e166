-------------------------- MODULE FormsOfReferrals --------------------------
(***************************************************************************)
(* The forms and dialogs of a referral's page, the decision on the list of *)
(* referrals and the reminders of the overdue list.                        *)
(***************************************************************************)
EXTENDS FormKinds

(* Referral/Show.jsx: client requests. *)

\* Issue, replace or revoke the access link, one button for all.
AccessAction == [Guarded(Visit) EXCEPT !.closes = {}]
AccessButton == Single(Picker)

\* The actions of a request go through one function that does not look at its flag.
RequestAction == [Visit EXCEPT !.closes = {}]

\* Complete, cancel, reopen: buttons that are disabled while one is sent.
RequestButtons == Remounts(Picker)

\* The reply is emptied as it is sent, whatever becomes of it.
SendReply == [Guarded(Visit) EXCEPT !.clears = {"submit"}, !.closes = {}]

\* Choosing another request takes the card, and what was typed, away.
ReplyBox == Frozen(Remounts(Modal))

SaveReview == Saves(Guarded(Visit))
ReviewDocument == Remounts(Modal)

\* A new request, with its checklist.
CreateRequest == Visit
CreateRequestModal == Hides(Single(Modal))

----------------------------------------------------------------------------
(* Referral/Show.jsx: services and requirements. *)

\* Nothing keeps a second press away, and any ending empties and closes.
AddRequirement == Flashes(At(Unflagged(Visit), {"finish"}))
UpdateRequirement == Saves(AddRequirement)
RequirementInput == Pressable(Single(Modal))
RequirementEdits == Pressable(Modal)

\* The browser's own confirm() comes before it, and holds the page.
DeleteRequirement == Flashes(At(Saves(Unflagged(Visit)), {"submit"}))

\* A service is taken off the referral after the same confirm().
RemoveService == Flashes(At(Saves(Unflagged(Visit)), {"submit"}))

\* An option of the menu, which any ending closes; the server keeps one of each.
AddService == [Flashes(Saves(Visit)) EXCEPT !.closes = {"finish"}]
ServiceMenu == Pressable(Single(Picker))

----------------------------------------------------------------------------
(* Referral/Show.jsx: the thread, milestones, comments, documents, status. *)

\* The answer goes to the page's one draft, whichever referral it shows.
SendThreadMessage == [Fetch EXCEPT !.closes = {}]

ThreadModal == Frozen(Modal)

\* A milestone on a referral in the wrong state is refused by a message.
AddMilestone == Flashes(Visit)
MilestoneModal == Single(Modal)

\* postingComment is given back in onSuccess and onError, not in onFinish.
PostComment == [Guarded(Visit) EXCEPT !.frees = {"success", "error"}]

\* Reply empties the draft and names the comment it answers; cancelReply takes the name
\* back and keeps the draft, which then goes out as a comment of the referral.
CommentBox == Addressed(Inline)

UploadToReferral == [Visit EXCEPT !.closes = {}]
UploadInput == Inline

\* A decision or a new status is refused by a message.
Decide == Flashes(Saves(Guarded(Visit)))
DecisionModal == [Single(Modal) EXCEPT !.drops = BOOLEAN, !.fresh = FALSE]
StatusModal == Single(Modal)

\* It closes when the server answers, not on an error page.
RemoveAttachment == [Flashes(Saves(Unflagged(Visit))) EXCEPT !.closes = {"success", "error"}]

----------------------------------------------------------------------------
(* Referral/Index.jsx, Admin/OverdueReferrals/Index.jsx, Referral/Create.jsx. *)

\* The wizard's last step; a success leaves for the new referral.
SubmitReferral == Visit
ReferralSteps == Inline

DecideFromList == Flashes(Saves(Guarded(Visit)))
ListDecisionModal == Modal

\* It closes as it sends; its button waits for the reminders on their way.
SendReminders == At(Visit, {"submit"})
ReminderDialog == [Modal EXCEPT !.types = FALSE]

ReferralForms ==
    [request_access   |-> Row(AccessAction, AccessButton),
     request_action   |-> Row(RequestAction, RequestButtons),
     request_reply    |-> Row(SendReply, ReplyBox),
     request_review   |-> Row(SaveReview, ReviewDocument),
     request_create   |-> Row(CreateRequest, CreateRequestModal),
     requirement_add  |-> Row(AddRequirement, RequirementInput),
     requirement_edit |-> Row(UpdateRequirement, RequirementEdits),
     requirement_del  |-> Row(DeleteRequirement, Picker),
     service_add      |-> Row(AddService, ServiceMenu),
     service_remove   |-> Row(RemoveService, Picker),
     thread           |-> Row(SendThreadMessage, ThreadModal),
     milestone        |-> Row(AddMilestone, MilestoneModal),
     comment          |-> Row(PostComment, CommentBox),
     referral_upload  |-> Row(UploadToReferral, UploadInput),
     referral_decide  |-> Row(Decide, DecisionModal),
     referral_status  |-> Row(Decide, StatusModal),
     attachment_remove |-> Row(RemoveAttachment, Question),
     referral_create  |-> Row(SubmitReferral, ReferralSteps),
     list_decide      |-> Row(DecideFromList, ListDecisionModal),
     overdue_send     |-> Row(SendReminders, ReminderDialog)]
=============================================================================
