--------------------------- MODULE FormsOfClients ---------------------------
(***************************************************************************)
(* The forms of the public site and of the client portal, and the surveys. *)
(***************************************************************************)
EXTENDS FormKinds

(* Tracking: the code by e-mail, the page of a request. *)

\* Asking for a code; the browser is then on the page that takes it.
SendCode == Saves(Visit)
TrackingBox == Inline

VerifyCode == Saves(Visit)
CodeBox == Frozen(Inline)

\* Resending gives its flag back in onSuccess and onError, not in onFinish.
ResendCode == [Saves(Visit) EXCEPT !.closes = {}, !.frees = {"success", "error"}]

\* The link of 30 seconds ago can be pressed again.
ResendLink == Single(Picker)

\* The client's answer to an agency's request.
ClientReply == [Guarded(Visit) EXCEPT !.closes = {}]
ClientReplyBox == Frozen(Inline)

\* A file for one item of the checklist; one upload at a time for all of them.
ClientUpload == At(Visit, {"submit"})
ChecklistInput == Picker

\* Asking the agency for a new link.
AskReplacement == [Guarded(Visit) EXCEPT !.closes = {}]

\* A survey is answered once: the page then thanks for it.
SubmitSurvey == Visit
SurveyQuestions == Inline

\* The message to the office; its thanks take the place of the form.
SendContact == Visit
ContactForm == Inline

----------------------------------------------------------------------------
(* The portal of an OFW. *)

FileIntake == Guarded(Visit)
IntakeForm == Inline

\* What was saved comes back as the form's values.
SaveProfile == Saves(Guarded(Visit))
ProfileForm == Inline

\* ProfilePictureUpload: the picture chosen stays chosen after it was saved.
SavePicture == [At(Saves(Visit), {}) EXCEPT !.frees = {"error", "finish"}]
PictureBox == Waits(Single(Modal))

----------------------------------------------------------------------------
(* The surveys of an agency. *)

SaveSurveyForm == Visit
SurveyBuilder == Inline

\* It closes when the server answers, and deleting is not looked at.
DeleteSurveyForm == [Saves(Visit) EXCEPT !.closes = {"success", "error"}]

\* One form is active: the button of the form being activated is disabled.
ActivateForm == At(Saves(Visit), {})

ClientForms ==
    [track_code     |-> Row(SendCode, TrackingBox),
     verify_code    |-> Row(VerifyCode, CodeBox),
     resend_code    |-> Row(ResendCode, ResendLink),
     client_reply   |-> Row(ClientReply, ClientReplyBox),
     client_upload  |-> Row(ClientUpload, ChecklistInput),
     client_replace |-> Row(AskReplacement, Single(Picker)),
     survey_answer  |-> Row(SubmitSurvey, SurveyQuestions),
     contact        |-> Row(SendContact, ContactForm),
     intake         |-> Row(FileIntake, IntakeForm),
     ofw_profile    |-> Row(SaveProfile, ProfileForm),
     client_picture |-> Row(SavePicture, PictureBox),
     survey_build   |-> Row(SaveSurveyForm, SurveyBuilder),
     survey_delete  |-> Row(DeleteSurveyForm, Question),
     survey_activate |-> Row(ActivateForm, Picker)]
=============================================================================
