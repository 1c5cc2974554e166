-------------------------- MODULE FormsOfAccounts --------------------------
(***************************************************************************)
(* Signing in, registering, and the forms of one's own account.            *)
(***************************************************************************)
EXTENDS FormKinds

(* Signing in. *)

LogIn == Saves(Visit)
LogInBox == Inline

StaffLogIn == Saves(Visit)
StaffLogInBox == Inline

\* processing is given back in onSuccess and onError, not in onFinish.
ForgotPassword == [Saves(Visit) EXCEPT !.frees = {"success", "error"}]
ForgotPasswordBox == Inline

\* A password or a code is emptied whatever becomes of it.
Secret(handler) == [Saves(handler) EXCEPT !.clears = {"finish"}]

ResetPassword == Secret(Visit)
ResetPasswordBox == Inline

ConfirmPassword == Secret(Visit)
ConfirmPasswordBox == Inline

\* One form for the code of the app, one for a recovery code.
MfaChallenge == Secret(Visit)
MfaChallengeBox == Frozen(Inline)

ResendVerification == [Saves(Visit) EXCEPT !.closes = {}]
ResendButton == Single(Picker)

----------------------------------------------------------------------------
(* Registering. *)

\* The steps, the review with its code, the account.
SubmitRegistration == Visit
RegistrationSteps == Inline

SendReviewCode == [Saves(Visit) EXCEPT !.closes = {}]
ReviewCodeButton == Single(Picker)

ConfirmRegistration == Visit
ReviewCodeBox == Frozen(Inline)

AcceptInvite == Visit
InviteBox == Inline

----------------------------------------------------------------------------
(* One's own account. *)

SaveOwnProfile == Saves(Guarded(Visit))
OwnProfileBox == Inline

\* The picture waits for a second press after it has been cropped.
SaveAvatar == Saves(Visit)
AvatarBox == Inline

SaveName == Saves(Visit)
NameBox == Inline

\* The new address, then the code sent to it.
SendEmailCode == Saves(Visit)
EmailBox == Inline
VerifyEmailCode == Saves(Visit)
EmailCodeBox == Frozen(Inline)

\* Resending gives its flag back in onSuccess and onError, not in onFinish.
ResendEmailCode == [Saves(Visit) EXCEPT !.closes = {}, !.frees = {"success", "error"}]

\* On a validation error the wrong one of the passwords is emptied.
UpdatePassword == [Saves(Visit) EXCEPT !.clears = {"success", "error"}]
PasswordBox == Inline

DeleteUser == Secret(Visit)
DeleteUserModal == Single(Modal)

----------------------------------------------------------------------------
(* Two-factor authentication. *)

\* fetch with a flag that the buttons, but not the handlers, look at.
EnableMfa == [Fetch EXCEPT !.returns = FALSE, !.creates = FALSE]
EnableButton == Single(Picker)
VerifyMfa == [Fetch EXCEPT !.returns = FALSE, !.creates = FALSE]
MfaCodeBox == Frozen(Waits(Hides(Single(Modal))))

\* Disabling and new codes ask for the password, which a refusal empties; its
\* buttons are disabled while one of them is on its way.
ConfirmMfaAction == [Secret(Fetch) EXCEPT !.returns = FALSE]
MfaPasswordModal == Single(Modal)

\* A step that needs a proof.  Cancel waits for the proof, the backdrop does
\* not, and Escape looks at the flag the dialog had when it was opened.
ProveAction == Saves(Fetch)
ProofDialog == Rearms(Frozen(Modal))

AccountForms ==
    [log_in           |-> Row(LogIn, LogInBox),
     staff_log_in     |-> Row(StaffLogIn, StaffLogInBox),
     forgot_password  |-> Row(ForgotPassword, ForgotPasswordBox),
     reset_password   |-> Row(ResetPassword, ResetPasswordBox),
     confirm_password |-> Row(ConfirmPassword, ConfirmPasswordBox),
     mfa_challenge    |-> Row(MfaChallenge, MfaChallengeBox),
     verify_resend    |-> Row(ResendVerification, ResendButton),
     register         |-> Row(SubmitRegistration, RegistrationSteps),
     register_code    |-> Row(SendReviewCode, ReviewCodeButton),
     register_confirm |-> Row(ConfirmRegistration, ReviewCodeBox),
     invite           |-> Row(AcceptInvite, InviteBox),
     own_profile      |-> Row(SaveOwnProfile, OwnProfileBox),
     avatar           |-> Row(SaveAvatar, AvatarBox),
     own_name         |-> Row(SaveName, NameBox),
     email_code       |-> Row(SendEmailCode, EmailBox),
     email_verify     |-> Row(VerifyEmailCode, EmailCodeBox),
     email_resend     |-> Row(ResendEmailCode, ResendButton),
     own_password     |-> Row(UpdatePassword, PasswordBox),
     delete_user      |-> Row(DeleteUser, DeleteUserModal),
     mfa_enable       |-> Row(EnableMfa, EnableButton),
     mfa_verify       |-> Row(VerifyMfa, MfaCodeBox),
     mfa_action       |-> Row(ConfirmMfaAction, MfaPasswordModal),
     mfa_proof        |-> Row(ProveAction, ProofDialog)]
=============================================================================
