---------------------------- MODULE FormsOfCases ----------------------------
(***************************************************************************)
(* The forms and dialogs of the case pages: a case, the list, the trash,   *)
(* the review of intake requests and the last step of a new case.          *)
(***************************************************************************)
EXTENDS FormKinds

(* Case/Show.jsx.  The page is about one case. *)

\* A document goes out as soon as it is chosen, from the button or the zone.
UploadDocument == At(Guarded(Visit), {"submit"})
DocumentZone == Single(Picker)

\* saving is given back in onSuccess and onError, not in onFinish.
SaveDetails == [Saves(Guarded(Visit)) EXCEPT !.frees = {"success", "error"}]

\* The backdrop and Cancel close it; opening takes the case's values again.
DetailsModal == Single(Modal)

\* A new issue is added from within the dialog; Enter does what the button does.
QuickAddIssue == Fetch
QuickAddBox == Single(Modal)

\* Open or close the case; the server may answer with a message.
ToggleStatus == Flashes(At(Unflagged(Visit), {"submit"}))

\* Archive and restore: no flag, and the server may answer with a message.
ArchiveCase == Flashes(At(Saves(Unflagged(Visit)), {"submit"}))

\* Archiving is not asked about: the button sends at once, and can be pressed again.
ArchiveButton == Pressable(Single(Picker))

\* Closing, reopening and taking the case out of the archive are.
CaseQuestions == Single(Question)

\* A referral or a document of the case is deleted; the dialog closes as it sends.
DeleteReferral == Flashes(At(Saves(Unflagged(Visit)), {"submit"}))
DeleteDocument == At(Saves(Unflagged(Visit)), {"submit"})
RowQuestions == Question

\* The reason is checked here and on the server.
DeleteArchived == Saves(Guarded(Visit))

\* Its backdrop hides the reason, Cancel drops it.
DeleteModal == [Single(Modal) EXCEPT !.drops = BOOLEAN, !.fresh = FALSE]

----------------------------------------------------------------------------
(* Case/Index.jsx, Case/Trash.jsx, Case/ReviewPending.jsx, Case/Create.jsx. *)

ListArchive == Flashes(At(Saves(Unflagged(Visit)), {"submit"}))

\* useForm's processing is not looked at; an error page leaves the dialog.
RestoreCase == [Saves(Unflagged(Visit)) EXCEPT !.closes = {"success", "error"}]
RestoreDialog == Question

\* Both answers to a request close the review itself, which is the list's.
ApproveRequest == Saves(Visit)
RejectRequest == Saves(Visit)

\* The review of one row: its state goes when it is closed.
ReviewModal == Remounts(Modal)

\* The reason is asked for in a ConfirmDialog over the review.
RejectDialog == Remounts(Asks(Modal))

QuickAddInReview == Fetch

\* The wizard's last button asks once more; a success leaves for the new case.
CreateCase == Guarded(Visit)

\* Back leads to the steps, where everything is still filled in.
CreateSummary == Hides(Single(Modal))

QuickAddInWizard == Fetch

CaseForms ==
    [case_upload   |-> Row(UploadDocument, DocumentZone),
     case_details  |-> Row(SaveDetails, DetailsModal),
     case_issue    |-> Row(QuickAddIssue, QuickAddBox),
     case_toggle   |-> Row(ToggleStatus, CaseQuestions),
     case_archive  |-> Row(ArchiveCase, ArchiveButton),
     case_unarchive |-> Row(ArchiveCase, CaseQuestions),
     case_referral |-> Row(DeleteReferral, RowQuestions),
     case_document |-> Row(DeleteDocument, RowQuestions),
     case_delete   |-> Row(DeleteArchived, DeleteModal),
     list_archive  |-> Row(ListArchive, Question),
     trash_restore |-> Row(RestoreCase, RestoreDialog),
     review_approve |-> Row(ApproveRequest, ReviewModal),
     review_reject |-> Row(RejectRequest, RejectDialog),
     review_issue  |-> Row(QuickAddInReview, QuickAddBox),
     create_case   |-> Row(CreateCase, CreateSummary),
     create_issue  |-> Row(QuickAddInWizard, QuickAddBox)]
=============================================================================
