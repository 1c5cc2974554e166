----------------------------- MODULE FormKinds -----------------------------
(***************************************************************************)
(* The kinds of forms and dialogs the front end is built from.  A form is  *)
(* a row: how its handler sends the text and what each callback does       *)
(* (Handlers), and when its dialog can be opened, typed in and left        *)
(* (Dialogs).  The modules FormsOf... describe every form in these words,  *)
(* PageForms is their behaviour.                                           *)
(*                                                                         *)
(* A visit goes through the router of the page, which has one visit in     *)
(* flight: a newer one interrupts it.  Validation errors reach onError, a  *)
(* redirect onSuccess, even when it carries a refusal, and every ending    *)
(* onFinish; an error page or a lost answer reaches nothing else.  A fetch *)
(* lives outside the router.                                               *)
(***************************************************************************)
EXTENDS TLC

Via == {"visit", "fetch"}
Ending == {"success", "error", "finish"}
Refusal == {"errors", "flash"}

Handlers ==
    [via : Via, returns : BOOLEAN, creates : BOOLEAN,
     clears : SUBSET (Ending \cup {"submit"}), closes : SUBSET (Ending \cup {"submit"}),
     frees : SUBSET Ending, refusals : SUBSET Refusal]

Dialogs ==
    [disables : BOOLEAN, latches : BOOLEAN, frozen : BOOLEAN, types : BOOLEAN,
     many : BOOLEAN, leave : {"free", "idle", "no"},
     drops : SUBSET BOOLEAN, fresh : BOOLEAN, rearms : BOOLEAN,
     remounts : BOOLEAN, home : BOOLEAN]

Row(handler, dialog) == handler @@ dialog

----------------------------------------------------------------------------
(* The handlers. *)

\* useForm or the router as the code mostly uses them: a success empties and
\* closes the form, and processing ends with the visit.
Visit ==
    [via |-> "visit", returns |-> FALSE, creates |-> TRUE,
     clears |-> {"success"}, closes |-> {"success"},
     frees |-> {"finish"}, refusals |-> {"errors"}]

\* The handler returns at once while it is busy.
Guarded(handler) == [handler EXCEPT !.returns = TRUE]

\* axios or fetch, with the busy flag given back in finally.
Fetch == [Guarded(Visit) EXCEPT !.via = "fetch"]

\* The server refuses by sending the page back with a message.
Flashes(handler) == [handler EXCEPT !.refusals = @ \cup {"flash"}]

\* The handler empties and closes the form at these moments.
At(handler, moments) == [handler EXCEPT !.clears = moments, !.closes = moments]

\* What is sent replaces what was there: sending it again changes nothing.
Saves(handler) == [handler EXCEPT !.creates = FALSE]

\* The handler keeps no busy flag.
Unflagged(handler) == [handler EXCEPT !.returns = FALSE, !.frees = {}]

----------------------------------------------------------------------------
(* The dialogs. *)

\* A modal opened for one of several rows and emptied when it opens.  Its
\* backdrop and its Cancel work at any time, its button not while it is busy.
Modal ==
    [disables |-> TRUE, latches |-> FALSE, frozen |-> FALSE, types |-> TRUE,
     many |-> TRUE, leave |-> "free", drops |-> {TRUE}, fresh |-> TRUE,
     rearms |-> FALSE, remounts |-> FALSE, home |-> FALSE]

\* The same for the one thing the page is about.
Single(dialog) == [dialog EXCEPT !.many = FALSE]

\* Leaving hides the text, and opening shows it again.
Hides(dialog) == [dialog EXCEPT !.drops = {FALSE}, !.fresh = FALSE]

\* It cannot be left while it is busy.
Waits(dialog) == [dialog EXCEPT !.leave = "idle"]

\* The component goes with the dialog, its text and its flags with it.
Remounts(dialog) == [dialog EXCEPT !.remounts = TRUE]

\* Opening it takes the busy flag back as well.
Rearms(dialog) == [dialog EXCEPT !.rearms = TRUE]

\* Nothing disables its button.
Pressable(dialog) == [dialog EXCEPT !.disables = FALSE]

\* ConfirmDialog: nothing to type, and a button that can be pressed once, until
\* the dialog is closed.
Question == Pressable([Modal EXCEPT !.types = FALSE, !.latches = TRUE])

\* A ConfirmDialog with a text in it.
Asks(dialog) == [dialog EXCEPT !.latches = TRUE, !.disables = FALSE]

\* Something is chosen, and the choice is sent at once.
Picker == [Modal EXCEPT !.types = FALSE]

\* A form that is part of the page and is never left.
Inline == [Single(Modal) EXCEPT !.leave = "no"]

\* A part of the page that can be addressed to something else than the page's subject.
Addressed(dialog) == [dialog EXCEPT !.many = TRUE, !.home = TRUE]

\* Its inputs are disabled while it is busy.
Frozen(dialog) == [dialog EXCEPT !.frozen = TRUE]
=============================================================================
