---------------------------- MODULE MCCasePages ----------------------------
(* The pages of a case, and two parts of a page that talk to the server beside *)
(* it, the notifications and the chat: a behaviour looks at one of the three,  *)
(* the variables of the others stay as they are.                               *)
EXTENDS CasePages

CONSTANTS
    n1, n2,
    MaxQuestions   \* the bound of Assistant

VARIABLES part,
          place, chosen, loading, failed, shown, fetches, marking, patches, unread, events,
          transcript, asked, current, busy, requests, context, verified, kept, widget, token,
          window

Everybody == {"case_manager", "admin", "agency", "owner"}

TwoNotes == {n1, n2}
OnePerPage == [n \in TwoNotes |-> IF n = n1 THEN 1 ELSE 2]
Feed == INSTANCE NotificationFeed WITH
    Notes <- TwoNotes, PageOf <- OnePerPage, MaxFlight <- 2, MaxEvents <- 4,
    asked <- chosen

Chat == INSTANCE Assistant

feedVars == <<place, chosen, loading, failed, shown, fetches, marking, patches, unread, events>>
chatVars == <<transcript, asked, current, busy, requests, context, verified, kept, widget,
              token, window>>

\* A part that is not looked at begins in one way only.
MCInit ==
    /\ part \in {"case", "feed", "chat"}
    /\ Init /\ (part # "case" => viewer = CHOOSE v \in Viewers : TRUE)
    /\ Feed!Init /\ (part # "feed" => place = "bell" /\ unread = {})
    /\ Chat!Init /\ (part # "chat" => verified /\ window)
MCNext ==
    /\ UNCHANGED part
    /\ \/ part = "case" /\ Next /\ UNCHANGED <<feedVars, chatVars>>
       \/ part = "feed" /\ Feed!Next /\ UNCHANGED <<vars, chatVars>>
       \/ part = "chat" /\ Chat!Next /\ UNCHANGED <<vars, feedVars>>
MCSpec == MCInit /\ [][MCNext]_<<part, vars, feedVars, chatVars>> /\ Feed!Fairness

\* The lists of notifications come to show what the server has (NotificationFeed).
FeedSettles == Feed!FeedSettles

\* Answers stand after their questions, in the conversation they belong to
\* (Assistant).
AnswersOwnQuestion == Chat!AnswersOwnQuestion
=============================================================================
