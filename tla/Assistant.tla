------------------------------ MODULE Assistant ------------------------------
(***************************************************************************)
(* The chat with the assistant: the transcript in the browser, one request *)
(* at a time, Clear chat while an answer is under way, and the challenge   *)
(* that stands before the first message and again when the server wants it.*)
(***************************************************************************)
EXTENDS Naturals, Sequences

CONSTANTS
    MaxQuestions   \* bound: questions sent or tried

VARIABLES
    transcript,  \* messages: who said it, and for which question
    asked,       \* how many questions there have been
    current,     \* abortRef: the request whose answer is awaited
    busy,        \* loading
    requests,    \* the requests that have been sent and not answered
    context,     \* lastContext: the question it came with
    verified,    \* turnstileVerified
    kept,        \* the same in sessionStorage
    widget,      \* showTurnstile
    token,       \* turnstileToken
    window       \* the server's: whether the session is within its reuse window

chat == <<transcript, current, busy, requests, context>>
challenge == <<verified, kept, widget, token>>
vars == <<transcript, asked, current, busy, requests, context, verified, kept,
          widget, token, window>>

Says(who, q) == [who |-> who, of |-> q]
Welcome == 0

Init ==
    /\ transcript = <<>> /\ asked = 0
    /\ current = {} /\ busy = FALSE /\ requests = {} /\ context = {}
    /\ verified \in BOOLEAN /\ kept = verified
    /\ widget = ~verified /\ token = "none"
    /\ window \in BOOLEAN

----------------------------------------------------------------------------
(* The person. *)

\* The history: each question with the message right after it.
Paired(i) ==
    IF transcript[i].who = "bot"
    THEN i > 1 /\ transcript[i - 1].who = "user"
    ELSE i < Len(transcript) /\ transcript[i + 1].who = "bot"
History == {transcript[i].of : i \in {i \in 1..Len(transcript) : Paired(i)}}

\* Without the challenge nothing is sent: the chat asks for it itself.
AskForChallenge ==
    /\ asked < MaxQuestions /\ ~busy
    /\ ~verified /\ token = "none"
    /\ asked' = asked + 1
    /\ transcript' = transcript \o <<Says("user", asked'), Says("bot", asked')>>
    /\ widget' = TRUE
    /\ UNCHANGED <<current, busy, requests, context, verified, kept, token, window>>

\* The token goes along as long as the page is not verified, spent or not.
Send ==
    /\ asked < MaxQuestions /\ ~busy
    /\ verified \/ token # "none"
    /\ asked' = asked + 1
    /\ transcript' = Append(transcript, Says("user", asked'))
    /\ busy' = TRUE
    /\ current' = {asked'}
    /\ requests' = requests \cup
         {[of |-> asked', history |-> History, context |-> context,
           first |-> ~verified, token |-> IF verified THEN "none" ELSE token]}
    /\ UNCHANGED <<context, challenge, window>>

\* Mutation: the request is left running.
ClearChatOnly ==
    /\ busy' = FALSE
    /\ transcript' = <<Says("bot", Welcome)>>
    /\ context' = {}
    /\ UNCHANGED <<asked, current, requests, challenge, window>>

\* An aborted request has no answer any more, whatever the server does with it.
ClearChat ==
    /\ requests' = {r \in requests : r.of \notin current}
    /\ current' = {} /\ busy' = FALSE
    /\ transcript' = <<Says("bot", Welcome)>>
    /\ context' = {}
    /\ UNCHANGED <<asked, challenge, window>>

Solve ==
    /\ widget /\ ~verified /\ token # "fresh"
    /\ token' = "fresh"
    /\ UNCHANGED <<chat, asked, verified, kept, widget, window>>

TokenExpires ==
    /\ widget /\ ~verified /\ token # "none"
    /\ token' = "none"
    /\ UNCHANGED <<chat, asked, verified, kept, widget, window>>

\* Another page: the chat begins anew, only the verification is kept.
NewPage ==
    /\ asked > 0 /\ asked < MaxQuestions
    /\ transcript' = <<>> /\ current' = {} /\ busy' = FALSE /\ requests' = {} /\ context' = {}
    /\ verified' = kept /\ widget' = ~kept /\ token' = "none"
    /\ UNCHANGED <<asked, kept, window>>

----------------------------------------------------------------------------
(* The server, and what the handler makes of its answers. *)

Ended(r) ==
    /\ requests' = requests \ {r}
    /\ busy' = IF r.of \in current THEN FALSE ELSE busy
    /\ current' = current \ {r.of}

Spent == IF token = "fresh" THEN "spent" ELSE token

\* The window, if there is one, begins with the challenge.
Replies(r) ==
    /\ window \/ r.token = "fresh"
    /\ Ended(r)
    /\ transcript' = Append(transcript, Says("bot", r.of))
    /\ context' \in {{}, {r.of}}
    /\ verified' = (verified \/ r.first) /\ kept' = (kept \/ r.first)
    /\ widget' = (widget /\ ~r.first)
    /\ token' = IF r.token = "fresh" /\ ~window THEN Spent ELSE token
    /\ window' \in {window, TRUE}
    /\ UNCHANGED asked

\* The flag of the page is dropped, the one that is kept is not.
Required(r) ==
    /\ ~window /\ r.token = "none"
    /\ Ended(r)
    /\ transcript' = Append(transcript, Says("bot", r.of))
    /\ context' = {}
    /\ verified' = FALSE /\ widget' = TRUE
    /\ UNCHANGED <<asked, kept, token, window>>

\* Any other refusal, a spent token among them, or no answer at all.
Fails(r) ==
    /\ Ended(r)
    /\ transcript' = Append(transcript, Says("bot", r.of))
    /\ context' = {}
    /\ token' \in {token, IF r.token = "fresh" THEN Spent ELSE token}
    /\ UNCHANGED <<asked, verified, kept, widget, window>>

WindowEnds ==
    /\ window
    /\ window' = FALSE
    /\ UNCHANGED <<chat, asked, challenge>>

Next ==
    \/ AskForChallenge \/ Send \/ ClearChat \/ Solve \/ TokenExpires \/ NewPage
    \/ \E r \in requests : Replies(r) \/ Required(r) \/ Fails(r)
    \/ WindowEnds

Spec == Init /\ [][Next]_vars

----------------------------------------------------------------------------
(* Each answer stands right after its question, in the conversation the       *)
(* question was asked in, and what is sent along as history and context comes *)
(* from that conversation: a cleared chat does not come back with a late      *)
(* answer (the abort and the new transcript in handleNewSession).             *)
AnswersOwnQuestion ==
    LET said == {transcript[i].of : i \in 1..Len(transcript)} IN
    /\ \A i \in 1..Len(transcript) :
         transcript[i].who = "bot" /\ transcript[i].of # Welcome
           => i > 1 /\ transcript[i - 1] = Says("user", transcript[i].of)
    /\ context \subseteq said
    /\ \A r \in requests : r.of \in said /\ r.history \cup r.context \subseteq said
=============================================================================
