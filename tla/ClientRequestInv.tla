--------------------------- MODULE ClientRequestInv ---------------------------
(* The inductive invariant of ClientRequest. *)
EXTENDS ClientRequest

\* An operation takes no more steps than it has.
StepsInOrder ==
    \A w \in Workers : session[w].done <= Len(StepsOf(session[w].op))

\* No two operations hold conflicting locks on a row or on the audit chain.
LocksExclude ==
    \A v, w \in Workers :
      \A s \in Taken(v), t \in Taken(w) :
        v # w /\ s # "links" => ~Conflict(s, t)

\* No two operations hold the same link.
LinksExclude ==
    \A v, w \in Workers :
      v # w /\ "links" \in Taken(v) /\ "links" \in Taken(w)
        => session[v].live \cap session[w].live = {}

\* A reply, a revocation and a use of a link hold it.
LinkTaken ==
    \A w \in Workers :
      /\ session[w].op \in {"revoke", "use"} => session[w].link \in Links
      /\ session[w].op \in {"reply", "revoke", "use"} /\ "links" \in Taken(w)
           => {session[w].link} \cap Links \subseteq session[w].live

\* A reply that passed its check still may be committed.
ReplyHolds ==
    \A w \in Workers : session[w].op = "reply" /\ "check" \in Taken(w) =>
      /\ Writable /\ Answerable
      /\ session[w].link \notin revoked
      /\ docs \subseteq session[w].seen

\* What a transition or an issue found under its locks stays as it was.
CheckHolds ==
    \A w \in Workers : "check" \in Taken(w) =>
      /\ session[w].op \in {"issue", "complete", "cancel"} => Answerable
      /\ session[w].op = "reopen" => status \in Terminal

\* An operation that revokes the usable links has locked all there are; one
\* that extends the usable link has locked no other.
LinkHolds ==
    \A w \in Workers : "links" \in Taken(w) =>
      /\ session[w].op \in {"issue", "cancel", "reopen"} =>
           LiveLinks \subseteq session[w].live
      /\ session[w].op = "complete" =>
           \A k, l \in LiveLinks \cup session[w].live : k = l

IInv ==
    /\ TypeOK
    /\ StepsInOrder
    /\ LocksExclude
    /\ LinksExclude
    /\ LinkTaken
    /\ ReplyHolds
    /\ CheckHolds
    /\ LinkHolds
    /\ OneUsableLink
    /\ CancelledIsDark
    /\ OneLiveDocument
=============================================================================
