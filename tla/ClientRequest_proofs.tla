------------------------ MODULE ClientRequest_proofs ------------------------
(* Proofs about ClientRequest, for all operations, links, browsers, bounds. *)
EXTENDS ClientRequestInv, TLAPS

StepNames == {"check", "chain", "links", "request", "requestWrite", "requestKey",
              "referral", "referralWrite", "referralKey", "case", "caseWrite", "caseKey"}

\* The steps of each operation.
LEMMA StepsFacts ==
    /\ StepsOf("reply") = <<"request", "referral", "case", "links", "check", "chain">>
    /\ \A op \in {"complete", "cancel", "reopen"} :
         StepsOf(op) = <<"request", "referral", "case", "check", "chain", "links">>
    /\ StepsOf("issue") = <<"request", "check", "links", "chain">>
    /\ \A op \in {"revoke", "use"} : StepsOf(op) = <<"links", "check", "chain">>
    /\ StepsOf("create") = <<"check", "referralKey", "chain", "caseKey">>
    /\ StepsOf("message") = <<"check", "requestKey", "chain">>
    /\ StepsOf("settle") = <<"referral", "check", "chain", "caseKey">>
    /\ StepsOf("toggle") = <<"case", "check", "chain">>
    /\ StepsOf("deleteReferral") = <<"referral", "check", "chain", "requestWrite">>
    /\ StepsOf("deleteCase") =
         <<"caseWrite", "check", "chain", "requestWrite", "referralWrite">>
    /\ StepsOf("restoreCase") =
         <<"case", "check", "chain", "requestWrite", "referralWrite">>
    /\ StepsOf("idle") = <<>>
  BY DEF StepsOf, ReplySteps, TransitionSteps, IssueSteps

\* No operation takes more than six steps, and all of them are known.
LEMMA StepsTyped ==
    ASSUME NEW op \in Ops \cup {"idle"}
    PROVE  /\ Len(StepsOf(op)) \in 0..6
           /\ \A i \in 1..Len(StepsOf(op)) : StepsOf(op)[i] \in StepNames
  <1> USE DEF StepNames
  <1>1. CASE op \in {"reply", "complete", "cancel", "reopen"}
    BY <1>1, StepsFacts
  <1>2. CASE op \in {"issue", "create", "settle", "deleteReferral"}
    BY <1>2, StepsFacts
  <1>3. CASE op \in {"revoke", "use", "message", "toggle"}
    BY <1>3, StepsFacts
  <1>4. CASE op \in {"deleteCase", "restoreCase"}
    BY <1>4, StepsFacts
  <1>5. CASE op = "idle"
    BY <1>5, StepsFacts
  <1> QED
    BY <1>1, <1>2, <1>3, <1>4, <1>5 DEF Ops

\* The step an operation takes next is one of its steps.
LEMMA NextStepTyped ==
    ASSUME TypeOK, NEW w \in Workers, Unfinished(w)
    PROVE  /\ session[w].done + 1 \in 1..Len(StepsOf(session[w].op))
           /\ session[w].done + 1 \in 0..6
           /\ NextStep(w) \in StepNames
  <1>1. session[w].op \in Ops \cup {"idle"} /\ session[w].done \in 0..6
    BY DEF TypeOK, Session
  <1>2. Len(StepsOf(session[w].op)) \in 0..6
    BY <1>1, StepsTyped
  <1>3. session[w].done < Len(StepsOf(session[w].op))
    BY DEF Unfinished
  <1>4. \A g, n \in 0..6 : g < n => g + 1 \in 1..n /\ g + 1 \in 0..6
    OBVIOUS
  <1>5. session[w].done + 1 \in 1..Len(StepsOf(session[w].op))
        /\ session[w].done + 1 \in 0..6
    BY <1>1, <1>2, <1>3, <1>4
  <1> QED
    BY <1>1, <1>5, StepsTyped DEF NextStep

\* The steps an operation has taken are its steps.
LEMMA TakenTyped ==
    ASSUME TypeOK, StepsInOrder, NEW w \in Workers
    PROVE  Taken(w) \subseteq StepNames
  <1>1. session[w].op \in Ops \cup {"idle"} /\ session[w].done \in 0..6
    BY DEF TypeOK, Session
  <1>2. Len(StepsOf(session[w].op)) \in 0..6
        /\ session[w].done <= Len(StepsOf(session[w].op))
    BY <1>1, StepsTyped DEF StepsInOrder
  <1>3. \A i \in 1..session[w].done : i \in 1..Len(StepsOf(session[w].op))
    BY <1>1, <1>2
  <1> QED
    BY <1>1, <1>3, StepsTyped DEF Taken

\* The initial state satisfies the type invariant.
LEMMA InitTypeOK == Init => TypeOK
  BY BoundsAssumption DEF Init, TypeOK, Links, Files, Null, Status, NoViewer, Session, Idle

\* Ending an operation leaves a well-typed session.
LEMMA EndTyped ==
    ASSUME TypeOK, NEW w \in Workers, session' = [session EXCEPT ![w] = Idle]
    PROVE  session' \in [Workers -> Session]
  BY DEF TypeOK, Session, Idle, Null

\* A step that only ends an operation keeps the type invariant.
LEMMA StopTyped ==
    ASSUME TypeOK, NEW w \in Workers, Stop(w)
    PROVE  TypeOK'
  BY EndTyped DEF Stop, TypeOK, caseVars, linkVars, fileVars

\* The links an operation locks are links.
LEMMA WantedTyped ==
    ASSUME NEW w \in Workers
    PROVE  Wanted(w) \subseteq Links
  BY DEF Wanted, LiveLinks

\* The bookkeeping steps of a transaction keep the type invariant.
LEMMA TransactionTyped ==
    ASSUME TypeOK, NEW w \in Workers, Transaction(w)
    PROVE  TypeOK'
  <1> USE DEF caseVars, linkVars, fileVars
  <1>1. ASSUME NEW op \in Ops, NEW l \in Links \cup {Null}, Begin(w, op, l) PROVE TypeOK'
    <2>1. [session[w] EXCEPT !.op = op, !.link = l] \in Session
      BY DEF TypeOK, Session
    <2>2. session' \in [Workers -> Session]
      BY <1>1, <2>1 DEF Begin, TypeOK
    <2> QED
      BY <1>1, <2>2 DEF Begin, TypeOK
  <1>2. ASSUME Acquire(w) PROVE TypeOK'
    <2> DEFINE live == IF NextStep(w) = "links" THEN Wanted(w) ELSE session[w].live
    <2>1. session[w].done + 1 \in 0..6
      BY <1>2, NextStepTyped DEF Acquire
    <2>2. live \subseteq Links
      BY WantedTyped DEF TypeOK, Session
    <2>3. session' = [session EXCEPT ![w] =
                        [@ EXCEPT !.done = session[w].done + 1, !.live = live]]
      BY <1>2 DEF Acquire
    <2> HIDE DEF live
    <2>4. [session[w] EXCEPT !.done = session[w].done + 1, !.live = live] \in Session
      BY <2>1, <2>2 DEF TypeOK, Session
    <2>5. session' \in [Workers -> Session]
      BY <2>3, <2>4 DEF TypeOK
    <2> QED
      BY <1>2, <2>5 DEF Acquire, TypeOK
  <1>3. ASSUME Check(w) PROVE TypeOK'
    <2> DEFINE seen == IF session[w].op = "reply" THEN docs ELSE {}
    <2>1. session[w].done + 1 \in 0..6
      BY <1>3, NextStepTyped DEF Check, Checking
    <2>2. seen \subseteq Files
      BY DEF TypeOK
    <2>3. session' = [session EXCEPT ![w] =
                        [@ EXCEPT !.done = session[w].done + 1, !.seen = seen]]
      BY <1>3 DEF Check
    <2> HIDE DEF seen
    <2>4. [session[w] EXCEPT !.done = session[w].done + 1, !.seen = seen] \in Session
      BY <2>1, <2>2 DEF TypeOK, Session
    <2>5. session' \in [Workers -> Session]
      BY <2>3, <2>4 DEF TypeOK
    <2> QED
      BY <1>3, <2>5 DEF Check, TypeOK
  <1>4. ASSUME NotFound(w) \/ DeadlockVictim(w) \/ Refuse(w) \/ Fail(w) PROVE TypeOK'
    BY <1>4, StopTyped DEF NotFound, DeadlockVictim, Refuse, Fail
  <1> QED
    BY <1>1, <1>2, <1>3, <1>4 DEF Transaction

\* The commits of the agency's operations keep the type invariant.
LEMMA AgencyTyped ==
    ASSUME TypeOK, LinkTaken, NEW w \in Workers, AgencyStep(w)
    PROVE  TypeOK'
  <1> USE DEF caseVars, linkVars, fileVars
  <1>0. session[w].live \subseteq Links
    BY DEF TypeOK, Session
  <1>1. ASSUME NEW d \in Dues, CommitCreate(w, d) PROVE TypeOK'
    BY <1>1, EndTyped DEF CommitCreate, End, TypeOK, Status
  <1>2. ASSUME CommitMessage(w) PROVE TypeOK'
    BY <1>2, StopTyped DEF CommitMessage
  <1>3. ASSUME NEW l \in Links, CommitIssue(w, l) PROVE TypeOK'
    <2>1. clock + Lifetime \in Nat
      BY BoundsAssumption, LifetimeAssumption DEF TypeOK
    <2>3. expires' \in [Links -> Nat]
      BY <1>3, <2>1 DEF CommitIssue, TypeOK
    <2> QED
      BY <1>0, <1>3, <2>3, EndTyped DEF CommitIssue, End, TypeOK
  <1>4. ASSUME CommitComplete(w) PROVE TypeOK'
    <2>1. due \in Nat
      BY DuesAssumption DEF TypeOK, Null
    <2>2. expires' \in [Links -> Nat]
      BY <1>4, <2>1 DEF CommitComplete, TypeOK
    <2> QED
      BY <1>4, <2>2, EndTyped DEF CommitComplete, End, TypeOK, Status
  <1>5. ASSUME CommitCancel(w) PROVE TypeOK'
    BY <1>0, <1>5, EndTyped DEF CommitCancel, End, TypeOK, Status
  <1>6. ASSUME CommitReopen(w) PROVE TypeOK'
    BY <1>0, <1>6, EndTyped DEF CommitReopen, End, TypeOK, Status
  <1>7. ASSUME CommitRevoke(w) PROVE TypeOK'
    <2>1. session[w].link \in Links
      BY <1>7 DEF CommitRevoke, Running, LinkTaken
    <2> QED
      BY <1>7, <2>1, EndTyped DEF CommitRevoke, End, TypeOK
  <1> QED
    BY <1>1, <1>2, <1>3, <1>4, <1>5, <1>6, <1>7 DEF AgencyStep

\* The last of some files is one of them, and there is only one.
LEMMA LastOfFacts ==
    ASSUME NEW F \in SUBSET Files
    PROVE  /\ LastOf(F) \subseteq F
           /\ \A f, g \in LastOf(F) : f = g
  BY BoundsAssumption DEF LastOf, Files

\* Uploads and the commits of the client's operations keep the type invariant.
LEMMA ClientTyped ==
    ASSUME TypeOK, LinkTaken, NEW w \in Workers, ClientStep(w)
    PROVE  TypeOK'
  <1> USE DEF caseVars, linkVars, fileVars
  <1>1. session[w].files \subseteq Files
    BY DEF TypeOK, Session
  <1>2. CASE Upload(w)
    <2>1. uploads + 1 \in Files /\ uploads + 1 \in 0..MaxUploads
      BY <1>2, BoundsAssumption DEF Upload, TypeOK, Files
    <2>2. session' \in [Workers -> Session]
      BY <1>2, <2>1 DEF Upload, TypeOK, Session
    <2> QED
      BY <1>2, <2>1, <2>2 DEF Upload, TypeOK
  <1>3. CASE UploadFails(w)
    BY <1>3, EndTyped DEF UploadFails, End, TypeOK
  <1>4. CASE CommitReply(w)
    <2>1. LastOf(session[w].files) \subseteq Files
      BY <1>1, LastOfFacts
    <2>2. docs' \subseteq Files /\ rows' \subseteq Files
      BY <1>1, <1>4, <2>1 DEF CommitReply, TypeOK
    <2> QED
      BY <1>4, <2>2, EndTyped DEF CommitReply, End, TypeOK, Status
  <1>5. ASSUME NEW b \in Browsers, CommitUse(w, b) PROVE TypeOK'
    <2>1. session[w].link \in Links
      BY <1>5 DEF CommitUse, Running, LinkTaken
    <2>2. expires[session[w].link] \in Nat
      BY <2>1 DEF TypeOK
    <2>3. viewer' \in [Browsers -> [link : Links \cup {Null}, seen : Nat]]
      BY <1>5, <2>1, <2>2 DEF CommitUse, TypeOK
    <2> QED
      BY <1>5, <2>3, EndTyped DEF CommitUse, End, TypeOK
  <1> QED
    BY <1>2, <1>3, <1>4, <1>5 DEF ClientStep

\* Every step keeps the type invariant.
LEMMA NextTypeOK == TypeOK /\ LinkTaken /\ [Next]_vars => TypeOK'
  <1> SUFFICES ASSUME TypeOK, LinkTaken, [Next]_vars PROVE TypeOK'
    OBVIOUS
  <1> USE DEF caseVars, linkVars, fileVars
  <1>1. ASSUME NEW w \in Workers, CaseStep(w) PROVE TypeOK'
    BY <1>1, EndTyped DEF CaseStep, CommitSettle, CommitToggle, CommitDeleteReferral,
       CommitDeleteCase, CommitRestoreCase, End, TypeOK
  <1>2. CASE Tick
    BY <1>2, BoundsAssumption DEF Tick, TypeOK
  <1>3. CASE UNCHANGED vars
    BY <1>3 DEF vars, TypeOK
  <1> QED
    BY <1>1, <1>2, <1>3, TransactionTyped, AgencyTyped, ClientTyped DEF Next

-----------------------------------------------------------------------------
(* Steps and locks. *)

\* What a step does to the sessions: nothing, or one step of one operation.
LEMMA SessionEffect ==
    ASSUME [Next]_vars
    PROVE  \/ session' = session
           \/ \E w \in Workers :
                \/ session' = [session EXCEPT ![w] = Idle]
                \/ \E op \in Ops, l \in Links \cup {Null} : Begin(w, op, l)
                \/ Acquire(w)
                \/ Check(w)
                \/ Upload(w)
  <1>1. ASSUME NEW w \in Workers, Transaction(w)
        PROVE  \/ session' = [session EXCEPT ![w] = Idle]
               \/ \E op \in Ops, l \in Links \cup {Null} : Begin(w, op, l)
               \/ Acquire(w)
               \/ Check(w)
    BY <1>1 DEF Transaction, NotFound, DeadlockVictim, Refuse, Fail, Stop
  <1>2. ASSUME NEW w \in Workers, AgencyStep(w)
        PROVE  session' = [session EXCEPT ![w] = Idle]
    BY <1>2 DEF AgencyStep, CommitCreate, CommitMessage, CommitIssue, CommitComplete,
       CommitCancel, CommitReopen, CommitRevoke, End, Stop
  <1>3. ASSUME NEW w \in Workers, ClientStep(w)
        PROVE  session' = [session EXCEPT ![w] = Idle] \/ Upload(w)
    BY <1>3 DEF ClientStep, UploadFails, CommitReply, CommitUse, End
  <1>4. ASSUME NEW w \in Workers, CaseStep(w)
        PROVE  session' = [session EXCEPT ![w] = Idle]
    BY <1>4 DEF CaseStep, CommitSettle, CommitToggle, CommitDeleteReferral,
       CommitDeleteCase, CommitRestoreCase, End
  <1>5. CASE Tick \/ UNCHANGED vars
    BY <1>5 DEF Tick, vars
  <1> QED
    BY <1>1, <1>2, <1>3, <1>4, <1>5 DEF Next

\* What a step does to one operation: it goes or begins anew, takes a lock,
\* passes its check, or keeps what it has taken and read.
LEMMA OperationEffect ==
    ASSUME TypeOK, [Next]_vars, NEW v \in Workers
    PROVE  \/ session'[v] = Idle
           \/ /\ \E op \in Ops, l \in Links \cup {Null} : Begin(v, op, l)
              /\ session'[v].done = 0
           \/ /\ Acquire(v)
              /\ session'[v].op = session[v].op
              /\ session'[v].done = session[v].done + 1
              /\ session'[v].link = session[v].link
              /\ session'[v].live = (IF NextStep(v) = "links" THEN Wanted(v)
                                     ELSE session[v].live)
              /\ session'[v].seen = session[v].seen
           \/ /\ Check(v)
              /\ session'[v].op = session[v].op
              /\ session'[v].done = session[v].done + 1
              /\ session'[v].link = session[v].link
              /\ session'[v].live = session[v].live
              /\ session'[v].seen = (IF session[v].op = "reply" THEN docs ELSE {})
           \/ /\ session'[v].op = session[v].op
              /\ session'[v].done = session[v].done
              /\ session'[v].link = session[v].link
              /\ session'[v].live = session[v].live
              /\ session'[v].seen = session[v].seen
  <1>0. session[v] \in Session /\ session \in [Workers -> Session]
    BY DEF TypeOK
  <1>1. CASE session'[v] = session[v]
    BY <1>1
  <1>2. CASE session' = [session EXCEPT ![v] = Idle]
    BY <1>0, <1>2
  <1>3. ASSUME NEW op \in Ops, NEW l \in Links \cup {Null}, Begin(v, op, l)
        PROVE  session'[v].done = 0
    BY <1>0, <1>3 DEF Begin, Idle, Session
  <1>4. CASE Acquire(v)
    <2>1. /\ session'[v].op = session[v].op
          /\ session'[v].done = session[v].done + 1
          /\ session'[v].link = session[v].link
          /\ session'[v].live = (IF NextStep(v) = "links" THEN Wanted(v)
                                 ELSE session[v].live)
          /\ session'[v].seen = session[v].seen
      BY <1>0, <1>4 DEF Acquire, Session
    <2> QED
      BY <1>4, <2>1
  <1>5. CASE Check(v)
    <2>1. /\ session'[v].op = session[v].op
          /\ session'[v].done = session[v].done + 1
          /\ session'[v].link = session[v].link
          /\ session'[v].live = session[v].live
          /\ session'[v].seen = (IF session[v].op = "reply" THEN docs ELSE {})
      BY <1>0, <1>5 DEF Check, Session
    <2> QED
      BY <1>5, <2>1
  <1>6. CASE Upload(v)
    <2>1. /\ session'[v].op = session[v].op
          /\ session'[v].done = session[v].done
          /\ session'[v].link = session[v].link
          /\ session'[v].live = session[v].live
          /\ session'[v].seen = session[v].seen
      BY <1>0, <1>6 DEF Upload, Session
    <2> QED
      BY <2>1
  <1>7. ASSUME NEW w \in Workers, w # v,
               \/ session' = [session EXCEPT ![w] = Idle]
               \/ \E op \in Ops, l \in Links \cup {Null} : Begin(w, op, l)
               \/ Acquire(w) \/ Check(w) \/ Upload(w)
        PROVE  session'[v] = session[v]
    BY <1>0, <1>7 DEF Begin, Acquire, Check, Upload
  <1> QED
    BY <1>1, <1>2, <1>3, <1>4, <1>5, <1>6, <1>7, SessionEffect

\* No operation takes more steps than it has, after any step.
LEMMA NextStepsInOrder ==
    ASSUME TypeOK, StepsInOrder, [Next]_vars
    PROVE  StepsInOrder'
  <1> SUFFICES ASSUME NEW v \in Workers
               PROVE  session'[v].done <= Len(StepsOf(session'[v].op))
    BY DEF StepsInOrder
  <1>1. CASE session'[v] = Idle
    BY <1>1, StepsFacts DEF Idle
  <1>2. ASSUME NEW op \in Ops, NEW l \in Links \cup {Null}, Begin(v, op, l),
               session'[v].done = 0
        PROVE  session'[v].done <= Len(StepsOf(session'[v].op))
    <2>1. session'[v].op = op
      BY <1>2 DEF Begin, TypeOK, Session
    <2>2. Len(StepsOf(op)) \in 0..6
      BY StepsTyped
    <2> QED
      BY <1>2, <2>1, <2>2
  <1>3. ASSUME Acquire(v) \/ Check(v), session'[v].op = session[v].op,
               session'[v].done = session[v].done + 1
        PROVE  session'[v].done <= Len(StepsOf(session'[v].op))
    <2>1. session[v].done + 1 \in 1..Len(StepsOf(session[v].op))
      BY <1>3, NextStepTyped DEF Acquire, Check, Checking
    <2> QED
      BY <1>3, <2>1
  <1>4. ASSUME session'[v].op = session[v].op, session'[v].done = session[v].done
        PROVE  session'[v].done <= Len(StepsOf(session'[v].op))
    BY <1>4 DEF StepsInOrder
  <1> QED
    BY <1>1, <1>2, <1>3, <1>4, OperationEffect

\* What an operation has taken after a step.
LEMMA TakenEffect ==
    ASSUME TypeOK, StepsInOrder, [Next]_vars, NEW v \in Workers
    PROVE  \/ Taken(v)' = {}
           \/ /\ Acquire(v)
              /\ Taken(v)' = Taken(v) \cup {NextStep(v)}
              /\ session'[v].op = session[v].op
              /\ session'[v].link = session[v].link
              /\ session'[v].live = (IF NextStep(v) = "links" THEN Wanted(v)
                                     ELSE session[v].live)
              /\ session'[v].seen = session[v].seen
           \/ /\ Check(v)
              /\ Taken(v)' = Taken(v) \cup {"check"}
              /\ session'[v].op = session[v].op
              /\ session'[v].link = session[v].link
              /\ session'[v].live = session[v].live
              /\ session'[v].seen = (IF session[v].op = "reply" THEN docs ELSE {})
           \/ /\ Taken(v)' = Taken(v)
              /\ session'[v].op = session[v].op
              /\ session'[v].link = session[v].link
              /\ session'[v].live = session[v].live
              /\ session'[v].seen = session[v].seen
  <1>0. session[v].done \in 0..6
    BY DEF TypeOK, Session
  <1>1. ASSUME session'[v].done = 0 PROVE Taken(v)' = {}
    BY <1>1 DEF Taken
  <1>2. CASE session'[v] = Idle
    BY <1>1, <1>2 DEF Idle
  <1>3. ASSUME session'[v].op = session[v].op, session'[v].done = session[v].done + 1
        PROVE  Taken(v)' = Taken(v) \cup {NextStep(v)}
    <2>1. 1..(session[v].done + 1) = (1..session[v].done) \cup {session[v].done + 1}
      BY <1>0
    <2> QED
      BY <1>3, <2>1 DEF Taken, NextStep
  <1>4. ASSUME session'[v].op = session[v].op, session'[v].done = session[v].done
        PROVE  Taken(v)' = Taken(v)
    BY <1>4 DEF Taken
  <1>5. Check(v) => NextStep(v) = "check"
    BY DEF Check, Checking
  <1> QED
    BY <1>1, <1>2, <1>3, <1>4, <1>5, OperationEffect

\* Conflicts are mutual, and a step conflicts with the links only as they do.
LEMMA ConflictFacts ==
    ASSUME NEW s \in StepNames, NEW t \in StepNames, Conflict(s, t)
    PROVE  /\ Conflict(t, s)
           /\ (s = "links") <=> (t = "links")
           /\ s # "check" /\ t # "check"
  <1>1. Resource(s) = Resource(t) /\ s # "check"
    BY DEF Conflict
  <1>2. \A r \in StepNames : /\ (Resource(r) = "links") <=> (r = "links")
                             /\ (Resource(r) = "check") <=> (r = "check")
    BY DEF Resource, StepNames
  <1>3. (s = "links") <=> (t = "links")
    BY <1>1, <1>2
  <1>4. t # "check"
    BY <1>1, <1>2
  <1>5. Conflict(t, s)
    BY <1>1, <1>4 DEF Conflict
  <1> QED
    BY <1>1, <1>3, <1>4, <1>5

\* Two operations never hold conflicting locks.
LEMMA NextLocksExclude ==
    ASSUME TypeOK, StepsInOrder, LocksExclude, [Next]_vars
    PROVE  LocksExclude'
  <1>0. \A v \in Workers : Taken(v) \subseteq StepNames
    BY TakenTyped
  <1>1. ASSUME NEW v \in Workers, NEW w \in Workers, v # w, Acquire(v),
               NEW t \in Taken(w)', t # "links", Conflict(t, NextStep(v))
        PROVE  FALSE
    <2>1. session'[w] = session[w]
      BY <1>1 DEF Acquire, TypeOK
    <2>2. t \in Taken(w)
      BY <1>1, <2>1 DEF Taken
    <2>3. ~Blocks(w, v)
      BY <1>1 DEF Acquire
    <2> QED
      BY <1>1, <2>2, <2>3 DEF Blocks
  <1> SUFFICES ASSUME NEW v \in Workers, NEW w \in Workers, v # w,
                      NEW s \in Taken(v)', NEW t \in Taken(w)', s # "links",
                      Conflict(s, t)
               PROVE  FALSE
    BY DEF LocksExclude, Conflict
  <1>2. ASSUME NEW u \in Workers, NEW r \in Taken(u)'
        PROVE  r \in Taken(u) \/ r = "check" \/ (Acquire(u) /\ r = NextStep(u))
    BY <1>2, TakenEffect
  <1>3. ASSUME NEW u \in Workers, Acquire(u) PROVE NextStep(u) \in StepNames
    BY <1>3, NextStepTyped DEF Acquire
  <1>4. s \in StepNames /\ t \in StepNames
    BY <1>0, <1>2, <1>3 DEF StepNames
  <1>5. Conflict(t, s) /\ t # "links" /\ s # "check" /\ t # "check"
    BY <1>4, ConflictFacts
  <1>6. CASE s \in Taken(v) /\ t \in Taken(w)
    BY <1>6 DEF LocksExclude
  <1>7. CASE Acquire(v) /\ s = NextStep(v)
    BY <1>1, <1>5, <1>7
  <1>8. CASE Acquire(w) /\ t = NextStep(w)
    BY <1>1, <1>8
  <1> QED
    BY <1>2, <1>5, <1>6, <1>7, <1>8

\* Two operations never hold the same link.
LEMMA NextLinksExclude ==
    ASSUME TypeOK, StepsInOrder, LinksExclude, [Next]_vars
    PROVE  LinksExclude'
  <1>1. Conflict("links", "links")
    BY DEF Conflict, Resource, Keys, Writes
  <1>2. ASSUME NEW v \in Workers, NEW w \in Workers, v # w, Acquire(v),
               NextStep(v) = "links", "links" \in Taken(w)'
        PROVE  session'[w].live \cap Wanted(v) = {}
    <2>1. session'[w] = session[w]
      BY <1>2 DEF Acquire, TypeOK
    <2>2. "links" \in Taken(w)
      BY <1>2, <2>1 DEF Taken
    <2>3. ~Blocks(w, v)
      BY <1>2 DEF Acquire
    <2> QED
      BY <1>1, <1>2, <2>1, <2>2, <2>3 DEF Blocks
  <1> SUFFICES ASSUME NEW v \in Workers, NEW w \in Workers, v # w,
                      "links" \in Taken(v)', "links" \in Taken(w)'
               PROVE  session'[v].live \cap session'[w].live = {}
    BY DEF LinksExclude
  <1>3. ASSUME NEW u \in Workers, "links" \in Taken(u)'
        PROVE  \/ "links" \in Taken(u) /\ session'[u].live = session[u].live
               \/ /\ Acquire(u) /\ NextStep(u) = "links"
                  /\ session'[u].live = Wanted(u)
    BY <1>3, TakenEffect
  <1>4. CASE Acquire(v) /\ NextStep(v) = "links" /\ session'[v].live = Wanted(v)
    BY <1>2, <1>4
  <1>5. CASE Acquire(w) /\ NextStep(w) = "links" /\ session'[w].live = Wanted(w)
    BY <1>2, <1>5
  <1>6. CASE /\ "links" \in Taken(v) /\ session'[v].live = session[v].live
             /\ "links" \in Taken(w) /\ session'[w].live = session[w].live
    BY <1>6 DEF LinksExclude
  <1> QED
    BY <1>3, <1>4, <1>5, <1>6

\* A reply, a revocation and a use of a link go on holding it.
LEMMA NextLinkTaken ==
    ASSUME TypeOK, StepsInOrder, LinkTaken, [Next]_vars
    PROVE  LinkTaken'
  <1> SUFFICES ASSUME NEW v \in Workers
               PROVE  /\ session'[v].op \in {"revoke", "use"} => session'[v].link \in Links
                      /\ session'[v].op \in {"reply", "revoke", "use"}
                           /\ "links" \in Taken(v)'
                           => {session'[v].link} \cap Links \subseteq session'[v].live
    BY DEF LinkTaken
  <1>1. session'[v].op \in {"revoke", "use"} => session'[v].link \in Links
    <2>1. CASE session'[v] = Idle
      BY <2>1 DEF Idle
    <2>2. ASSUME NEW op \in Ops, NEW l \in Links \cup {Null}, Begin(v, op, l),
                 op \in {"revoke", "use"}
          PROVE  l \in Links
      BY <2>2 DEF Begin, Reachable
    <2>3. ASSUME NEW op \in Ops, NEW l \in Links \cup {Null}, Begin(v, op, l)
          PROVE  session'[v].op = op /\ session'[v].link = l
      BY <2>3 DEF Begin, TypeOK, Session
    <2>4. ASSUME session'[v].op = session[v].op, session'[v].link = session[v].link
          PROVE  session'[v].op \in {"revoke", "use"} => session'[v].link \in Links
      BY <2>4 DEF LinkTaken
    <2> QED
      BY <2>1, <2>2, <2>3, <2>4, OperationEffect
  <1>2. ASSUME session'[v].op \in {"reply", "revoke", "use"}, "links" \in Taken(v)'
        PROVE  {session'[v].link} \cap Links \subseteq session'[v].live
    <2>1. CASE /\ Acquire(v) /\ NextStep(v) = "links"
               /\ session'[v].op = session[v].op
               /\ session'[v].link = session[v].link
               /\ session'[v].live = Wanted(v)
      <3>1. Wanted(v) = {session[v].link} \cap Links
        BY <1>2, <2>1 DEF Wanted
      <3> QED
        BY <2>1, <3>1
    <2>2. CASE /\ "links" \in Taken(v)
               /\ session'[v].op = session[v].op
               /\ session'[v].link = session[v].link
               /\ session'[v].live = session[v].live
      BY <1>2, <2>2 DEF LinkTaken
    <2> QED
      BY <1>2, <2>1, <2>2, TakenEffect
  <1> QED
    BY <1>1, <1>2

-----------------------------------------------------------------------------
(* What an operation found under its locks stays true. *)

Transitions == {"complete", "cancel", "reopen"}
RequestOps == {"reply", "issue"} \cup Transitions

\* What an operation holds by the time it has passed its check, has taken its
\* links, and commits.
LEMMA HeldSoFar ==
    ASSUME TypeOK, StepsInOrder, NEW w \in Workers
    PROVE  /\ session[w].op = "reply" /\ "check" \in Taken(w)
                => {"request", "referral", "case", "links"} \subseteq Taken(w)
           /\ session[w].op \in Transitions /\ "check" \in Taken(w)
                => {"request", "referral", "case"} \subseteq Taken(w)
           /\ session[w].op = "issue" /\ "check" \in Taken(w) => "request" \in Taken(w)
           /\ session[w].op \in Transitions \cup {"issue"} /\ "links" \in Taken(w)
                => "check" \in Taken(w)
  <1>0. session[w].done \in 0..6
    BY DEF TypeOK, Session
  <1>1. ASSUME NEW i \in 1..session[w].done PROVE StepsOf(session[w].op)[i] \in Taken(w)
    BY <1>1 DEF Taken
  <1>2. ASSUME NEW s \in Taken(w)
        PROVE  \E i \in 1..session[w].done :
                 i \in 1..Len(StepsOf(session[w].op)) /\ s = StepsOf(session[w].op)[i]
    BY <1>0, <1>2, StepsTyped DEF Taken, StepsInOrder, TypeOK, Session
  <1>3. ASSUME session[w].op = "reply", "check" \in Taken(w)
        PROVE  {"request", "referral", "case", "links"} \subseteq Taken(w)
    <2>1. StepsOf(session[w].op) =
            <<"request", "referral", "case", "links", "check", "chain">>
      BY <1>3, StepsFacts
    <2>2. 5 \in 1..session[w].done
      BY <1>0, <1>2, <1>3, <2>1
    <2>3. 1 \in 1..session[w].done /\ 2 \in 1..session[w].done
          /\ 3 \in 1..session[w].done /\ 4 \in 1..session[w].done
      BY <1>0, <2>2
    <2> QED
      BY <1>1, <2>1, <2>3
  <1>4. ASSUME session[w].op \in Transitions, "check" \in Taken(w)
        PROVE  {"request", "referral", "case"} \subseteq Taken(w)
    <2>1. StepsOf(session[w].op) =
            <<"request", "referral", "case", "check", "chain", "links">>
      BY <1>4, StepsFacts DEF Transitions
    <2>2. 4 \in 1..session[w].done
      BY <1>0, <1>2, <1>4, <2>1
    <2>3. 1 \in 1..session[w].done /\ 2 \in 1..session[w].done
          /\ 3 \in 1..session[w].done
      BY <1>0, <2>2
    <2> QED
      BY <1>1, <2>1, <2>3
  <1>5. ASSUME session[w].op = "issue", "check" \in Taken(w) PROVE "request" \in Taken(w)
    <2>1. StepsOf(session[w].op) = <<"request", "check", "links", "chain">>
      BY <1>5, StepsFacts
    <2>2. 2 \in 1..session[w].done
      BY <1>0, <1>2, <1>5, <2>1
    <2>3. 1 \in 1..session[w].done
      BY <1>0, <2>2
    <2> QED
      BY <1>1, <2>1, <2>3
  <1>6. ASSUME session[w].op = "issue", "links" \in Taken(w) PROVE "check" \in Taken(w)
    <2>1. StepsOf(session[w].op) = <<"request", "check", "links", "chain">>
      BY <1>6, StepsFacts
    <2>2. 3 \in 1..session[w].done
      BY <1>0, <1>2, <1>6, <2>1
    <2>3. 2 \in 1..session[w].done
      BY <1>0, <2>2
    <2> QED
      BY <1>1, <2>1, <2>3
  <1>7. ASSUME session[w].op \in Transitions, "links" \in Taken(w)
        PROVE  "check" \in Taken(w)
    <2>1. StepsOf(session[w].op) =
            <<"request", "referral", "case", "check", "chain", "links">>
      BY <1>7, StepsFacts DEF Transitions
    <2>2. 6 \in 1..session[w].done
      BY <1>0, <1>2, <1>7, <2>1
    <2>3. 4 \in 1..session[w].done
      BY <1>0, <2>2
    <2> QED
      BY <1>1, <2>1, <2>3
  <1> QED
    BY <1>3, <1>4, <1>5, <1>6, <1>7

\* An operation that commits has taken all its steps.
LEMMA RunningHolds ==
    ASSUME TypeOK, NEW w \in Workers, NEW op \in Ops, Running(w, op)
    PROVE  /\ session[w].op = op
           /\ \A i \in 1..Len(StepsOf(op)) : StepsOf(op)[i] \in Taken(w)
  BY DEF Running, Taken

\* What each commit holds.
LEMMA CommitHolds ==
    ASSUME TypeOK, StepsInOrder, NEW w \in Workers
    PROVE  /\ \A op \in RequestOps : Running(w, op) =>
                {"request", "check", "links"} \subseteq Taken(w)
           /\ Running(w, "revoke") => "links" \in Taken(w)
           /\ Running(w, "settle") => "referral" \in Taken(w)
           /\ Running(w, "toggle") => "case" \in Taken(w)
           /\ Running(w, "deleteReferral") => "referral" \in Taken(w)
           /\ Running(w, "deleteCase") => "caseWrite" \in Taken(w)
           /\ Running(w, "restoreCase") => "case" \in Taken(w)
  <1>1. ASSUME Running(w, "reply") PROVE {"request", "check", "links"} \subseteq Taken(w)
    <2>1. StepsOf("reply") = <<"request", "referral", "case", "links", "check", "chain">>
      BY StepsFacts
    <2>2. \A i \in {1, 4, 5} : StepsOf("reply")[i] \in Taken(w)
      BY <1>1, <2>1, RunningHolds DEF Ops
    <2> QED
      BY <2>1, <2>2
  <1>2. ASSUME NEW op \in Transitions, Running(w, op)
        PROVE  {"request", "check", "links"} \subseteq Taken(w)
    <2>1. StepsOf(op) = <<"request", "referral", "case", "check", "chain", "links">>
      BY StepsFacts DEF Transitions
    <2>2. op \in Ops
      BY DEF Ops, Transitions
    <2>3. \A i \in 1..Len(StepsOf(op)) : StepsOf(op)[i] \in Taken(w)
      BY <1>2, <2>2, RunningHolds
    <2>4. Len(StepsOf(op)) = 6
      BY <2>1
    <2>5. StepsOf(op)[1] \in Taken(w) /\ StepsOf(op)[4] \in Taken(w)
          /\ StepsOf(op)[6] \in Taken(w)
      BY <2>3, <2>4
    <2> QED
      BY <2>1, <2>5
  <1>3. ASSUME Running(w, "issue") PROVE {"request", "check", "links"} \subseteq Taken(w)
    <2>1. StepsOf("issue") = <<"request", "check", "links", "chain">>
      BY StepsFacts
    <2>2. \A i \in {1, 2, 3} : StepsOf("issue")[i] \in Taken(w)
      BY <1>3, <2>1, RunningHolds DEF Ops
    <2> QED
      BY <2>1, <2>2
  <1>4. ASSUME NEW op \in {"revoke", "settle", "toggle", "deleteReferral", "deleteCase",
                           "restoreCase"}, Running(w, op)
        PROVE  StepsOf(op)[1] \in Taken(w)
    <2>1. 1 \in 1..Len(StepsOf(op)) /\ op \in Ops
      BY StepsFacts DEF Ops
    <2> QED
      BY <1>4, <2>1, RunningHolds
  <1>5. /\ StepsOf("revoke")[1] = "links" /\ StepsOf("settle")[1] = "referral"
        /\ StepsOf("toggle")[1] = "case" /\ StepsOf("deleteReferral")[1] = "referral"
        /\ StepsOf("deleteCase")[1] = "caseWrite" /\ StepsOf("restoreCase")[1] = "case"
    BY StepsFacts
  <1>6. \A op \in RequestOps : Running(w, op) =>
          {"request", "check", "links"} \subseteq Taken(w)
    BY <1>1, <1>2, <1>3 DEF RequestOps
  <1> QED
    BY <1>4, <1>5, <1>6

\* The conflicts between row locks that the arguments below use.
LEMMA RowConflicts ==
    /\ Conflict("request", "request")
    /\ Conflict("referral", "referral") /\ Conflict("referral", "referralKey")
    /\ Conflict("case", "case") /\ Conflict("case", "caseWrite")
  BY DEF Conflict, Resource, Keys, Writes

\* One operation at a time has locked the request row.
LEMMA RequestAlone ==
    ASSUME LocksExclude, NEW v \in Workers, NEW w \in Workers,
           "request" \in Taken(v), "request" \in Taken(w)
    PROVE  v = w
  BY RowConflicts DEF LocksExclude

\* Steps that neither write the request nor give out a link.
Bookkeeping ==
    \/ \E w \in Workers :
         \/ Transaction(w)
         \/ CommitMessage(w) \/ CommitRevoke(w)
         \/ \E b \in Browsers : CommitUse(w, b)
         \/ Upload(w) \/ UploadFails(w)
         \/ CaseStep(w)
    \/ Tick
    \/ UNCHANGED vars

\* They leave the request and its documents alone, and links only end.
LEMMA BookkeepingEffect ==
    ASSUME TypeOK, Bookkeeping
    PROVE  /\ status' = status /\ expires' = expires /\ docs' = docs /\ rows' = rows
           /\ revoked \subseteq revoked'
           /\ clock <= clock'
  <1> USE DEF caseVars, linkVars, fileVars
  <1>0. clock \in Nat
    BY DEF TypeOK
  <1>1. ASSUME NEW w \in Workers, Transaction(w)
        PROVE  UNCHANGED <<status, expires, docs, rows, revoked, clock>>
    BY <1>1 DEF Transaction, Begin, Acquire, Check, NotFound, DeadlockVictim, Refuse,
       Fail, Stop
  <1>2. ASSUME NEW w \in Workers,
               \/ CommitMessage(w) \/ \E b \in Browsers : CommitUse(w, b)
               \/ Upload(w) \/ UploadFails(w) \/ CaseStep(w)
        PROVE  UNCHANGED <<status, expires, docs, rows, revoked, clock>>
    BY <1>2 DEF CommitMessage, Stop, Upload, UploadFails, CommitUse, CaseStep,
       CommitSettle, CommitToggle, CommitDeleteReferral, CommitDeleteCase,
       CommitRestoreCase
  <1>3. ASSUME NEW w \in Workers, CommitRevoke(w)
        PROVE  UNCHANGED <<status, expires, docs, rows, clock>>
               /\ revoked \subseteq revoked'
    BY <1>3 DEF CommitRevoke
  <1>4. CASE UNCHANGED vars
    BY <1>0, <1>4 DEF vars
  <1>5. CASE Tick
    BY <1>0, <1>5 DEF Tick
  <1> QED
    BY <1>0, <1>1, <1>2, <1>3, <1>4, <1>5 DEF Bookkeeping

\* Every other step is one of six commits.
LEMMA StepCases ==
    ASSUME [Next]_vars
    PROVE  \/ Bookkeeping
           \/ \E w \in Workers :
                \/ \E d \in Dues : CommitCreate(w, d)
                \/ \E l \in Links : CommitIssue(w, l)
                \/ CommitComplete(w) \/ CommitCancel(w) \/ CommitReopen(w)
                \/ CommitReply(w)
  BY DEF Next, AgencyStep, ClientStep, Bookkeeping

\* Links that keep their expiry and their revocation only end.
LEMMA LinksEnd ==
    ASSUME TypeOK, TypeOK', expires' = expires, revoked \subseteq revoked', clock <= clock'
    PROVE  LiveLinks' \subseteq LiveLinks
  <1>1. ASSUME NEW l \in Links, expires'[l] > clock' /\ l \notin revoked' PROVE Live(l)
    <2>1. expires[l] \in Nat /\ clock \in Nat /\ clock' \in Nat
      BY DEF TypeOK
    <2> QED
      BY <1>1, <2>1 DEF Live
  <1> QED
    BY <1>1 DEF LiveLinks, Live

\* While an operation that locked the request has passed its check, nobody else
\* writes the request, its documents or a new link.
LEMMA RequestStable ==
    ASSUME TypeOK, TypeOK', StepsInOrder, LocksExclude, [Next]_vars, NEW v \in Workers,
           session[v].op \in RequestOps, "check" \in Taken(v), "check" \in Taken(v)',
           status # "none"
    PROVE  /\ Bookkeeping
           /\ status' = status /\ expires' = expires /\ docs' = docs
           /\ revoked \subseteq revoked'
           /\ LiveLinks' \subseteq LiveLinks
  <1>0. "request" \in Taken(v)
    BY HeldSoFar DEF RequestOps
  <1>1. ASSUME NEW w \in Workers,
               \/ \E l \in Links : CommitIssue(w, l)
               \/ CommitComplete(w) \/ CommitCancel(w) \/ CommitReopen(w)
               \/ CommitReply(w)
        PROVE  FALSE
    <2>1. \E op \in RequestOps : Running(w, op)
      BY <1>1 DEF CommitIssue, CommitComplete, CommitCancel, CommitReopen, CommitReply,
         RequestOps, Transitions
    <2>2. v = w
      BY <1>0, <2>1, CommitHolds, RequestAlone
    <2>3. session' = [session EXCEPT ![w] = Idle]
      BY <1>1 DEF CommitIssue, CommitComplete, CommitCancel, CommitReopen, CommitReply, End
    <2>4. session'[w] = Idle
      BY <2>3 DEF TypeOK
    <2>5. session'[w].done = 0
      BY <2>4 DEF Idle
    <2> QED
      BY <2>2, <2>5 DEF Taken
  <1>2. ASSUME NEW w \in Workers, NEW d, CommitCreate(w, d) PROVE FALSE
    BY <1>2 DEF CommitCreate
  <1>3. Bookkeeping
    BY <1>1, <1>2, StepCases
  <1> QED
    BY <1>3, BookkeepingEffect, LinksEnd

\* A reply that passed its check keeps the referral and the case writable, too,
\* and its link unrevoked.
LEMMA ReplyStable ==
    ASSUME TypeOK, TypeOK', StepsInOrder, LocksExclude, LinksExclude, LinkTaken,
           [Next]_vars, NEW v \in Workers, session[v].op = "reply",
           "check" \in Taken(v), "check" \in Taken(v)', Writable, Answerable,
           session[v].link \notin revoked
    PROVE  /\ Writable'
           /\ session[v].link \notin revoked'
  <1> USE DEF caseVars, linkVars, fileVars
  <1>0. session[v].op \in RequestOps
    BY DEF RequestOps
  <1>1. /\ "referral" \in Taken(v) /\ "case" \in Taken(v) /\ "links" \in Taken(v)
    BY HeldSoFar
  <1>2. Bookkeeping
    BY <1>0, RequestStable DEF Answerable
  <1>3. ASSUME NEW w \in Workers, Transaction(w)
        PROVE  UNCHANGED <<refStatus, case, trashed, revoked>>
    BY <1>3 DEF Transaction, Begin, Acquire, Check, NotFound, DeadlockVictim, Refuse,
       Fail, Stop
  <1>4. ASSUME NEW w \in Workers,
               \/ CommitMessage(w) \/ \E b \in Browsers : CommitUse(w, b)
               \/ Upload(w) \/ UploadFails(w)
        PROVE  UNCHANGED <<refStatus, case, trashed, revoked>>
    BY <1>4 DEF CommitMessage, CommitUse, Upload, UploadFails, Stop
  <1>5. ASSUME NEW w \in Workers, CaseStep(w) PROVE FALSE
    <2>1. \/ Running(w, "settle") \/ Running(w, "toggle") \/ Running(w, "deleteReferral")
          \/ Running(w, "deleteCase") \/ Running(w, "restoreCase")
      BY <1>5 DEF CaseStep, CommitSettle, CommitToggle, CommitDeleteReferral,
         CommitDeleteCase, CommitRestoreCase
    <2>2. w # v
      BY <2>1 DEF Running
    <2>3. \E t \in Taken(w) : t \in {"referral", "case", "caseWrite"}
      BY <2>1, CommitHolds
    <2> QED
      BY <1>1, <2>2, <2>3, RowConflicts DEF LocksExclude
  <1>6. ASSUME NEW w \in Workers, CommitRevoke(w)
        PROVE  /\ UNCHANGED <<refStatus, case, trashed>>
               /\ session[v].link \notin revoked'
    <2>1. Running(w, "revoke") /\ w # v
      BY <1>6 DEF CommitRevoke, Running
    <2>2. "links" \in Taken(w) /\ session[w].op = "revoke"
      BY <2>1, CommitHolds DEF Running
    <2>3. session[w].link \in Links /\ session[w].link \in session[w].live
      BY <2>2 DEF LinkTaken
    <2>4. session[v].live \cap session[w].live = {}
      BY <1>1, <2>1, <2>2 DEF LinksExclude
    <2>5. session[v].link \in Links => session[v].link \in session[v].live
      BY <1>1 DEF LinkTaken
    <2>6. session[v].link # session[w].link
      BY <2>3, <2>4, <2>5
    <2> QED
      BY <1>6, <2>6 DEF CommitRevoke
  <1>7. ASSUME Tick \/ UNCHANGED vars
        PROVE  UNCHANGED <<refStatus, case, trashed, revoked>>
    BY <1>7 DEF Tick, vars
  <1> QED
    BY <1>2, <1>3, <1>4, <1>5, <1>6, <1>7 DEF Bookkeeping, Writable

\* A reply that passed its check may still be committed after every step.
LEMMA NextReplyHolds ==
    ASSUME IInv, TypeOK', [Next]_vars
    PROVE  ReplyHolds'
  <1> SUFFICES ASSUME NEW v \in Workers, session'[v].op = "reply", "check" \in Taken(v)'
               PROVE  /\ Writable' /\ Answerable'
                      /\ session'[v].link \notin revoked'
                      /\ docs' \subseteq session'[v].seen
    BY DEF ReplyHolds
  <1>0. /\ TypeOK /\ StepsInOrder /\ LocksExclude /\ LinksExclude /\ LinkTaken
        /\ ReplyHolds /\ revoked \subseteq Links
    BY DEF IInv, TypeOK
  <1>1. CASE /\ Check(v)
             /\ session'[v].op = session[v].op
             /\ session'[v].link = session[v].link
             /\ session'[v].seen = (IF session[v].op = "reply" THEN docs ELSE {})
    <2>1. session[v].op = "reply" /\ session'[v].seen = docs
      BY <1>1
    <2>3. Writable /\ Answerable /\ (session[v].link # Null => Live(session[v].link))
      BY <1>1, <2>1 DEF Check, Allowed
    <2>4. session[v].link \notin revoked
      BY <1>0, <2>3 DEF Live, Null, Links
    <2>5. UNCHANGED <<status, refStatus, case, trashed, revoked, docs>>
      BY <1>1 DEF Check, caseVars, linkVars, fileVars
    <2> QED
      BY <1>1, <2>1, <2>3, <2>4, <2>5 DEF Writable, Answerable
  <1>2. CASE /\ "check" \in Taken(v)
             /\ session'[v].op = session[v].op
             /\ session'[v].link = session[v].link
             /\ session'[v].seen = session[v].seen
    <2>1. session[v].op = "reply" /\ session[v].op \in RequestOps
      BY <1>2 DEF RequestOps
    <2>2. Writable /\ Answerable /\ session[v].link \notin revoked
          /\ docs \subseteq session[v].seen
      BY <1>0, <1>2, <2>1 DEF ReplyHolds
    <2>3. Writable' /\ session[v].link \notin revoked'
      BY <1>0, <1>2, <2>1, <2>2, ReplyStable
    <2>4. status' = status /\ docs' = docs
      BY <1>0, <1>2, <2>1, <2>2, RequestStable DEF Answerable
    <2> QED
      BY <1>2, <2>2, <2>3, <2>4 DEF Answerable
  <1>3. Acquire(v) => NextStep(v) # "check"
    BY DEF Acquire
  <1> QED
    BY <1>0, <1>1, <1>2, <1>3, TakenEffect

\* What the other operations found stays so until they commit.
LEMMA NextCheckHolds ==
    ASSUME IInv, TypeOK', [Next]_vars
    PROVE  CheckHolds'
  <1> SUFFICES ASSUME NEW v \in Workers, "check" \in Taken(v)',
                      session'[v].op \in {"issue", "complete", "cancel", "reopen"}
               PROVE  /\ session'[v].op \in {"issue", "complete", "cancel"} => Answerable'
                      /\ session'[v].op = "reopen" => status' \in Terminal
    BY DEF CheckHolds, Terminal
  <1>0. TypeOK /\ StepsInOrder /\ LocksExclude /\ CheckHolds
    BY DEF IInv
  <1>1. CASE Check(v) /\ session'[v].op = session[v].op
    <2>1. /\ session[v].op \in {"issue", "complete", "cancel"} => Answerable
          /\ session[v].op = "reopen" => status \in Terminal
      BY <1>1 DEF Check, Allowed
    <2>2. status' = status
      BY <1>1 DEF Check
    <2> QED
      BY <1>1, <2>1, <2>2 DEF Answerable, Terminal
  <1>2. CASE "check" \in Taken(v) /\ session'[v].op = session[v].op
    <2>1. session[v].op \in RequestOps
      BY <1>2 DEF RequestOps, Transitions
    <2>2. /\ session[v].op \in {"issue", "complete", "cancel"} => Answerable
          /\ session[v].op = "reopen" => status \in Terminal
      BY <1>0, <1>2 DEF CheckHolds
    <2>3. status # "none"
      BY <1>2, <2>2 DEF Answerable, Terminal
    <2>4. status' = status
      BY <1>0, <1>2, <2>1, <2>3, RequestStable
    <2> QED
      BY <1>2, <2>2, <2>4 DEF Answerable, Terminal
  <1>3. Acquire(v) => NextStep(v) # "check"
    BY DEF Acquire
  <1> QED
    BY <1>0, <1>1, <1>2, <1>3, TakenEffect

\* The usable links an operation has locked remain all there are.
LEMMA NextLinkHolds ==
    ASSUME IInv, TypeOK', [Next]_vars
    PROVE  LinkHolds'
  <1> SUFFICES ASSUME NEW v \in Workers, "links" \in Taken(v)',
                      session'[v].op \in {"issue", "complete", "cancel", "reopen"}
               PROVE  /\ session'[v].op \in {"issue", "cancel", "reopen"} =>
                           LiveLinks' \subseteq session'[v].live
                      /\ session'[v].op = "complete" =>
                           \A k, l \in LiveLinks' \cup session'[v].live : k = l
    BY DEF LinkHolds
  <1>0. /\ TypeOK /\ StepsInOrder /\ LocksExclude /\ CheckHolds /\ LinkHolds
        /\ OneUsableLink
    BY DEF IInv
  <1>1. CASE /\ Acquire(v) /\ NextStep(v) = "links"
             /\ session'[v].op = session[v].op
             /\ session'[v].live = Wanted(v)
    <2>1. UNCHANGED <<expires, revoked, clock>>
      BY <1>1 DEF Acquire, linkVars
    <2>2. LiveLinks' = LiveLinks
      BY <2>1 DEF LiveLinks, Live
    <2>3. ASSUME session[v].op \in {"issue", "cancel"} PROVE Wanted(v) = LiveLinks
      BY <2>3 DEF Wanted
    <2>4. ASSUME session[v].op = "complete" PROVE Wanted(v) \subseteq LiveLinks
      BY <2>4 DEF Wanted
    <2>5. ASSUME session[v].op = "reopen" PROVE LiveLinks \subseteq Wanted(v)
      <3>1. ASSUME NEW l \in LiveLinks PROVE expires[l] # Null
        BY <1>0, BoundsAssumption DEF LiveLinks, Live, Null, TypeOK
      <3> QED
        BY <2>5, <3>1 DEF Wanted, LiveLinks, Live
    <2> QED
      BY <1>0, <1>1, <2>2, <2>3, <2>4, <2>5 DEF OneUsableLink
  <1>2. CASE /\ "links" \in Taken(v)
             /\ Taken(v) \subseteq Taken(v)'
             /\ session'[v].op = session[v].op
             /\ session'[v].live = session[v].live
    <2>1. session[v].op \in RequestOps /\ session[v].op \in Transitions \cup {"issue"}
      BY <1>2 DEF RequestOps, Transitions
    <2>2. "check" \in Taken(v) /\ "check" \in Taken(v)'
      BY <1>0, <1>2, <2>1, HeldSoFar
    <2>3. status # "none"
      BY <1>0, <1>2, <2>2 DEF CheckHolds, Answerable, Terminal
    <2>4. LiveLinks' \subseteq LiveLinks
      BY <1>0, <2>1, <2>2, <2>3, RequestStable
    <2> QED
      BY <1>0, <1>2, <2>4 DEF LinkHolds
  <1> QED
    BY <1>0, <1>1, <1>2, TakenEffect

-----------------------------------------------------------------------------
(* The safety invariants. *)

\* What the commit of a transition or an issue can rely on.
LEMMA CommitReady ==
    ASSUME IInv, NEW w \in Workers
    PROVE  /\ \A op \in {"issue", "complete", "cancel", "reply"} :
                Running(w, op) => Answerable
           /\ Running(w, "reopen") => status \in Terminal
           /\ \A op \in {"issue", "cancel", "reopen"} :
                Running(w, op) => LiveLinks \subseteq session[w].live
           /\ Running(w, "complete") =>
                \A k, l \in LiveLinks \cup session[w].live : k = l
           /\ Running(w, "reply") =>
                /\ Writable /\ session[w].link \notin revoked
                /\ docs \subseteq session[w].seen
  <1>1. ASSUME NEW op \in RequestOps, Running(w, op)
        PROVE  session[w].op = op /\ "check" \in Taken(w) /\ "links" \in Taken(w)
    BY <1>1, CommitHolds DEF IInv, Running
  <1>2. \A op \in {"issue", "complete", "cancel", "reopen", "reply"} : op \in RequestOps
    BY DEF RequestOps, Transitions
  <1> QED
    BY <1>1, <1>2 DEF IInv, CheckHolds, LinkHolds, ReplyHolds

\* Issuing leaves the new link as the only usable one.
LEMMA IssueEffect ==
    ASSUME IInv, TypeOK', NEW w \in Workers, NEW l \in Links, CommitIssue(w, l)
    PROVE  LiveLinks' \subseteq {l} /\ status' = status /\ Answerable
  <1>1. Answerable /\ LiveLinks \subseteq session[w].live
    BY CommitReady DEF CommitIssue
  <1>2. ASSUME NEW k \in Links, k # l, expires'[k] > clock', k \notin revoked'
        PROVE  FALSE
    <2>1. expires'[k] = expires[k] /\ clock' = clock
      BY <1>2 DEF CommitIssue, IInv, TypeOK
    <2>2. k \notin revoked /\ k \notin session[w].live
      BY <1>2 DEF CommitIssue
    <2>3. k \in LiveLinks
      BY <1>2, <2>1, <2>2 DEF LiveLinks, Live
    <2> QED
      BY <1>1, <2>2, <2>3
  <1> QED
    BY <1>1, <1>2 DEF LiveLinks, Live, CommitIssue

\* Completing extends no link but the usable one.
LEMMA CompleteEffect ==
    ASSUME IInv, TypeOK', NEW w \in Workers, CommitComplete(w)
    PROVE  /\ \A k, l \in LiveLinks' : k = l
           /\ status' = "COMPLETED" /\ Answerable
  <1>1. Answerable /\ \A k, l \in LiveLinks \cup session[w].live : k = l
    BY CommitReady DEF CommitComplete
  <1>2. ASSUME NEW k \in Links, k \notin session[w].live, expires'[k] > clock',
               k \notin revoked'
        PROVE  k \in LiveLinks
    <2>1. expires'[k] = expires[k] /\ clock' = clock /\ revoked' = revoked
      BY <1>2 DEF CommitComplete, IInv, TypeOK
    <2> QED
      BY <1>2, <2>1 DEF LiveLinks, Live
  <1>3. LiveLinks' \subseteq LiveLinks \cup session[w].live
    BY <1>2 DEF LiveLinks, Live
  <1> QED
    BY <1>1, <1>3 DEF CommitComplete

\* Cancelling leaves no usable link.
LEMMA CancelEffect ==
    ASSUME IInv, TypeOK', NEW w \in Workers, CommitCancel(w)
    PROVE  LiveLinks' = {} /\ status' = "CANCELLED" /\ Answerable
  <1>1. Answerable /\ LiveLinks \subseteq session[w].live
    BY CommitReady DEF CommitCancel
  <1>2. /\ expires' = expires /\ clock' = clock
        /\ revoked' = revoked \cup session[w].live
    BY DEF CommitCancel
  <1>3. LiveLinks' \subseteq LiveLinks /\ \A l \in LiveLinks' : l \notin session[w].live
    BY <1>2 DEF LiveLinks, Live
  <1> QED
    BY <1>1, <1>3 DEF CommitCancel

\* Reopening leaves no usable link.
LEMMA ReopenEffect ==
    ASSUME IInv, TypeOK', NEW w \in Workers, CommitReopen(w)
    PROVE  LiveLinks' = {} /\ status' = "OPEN" /\ status \in Terminal
  <1>1. status \in Terminal /\ LiveLinks \subseteq session[w].live
    BY CommitReady DEF CommitReopen
  <1>2. /\ expires' = expires /\ clock' = clock
        /\ revoked' = revoked \cup session[w].live
    BY DEF CommitReopen
  <1>3. LiveLinks' \subseteq LiveLinks /\ \A l \in LiveLinks' : l \notin session[w].live
    BY <1>2 DEF LiveLinks, Live
  <1> QED
    BY <1>1, <1>3 DEF CommitReopen

\* A reply supersedes the documents before it.
LEMMA ReplyEffect ==
    ASSUME IInv, TypeOK', NEW w \in Workers, CommitReply(w)
    PROVE  /\ OneLiveDocument'
           /\ LiveLinks' = LiveLinks
           /\ status' = "CLIENT_RESPONDED" /\ Answerable
  <1>1. Answerable /\ docs \subseteq session[w].seen
    BY CommitReady DEF CommitReply
  <1>2. session[w].files \in SUBSET Files
    BY DEF IInv, TypeOK, Session
  <1>3. ASSUME session[w].files = {} PROVE OneLiveDocument'
    <2>1. docs' = docs /\ rows \subseteq rows'
      BY <1>3 DEF CommitReply
    <2> QED
      BY <2>1 DEF IInv, OneLiveDocument
  <1>4. ASSUME session[w].files # {} PROVE OneLiveDocument'
    <2>1. docs' = LastOf(session[w].files) /\ session[w].files \subseteq rows'
      BY <1>1, <1>4 DEF CommitReply
    <2>2. LastOf(session[w].files) \subseteq session[w].files
          /\ \A f, g \in LastOf(session[w].files) : f = g
      BY <1>2, LastOfFacts
    <2> QED
      BY <2>1, <2>2 DEF OneLiveDocument
  <1>5. LiveLinks' = LiveLinks
    BY DEF CommitReply, linkVars, LiveLinks, Live
  <1> QED
    BY <1>1, <1>3, <1>4, <1>5 DEF CommitReply

\* A new request starts without documents superseded or links given out.
LEMMA CreateEffect ==
    ASSUME NEW w \in Workers, NEW d, CommitCreate(w, d)
    PROVE  /\ LiveLinks' = LiveLinks
           /\ status = "none" /\ status' = "OPEN" /\ docs' = docs /\ rows' = rows
  BY DEF CommitCreate, linkVars, fileVars, LiveLinks, Live

\* Every step keeps the three safety invariants.
LEMMA NextSafe ==
    ASSUME IInv, TypeOK', [Next]_vars
    PROVE  OneUsableLink' /\ CancelledIsDark' /\ OneLiveDocument'
  <1>0. OneUsableLink /\ CancelledIsDark /\ OneLiveDocument /\ TypeOK
    BY DEF IInv
  <1>1. CASE Bookkeeping
    <2>1. LiveLinks' \subseteq LiveLinks /\ status' = status /\ docs' = docs /\ rows' = rows
      BY <1>0, <1>1, BookkeepingEffect, LinksEnd
    <2> QED
      BY <1>0, <2>1 DEF OneUsableLink, CancelledIsDark, OneLiveDocument
  <1>2. ASSUME NEW w \in Workers, NEW d \in Dues, CommitCreate(w, d)
        PROVE  OneUsableLink' /\ CancelledIsDark' /\ OneLiveDocument'
    BY <1>0, <1>2, CreateEffect DEF OneUsableLink, CancelledIsDark, OneLiveDocument
  <1>3. ASSUME NEW w \in Workers, NEW l \in Links, CommitIssue(w, l)
        PROVE  OneUsableLink' /\ CancelledIsDark' /\ OneLiveDocument'
    <2>1. LiveLinks' \subseteq {l} /\ status' = status /\ Answerable
      BY <1>3, IssueEffect
    <2>2. docs' = docs /\ rows' = rows
      BY <1>3 DEF CommitIssue, fileVars
    <2> QED
      BY <1>0, <2>1, <2>2
         DEF OneUsableLink, CancelledIsDark, OneLiveDocument, Answerable
  <1>4. ASSUME NEW w \in Workers, CommitComplete(w)
        PROVE  OneUsableLink' /\ CancelledIsDark' /\ OneLiveDocument'
    <2>1. docs' = docs /\ rows' = rows
      BY <1>4 DEF CommitComplete, fileVars
    <2> QED
      BY <1>0, <1>4, <2>1, CompleteEffect
         DEF OneUsableLink, CancelledIsDark, OneLiveDocument
  <1>5. ASSUME NEW w \in Workers, CommitCancel(w) \/ CommitReopen(w)
        PROVE  OneUsableLink' /\ CancelledIsDark' /\ OneLiveDocument'
    <2>1. docs' = docs /\ rows' = rows
      BY <1>5 DEF CommitCancel, CommitReopen, fileVars
    <2>2. LiveLinks' = {}
      BY <1>5, CancelEffect, ReopenEffect
    <2> QED
      BY <1>0, <2>1, <2>2 DEF OneUsableLink, CancelledIsDark, OneLiveDocument
  <1>6. ASSUME NEW w \in Workers, CommitReply(w)
        PROVE  OneUsableLink' /\ CancelledIsDark' /\ OneLiveDocument'
    BY <1>0, <1>6, ReplyEffect DEF OneUsableLink, CancelledIsDark
  <1> QED
    BY <1>1, <1>2, <1>3, <1>4, <1>5, <1>6, StepCases

-----------------------------------------------------------------------------
(* The theorems. *)

LEMMA InitInv == Init => IInv
  <1> SUFFICES ASSUME Init PROVE IInv
    OBVIOUS
  <1>1. TypeOK
    BY InitTypeOK
  <1>2. \A w \in Workers : session[w] = Idle
    BY DEF Init
  <1>3. \A w \in Workers : Taken(w) = {}
    BY <1>2 DEF Idle, Taken
  <1>4. StepsInOrder /\ LocksExclude /\ LinksExclude /\ LinkTaken
    BY <1>2, <1>3, StepsFacts DEF StepsInOrder, LocksExclude, LinksExclude, LinkTaken, Idle
  <1>7. ReplyHolds /\ CheckHolds /\ LinkHolds
    BY <1>3 DEF ReplyHolds, CheckHolds, LinkHolds
  <1>5. LiveLinks = {}
    BY BoundsAssumption DEF Init, LiveLinks, Live, Null
  <1>6. OneUsableLink /\ CancelledIsDark /\ OneLiveDocument
    BY <1>5 DEF Init, OneUsableLink, CancelledIsDark, OneLiveDocument
  <1> QED
    BY <1>1, <1>4, <1>6, <1>7 DEF IInv

LEMMA NextInv == IInv /\ [Next]_vars => IInv'
  <1> SUFFICES ASSUME IInv, [Next]_vars PROVE IInv'
    OBVIOUS
  <1>1. TypeOK'
    BY NextTypeOK DEF IInv
  <1>2. StepsInOrder' /\ LocksExclude' /\ LinksExclude' /\ LinkTaken'
    BY NextStepsInOrder, NextLocksExclude, NextLinksExclude, NextLinkTaken DEF IInv
  <1>3. ReplyHolds' /\ CheckHolds' /\ LinkHolds'
    BY <1>1, NextReplyHolds, NextCheckHolds, NextLinkHolds
  <1>4. OneUsableLink' /\ CancelledIsDark' /\ OneLiveDocument'
    BY <1>1, NextSafe
  <1> QED
    BY <1>1, <1>2, <1>3, <1>4 DEF IInv

\* The lock discipline, what each operation found under its locks, and the
\* safety properties hold together in every reachable state.
THEOREM InductiveInvariant == Spec => []IInv
  BY InitInv, NextInv, PTL DEF Spec

\* Every variable keeps its type.
THEOREM TypeCorrect == Spec => []TypeOK
  <1>1. IInv => TypeOK
    BY DEF IInv
  <1> QED
    BY <1>1, InductiveInvariant, PTL

\* A client never has two usable links to a request (issue, transition, revoke).
THEOREM OneLink == Spec => []OneUsableLink
  <1>1. IInv => OneUsableLink
    BY DEF IInv
  <1> QED
    BY <1>1, InductiveInvariant, PTL

\* A cancelled request has no usable link (issue, transition).
THEOREM CancelEndsAccess == Spec => []CancelledIsDark
  <1>1. IInv => CancelledIsDark
    BY DEF IInv
  <1> QED
    BY <1>1, InductiveInvariant, PTL

\* The checklist item has one live document (sendClientMessage).
THEOREM OneDocument == Spec => []OneLiveDocument
  <1>1. IInv => OneLiveDocument
    BY DEF IInv
  <1> QED
    BY <1>1, InductiveInvariant, PTL

\* Replies are committed only while they are allowed (sendClientMessage).
THEOREM RepliesComeInTime == Spec => RepliesInTime
  <1>1. IInv /\ [Next]_vars =>
          [\A w \in Workers : CommitReply(w) =>
              Writable /\ Answerable /\ session[w].link \notin revoked]_vars
    BY CommitReady DEF CommitReply
  <1> QED
    BY <1>1, InductiveInvariant, PTL DEF Spec, RepliesInTime

\* A finished request stays finished until it is reopened (transition).
THEOREM FinishedStays == Spec => FinishedStaysFinished
  <1>1. ASSUME IInv, IInv', [Next]_vars, status \in Terminal, status' # status
        PROVE  status' = "OPEN" /\ LiveLinks' = {}
    <2>0. TypeOK /\ TypeOK'
      BY <1>1 DEF IInv
    <2>1. ~Bookkeeping
      BY <1>1, <2>0, BookkeepingEffect
    <2>2. ASSUME NEW w \in Workers, NEW d, CommitCreate(w, d) PROVE FALSE
      BY <1>1, <2>2, CreateEffect DEF Terminal
    <2>3. ASSUME NEW w \in Workers, NEW l \in Links, CommitIssue(w, l) PROVE FALSE
      BY <1>1, <2>0, <2>3, IssueEffect
    <2>4. ASSUME NEW w \in Workers, CommitComplete(w) \/ CommitCancel(w) \/ CommitReply(w)
          PROVE  FALSE
      BY <1>1, <2>0, <2>4, CompleteEffect, CancelEffect, ReplyEffect
         DEF Terminal, Answerable
    <2>5. \E w \in Workers : CommitReopen(w)
      BY <1>1, <2>1, <2>2, <2>3, <2>4, StepCases
    <2> QED
      BY <1>1, <2>0, <2>5, ReopenEffect
  <1>2. IInv /\ IInv' /\ [Next]_vars =>
          [(status \in Terminal /\ status' # status) =>
             (status' = "OPEN" /\ LiveLinks' = {})]_vars
    BY <1>1
  <1> QED
    BY <1>2, InductiveInvariant, PTL DEF Spec, FinishedStaysFinished

-----------------------------------------------------------------------------
(* Deadlocks. *)

Deletions == {"deleteReferral", "deleteCase", "restoreCase"}
Rank == [r \in {"request", "referral", "case", "links", "chain"} |->
           CASE r = "request" -> 1 [] r = "referral" -> 2 [] r = "case" -> 3
             [] r = "links" -> 4 [] OTHER -> 5]

\* The steps taken against the common order: a transition comes to the links,
\* and a new or settling request to the key of the case, with the chain locked.
Backwards(op, step) ==
    \/ op \in Transitions /\ step = "links"
    \/ op \in {"create", "settle"} /\ step = "caseKey"

\* The ranks of the resources.
LEMMA RankFacts ==
    /\ \A s \in StepNames \ {"check"} : Resource(s) \in DOMAIN Rank
    /\ \A r \in DOMAIN Rank : Rank[r] \in 1..5
    /\ Rank["request"] = 1 /\ Rank["referral"] = 2 /\ Rank["case"] = 3
    /\ Rank["links"] = 4 /\ Rank["chain"] = 5
  BY DEF Rank, Resource, StepNames

\* What an operation that is no deletion holds ranks below its next lock, unless
\* that one goes backwards.
LEMMA LocksUpward ==
    ASSUME NEW op \in Ops, op \notin Deletions,
           NEW j \in 1..Len(StepsOf(op)), NEW i \in 1..(j - 1),
           StepsOf(op)[i] # "check", StepsOf(op)[j] # "check",
           ~Backwards(op, StepsOf(op)[j])
    PROVE  Rank[Resource(StepsOf(op)[i])] < Rank[Resource(StepsOf(op)[j])]
  <1>0. /\ Resource("request") = "request" /\ Resource("requestKey") = "request"
        /\ Resource("referral") = "referral" /\ Resource("referralKey") = "referral"
        /\ Resource("case") = "case" /\ Resource("links") = "links"
        /\ Resource("chain") = "chain"
    BY DEF Resource
  <1> DEFINE r == [k \in 1..Len(StepsOf(op)) |-> Rank[Resource(StepsOf(op)[k])]]
  <1>9. SUFFICES r[i] < r[j]
    BY StepsTyped
  <1>1. CASE op = "reply"
    <2>1. StepsOf(op) = <<"request", "referral", "case", "links", "check", "chain">>
      BY <1>1, StepsFacts
    <2>2. /\ r[1] = 1 /\ r[2] = 2 /\ r[3] = 3
          /\ r[4] = 4 /\ StepsOf(op)[5] = "check" /\ r[6] = 5
      BY <1>0, <2>1, RankFacts DEF StepNames
    <2>3. i \in 1..6 /\ j \in 1..6 /\ i < j
      BY <2>1
    <2> HIDE DEF r
    <2> QED
      BY <2>2, <2>3
  <1>2. CASE op \in Transitions
    <2>1. StepsOf(op) = <<"request", "referral", "case", "check", "chain", "links">>
      BY <1>2, StepsFacts DEF Transitions
    <2>2. /\ r[1] = 1 /\ r[2] = 2 /\ r[3] = 3
          /\ StepsOf(op)[4] = "check" /\ r[5] = 5 /\ StepsOf(op)[6] = "links"
      BY <1>0, <2>1, RankFacts DEF StepNames
    <2>3. i \in 1..6 /\ j \in 1..6 /\ i < j
      BY <2>1
    <2>4. j # 6
      BY <1>2, <2>1 DEF Backwards
    <2> HIDE DEF r
    <2> QED
      BY <2>2, <2>3, <2>4
  <1>3. CASE op = "create"
    <2>1. StepsOf(op) = <<"check", "referralKey", "chain", "caseKey">>
      BY <1>3, StepsFacts
    <2>2. /\ StepsOf(op)[1] = "check" /\ r[2] = 2 /\ r[3] = 5
          /\ StepsOf(op)[4] = "caseKey"
      BY <1>0, <2>1, RankFacts DEF StepNames
    <2>3. i \in 1..4 /\ j \in 1..4 /\ i < j
      BY <2>1
    <2>4. j # 4
      BY <1>3, <2>1 DEF Backwards
    <2> HIDE DEF r
    <2> QED
      BY <2>2, <2>3, <2>4
  <1>4. CASE op = "settle"
    <2>1. StepsOf(op) = <<"referral", "check", "chain", "caseKey">>
      BY <1>4, StepsFacts
    <2>2. /\ r[1] = 2 /\ StepsOf(op)[2] = "check" /\ r[3] = 5
          /\ StepsOf(op)[4] = "caseKey"
      BY <1>0, <2>1, RankFacts DEF StepNames
    <2>3. i \in 1..4 /\ j \in 1..4 /\ i < j
      BY <2>1
    <2>4. j # 4
      BY <1>4, <2>1 DEF Backwards
    <2> HIDE DEF r
    <2> QED
      BY <2>2, <2>3, <2>4
  <1>5. CASE op = "issue"
    <2>1. StepsOf(op) = <<"request", "check", "links", "chain">>
      BY <1>5, StepsFacts
    <2>2. /\ r[1] = 1 /\ StepsOf(op)[2] = "check" /\ r[3] = 4
          /\ r[4] = 5
      BY <1>0, <2>1, RankFacts DEF StepNames
    <2>3. i \in 1..4 /\ j \in 1..4 /\ i < j
      BY <2>1
    <2> HIDE DEF r
    <2> QED
      BY <2>2, <2>3
  <1>6. CASE op = "message"
    <2>1. StepsOf(op) = <<"check", "requestKey", "chain">>
      BY <1>6, StepsFacts
    <2>2. /\ StepsOf(op)[1] = "check" /\ r[2] = 1 /\ r[3] = 5
      BY <1>0, <2>1, RankFacts DEF StepNames
    <2>3. i \in 1..3 /\ j \in 1..3 /\ i < j
      BY <2>1
    <2> HIDE DEF r
    <2> QED
      BY <2>2, <2>3
  <1>7. CASE op = "toggle"
    <2>1. StepsOf(op) = <<"case", "check", "chain">>
      BY <1>7, StepsFacts
    <2>2. /\ r[1] = 3 /\ StepsOf(op)[2] = "check" /\ r[3] = 5
      BY <1>0, <2>1, RankFacts DEF StepNames
    <2>3. i \in 1..3 /\ j \in 1..3 /\ i < j
      BY <2>1
    <2> HIDE DEF r
    <2> QED
      BY <2>2, <2>3
  <1>8. CASE op \in {"revoke", "use"}
    <2>1. StepsOf(op) = <<"links", "check", "chain">>
      BY <1>8, StepsFacts
    <2>2. /\ r[1] = 4 /\ StepsOf(op)[2] = "check" /\ r[3] = 5
      BY <1>0, <2>1, RankFacts DEF StepNames
    <2>3. i \in 1..3 /\ j \in 1..3 /\ i < j
      BY <2>1
    <2> HIDE DEF r
    <2> QED
      BY <2>2, <2>3
  <1> QED
    BY <1>1, <1>2, <1>3, <1>4, <1>5, <1>6, <1>7, <1>8 DEF Ops, Deletions, Transitions

\* Where a step stands that an operation has taken, or takes next.
LEMMA StepIndex ==
    ASSUME TypeOK, StepsInOrder, NEW w \in Workers
    PROVE  /\ \A s \in Taken(w) : \E i \in 1..session[w].done :
                 /\ i \in 1..Len(StepsOf(session[w].op)) /\ s = StepsOf(session[w].op)[i]
                 /\ \A k \in 1..i : StepsOf(session[w].op)[k] \in Taken(w)
           /\ Unfinished(w) => \E j \in 1..Len(StepsOf(session[w].op)) :
                 /\ j = session[w].done + 1 /\ NextStep(w) = StepsOf(session[w].op)[j]
                 /\ \A k \in 1..(j - 1) : StepsOf(session[w].op)[k] \in Taken(w)
  <1>0. session[w].done \in 0..6 /\ Len(StepsOf(session[w].op)) \in 0..6
        /\ session[w].done <= Len(StepsOf(session[w].op))
    BY StepsTyped DEF TypeOK, Session, StepsInOrder
  <1>1. ASSUME NEW s \in Taken(w)
        PROVE  \E i \in 1..session[w].done :
                 /\ i \in 1..Len(StepsOf(session[w].op)) /\ s = StepsOf(session[w].op)[i]
                 /\ \A k \in 1..i : StepsOf(session[w].op)[k] \in Taken(w)
    <2>1. PICK i \in 1..session[w].done : s = StepsOf(session[w].op)[i]
      BY <1>1 DEF Taken
    <2>2. i \in 1..Len(StepsOf(session[w].op)) /\ \A k \in 1..i : k \in 1..session[w].done
      BY <1>0
    <2>3. \A k \in 1..i : StepsOf(session[w].op)[k] \in Taken(w)
      BY <2>2 DEF Taken
    <2> QED
      BY <2>1, <2>2, <2>3
  <1>2. ASSUME Unfinished(w)
        PROVE  \E j \in 1..Len(StepsOf(session[w].op)) :
                 /\ j = session[w].done + 1 /\ NextStep(w) = StepsOf(session[w].op)[j]
                 /\ \A k \in 1..(j - 1) : StepsOf(session[w].op)[k] \in Taken(w)
    <2>1. session[w].done + 1 \in 1..Len(StepsOf(session[w].op))
      BY <1>2, NextStepTyped
    <2>2. \A k \in 1..(session[w].done + 1 - 1) : k \in 1..session[w].done
      BY <1>0
    <2>3. \A k \in 1..(session[w].done + 1 - 1) : StepsOf(session[w].op)[k] \in Taken(w)
      BY <2>2 DEF Taken
    <2>4. NextStep(w) = StepsOf(session[w].op)[session[w].done + 1]
      BY DEF NextStep
    <2>5. PICK j \in 1..Len(StepsOf(session[w].op)) : j = session[w].done + 1
      BY <2>1
    <2> QED
      BY <1>0, <2>3, <2>4, <2>5
  <1> QED
    BY <1>1, <1>2

\* Who holds a link or the case, and what else with it.
LEMMA Holders ==
    ASSUME TypeOK, StepsInOrder, NEW v \in Workers, session[v].op \notin Deletions
    PROVE  /\ "links" \in Taken(v) =>
                session[v].op \in {"revoke", "use"} \/ "request" \in Taken(v)
           /\ "case" \in Taken(v) =>
                session[v].op = "toggle" \/ "referral" \in Taken(v)
           /\ "caseWrite" \notin Taken(v)
  <1>0. session[v].op \in Ops \cup {"idle"}
    BY DEF TypeOK, Session
  <1>1. CASE session[v].op = "reply"
    <2>1. StepsOf(session[v].op) =
            <<"request", "referral", "case", "links", "check", "chain">>
      BY <1>1, StepsFacts
    <2>2. ASSUME NEW s \in {"links", "case"}, s \in Taken(v)
          PROVE  "request" \in Taken(v) /\ "referral" \in Taken(v)
      <3>1. PICK i \in 1..6 : /\ s = StepsOf(session[v].op)[i]
                              /\ \A k \in 1..i : StepsOf(session[v].op)[k] \in Taken(v)
        BY <2>1, <2>2, StepIndex
      <3>2. i # 1
        BY <2>1, <3>1
      <3>3. 1 \in 1..i /\ 2 \in 1..i
        BY <3>2
      <3> QED
        BY <2>1, <3>1, <3>3
    <2>3. \A i \in 1..6 : StepsOf(session[v].op)[i] # "caseWrite"
      BY <2>1
    <2>4. "caseWrite" \notin Taken(v)
      BY <2>1, <2>3, StepIndex
    <2> QED
      BY <2>2, <2>4
  <1>2. CASE session[v].op \in Transitions
    <2>1. StepsOf(session[v].op) =
            <<"request", "referral", "case", "check", "chain", "links">>
      BY <1>2, StepsFacts DEF Transitions
    <2>2. ASSUME NEW s \in {"links", "case"}, s \in Taken(v)
          PROVE  "request" \in Taken(v) /\ "referral" \in Taken(v)
      <3>1. PICK i \in 1..6 : /\ s = StepsOf(session[v].op)[i]
                              /\ \A k \in 1..i : StepsOf(session[v].op)[k] \in Taken(v)
        BY <2>1, <2>2, StepIndex
      <3>2. i # 1
        BY <2>1, <3>1
      <3>3. 1 \in 1..i /\ 2 \in 1..i
        BY <3>2
      <3> QED
        BY <2>1, <3>1, <3>3
    <2>3. \A i \in 1..6 : StepsOf(session[v].op)[i] # "caseWrite"
      BY <2>1
    <2>4. "caseWrite" \notin Taken(v)
      BY <2>1, <2>3, StepIndex
    <2> QED
      BY <2>2, <2>4
  <1>3. CASE session[v].op = "issue"
    <2>1. StepsOf(session[v].op) = <<"request", "check", "links", "chain">>
      BY <1>3, StepsFacts
    <2>0. Len(StepsOf(session[v].op)) = 4
      BY <2>1
    <2>2. \A i \in 1..4 : StepsOf(session[v].op)[i] \notin {"case", "caseWrite"}
      BY <2>1
    <2>3. "case" \notin Taken(v) /\ "caseWrite" \notin Taken(v)
      BY <2>0, <2>2, StepIndex
    <2>4. ASSUME "links" \in Taken(v) PROVE "request" \in Taken(v)
      <3>1. PICK i \in 1..4 : \A k \in 1..i : StepsOf(session[v].op)[k] \in Taken(v)
        BY <2>0, <2>4, StepIndex
      <3>2. 1 \in 1..i
        OBVIOUS
      <3> QED
        BY <2>1, <3>1, <3>2
    <2> QED
      BY <2>3, <2>4
  <1>4. CASE session[v].op \in {"create", "settle", "message", "idle"}
    <2>1. \A i \in 1..Len(StepsOf(session[v].op)) :
            StepsOf(session[v].op)[i] \notin {"links", "case", "caseWrite"}
      <3>1. CASE session[v].op = "create"
        <4>1. StepsOf(session[v].op) = <<"check", "referralKey", "chain", "caseKey">>
          BY <3>1, StepsFacts
        <4> QED
          BY <4>1
      <3>2. CASE session[v].op = "settle"
        <4>1. StepsOf(session[v].op) = <<"referral", "check", "chain", "caseKey">>
          BY <3>2, StepsFacts
        <4> QED
          BY <4>1
      <3>3. CASE session[v].op = "message"
        <4>1. StepsOf(session[v].op) = <<"check", "requestKey", "chain">>
          BY <3>3, StepsFacts
        <4> QED
          BY <4>1
      <3>4. CASE session[v].op = "idle"
        <4>1. StepsOf(session[v].op) = <<>>
          BY <3>4, StepsFacts
        <4> QED
          BY <4>1
      <3> QED
        BY <1>4, <3>1, <3>2, <3>3, <3>4
    <2> QED
      BY <2>1, StepIndex
  <1>5. CASE session[v].op \in {"toggle", "revoke", "use"}
    <2>1. /\ session[v].op = "toggle" => StepsOf(session[v].op) = <<"case", "check", "chain">>
          /\ session[v].op # "toggle" =>
               StepsOf(session[v].op) = <<"links", "check", "chain">>
      BY <1>5, StepsFacts
    <2>2. \A i \in 1..Len(StepsOf(session[v].op)) :
            /\ session[v].op = "toggle" => StepsOf(session[v].op)[i] # "links"
            /\ session[v].op # "toggle" => StepsOf(session[v].op)[i] # "case"
            /\ StepsOf(session[v].op)[i] # "caseWrite"
      BY <2>1
    <2> QED
      BY <1>5, <2>2, StepIndex
  <1> QED
    BY <1>0, <1>1, <1>2, <1>3, <1>4, <1>5 DEF Ops, Deletions, Transitions

\* Only the two known pairs wait against the common order.
LEMMA NoBackwardsWait ==
    ASSUME TypeOK, StepsInOrder, LocksExclude, NEW v \in Workers, NEW w \in Workers,
           session[v].op \notin Deletions, WaitsFor(w, v),
           Backwards(session[w].op, NextStep(w))
    PROVE  \/ session[w].op \in Transitions /\ session[v].op \in {"revoke", "use"}
           \/ session[w].op \in {"create", "settle"} /\ session[v].op = "toggle"
  <1>1. PICK held \in Taken(v) : v # w /\ Conflict(held, NextStep(w))
    BY DEF WaitsFor, Blocks
  <1>2. held \in StepNames
    BY TakenTyped
  <1>3. CASE session[w].op \in Transitions /\ NextStep(w) = "links"
    <2>1. held = "links"
      BY <1>1, <1>2, <1>3, ConflictFacts DEF StepNames
    <2>2. StepsOf(session[w].op) =
            <<"request", "referral", "case", "check", "chain", "links">>
      BY <1>3, StepsFacts DEF Transitions
    <2>3. "request" \in Taken(w)
      <3>1. PICK j \in 1..6 : /\ NextStep(w) = StepsOf(session[w].op)[j]
                              /\ \A k \in 1..(j - 1) : StepsOf(session[w].op)[k] \in Taken(w)
        BY <2>2, StepIndex DEF WaitsFor
      <3>2. j = 6
        BY <1>3, <2>2, <3>1
      <3>3. 1 \in 1..(j - 1)
        BY <3>2
      <3> QED
        BY <2>2, <3>1, <3>3
    <2>4. "request" \notin Taken(v)
      BY <1>1, <2>3, RequestAlone
    <2> QED
      BY <1>3, <2>1, <2>4, Holders
  <1>4. CASE session[w].op \in {"create", "settle"} /\ NextStep(w) = "caseKey"
    <2>1. held \in {"case", "caseWrite"}
      BY <1>1, <1>2, <1>4 DEF Conflict, Resource, Keys, Writes, StepNames
    <2>2. "referral" \in Taken(w) \/ "referralKey" \in Taken(w)
      <3>1. /\ session[w].op = "create" =>
                 StepsOf(session[w].op) = <<"check", "referralKey", "chain", "caseKey">>
            /\ session[w].op = "settle" =>
                 StepsOf(session[w].op) = <<"referral", "check", "chain", "caseKey">>
        BY StepsFacts
      <3>4. Len(StepsOf(session[w].op)) = 4
        BY <1>4, <3>1
      <3>2. PICK j \in 1..4 : /\ NextStep(w) = StepsOf(session[w].op)[j]
                              /\ \A k \in 1..(j - 1) : StepsOf(session[w].op)[k] \in Taken(w)
        BY <3>4, StepIndex DEF WaitsFor
      <3>3. j = 4
        BY <1>4, <3>1, <3>2
      <3>5. 1 \in 1..(j - 1) /\ 2 \in 1..(j - 1)
        BY <3>3
      <3>6. StepsOf(session[w].op)[1] \in Taken(w) /\ StepsOf(session[w].op)[2] \in Taken(w)
        BY <3>2, <3>5
      <3> QED
        BY <1>4, <3>1, <3>6
    <2>3. "referral" \notin Taken(v)
      BY <1>1, <2>2, RowConflicts DEF LocksExclude
    <2> QED
      BY <1>4, <2>1, <2>3, Holders
  <1> QED
    BY <1>3, <1>4 DEF Backwards

\* An operation waits for one whose next lock ranks higher than its own.
LEMMA WaitsUpward ==
    ASSUME TypeOK, StepsInOrder, NEW v \in Workers, NEW w \in Workers,
           session[v].op \notin Deletions, WaitsFor(w, v),
           Unfinished(v), NextStep(v) # "check", ~Backwards(session[v].op, NextStep(v))
    PROVE  Rank[Resource(NextStep(w))] < Rank[Resource(NextStep(v))]
  <1>1. PICK held \in Taken(v) : Conflict(held, NextStep(w))
    BY DEF WaitsFor, Blocks
  <1>2. Resource(held) = Resource(NextStep(w)) /\ held # "check"
    BY <1>1 DEF Conflict
  <1>3. PICK i \in 1..session[v].done : held = StepsOf(session[v].op)[i]
    BY DEF Taken
  <1>0. session[v].op \in Ops \cup {"idle"} /\ session[v].done \in 0..6
    BY DEF TypeOK, Session
  <1>4. session[v].op \in Ops
    <2>1. Len(StepsOf("idle")) = 0
      BY StepsFacts
    <2> QED
      BY <1>0, <2>1 DEF Unfinished
  <1>5. /\ session[v].done + 1 \in 1..Len(StepsOf(session[v].op))
        /\ i \in 1..(session[v].done + 1 - 1)
    BY <1>0, NextStepTyped
  <1>6. NextStep(v) = StepsOf(session[v].op)[session[v].done + 1]
    BY DEF NextStep
  <1>7. Rank[Resource(held)] < Rank[Resource(NextStep(v))]
    <2> DEFINE op == session[v].op
               j == session[v].done + 1
    <2>1. /\ op \in Ops /\ op \notin Deletions
          /\ j \in 1..Len(StepsOf(op)) /\ i \in 1..(j - 1)
          /\ StepsOf(op)[i] # "check" /\ StepsOf(op)[j] # "check"
          /\ ~Backwards(op, StepsOf(op)[j])
      BY <1>0, <1>2, <1>3, <1>4, <1>5, <1>6
    <2> HIDE DEF op, j
    <2>2. Rank[Resource(StepsOf(op)[i])] < Rank[Resource(StepsOf(op)[j])]
      BY <2>1, LocksUpward
    <2> QED
      BY <1>3, <1>6, <2>2 DEF op, j
  <1> QED
    BY <1>2, <1>7

\* Nobody waits at its check.
LEMMA NoWaitAtCheck ==
    ASSUME TypeOK, StepsInOrder, NEW v \in Workers, NEW w \in Workers, WaitsFor(w, v)
    PROVE  /\ NextStep(w) # "check"
           /\ Rank[Resource(NextStep(w))] \in 1..5
  <1>1. PICK held \in Taken(v) : Conflict(held, NextStep(w))
    BY DEF WaitsFor, Blocks
  <1>2. held \in StepNames /\ NextStep(w) \in StepNames
    BY TakenTyped, NextStepTyped DEF WaitsFor
  <1>3. NextStep(w) # "check"
    BY <1>1, <1>2, ConflictFacts
  <1> QED
    BY <1>2, <1>3, RankFacts

\* Every deadlock contains a deletion or restore, or one of the two pairs that
\* lock the audit chain and another row in opposite orders (StepsOf).
THEOREM KnownDeadlocks == Spec => []DeadlocksAreKnown
  <1>1. ASSUME TypeOK, StepsInOrder, LocksExclude, NEW S \in SUBSET Workers,
               Deadlocked(S),
               \A w \in S : session[w].op \notin Deletions,
               \A v, w \in S :
                 ~(session[w].op \in Transitions /\ session[v].op \in {"revoke", "use"}),
               \A v, w \in S :
                 ~(session[w].op \in {"create", "settle"} /\ session[v].op = "toggle")
        PROVE  FALSE
    <2> DEFINE rank(w) == Rank[Resource(NextStep(w))]
    <2>1. \A w \in S : \E v \in S : WaitsFor(w, v)
      BY <1>1 DEF Deadlocked
    <2>2. \A w \in S : /\ Unfinished(w) /\ NextStep(w) # "check" /\ rank(w) \in 1..5
                       /\ ~Backwards(session[w].op, NextStep(w))
      <3> TAKE w \in S
      <3>1. PICK v \in S : WaitsFor(w, v)
        BY <2>1
      <3>2. NextStep(w) # "check" /\ rank(w) \in 1..5
        BY <1>1, <3>1, NoWaitAtCheck
      <3>3. ~Backwards(session[w].op, NextStep(w))
        BY <1>1, <3>1, NoBackwardsWait
      <3>4. Unfinished(w)
        BY <3>1 DEF WaitsFor
      <3> QED
        BY <3>2, <3>3, <3>4
    <2>3. \A w \in S : \E v \in S : rank(w) < rank(v)
      BY <1>1, <2>1, <2>2, WaitsUpward
    <2>4. PICK a \in S : TRUE
      BY <1>1 DEF Deadlocked
    <2> HIDE DEF rank
    <2>5. PICK b \in S : rank(a) < rank(b)
      BY <2>3, <2>4
    <2>6. PICK c \in S : rank(b) < rank(c)
      BY <2>3, <2>5
    <2>7. PICK d \in S : rank(c) < rank(d)
      BY <2>3, <2>6
    <2>8. PICK e \in S : rank(d) < rank(e)
      BY <2>3, <2>7
    <2>9. PICK f \in S : rank(e) < rank(f)
      BY <2>3, <2>8
    <2> QED
      BY <2>2, <2>4, <2>5, <2>6, <2>7, <2>8, <2>9
  <1>2. IInv => DeadlocksAreKnown
    <2> SUFFICES ASSUME IInv, NEW S \in SUBSET Workers, Deadlocked(S),
                        \A w \in S : session[w].op \notin Deletions,
                        ~((\E w \in S : session[w].op \in Transitions)
                          /\ \E w \in S : session[w].op \in {"revoke", "use"}),
                        ~((\E w \in S : session[w].op \in {"create", "settle"})
                          /\ \E w \in S : session[w].op \in {"toggle"})
                 PROVE  FALSE
      BY DEF DeadlocksAreKnown, Deletions, Transitions
    <2> QED
      BY <1>1 DEF IInv
  <1> QED
    BY <1>2, InductiveInvariant, PTL

=============================================================================
