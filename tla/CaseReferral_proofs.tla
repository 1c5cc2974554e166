------------------------- MODULE CaseReferral_proofs -------------------------
(* Proofs about CaseReferral, for all cases, agencies, requests and bounds.  *)
EXTENDS CaseReferralInv, TLAPS

\* What a request holds, by the operation it is serving.
LEMMA SessionFields ==
    ASSUME TypeOK, NEW w \in Workers
    PROVE  /\ session[w].op \in {"idle", "refer", "toggle", "archive", "loaded", "cascade"}
           /\ session[w].op # "idle" => session[w].case \in Cases
           /\ session[w].op = "refer" => session[w].agency \in Agencies
           /\ session[w].op = "cascade" =>
                session[w].kids \subseteq Refs /\ session[w].since \in Times
  <1>1. session[w] \in SessionType
    BY DEF TypeOK
  <1>2. CASE session[w] \in [op : {"idle"}]
    BY <1>2
  <1>3. CASE session[w] \in [op : {"refer"}, case : Cases, agency : Agencies]
    BY <1>3
  <1>4. CASE session[w] \in [op : {"toggle", "archive", "loaded"}, case : Cases]
    BY <1>4
  <1>5. CASE session[w] \in [op : {"cascade"}, case : Cases, kids : SUBSET Refs, since : Times]
    BY <1>5
  <1> QED
    BY <1>1, <1>2, <1>3, <1>4, <1>5 DEF SessionType

\* The initial state satisfies the type invariant.
LEMMA InitTypeOK == Init => TypeOK
  BY BoundsAssumption DEF Init, TypeOK, Times, Null, RowState, CaseStatus, ReferralStatus,
     SessionType, Idle

\* Every step keeps the type invariant.
LEMMA NextTypeOK == TypeOK /\ [Next]_vars => TypeOK'
  <1> SUFFICES ASSUME TypeOK, [Next]_vars PROVE TypeOK'
    OBVIOUS
  <1> USE DEF TypeOK, caseVars, refVars, purgeVars, historyVars, Times
  <1>1. ASSUME NEW c \in Cases, CreateCase(c) PROVE TypeOK'
    BY <1>1 DEF CreateCase, RowState
  <1>2. ASSUME NEW c \in Cases, ApproveCase(c) PROVE TypeOK'
    BY <1>2 DEF ApproveCase, CaseStatus
  <1>3. ASSUME NEW c \in Cases, RejectCase(c) PROVE TypeOK'
    BY <1>3 DEF RejectCase, CaseStatus
  <1>4. ASSUME NEW c \in Cases, UnarchiveCase(c) PROVE TypeOK'
    BY <1>4 DEF UnarchiveCase, CaseStatus, ClosedAtOnUnarchive
  <1>5. ASSUME NEW c \in Cases, RestoreTrashedCase(c) PROVE TypeOK'
    BY <1>5 DEF RestoreTrashedCase, CaseStatus, RowState, Null
  <1>6. ASSUME NEW c \in Cases, PurgeCase(c) PROVE TypeOK'
    BY <1>6 DEF PurgeCase, RowState, FirstOf
  <1>7. ASSUME NEW c \in Cases, PurgeSkip(c) PROVE TypeOK'
    BY <1>7 DEF PurgeSkip
  <1>8. ASSUME NEW r \in Refs, DeleteReferral(r) PROVE TypeOK'
    BY <1>8 DEF DeleteReferral, RowState
  <1>9. ASSUME NEW r \in Refs, NEW s \in ReferralStatus, UpdateStatus(r, s) PROVE TypeOK'
    BY <1>9 DEF UpdateStatus
  <1>10. ASSUME NEW w \in Workers, NEW c \in Cases, NEW a \in Agencies,
                LockForReferral(w, c, a) PROVE TypeOK'
    BY <1>10 DEF LockForReferral, SessionType
  <1>11. ASSUME NEW w \in Workers, NEW c \in Cases,
                LockForToggle(w, c) \/ LockForArchive(w, c) \/ LoadForDelete(w, c)
         PROVE TypeOK'
    BY <1>11 DEF LockForToggle, LockForArchive, LoadForDelete, SessionType
  <1>12. ASSUME NEW w \in Workers, BeginCascade(w) PROVE TypeOK'
    <2>1. session[w].case \in Cases
      BY <1>12, SessionFields DEF BeginCascade
    <2>2. LiveReferrals(session[w].case) \in SUBSET Refs
      BY DEF LiveReferrals
    <2> QED BY <1>12, <2>1, <2>2 DEF BeginCascade, SessionType
  <1>13. ASSUME NEW w \in Workers, DeleteVanished(w) PROVE TypeOK'
    BY <1>13 DEF DeleteVanished, SessionType, Idle
  <1>14. ASSUME NEW w \in Workers, NEW r \in Refs, CreateReferral(w, r) PROVE TypeOK'
    BY <1>14 DEF CreateReferral, SessionType, Idle, RowState
  <1>15. ASSUME NEW w \in Workers, ToggleCaseStatus(w) PROVE TypeOK'
    <2>1. session[w].case \in Cases
      BY <1>15, SessionFields DEF ToggleCaseStatus
    <2> QED BY <1>15, <2>1 DEF ToggleCaseStatus, SessionType, Idle, CaseStatus
  <1>16. ASSUME NEW w \in Workers, ArchiveCase(w) PROVE TypeOK'
    BY <1>16, SessionFields DEF ArchiveCase, SessionType, Idle, CaseStatus
  <1>17. ASSUME NEW w \in Workers, DeleteArchivedCase(w) PROVE TypeOK'
    <2>1. session[w].case \in Cases /\ session[w].since \in Times
      BY <1>17, SessionFields DEF DeleteArchivedCase
    <2> QED BY <1>17, <2>1 DEF DeleteArchivedCase, SessionType, Idle, RowState
  <1>18. ASSUME PurgeRead PROVE TypeOK'
    BY <1>18 DEF PurgeRead
  <1>19. ASSUME PurgeAbort PROVE TypeOK'
    BY <1>19, BoundsAssumption DEF PurgeAbort
  <1>20. ASSUME Tick PROVE TypeOK'
    BY <1>20, BoundsAssumption DEF Tick
  <1>21. ASSUME UNCHANGED vars PROVE TypeOK'
    BY <1>21 DEF vars
  <1> QED
    BY <1>1, <1>2, <1>3, <1>4, <1>5, <1>6, <1>7, <1>8, <1>9, <1>10, <1>11, <1>12, <1>13,
       <1>14, <1>15, <1>16, <1>17, <1>18, <1>19, <1>20, <1>21 DEF Next, Commit

\* Every column and every request always holds a value of its vocabulary.
THEOREM TypeCorrect == Spec => []TypeOK
  BY InitTypeOK, NextTypeOK, PTL DEF Spec

-----------------------------------------------------------------------------
(* The row lock of a case. *)

\* The initial state satisfies the inductive invariant.
LEMMA InitIInv == Init => IInv
  <1> SUFFICES ASSUME Init PROVE IInv
    OBVIOUS
  <1>1. TypeOK
    BY InitTypeOK
  <1>2. LocksExclude /\ ReferHolds /\ ToggleHolds /\ ArchiveHolds /\ CascadeHolds
    BY DEF Init, LocksExclude, ReferHolds, ToggleHolds, ArchiveHolds, CascadeHolds,
       InTransaction, Idle
  <1>3. WorkedOnly
    BY DEF Init, WorkedOnly, Idle
  <1>4. ReviewedBeforeWork /\ LiveUnderLive /\ PromptDeleteIsRestorable
    BY DEF Init, ReviewedBeforeWork, LiveUnderLive, PromptDeleteIsRestorable
  <1>5. ClosedCaseIsSettled /\ OneActiveReferral /\ PurgeLeavesNothing
    BY DEF Init, ClosedCaseIsSettled, OneActiveReferral, PurgeLeavesNothing,
       ActiveReferrals, LiveReferrals
  <1> QED
    BY <1>1, <1>2, <1>3, <1>4, <1>5 DEF IInv

\* Two requests are never inside a transaction on one case.
LEMMA NextLocksExclude == TypeOK /\ LocksExclude /\ [Next]_vars => LocksExclude'
  <1> SUFFICES ASSUME TypeOK, LocksExclude, [Next]_vars PROVE LocksExclude'
    OBVIOUS
  <1> USE DEF LocksExclude, InTransaction, caseVars, refVars, purgeVars, historyVars
  <1>1. ASSUME UNCHANGED session PROVE LocksExclude'
    BY <1>1
  <1>2. ASSUME NEW w \in Workers, NEW S, session' = [session EXCEPT ![w] = S],
               S.op \notin {"refer", "toggle", "archive", "cascade"}
        PROVE  LocksExclude'
    BY <1>2 DEF TypeOK
  <1>3. ASSUME NEW w \in Workers, NEW c \in Cases, NEW S, ~Locked(c), S.case = c,
               session' = [session EXCEPT ![w] = S]
        PROVE  LocksExclude'
    BY <1>3 DEF TypeOK, Locked
  <1>4. ASSUME NEW c \in Cases,
               \/ CreateCase(c) \/ ApproveCase(c) \/ RejectCase(c) \/ UnarchiveCase(c)
               \/ RestoreTrashedCase(c) \/ PurgeCase(c) \/ PurgeSkip(c)
        PROVE  LocksExclude'
    BY <1>1, <1>4 DEF CreateCase, ApproveCase, RejectCase, UnarchiveCase,
       RestoreTrashedCase, PurgeCase, PurgeSkip
  <1>5. ASSUME NEW r \in Refs,
               DeleteReferral(r) \/ \E s \in ReferralStatus : UpdateStatus(r, s)
        PROVE  LocksExclude'
    BY <1>1, <1>5 DEF DeleteReferral, UpdateStatus
  <1>6. ASSUME NEW w \in Workers, NEW c \in Cases, NEW a \in Agencies,
               LockForReferral(w, c, a)
        PROVE  LocksExclude'
    BY <1>3, <1>6 DEF LockForReferral
  <1>7. ASSUME NEW w \in Workers, NEW c \in Cases,
               LockForToggle(w, c) \/ LockForArchive(w, c)
        PROVE  LocksExclude'
    BY <1>3, <1>7 DEF LockForToggle, LockForArchive
  <1>8. ASSUME NEW w \in Workers, NEW c \in Cases, LoadForDelete(w, c)
        PROVE  LocksExclude'
    BY <1>2, <1>8 DEF LoadForDelete
  <1>9. ASSUME NEW w \in Workers, BeginCascade(w) PROVE LocksExclude'
    <2>1. session[w].case \in Cases
      BY <1>9, SessionFields DEF BeginCascade
    <2> QED BY <1>3, <1>9, <2>1 DEF BeginCascade
  <1>10. ASSUME NEW w \in Workers, DeleteVanished(w) \/ Commit(w) PROVE LocksExclude'
    BY <1>2, <1>10 DEF DeleteVanished, Commit, CreateReferral, ToggleCaseStatus,
       ArchiveCase, DeleteArchivedCase, Idle
  <1>11. ASSUME PurgeRead \/ PurgeAbort \/ Tick \/ UNCHANGED vars PROVE LocksExclude'
    BY <1>1, <1>11 DEF PurgeRead, PurgeAbort, Tick, vars
  <1> QED
    BY <1>4, <1>5, <1>6, <1>7, <1>8, <1>9, <1>10, <1>11 DEF Next

\* While a request is inside a transaction on a case, no other step changes the
\* case row, and its referrals can only leave, never join or become active.
LEMMA LockProtects ==
    ASSUME TypeOK, LocksExclude, [Next]_vars, NEW v \in Workers, InTransaction(v),
           session'[v] = session[v], caseRow[session[v].case] # "absent"
    PROVE  LET c == session[v].case IN
             /\ caseRow'[c] = caseRow[c]
             /\ caseStatus'[c] = caseStatus[c]
             /\ LiveReferrals(c)' \subseteq LiveReferrals(c)
             /\ ActiveReferrals(c)' \subseteq ActiveReferrals(c)
  <1> DEFINE c == session[v].case
             Goal == /\ caseRow'[c] = caseRow[c]
                     /\ caseStatus'[c] = caseStatus[c]
                     /\ LiveReferrals(c)' \subseteq LiveReferrals(c)
                     /\ ActiveReferrals(c)' \subseteq ActiveReferrals(c)
  <1>0. c \in Cases /\ Locked(c)
    BY SessionFields DEF InTransaction, Locked
  <1> USE DEF caseVars, refVars, purgeVars, historyVars, LiveReferrals, ActiveReferrals
  <1>1. ASSUME UNCHANGED <<caseRow, caseStatus, refRow, refStatus>> PROVE Goal
    BY <1>1
  <1>2. ASSUME NEW d \in Cases, CreateCase(d) PROVE Goal
    BY <1>0, <1>2 DEF CreateCase, TypeOK
  <1>3. ASSUME NEW d \in Cases, ApproveCase(d) \/ RejectCase(d) \/ UnarchiveCase(d)
        PROVE  Goal
    BY <1>0, <1>3 DEF ApproveCase, RejectCase, UnarchiveCase, InReview, TypeOK
  <1>4. ASSUME NEW d \in Cases, RestoreTrashedCase(d) PROVE Goal
    BY <1>0, <1>4 DEF RestoreTrashedCase, Revived, TypeOK
  <1>5. ASSUME NEW d \in Cases, PurgeCase(d) PROVE Goal
    BY <1>0, <1>5 DEF PurgeCase, FirstOf, TypeOK
  <1>6. ASSUME NEW r \in Refs, DeleteReferral(r) PROVE Goal
    BY <1>6 DEF DeleteReferral, TypeOK
  <1>7. ASSUME NEW r \in Refs, NEW s \in ReferralStatus, UpdateStatus(r, s) PROVE Goal
    BY <1>7 DEF UpdateStatus, Transitions, Settled, TypeOK, ReferralStatus
  <1>8. ASSUME NEW w \in Workers, Commit(w) PROVE Goal
    <2>1. w # v /\ InTransaction(w)
      BY <1>8 DEF Commit, CreateReferral, ToggleCaseStatus, ArchiveCase,
         DeleteArchivedCase, InTransaction, Idle, TypeOK
    <2>2. session[w].case # c /\ session[w].case \in Cases
      BY <2>1, SessionFields DEF LocksExclude, InTransaction
    <2>3. ASSUME NEW r \in Refs, CreateReferral(w, r) PROVE Goal
      BY <2>2, <2>3 DEF CreateReferral, TypeOK
    <2>4. ASSUME ToggleCaseStatus(w) PROVE Goal
      BY <1>0, <2>2, <2>4 DEF ToggleCaseStatus, TypeOK
    <2>6. ASSUME ArchiveCase(w) PROVE Goal
      BY <1>0, <2>2, <2>6 DEF ArchiveCase, TypeOK
    <2>5. ASSUME DeleteArchivedCase(w) PROVE Goal
      BY <2>2, <2>5 DEF DeleteArchivedCase, TypeOK
    <2> QED BY <1>8, <2>3, <2>4, <2>5, <2>6 DEF Commit
  <1>9. ASSUME NEW w \in Workers, NEW d \in Cases,
               \/ \E a \in Agencies : LockForReferral(w, d, a)
               \/ LockForToggle(w, d) \/ LockForArchive(w, d) \/ LoadForDelete(w, d)
               \/ BeginCascade(w) \/ DeleteVanished(w) \/ PurgeSkip(d)
               \/ PurgeRead \/ PurgeAbort \/ Tick \/ UNCHANGED vars
        PROVE  Goal
    BY <1>1, <1>9 DEF LockForReferral, LockForToggle, LockForArchive, LoadForDelete,
       BeginCascade, DeleteVanished, PurgeSkip, PurgeRead, PurgeAbort, Tick, vars
  <1>10. Goal
    BY <1>0, <1>2, <1>3, <1>4, <1>5, <1>6, <1>7, <1>8, <1>9 DEF Next
  <1> QED
    BY <1>10

\* A request enters a transaction, or loads a case to delete, only by the step
\* that checks it.
LEMMA SessionSteps ==
    ASSUME TypeOK, [Next]_vars, NEW v \in Workers, session'[v] # session[v]
    PROVE  \/ \E c \in Cases, a \in Agencies : LockForReferral(v, c, a)
           \/ \E c \in Cases : \/ LockForToggle(v, c)
                             \/ LockForArchive(v, c)
                             \/ LoadForDelete(v, c)
           \/ BeginCascade(v)
           \/ session'[v] = Idle
  <1> USE DEF caseVars, refVars, purgeVars, historyVars
  <1>1. ASSUME NEW c \in Cases,
               \/ CreateCase(c) \/ ApproveCase(c) \/ RejectCase(c) \/ UnarchiveCase(c)
               \/ RestoreTrashedCase(c) \/ PurgeCase(c) \/ PurgeSkip(c)
               \/ PurgeRead \/ PurgeAbort \/ Tick \/ UNCHANGED vars
        PROVE  FALSE
    BY <1>1 DEF CreateCase, ApproveCase, RejectCase, UnarchiveCase, RestoreTrashedCase,
       PurgeCase, PurgeSkip, PurgeRead, PurgeAbort, Tick, vars
  <1>2. ASSUME NEW r \in Refs,
               DeleteReferral(r) \/ \E s \in ReferralStatus : UpdateStatus(r, s)
        PROVE  FALSE
    BY <1>2 DEF DeleteReferral, UpdateStatus
  <1>3. ASSUME NEW w \in Workers, NEW c \in Cases,
               \/ \E a \in Agencies : LockForReferral(w, c, a)
               \/ LockForToggle(w, c) \/ LockForArchive(w, c) \/ LoadForDelete(w, c)
               \/ BeginCascade(w)
        PROVE  w = v
    BY <1>3 DEF LockForReferral, LockForToggle, LockForArchive, LoadForDelete,
       BeginCascade, TypeOK
  <1>4. ASSUME NEW w \in Workers, DeleteVanished(w) \/ Commit(w)
        PROVE  session'[v] = Idle
    BY <1>4 DEF DeleteVanished, Commit, CreateReferral, ToggleCaseStatus, ArchiveCase,
       DeleteArchivedCase, TypeOK
  <1>5. ASSUME PurgeRead \/ PurgeAbort \/ Tick \/ UNCHANGED vars PROVE FALSE
    BY <1>5 DEF PurgeRead, PurgeAbort, Tick, vars
  <1>6. PICK w \in Workers :
          \/ \E c \in Cases :
               \/ \E a \in Agencies : LockForReferral(w, c, a)
               \/ LockForToggle(w, c)
               \/ LockForArchive(w, c)
               \/ LoadForDelete(w, c)
          \/ BeginCascade(w)
          \/ DeleteVanished(w)
          \/ Commit(w)
    BY <1>1, <1>2, <1>5 DEF Next
  <1>7. CASE DeleteVanished(w) \/ Commit(w)
    BY <1>4, <1>7
  <1>8. CASE BeginCascade(w)
    <2>1. w = v
      BY <1>8 DEF BeginCascade, TypeOK
    <2> QED BY <1>8, <2>1
  <1>9. CASE \E c \in Cases :
               \/ \E a \in Agencies : LockForReferral(w, c, a)
               \/ LockForToggle(w, c)
               \/ LockForArchive(w, c)
               \/ LoadForDelete(w, c)
    <2>1. w = v
      BY <1>3, <1>9
    <2> QED BY <1>9, <2>1
  <1> QED
    BY <1>6, <1>7, <1>8, <1>9

-----------------------------------------------------------------------------
(* What a request found under its lock still holds when it writes. *)

LEMMA NextReferHolds ==
    TypeOK /\ LocksExclude /\ ReferHolds /\ [Next]_vars => ReferHolds'
  <1> SUFFICES ASSUME TypeOK, LocksExclude, ReferHolds, [Next]_vars,
                      NEW v \in Workers, session'[v].op = "refer"
               PROVE  (/\ caseRow[session[v].case] = "live"
                       /\ caseStatus[session[v].case] = "OPEN"
                       /\ ~Duplicate(session[v].case, session[v].agency))'
    BY DEF ReferHolds
  <1>1. CASE session'[v] = session[v]
    <2>1. InTransaction(v) /\ caseRow[session[v].case] = "live"
      BY <1>1 DEF InTransaction, ReferHolds
    <2>2. /\ caseRow'[session[v].case] = caseRow[session[v].case]
          /\ caseStatus'[session[v].case] = caseStatus[session[v].case]
          /\ ActiveReferrals(session[v].case)' \subseteq ActiveReferrals(session[v].case)
      BY <1>1, <2>1, LockProtects
    <2> QED BY <1>1, <2>2 DEF ReferHolds, Duplicate
  <1>2. CASE session'[v] # session[v]
    <2>1. PICK c \in Cases, a \in Agencies : LockForReferral(v, c, a)
      BY <1>2, SessionSteps DEF LockForToggle, LockForArchive, LoadForDelete,
         BeginCascade, Idle, TypeOK
    <2> QED BY <2>1 DEF LockForReferral, Duplicate, ActiveReferrals, LiveReferrals,
               caseVars, refVars, TypeOK
  <1> QED
    BY <1>1, <1>2

LEMMA NextToggleHolds ==
    TypeOK /\ LocksExclude /\ ToggleHolds /\ [Next]_vars => ToggleHolds'
  <1> SUFFICES ASSUME TypeOK, LocksExclude, ToggleHolds, [Next]_vars,
                      NEW v \in Workers, session'[v].op = "toggle"
               PROVE  (/\ caseRow[session[v].case] = "live"
                       /\ caseStatus[session[v].case] \in {"OPEN", "CLOSED"}
                       /\ caseStatus[session[v].case] = "OPEN"
                            => CanClose(session[v].case))'
    BY DEF ToggleHolds
  <1>1. CASE session'[v] = session[v]
    <2>1. InTransaction(v) /\ caseRow[session[v].case] = "live"
      BY <1>1 DEF InTransaction, ToggleHolds
    <2>2. /\ caseRow'[session[v].case] = caseRow[session[v].case]
          /\ caseStatus'[session[v].case] = caseStatus[session[v].case]
          /\ ActiveReferrals(session[v].case)' \subseteq ActiveReferrals(session[v].case)
      BY <1>1, <2>1, LockProtects
    <2> QED BY <1>1, <2>2 DEF ToggleHolds, CanClose
  <1>2. CASE session'[v] # session[v]
    <2>1. PICK c \in Cases : LockForToggle(v, c)
      BY <1>2, SessionSteps DEF LockForReferral, LockForArchive, LoadForDelete,
         BeginCascade, Idle, TypeOK
    <2> QED BY <2>1 DEF LockForToggle, CanClose, ActiveReferrals, LiveReferrals,
               caseVars, refVars, TypeOK
  <1> QED
    BY <1>1, <1>2

LEMMA NextArchiveHolds ==
    TypeOK /\ LocksExclude /\ ArchiveHolds /\ [Next]_vars => ArchiveHolds'
  <1> SUFFICES ASSUME TypeOK, LocksExclude, ArchiveHolds, [Next]_vars,
                      NEW v \in Workers, session'[v].op = "archive"
               PROVE  (/\ caseRow[session[v].case] = "live"
                       /\ caseStatus[session[v].case] = "CLOSED"
                       /\ CanClose(session[v].case))'
    BY DEF ArchiveHolds
  <1>1. CASE session'[v] = session[v]
    <2>1. InTransaction(v) /\ caseRow[session[v].case] = "live"
      BY <1>1 DEF InTransaction, ArchiveHolds
    <2>2. /\ caseRow'[session[v].case] = caseRow[session[v].case]
          /\ caseStatus'[session[v].case] = caseStatus[session[v].case]
          /\ ActiveReferrals(session[v].case)' \subseteq ActiveReferrals(session[v].case)
      BY <1>1, <2>1, LockProtects
    <2> QED BY <1>1, <2>2 DEF ArchiveHolds, CanClose
  <1>2. CASE session'[v] # session[v]
    <2>1. PICK c \in Cases : LockForArchive(v, c)
      BY <1>2, SessionSteps DEF LockForReferral, LockForToggle, LoadForDelete,
         BeginCascade, Idle, TypeOK
    <2> QED BY <2>1 DEF LockForArchive, CanClose, ActiveReferrals, LiveReferrals,
               caseVars, refVars, TypeOK
  <1> QED
    BY <1>1, <1>2

\* Every step leaves a referral alone or moves it one arrow along its life.
LEMMA RefSteps ==
    ASSUME TypeOK, [Next]_vars, NEW r \in Refs
    PROVE  \/ /\ refRow'[r] = refRow[r] /\ refTrashed'[r] = refTrashed[r]
              /\ trashedBy'[r] = trashedBy[r]
           \/ refRow[r] = "absent" /\ \E w \in Workers : CreateReferral(w, r)
           \/ DeleteReferral(r)
           \/ \E w \in Workers : DeleteArchivedCase(w) /\ r \in session[w].kids
           \/ RestoreTrashedCase(CaseOf(r)) /\ r \in Revived(CaseOf(r))
           \/ refRow[r] # "absent" /\ PurgeCase(CaseOf(r))
  <1> DEFINE Same == /\ refRow'[r] = refRow[r] /\ refTrashed'[r] = refTrashed[r]
                     /\ trashedBy'[r] = trashedBy[r]
  <1> USE DEF caseVars, refVars, purgeVars, historyVars
  <1>1. ASSUME UNCHANGED <<refRow, refTrashed, trashedBy>> PROVE Same
    BY <1>1
  <1>2. ASSUME NEW c \in Cases,
               CreateCase(c) \/ ApproveCase(c) \/ RejectCase(c) \/ UnarchiveCase(c)
               \/ PurgeSkip(c)
        PROVE  Same
    BY <1>2 DEF CreateCase, ApproveCase, RejectCase, UnarchiveCase, PurgeSkip
  <1>3. ASSUME NEW c \in Cases, RestoreTrashedCase(c), ~Same
        PROVE  c = CaseOf(r) /\ r \in Revived(c)
    BY <1>3 DEF RestoreTrashedCase, Revived
  <1>4. ASSUME NEW c \in Cases, PurgeCase(c), ~Same
        PROVE  c = CaseOf(r) /\ refRow[r] # "absent"
    BY <1>4 DEF PurgeCase
  <1>5. ASSUME NEW q \in Refs, DeleteReferral(q), ~Same PROVE q = r
    BY <1>5 DEF DeleteReferral, TypeOK
  <1>6. ASSUME NEW q \in Refs, NEW s \in ReferralStatus, UpdateStatus(q, s) PROVE Same
    BY <1>6 DEF UpdateStatus
  <1>7. ASSUME NEW q \in Refs, NEW w \in Workers, CreateReferral(w, q), ~Same
        PROVE  q = r /\ refRow[r] = "absent"
    BY <1>7 DEF CreateReferral, NextCopy, TypeOK
  <1>8. ASSUME NEW w \in Workers, ToggleCaseStatus(w) \/ ArchiveCase(w) PROVE Same
    BY <1>8 DEF ToggleCaseStatus, ArchiveCase
  <1>9. ASSUME NEW w \in Workers, DeleteArchivedCase(w), ~Same PROVE r \in session[w].kids
    BY <1>9 DEF DeleteArchivedCase
  <1>10. ASSUME NEW w \in Workers, NEW c \in Cases,
               \/ \E a \in Agencies : LockForReferral(w, c, a)
               \/ LockForToggle(w, c) \/ LockForArchive(w, c) \/ LoadForDelete(w, c)
         PROVE  Same
    BY <1>1, <1>10 DEF LockForReferral, LockForToggle, LockForArchive, LoadForDelete
  <1>11. ASSUME NEW w \in Workers, BeginCascade(w) \/ DeleteVanished(w) PROVE Same
    BY <1>1, <1>11 DEF BeginCascade, DeleteVanished
  <1>12. ASSUME PurgeRead \/ PurgeAbort \/ Tick \/ UNCHANGED vars PROVE Same
    BY <1>1, <1>12 DEF PurgeRead, PurgeAbort, Tick, vars
  <1> HIDE DEF Same
  <1>13. CASE \E c \in Cases :
           \/ CreateCase(c) \/ ApproveCase(c) \/ RejectCase(c) \/ UnarchiveCase(c)
           \/ RestoreTrashedCase(c) \/ PurgeCase(c) \/ PurgeSkip(c)
    BY <1>2, <1>3, <1>4, <1>13 DEF Same
  <1>14. CASE \E q \in Refs :
           DeleteReferral(q) \/ \E s \in ReferralStatus : UpdateStatus(q, s)
    BY <1>5, <1>6, <1>14 DEF Same
  <1>15. CASE \E w \in Workers : Commit(w)
    BY <1>7, <1>8, <1>9, <1>15 DEF Commit, Same
  <1>16. CASE \E w \in Workers :
           \/ \E c \in Cases :
                \/ \E a \in Agencies : LockForReferral(w, c, a)
                \/ LockForToggle(w, c) \/ LockForArchive(w, c) \/ LoadForDelete(w, c)
           \/ BeginCascade(w) \/ DeleteVanished(w)
    BY <1>10, <1>11, <1>16 DEF Same
  <1>17. CASE PurgeRead \/ PurgeAbort \/ Tick \/ UNCHANGED vars
    BY <1>12, <1>17 DEF Same
  <1> QED
    BY <1>13, <1>14, <1>15, <1>16, <1>17 DEF Next

\* The clock only advances.
LEMMA ClockSteps ==
    ASSUME TypeOK, [Next]_vars
    PROVE  clock' \in {clock, clock + 1}
  BY DEF Next, vars, CreateCase, ApproveCase, RejectCase, UnarchiveCase,
     RestoreTrashedCase, PurgeCase, PurgeSkip, DeleteReferral, UpdateStatus,
     LockForReferral, LockForToggle, LockForArchive, LoadForDelete, BeginCascade,
     DeleteVanished, Commit, CreateReferral, ToggleCaseStatus, ArchiveCase,
     DeleteArchivedCase, PurgeRead, PurgeAbort, Tick

LEMMA NextCascadeHolds ==
    TypeOK /\ LocksExclude /\ WorkedOnly /\ CascadeHolds /\ [Next]_vars => CascadeHolds'
  <1> SUFFICES ASSUME TypeOK, LocksExclude, WorkedOnly, CascadeHolds, [Next]_vars,
                      NEW v \in Workers, session'[v].op = "cascade"
               PROVE  (/\ caseRow[session[v].case] \in {"live", "trash"}
                       /\ LiveReferrals(session[v].case) \subseteq session[v].kids
                       /\ \A r \in session[v].kids :
                            CaseOf(r) = session[v].case /\ refRow[r] \in {"live", "trash"}
                       /\ session[v].since <= clock)'
    BY DEF CascadeHolds
  <1>1. CASE session'[v] = session[v]
    <2>1. InTransaction(v) /\ caseRow[session[v].case] \in {"live", "trash"}
      BY <1>1 DEF InTransaction, CascadeHolds
    <2>2. /\ caseRow'[session[v].case] = caseRow[session[v].case]
          /\ LiveReferrals(session[v].case)' \subseteq LiveReferrals(session[v].case)
      BY <1>1, <2>1, LockProtects
    <2>3. session[v].since <= clock'
      <3>1. session[v].op = "cascade"
        BY <1>1
      <3>2. session[v].since \in Int /\ clock \in Int
        BY <3>1, SessionFields, BoundsAssumption DEF TypeOK, Times
      <3>3. session[v].since <= clock
        BY <3>1 DEF CascadeHolds
      <3> QED BY <3>2, <3>3, ClockSteps
    <2>4. ASSUME NEW r \in session[v].kids
          PROVE  CaseOf(r) = session[v].case /\ refRow'[r] \in {"live", "trash"}
      <3>1. /\ session[v].op = "cascade"
            /\ CaseOf(r) = session[v].case
            /\ refRow[r] \in {"live", "trash"}
        BY <1>1 DEF CascadeHolds
      <3>2. r \in Refs /\ session[v].case \in Cases /\ Locked(session[v].case)
        BY <2>1, <3>1, SessionFields DEF Locked
      <3>3. ~PurgeCase(CaseOf(r)) /\ refRow[r] # "absent"
        BY <3>1, <3>2 DEF PurgeCase
      <3>4. \/ refRow'[r] = refRow[r]
            \/ DeleteReferral(r)
            \/ \E w \in Workers : DeleteArchivedCase(w) /\ r \in session[w].kids
            \/ RestoreTrashedCase(CaseOf(r)) /\ r \in Revived(CaseOf(r))
        BY <3>2, <3>3, RefSteps
      <3>5. refRow'[r] \in {"live", "trash"}
        BY <3>1, <3>2, <3>4 DEF DeleteReferral, DeleteArchivedCase, RestoreTrashedCase, TypeOK
      <3> QED BY <3>1, <3>5
    <2> QED BY <1>1, <2>1, <2>2, <2>3, <2>4 DEF CascadeHolds
  <1>2. CASE session'[v] # session[v]
    <2>1. BeginCascade(v)
      BY <1>2, SessionSteps DEF LockForReferral, LockForToggle, LockForArchive,
         LoadForDelete, Idle, TypeOK
    <2>2. session'[v] = [op |-> "cascade", case |-> session[v].case,
                         kids |-> LiveReferrals(session[v].case), since |-> clock]
      BY <2>1 DEF BeginCascade, TypeOK
    <2>3. /\ session[v].case \in Cases
          /\ caseRow[session[v].case] \in {"live", "trash"}
      BY <2>1, SessionFields DEF BeginCascade, WorkedOnly, TypeOK, RowState
    <2>4. clock' = clock
      BY <2>1 DEF BeginCascade
    <2>5. /\ caseRow' = caseRow
          /\ LiveReferrals(session[v].case)' = LiveReferrals(session[v].case)
      BY <2>1, <2>2 DEF BeginCascade, LiveReferrals, caseVars, refVars
    <2>6. \A r \in LiveReferrals(session[v].case) :
            CaseOf(r) = session[v].case /\ refRow'[r] \in {"live", "trash"}
      BY <2>1 DEF LiveReferrals, BeginCascade, refVars
    <2>7. /\ session'[v].case = session[v].case
          /\ session'[v].kids = LiveReferrals(session[v].case)
          /\ session'[v].since = clock
      BY <2>2
    <2>8. session'[v].since <= clock'
      BY <2>4, <2>7, BoundsAssumption DEF TypeOK, Times
    <2> QED BY <2>3, <2>5, <2>6, <2>7, <2>8
  <1> QED
    BY <1>1, <1>2

-----------------------------------------------------------------------------
(* The life of one case row. *)

\* Every step leaves a case alone or moves it one arrow along its life cycle.
LEMMA CaseSteps ==
    ASSUME TypeOK, ToggleHolds, ArchiveHolds, CascadeHolds, WorkedOnly, [Next]_vars,
           NEW c \in Cases
    PROVE  /\ reviewed \subseteq reviewed'
           /\ \/ caseRow'[c] = caseRow[c] /\ caseStatus'[c] = caseStatus[c]
              \/ /\ caseRow[c] = "absent" /\ caseRow'[c] = "live"
                 /\ caseStatus'[c] = caseStatus[c]
              \/ /\ caseRow[c] = "live" /\ caseRow'[c] = "live"
                 /\ caseStatus[c] = "PENDING_REVIEW"
                 /\ \/ caseStatus'[c] = "REJECTED"
                    \/ caseStatus'[c] = "OPEN" /\ c \in reviewed'
              \/ /\ caseRow[c] = "live" /\ caseRow'[c] = "live"
                 /\ caseStatus[c] \in Worked /\ caseStatus'[c] \in Worked
                 /\ \/ caseStatus'[c] = "OPEN"
                    \/ caseStatus[c] \in {"CLOSED", "ARCHIVED"}
                    \/ CanClose(c)
              \/ /\ caseRow[c] \in {"live", "trash"} /\ caseRow'[c] = "trash"
                 /\ caseStatus'[c] = caseStatus[c] /\ caseStatus[c] \in Worked
              \/ /\ caseRow[c] = "trash" /\ caseRow'[c] = "live"
                 /\ caseStatus[c] \in Worked /\ caseStatus'[c] = "ARCHIVED"
              \/ /\ caseRow[c] \in {"live", "trash"} /\ caseRow'[c] = "gone"
                 /\ caseStatus'[c] = caseStatus[c] /\ caseStatus[c] \in Worked
                 /\ c \notin plan'
  <1> DEFINE Goal ==
           /\ reviewed \subseteq reviewed'
           /\ \/ caseRow'[c] = caseRow[c] /\ caseStatus'[c] = caseStatus[c]
              \/ /\ caseRow[c] = "absent" /\ caseRow'[c] = "live"
                 /\ caseStatus'[c] = caseStatus[c]
              \/ /\ caseRow[c] = "live" /\ caseRow'[c] = "live"
                 /\ caseStatus[c] = "PENDING_REVIEW"
                 /\ \/ caseStatus'[c] = "REJECTED"
                    \/ caseStatus'[c] = "OPEN" /\ c \in reviewed'
              \/ /\ caseRow[c] = "live" /\ caseRow'[c] = "live"
                 /\ caseStatus[c] \in Worked /\ caseStatus'[c] \in Worked
                 /\ \/ caseStatus'[c] = "OPEN"
                    \/ caseStatus[c] \in {"CLOSED", "ARCHIVED"}
                    \/ CanClose(c)
              \/ /\ caseRow[c] \in {"live", "trash"} /\ caseRow'[c] = "trash"
                 /\ caseStatus'[c] = caseStatus[c] /\ caseStatus[c] \in Worked
              \/ /\ caseRow[c] = "trash" /\ caseRow'[c] = "live"
                 /\ caseStatus[c] \in Worked /\ caseStatus'[c] = "ARCHIVED"
              \/ /\ caseRow[c] \in {"live", "trash"} /\ caseRow'[c] = "gone"
                 /\ caseStatus'[c] = caseStatus[c] /\ caseStatus[c] \in Worked
                 /\ c \notin plan'
  <1> USE DEF caseVars, refVars, purgeVars, historyVars, Worked
  <1>1. ASSUME UNCHANGED <<caseRow, caseStatus, reviewed>> PROVE Goal
    BY <1>1
  <1>2. ASSUME NEW d \in Cases, CreateCase(d) PROVE Goal
    BY <1>2 DEF CreateCase, TypeOK
  <1>3. ASSUME NEW d \in Cases, ApproveCase(d) \/ RejectCase(d) PROVE Goal
    <2>1. CASE ApproveCase(d)
      <3>1. CASE c = d
        BY <2>1, <3>1 DEF ApproveCase, InReview, TypeOK
      <3>2. CASE c # d
        BY <2>1, <3>2 DEF ApproveCase, TypeOK
      <3> QED BY <3>1, <3>2
    <2>2. CASE RejectCase(d)
      <3>1. CASE c = d
        BY <2>2, <3>1 DEF RejectCase, InReview, TypeOK
      <3>2. CASE c # d
        BY <2>2, <3>2 DEF RejectCase, TypeOK
      <3> QED BY <3>1, <3>2
    <2> QED BY <1>3, <2>1, <2>2
  <1>4. ASSUME NEW d \in Cases, UnarchiveCase(d) PROVE Goal
    BY <1>4 DEF UnarchiveCase, TypeOK
  <1>5. ASSUME NEW d \in Cases, RestoreTrashedCase(d) PROVE Goal
    BY <1>5 DEF RestoreTrashedCase, WorkedOnly, TypeOK
  <1>6. ASSUME NEW d \in Cases, PurgeCase(d) PROVE Goal
    BY <1>6 DEF PurgeCase, FirstOf, WorkedOnly, TypeOK
  <1>7. ASSUME NEW w \in Workers, ToggleCaseStatus(w) PROVE Goal
    <2>1. session[w].op = "toggle"
      BY <1>7 DEF ToggleCaseStatus
    <2>2. /\ session[w].case \in Cases
          /\ caseRow[session[w].case] = "live"
          /\ caseStatus[session[w].case] \in {"OPEN", "CLOSED"}
          /\ caseStatus[session[w].case] = "OPEN" => CanClose(session[w].case)
      BY <2>1, SessionFields DEF ToggleHolds
    <2>3. caseStatus' = [caseStatus EXCEPT ![session[w].case] =
                           IF caseStatus[session[w].case] = "CLOSED" THEN "OPEN" ELSE "CLOSED"]
      BY <1>7 DEF ToggleCaseStatus
    <2>4. caseRow' = caseRow /\ reviewed' = reviewed
      BY <1>7 DEF ToggleCaseStatus
    <2> QED BY <2>2, <2>3, <2>4 DEF TypeOK
  <1>8. ASSUME NEW w \in Workers, ArchiveCase(w) PROVE Goal
    <2>1. session[w].op = "archive"
      BY <1>8 DEF ArchiveCase
    <2>2. /\ session[w].case \in Cases
          /\ caseRow[session[w].case] = "live"
          /\ caseStatus[session[w].case] = "CLOSED"
      BY <2>1, SessionFields DEF ArchiveHolds
    <2> QED BY <1>8, <2>2 DEF ArchiveCase, TypeOK
  <1>9. ASSUME NEW w \in Workers, DeleteArchivedCase(w) PROVE Goal
    <2>1. session[w].op = "cascade"
      BY <1>9 DEF DeleteArchivedCase
    <2>2. /\ session[w].case \in Cases
          /\ caseRow[session[w].case] \in {"live", "trash"}
          /\ caseStatus[session[w].case] \in Worked
      BY <2>1, SessionFields DEF CascadeHolds, WorkedOnly
    <2>3. /\ caseRow' = [caseRow EXCEPT ![session[w].case] = "trash"]
          /\ caseStatus' = caseStatus /\ reviewed' = reviewed
      BY <1>9 DEF DeleteArchivedCase
    <2> QED BY <2>2, <2>3 DEF TypeOK
  <1>10. ASSUME NEW r \in Refs,
                \/ DeleteReferral(r) \/ \E s \in ReferralStatus : UpdateStatus(r, s)
                \/ \E w \in Workers : CreateReferral(w, r)
         PROVE  Goal
    BY <1>1, <1>10 DEF DeleteReferral, UpdateStatus, CreateReferral
  <1>11. ASSUME NEW w \in Workers, NEW d \in Cases,
               \/ \E a \in Agencies : LockForReferral(w, d, a)
               \/ LockForToggle(w, d) \/ LockForArchive(w, d) \/ LoadForDelete(w, d)
               \/ BeginCascade(w) \/ DeleteVanished(w) \/ PurgeSkip(d)
         PROVE  Goal
    BY <1>1, <1>11 DEF LockForReferral, LockForToggle, LockForArchive, LoadForDelete,
       BeginCascade, DeleteVanished, PurgeSkip
  <1>12. ASSUME NEW d \in Cases, PurgeSkip(d) PROVE Goal
    BY <1>1, <1>12 DEF PurgeSkip
  <1>13. ASSUME PurgeRead \/ PurgeAbort \/ Tick \/ UNCHANGED vars PROVE Goal
    BY <1>1, <1>13 DEF PurgeRead, PurgeAbort, Tick, vars
  <1>14. ASSUME NEW w \in Workers, Commit(w) PROVE Goal
    BY <1>7, <1>8, <1>9, <1>10, <1>14 DEF Commit
  <1>15. Goal
    BY <1>2, <1>3, <1>4, <1>5, <1>6, <1>10, <1>11, <1>12, <1>13, <1>14 DEF Next
  <1> QED
    BY <1>15

\* The purge plans only what it read in the trash, and drops what it removed.
LEMMA PlanSteps ==
    ASSUME TypeOK, [Next]_vars, NEW c, c \in plan'
    PROVE  \/ c \in plan
           \/ caseRow[c] = "trash" /\ caseRow' = caseRow /\ caseStatus' = caseStatus
  <1>1. CASE PurgeRead
    BY <1>1 DEF PurgeRead, Expired, caseVars
  <1>2. CASE ~PurgeRead
    <2>1. plan' \subseteq plan
      BY <1>2 DEF Next, vars, purgeVars, CreateCase, ApproveCase, RejectCase,
         UnarchiveCase, RestoreTrashedCase, PurgeCase, PurgeSkip, DeleteReferral,
         UpdateStatus, LockForReferral, LockForToggle, LockForArchive, LoadForDelete,
         BeginCascade, DeleteVanished, Commit, CreateReferral, ToggleCaseStatus,
         ArchiveCase, DeleteArchivedCase, PurgeAbort, Tick
    <2> QED BY <2>1
  <1> QED
    BY <1>1, <1>2

LEMMA NextWorkedOnly ==
    ASSUME TypeOK, ToggleHolds, ArchiveHolds, CascadeHolds, WorkedOnly, [Next]_vars
    PROVE  WorkedOnly'
  <1> USE DEF Worked
  <1>1. ASSUME NEW c \in Cases, caseRow'[c] = "absent"
        PROVE  caseStatus'[c] = "PENDING_REVIEW"
    BY <1>1, CaseSteps DEF WorkedOnly
  <1>2. ASSUME NEW c \in Cases, caseRow'[c] \in {"trash", "gone"}
        PROVE  caseStatus'[c] \in Worked
    BY <1>2, CaseSteps DEF WorkedOnly
  <1>3. ASSUME NEW w \in Workers, session'[w].op \in {"loaded", "cascade"}
        PROVE  /\ caseRow'[session'[w].case] # "absent"
               /\ caseStatus'[session'[w].case] \in Worked
    <2>1. ASSUME NEW c \in Cases, caseRow[c] # "absent", caseStatus[c] \in Worked
          PROVE  caseRow'[c] # "absent" /\ caseStatus'[c] \in Worked
      BY <2>1, CaseSteps
    <2>2. CASE session'[w] = session[w]
      BY <1>3, <2>1, <2>2, SessionFields DEF WorkedOnly
    <2>3. CASE session'[w] # session[w]
      <3>1. \/ \E c \in Cases : LoadForDelete(w, c)
            \/ BeginCascade(w)
        BY <1>3, <2>3, SessionSteps DEF LockForReferral, LockForToggle, LockForArchive,
           Idle, TypeOK
      <3>2. ASSUME NEW c \in Cases, LoadForDelete(w, c)
            PROVE  /\ session'[w].case = c /\ caseRow[c] # "absent"
                   /\ caseStatus[c] \in Worked
        BY <3>2 DEF LoadForDelete, TypeOK
      <3>3. ASSUME BeginCascade(w)
            PROVE  /\ session'[w].case = session[w].case /\ session[w].case \in Cases
                   /\ caseRow[session[w].case] # "absent"
                   /\ caseStatus[session[w].case] \in Worked
        BY <3>3, SessionFields DEF BeginCascade, WorkedOnly, TypeOK
      <3> QED BY <2>1, <3>1, <3>2, <3>3
    <2> QED BY <2>2, <2>3
  <1>4. ASSUME NEW c \in plan'
        PROVE  caseRow'[c] \in {"live", "trash"} /\ caseStatus'[c] \in Worked
    <2>1. c \in Cases
      BY NextTypeOK DEF TypeOK
    <2>2. CASE c \in plan
      <3>1. caseRow[c] \in {"live", "trash"} /\ caseStatus[c] \in Worked
        BY <2>2 DEF WorkedOnly
      <3> QED BY <2>1, <3>1, CaseSteps
    <2>3. CASE caseRow[c] = "trash" /\ caseRow' = caseRow /\ caseStatus' = caseStatus
      BY <2>1, <2>3 DEF WorkedOnly
    <2> QED BY <2>2, <2>3, PlanSteps
  <1> QED
    BY <1>1, <1>2, <1>3, <1>4 DEF WorkedOnly

\* No case is worked on, and no referral of it exists, before its review.
LEMMA NextReviewedBeforeWork ==
    ASSUME TypeOK, ReferHolds, ToggleHolds, ArchiveHolds, CascadeHolds, WorkedOnly,
           ReviewedBeforeWork, [Next]_vars
    PROVE  ReviewedBeforeWork'
  <1> USE DEF Worked
  <1>1. reviewed \subseteq reviewed'
    <2>1. CASE Cases = {}
      BY <2>1, NextTypeOK DEF TypeOK
    <2>2. CASE Cases # {}
      BY <2>2, CaseSteps
    <2> QED BY <2>1, <2>2
  <1>2. ASSUME NEW c \in Cases, caseStatus'[c] \in {"OPEN", "CLOSED", "ARCHIVED"}
        PROVE  c \in reviewed'
    BY <1>1, <1>2, CaseSteps DEF ReviewedBeforeWork
  <1>3. ASSUME NEW r \in Refs, refRow'[r] # "absent"
        PROVE  CaseOf(r) \in reviewed'
    <2>1. CASE refRow[r] # "absent"
      BY <1>1, <2>1 DEF ReviewedBeforeWork
    <2>2. CASE refRow[r] = "absent"
      <3>1. PICK w \in Workers : CreateReferral(w, r)
        <4>1. ~DeleteReferral(r) /\ r \notin Revived(CaseOf(r))
          BY <2>2 DEF DeleteReferral, Revived
        <4>2. ASSUME NEW w \in Workers, DeleteArchivedCase(w), r \in session[w].kids
              PROVE  FALSE
          BY <2>2, <4>2 DEF DeleteArchivedCase, CascadeHolds
        <4> QED BY <1>3, <2>2, <4>1, <4>2, RefSteps
      <3>2. session[w].op = "refer" /\ CaseOf(r) = session[w].case
        BY <3>1 DEF CreateReferral
      <3>3. CaseOf(r) \in Cases /\ caseStatus[CaseOf(r)] = "OPEN"
        BY <3>2, SessionFields DEF ReferHolds
      <3> QED BY <1>1, <3>3 DEF ReviewedBeforeWork
    <2> QED BY <2>1, <2>2
  <1> QED
    BY <1>2, <1>3 DEF ReviewedBeforeWork

\* Only these steps change whether and since when a case is in the trash.
LEMMA RowSteps ==
    ASSUME TypeOK, [Next]_vars, NEW c \in Cases
    PROVE  \/ caseRow'[c] = caseRow[c] /\ trashedAt'[c] = trashedAt[c]
           \/ CreateCase(c)
           \/ RestoreTrashedCase(c)
           \/ PurgeCase(c)
           \/ \E w \in Workers : DeleteArchivedCase(w) /\ session[w].case = c
  <1> DEFINE Same == caseRow'[c] = caseRow[c] /\ trashedAt'[c] = trashedAt[c]
  <1> USE DEF caseVars, refVars, purgeVars, historyVars
  <1>1. ASSUME NEW d \in Cases, ~Same,
               \/ CreateCase(d) \/ RestoreTrashedCase(d) \/ PurgeCase(d)
               \/ ApproveCase(d) \/ RejectCase(d) \/ UnarchiveCase(d) \/ PurgeSkip(d)
        PROVE  d = c /\ (CreateCase(d) \/ RestoreTrashedCase(d) \/ PurgeCase(d))
    BY <1>1 DEF CreateCase, RestoreTrashedCase, PurgeCase, ApproveCase, RejectCase,
       UnarchiveCase, PurgeSkip, TypeOK
  <1>2. ASSUME NEW r \in Refs,
               DeleteReferral(r) \/ \E s \in ReferralStatus : UpdateStatus(r, s)
        PROVE  Same
    BY <1>2 DEF DeleteReferral, UpdateStatus
  <1>3. ASSUME NEW w \in Workers, DeleteArchivedCase(w), ~Same PROVE session[w].case = c
    BY <1>3 DEF DeleteArchivedCase, TypeOK
  <1>4. ASSUME NEW w \in Workers,
               \/ \E r \in Refs : CreateReferral(w, r)
               \/ ToggleCaseStatus(w) \/ ArchiveCase(w)
        PROVE  Same
    BY <1>4 DEF CreateReferral, ToggleCaseStatus, ArchiveCase
  <1>5. ASSUME NEW w \in Workers,
               \/ \E d \in Cases :
                    \/ \E a \in Agencies : LockForReferral(w, d, a)
                    \/ LockForToggle(w, d) \/ LockForArchive(w, d) \/ LoadForDelete(w, d)
               \/ BeginCascade(w) \/ DeleteVanished(w)
        PROVE  Same
    BY <1>5 DEF LockForReferral, LockForToggle, LockForArchive, LoadForDelete,
       BeginCascade, DeleteVanished
  <1>6. ASSUME PurgeRead \/ PurgeAbort \/ Tick \/ UNCHANGED vars PROVE Same
    BY <1>6 DEF PurgeRead, PurgeAbort, Tick, vars
  <1> HIDE DEF Same
  <1>7. Same \/ CreateCase(c) \/ RestoreTrashedCase(c) \/ PurgeCase(c)
         \/ \E w \in Workers : DeleteArchivedCase(w) /\ session[w].case = c
    BY <1>1, <1>2, <1>3, <1>4, <1>5, <1>6 DEF Next, Commit
  <1> QED
    BY <1>7 DEF Same

\* The history of restores and late deletions is never forgotten.
LEMMA HistoryGrows ==
    ASSUME TypeOK, [Next]_vars
    PROVE  restored \subseteq restored' /\ late \subseteq late'
  BY DEF Next, vars, historyVars, CreateCase, ApproveCase, RejectCase, UnarchiveCase,
     RestoreTrashedCase, PurgeCase, PurgeSkip, DeleteReferral, UpdateStatus,
     LockForReferral, LockForToggle, LockForArchive, LoadForDelete, BeginCascade,
     DeleteVanished, Commit, CreateReferral, ToggleCaseStatus, ArchiveCase,
     DeleteArchivedCase, PurgeRead, PurgeAbort, Tick

LEMMA CaseOfRef == ASSUME NEW r \in Refs PROVE CaseOf(r) \in Cases
  BY DEF Refs, CaseOf

\* A referral is inserted under the conditions its request checked.
LEMMA ReferAtCommit ==
    ASSUME TypeOK, ReferHolds, NEW w \in Workers, NEW r \in Refs, CreateReferral(w, r)
    PROVE  /\ caseRow[CaseOf(r)] = "live" /\ caseRow' = caseRow
           /\ caseStatus[CaseOf(r)] = "OPEN" /\ caseStatus' = caseStatus
           /\ ~Duplicate(CaseOf(r), AgencyOf(r))
  <1>1. /\ session[w].op = "refer"
        /\ CaseOf(r) = session[w].case /\ AgencyOf(r) = session[w].agency
        /\ caseRow' = caseRow /\ caseStatus' = caseStatus
    BY DEF CreateReferral, caseVars
  <1>2. /\ caseRow[session[w].case] = "live"
        /\ caseStatus[session[w].case] = "OPEN"
        /\ ~Duplicate(session[w].case, session[w].agency)
    BY <1>1 DEF ReferHolds
  <1> QED
    BY <1>1, <1>2

LEMMA NextLiveUnderLive ==
    ASSUME TypeOK, ReferHolds, CascadeHolds, LiveUnderLive, [Next]_vars
    PROVE  LiveUnderLive'
  <1> SUFFICES ASSUME NEW r \in Refs, refRow'[r] = "live"
               PROVE  caseRow'[CaseOf(r)] = "live"
    BY DEF LiveUnderLive
  <1>0. CaseOf(r) \in Cases
    BY CaseOfRef
  <1>1. CASE RestoreTrashedCase(CaseOf(r))
    BY <1>0, <1>1 DEF RestoreTrashedCase, TypeOK
  <1>2. CASE \E w \in Workers : CreateReferral(w, r)
    BY <1>2, ReferAtCommit
  <1>3. CASE refRow[r] = "live"
    <2>1. caseRow[CaseOf(r)] = "live"
      BY <1>3 DEF LiveUnderLive
    <2>2. ~PurgeCase(CaseOf(r))
      BY <1>3 DEF PurgeCase
    <2>3. ASSUME NEW w \in Workers, DeleteArchivedCase(w), session[w].case = CaseOf(r)
          PROVE  FALSE
      <3>1. r \in session[w].kids
        BY <1>3, <2>3 DEF DeleteArchivedCase, CascadeHolds, LiveReferrals
      <3> QED BY <2>3, <3>1 DEF DeleteArchivedCase
    <2>4. ~CreateCase(CaseOf(r)) /\ ~RestoreTrashedCase(CaseOf(r))
      BY <2>1 DEF CreateCase, RestoreTrashedCase
    <2> QED BY <1>0, <2>1, <2>2, <2>3, <2>4, RowSteps
  <1>4. (~DeleteReferral(r) /\ ~PurgeCase(CaseOf(r))) \/ refRow[r] = "live"
    BY DEF DeleteReferral, PurgeCase, TypeOK
  <1>5. ASSUME NEW w \in Workers, DeleteArchivedCase(w), r \in session[w].kids PROVE FALSE
    BY <1>5 DEF DeleteArchivedCase
  <1> QED
    BY <1>1, <1>2, <1>3, <1>4, <1>5, RefSteps

LEMMA NextPromptDelete ==
    ASSUME TypeOK, CascadeHolds, PromptDeleteIsRestorable, [Next]_vars
    PROVE  PromptDeleteIsRestorable'
  <1> SUFFICES ASSUME NEW r \in Refs, refRow'[r] = "trash", trashedBy'[r] = "case",
                      CaseOf(r) \notin late'
               PROVE  caseRow'[CaseOf(r)] = "trash" /\ InWindow(r)'
    BY DEF PromptDeleteIsRestorable
  <1>0. CaseOf(r) \in Cases /\ CaseOf(r) \notin late
    BY CaseOfRef, HistoryGrows
  <1>1. CASE /\ refRow'[r] = refRow[r] /\ refTrashed'[r] = refTrashed[r]
             /\ trashedBy'[r] = trashedBy[r]
    <2>1. caseRow[CaseOf(r)] = "trash" /\ InWindow(r) /\ refRow[r] = "trash"
      BY <1>0, <1>1 DEF PromptDeleteIsRestorable
    <2>2. ~CreateCase(CaseOf(r)) /\ ~PurgeCase(CaseOf(r))
      BY <2>1 DEF CreateCase, PurgeCase
    <2>3. ~RestoreTrashedCase(CaseOf(r))
      <3>1. r \in Revived(CaseOf(r))
        BY <2>1 DEF Revived
      <3> QED BY <3>1 DEF RestoreTrashedCase
    <2>4. ASSUME NEW w \in Workers, DeleteArchivedCase(w), session[w].case = CaseOf(r)
          PROVE  FALSE
      BY <2>1, <2>4 DEF DeleteArchivedCase
    <2>5. caseRow'[CaseOf(r)] = "trash" /\ trashedAt'[CaseOf(r)] = trashedAt[CaseOf(r)]
      BY <1>0, <2>1, <2>2, <2>3, <2>4, RowSteps
    <2> QED BY <1>1, <2>1, <2>5 DEF InWindow
  <1>2. ASSUME NEW w \in Workers, DeleteArchivedCase(w), r \in session[w].kids
        PROVE  caseRow'[CaseOf(r)] = "trash" /\ InWindow(r)'
    <2>1. session[w].op = "cascade"
      BY <1>2 DEF DeleteArchivedCase
    <2>2. /\ session[w].case = CaseOf(r)
          /\ session[w].since <= clock
      BY <1>2, <2>1 DEF CascadeHolds
    <2>3. /\ caseRow'[CaseOf(r)] = "trash"
          /\ trashedAt'[CaseOf(r)] = clock
          /\ refTrashed'[r] = session[w].since
      BY <1>0, <1>2, <2>2 DEF DeleteArchivedCase, TypeOK
    <2>4. session[w].since \in Int /\ clock \in Int
      BY <2>1, SessionFields, BoundsAssumption DEF TypeOK, Times
    <2>5. ~(clock > session[w].since + Window)
      BY <1>0, <1>2, <2>2 DEF DeleteArchivedCase
    <2>6. clock - Window <= session[w].since /\ session[w].since <= clock + Window
      BY <2>2, <2>4, <2>5, WindowAssumption
    <2> QED BY <2>3, <2>6 DEF InWindow
  <1>3. /\ ~DeleteReferral(r) /\ ~(\E w \in Workers : CreateReferral(w, r))
        /\ ~(RestoreTrashedCase(CaseOf(r)) /\ r \in Revived(CaseOf(r)))
        /\ ~(refRow[r] # "absent" /\ PurgeCase(CaseOf(r)))
    BY DEF DeleteReferral, CreateReferral, RestoreTrashedCase, PurgeCase, TypeOK
  <1> QED
    BY <1>1, <1>2, <1>3, RefSteps

LEMMA NextPurgeLeavesNothing ==
    ASSUME TypeOK, ReferHolds, CascadeHolds, PurgeLeavesNothing, [Next]_vars
    PROVE  PurgeLeavesNothing'
  <1> SUFFICES ASSUME NEW r \in Refs, caseRow'[CaseOf(r)] = "gone"
               PROVE  refRow'[r] \in {"absent", "gone"}
    BY DEF PurgeLeavesNothing
  <1>0. CaseOf(r) \in Cases
    BY CaseOfRef
  <1>1. CASE PurgeCase(CaseOf(r))
    BY <1>1 DEF PurgeCase, TypeOK
  <1>2. CASE caseRow[CaseOf(r)] = "gone"
    <2>1. refRow[r] \in {"absent", "gone"}
      BY <1>2 DEF PurgeLeavesNothing
    <2>2. ~(\E w \in Workers : CreateReferral(w, r))
      BY <1>2, ReferAtCommit
    <2>3. ~DeleteReferral(r) /\ r \notin Revived(CaseOf(r))
      BY <2>1 DEF DeleteReferral, Revived
    <2>4. ~(\E w \in Workers : DeleteArchivedCase(w) /\ r \in session[w].kids)
      BY <2>1 DEF DeleteArchivedCase, CascadeHolds
    <2> QED BY <1>1, <2>1, <2>2, <2>3, <2>4, RefSteps
  <1>3. /\ ~CreateCase(CaseOf(r)) /\ ~RestoreTrashedCase(CaseOf(r))
        /\ ~(\E w \in Workers : DeleteArchivedCase(w) /\ session[w].case = CaseOf(r))
    BY <1>0 DEF CreateCase, RestoreTrashedCase, DeleteArchivedCase, TypeOK
  <1> QED
    BY <1>0, <1>1, <1>2, <1>3, RowSteps

-----------------------------------------------------------------------------
(* Active referrals. *)

\* No step takes a referral out of COMPLETED or REJECTED.
LEMMA OutcomeStep ==
    ASSUME TypeOK, [Next]_vars, NEW r \in Refs, refStatus[r] \in Settled
    PROVE  refStatus'[r] = refStatus[r]
  <1> USE DEF caseVars, refVars, purgeVars, historyVars
  <1>1. ASSUME NEW q \in Refs, NEW s \in ReferralStatus, UpdateStatus(q, s)
        PROVE  refStatus'[r] = refStatus[r]
    BY <1>1 DEF UpdateStatus, Transitions, Settled, TypeOK
  <1>2. CASE ~\E q \in Refs, s \in ReferralStatus : UpdateStatus(q, s)
    <2>1. refStatus' = refStatus
      BY <1>2 DEF Next, vars, CreateCase, ApproveCase, RejectCase, UnarchiveCase,
         RestoreTrashedCase, PurgeCase, PurgeSkip, DeleteReferral, LockForReferral,
         LockForToggle, LockForArchive, LoadForDelete, BeginCascade, DeleteVanished,
         Commit, CreateReferral, ToggleCaseStatus, ArchiveCase, DeleteArchivedCase,
         PurgeRead, PurgeAbort, Tick
    <2> QED BY <2>1
  <1> QED
    BY <1>1, <1>2

\* An active referral was active before, or was just sent, or was restored.
LEMMA ActiveSteps ==
    ASSUME TypeOK, [Next]_vars, NEW c \in Cases, NEW q \in ActiveReferrals(c)'
    PROVE  \/ q \in ActiveReferrals(c)
           \/ refRow[q] = "absent" /\ \E w \in Workers : CreateReferral(w, q)
           \/ RestoreTrashedCase(c)
  <1>1. /\ q \in Refs /\ CaseOf(q) = c
        /\ refRow'[q] = "live" /\ refStatus'[q] \notin Settled
    BY DEF ActiveReferrals, LiveReferrals
  <1>2. refStatus[q] \notin Settled
    BY <1>1, OutcomeStep
  <1>3. ~DeleteReferral(q) /\ ~(refRow[q] # "absent" /\ PurgeCase(CaseOf(q)))
    BY <1>1 DEF DeleteReferral, PurgeCase, TypeOK
  <1>4. ~(\E w \in Workers : DeleteArchivedCase(w) /\ q \in session[w].kids)
    BY <1>1 DEF DeleteArchivedCase
  <1>5. \/ refRow[q] = "live"
        \/ refRow[q] = "absent" /\ \E w \in Workers : CreateReferral(w, q)
        \/ RestoreTrashedCase(c)
    BY <1>1, <1>3, <1>4, RefSteps
  <1> QED
    BY <1>1, <1>2, <1>5 DEF ActiveReferrals, LiveReferrals

LEMMA NextClosedCaseIsSettled ==
    ASSUME TypeOK, ReferHolds, ToggleHolds, ArchiveHolds, CascadeHolds, WorkedOnly,
           ClosedCaseIsSettled, [Next]_vars
    PROVE  ClosedCaseIsSettled'
  <1> SUFFICES ASSUME NEW c \in Cases, c \notin restored', caseRow'[c] = "live",
                      caseStatus'[c] \in {"CLOSED", "ARCHIVED"},
                      NEW q \in ActiveReferrals(c)'
               PROVE  FALSE
    BY DEF ClosedCaseIsSettled
  <1>1. c \notin restored /\ ~RestoreTrashedCase(c)
    BY HistoryGrows DEF RestoreTrashedCase
  <1>2. CASE \E w \in Workers : CreateReferral(w, q)
    <2>1. q \in Refs /\ CaseOf(q) = c
      BY DEF ActiveReferrals, LiveReferrals
    <2> QED BY <1>2, <2>1, ReferAtCommit
  <1>3. CASE q \in ActiveReferrals(c)
    <2>1. ~(caseRow[c] = "live" /\ caseStatus[c] \in {"CLOSED", "ARCHIVED"})
      BY <1>1, <1>3 DEF ClosedCaseIsSettled
    <2>2. ~CanClose(c)
      BY <1>3 DEF CanClose
    <2>3. caseRow[c] # "trash"
      <3>1. ASSUME caseRow[c] = "trash" PROVE FALSE
        <4>1. caseRow'[c] # caseRow[c] /\ ~CreateCase(c)
          BY <3>1 DEF CreateCase
        <4>2. ~PurgeCase(c)
          BY DEF PurgeCase, TypeOK
        <4>3. ~(\E w \in Workers : DeleteArchivedCase(w) /\ session[w].case = c)
          BY DEF DeleteArchivedCase, TypeOK
        <4> QED BY <1>1, <4>1, <4>2, <4>3, RowSteps
      <3> QED BY <3>1
    <2>4. caseRow[c] = "absent" => caseStatus[c] = "PENDING_REVIEW"
      BY DEF WorkedOnly
    <2> QED BY <2>1, <2>2, <2>3, <2>4, CaseSteps
  <1> QED
    BY <1>1, <1>2, <1>3, ActiveSteps

LEMMA NextOneActiveReferral ==
    ASSUME TypeOK, ReferHolds, OneActiveReferral, [Next]_vars
    PROVE  OneActiveReferral'
  <1> SUFFICES ASSUME NEW c \in Cases, c \notin restored',
                      NEW p \in ActiveReferrals(c)', NEW q \in ActiveReferrals(c)',
                      AgencyOf(p) = AgencyOf(q), p # q
               PROVE  FALSE
    BY DEF OneActiveReferral
  <1>1. c \notin restored /\ ~RestoreTrashedCase(c)
    BY HistoryGrows DEF RestoreTrashedCase
  <1>2. ASSUME NEW x \in Refs, NEW y \in Refs, NEW w \in Workers, x # y,
               CaseOf(x) = c, AgencyOf(x) = AgencyOf(y),
               CreateReferral(w, x), y \in ActiveReferrals(c)
        PROVE  FALSE
    BY <1>2, ReferAtCommit DEF Duplicate
  <1>3. ASSUME NEW w \in Workers, CreateReferral(w, p), refRow[q] = "absent"
        PROVE  FALSE
    <2>1. refRow' = [refRow EXCEPT ![p] = "live"]
      BY <1>3 DEF CreateReferral
    <2>2. q \in Refs /\ refRow'[q] = "live"
      BY DEF ActiveReferrals, LiveReferrals
    <2> QED BY <1>3, <2>1, <2>2 DEF TypeOK
  <1>4. /\ p \in Refs /\ CaseOf(p) = c
        /\ q \in Refs /\ CaseOf(q) = c
    BY DEF ActiveReferrals, LiveReferrals
  <1>5. ~(p \in ActiveReferrals(c) /\ q \in ActiveReferrals(c))
    BY <1>1 DEF OneActiveReferral
  <1> QED
    BY <1>1, <1>2, <1>3, <1>4, <1>5, ActiveSteps

-----------------------------------------------------------------------------
(* The invariant and the theorems. *)

LEMMA NextIInv == IInv /\ [Next]_vars => IInv'
  <1> SUFFICES ASSUME IInv, [Next]_vars PROVE IInv'
    OBVIOUS
  <1> USE DEF IInv
  <1>1. TypeOK'
    BY NextTypeOK
  <1>2. LocksExclude' /\ ReferHolds' /\ ToggleHolds' /\ ArchiveHolds'
    BY NextLocksExclude, NextReferHolds, NextToggleHolds, NextArchiveHolds
  <1>3. CascadeHolds' /\ WorkedOnly' /\ ReviewedBeforeWork'
    BY NextCascadeHolds, NextWorkedOnly, NextReviewedBeforeWork
  <1>4. LiveUnderLive' /\ PromptDeleteIsRestorable' /\ PurgeLeavesNothing'
    BY NextLiveUnderLive, NextPromptDelete, NextPurgeLeavesNothing
  <1>5. ClosedCaseIsSettled' /\ OneActiveReferral'
    BY NextClosedCaseIsSettled, NextOneActiveReferral
  <1> QED
    BY <1>1, <1>2, <1>3, <1>4, <1>5

\* The inductive invariant: what requests hold under row locks, the life cycle
\* of cases in and out of the trash, and the safety properties themselves.
THEOREM InductiveInvariant == Spec => []IInv
  BY InitIInv, NextIInv, PTL DEF Spec

\* Closed and archived cases that were never in the trash have no referral an
\* agency still has to answer, whatever requests interleave.
THEOREM ClosedIsSettled == Spec => []ClosedCaseIsSettled
  <1>1. IInv => ClosedCaseIsSettled
    BY DEF IInv
  <1> QED
    BY <1>1, InductiveInvariant, PTL

\* An agency has at most one active referral of a case that was never restored.
THEOREM OneActive == Spec => []OneActiveReferral
  <1>1. IInv => OneActiveReferral
    BY DEF IInv
  <1> QED
    BY <1>1, InductiveInvariant, PTL

\* No case is worked on or referred before a reviewer is recorded.
THEOREM ReviewComesFirst == Spec => []ReviewedBeforeWork
  <1>1. IInv => ReviewedBeforeWork
    BY DEF IInv
  <1> QED
    BY <1>1, InductiveInvariant, PTL

\* A case deleted once, by a cascade no longer than the tolerance, comes back
\* from the trash with every referral the cascade took.
THEOREM PromptDelete == Spec => []PromptDeleteIsRestorable
  <1>1. IInv => PromptDeleteIsRestorable
    BY DEF IInv
  <1> QED
    BY <1>1, InductiveInvariant, PTL

\* A purged case leaves no referral behind.
THEOREM PurgeIsComplete == Spec => []PurgeLeavesNothing
  <1>1. IInv => PurgeLeavesNothing
    BY DEF IInv
  <1> QED
    BY <1>1, InductiveInvariant, PTL

\* A case that is closed has a closure date and one that never was has none,
\* in the trash as well.
DatesAgree ==
    \A c \in Cases :
      /\ caseStatus[c] = "CLOSED" => closedAt[c] # Null
      /\ caseStatus[c] \in {"PENDING_REVIEW", "OPEN", "REJECTED"} => closedAt[c] = Null

\* Only closing, reopening and unarchiving write the closure date.
LEMMA NextDatesAgree == IInv /\ DatesAgree /\ [Next]_vars => DatesAgree'
  <1> SUFFICES ASSUME IInv, DatesAgree, [Next]_vars PROVE DatesAgree'
    OBVIOUS
  <1>1. TypeOK /\ ToggleHolds /\ ArchiveHolds /\ clock # Null
    BY DEF IInv, TypeOK, Times, Null
  <1> USE DEF caseVars, refVars, purgeVars, historyVars
  <1>2. ASSUME UNCHANGED <<caseStatus, closedAt>> PROVE DatesAgree'
    BY <1>2 DEF DatesAgree
  <1>3. ASSUME NEW d \in Cases,
               \/ CreateCase(d) \/ PurgeCase(d) \/ PurgeSkip(d)
               \/ \E w \in Workers :
                    \/ \E a \in Agencies : LockForReferral(w, d, a)
                    \/ LockForToggle(w, d) \/ LockForArchive(w, d) \/ LoadForDelete(w, d)
        PROVE  DatesAgree'
    BY <1>2, <1>3 DEF CreateCase, PurgeCase, PurgeSkip, LockForReferral, LockForToggle,
       LockForArchive, LoadForDelete
  <1>4. ASSUME NEW d \in Cases, ApproveCase(d) \/ RejectCase(d) PROVE DatesAgree'
    BY <1>1, <1>4 DEF ApproveCase, RejectCase, InReview, DatesAgree, TypeOK
  <1>5. ASSUME NEW d \in Cases, UnarchiveCase(d) PROVE DatesAgree'
    BY <1>1, <1>5 DEF UnarchiveCase, ClosedAtOnUnarchive, DatesAgree, TypeOK
  <1>6. ASSUME NEW d \in Cases, RestoreTrashedCase(d) PROVE DatesAgree'
    BY <1>1, <1>6 DEF RestoreTrashedCase, DatesAgree, TypeOK
  <1>7. ASSUME NEW w \in Workers, ToggleCaseStatus(w) PROVE DatesAgree'
    <2>1. /\ session[w].case \in Cases
          /\ caseStatus[session[w].case] \in {"OPEN", "CLOSED"}
      BY <1>1, <1>7, SessionFields DEF ToggleHolds, ToggleCaseStatus
    <2> QED BY <1>1, <1>7, <2>1 DEF ToggleCaseStatus, DatesAgree, TypeOK
  <1>8. ASSUME NEW w \in Workers, ArchiveCase(w) PROVE DatesAgree'
    <2>1. session[w].case \in Cases
      BY <1>1, <1>8, SessionFields DEF ArchiveCase
    <2> QED BY <1>1, <1>8, <2>1 DEF ArchiveCase, DatesAgree, TypeOK
  <1>9. ASSUME NEW w \in Workers,
               \/ DeleteArchivedCase(w) \/ BeginCascade(w) \/ DeleteVanished(w)
               \/ \E r \in Refs : CreateReferral(w, r)
        PROVE  DatesAgree'
    BY <1>2, <1>9 DEF DeleteArchivedCase, BeginCascade, DeleteVanished, CreateReferral
  <1>10. ASSUME NEW r \in Refs,
                DeleteReferral(r) \/ \E s \in ReferralStatus : UpdateStatus(r, s)
         PROVE  DatesAgree'
    BY <1>2, <1>10 DEF DeleteReferral, UpdateStatus
  <1>11. ASSUME PurgeRead \/ PurgeAbort \/ Tick \/ UNCHANGED vars PROVE DatesAgree'
    BY <1>2, <1>11 DEF PurgeRead, PurgeAbort, Tick, vars
  <1> QED
    BY <1>3, <1>4, <1>5, <1>6, <1>7, <1>8, <1>9, <1>10, <1>11 DEF Next, Commit

\* A live closed case has a closure date and a live open one has none, whatever
\* stale deletes, restores and unarchivings it went through.
THEOREM DatesCorrect == Spec => []ClosedAtAgrees
  <1>1. Init => DatesAgree
    BY DEF Init, DatesAgree
  <1>2. DatesAgree => ClosedAtAgrees
    BY DEF DatesAgree, ClosedAtAgrees
  <1> QED
    BY <1>1, <1>2, NextDatesAgree, InductiveInvariant, PTL DEF Spec

\* The outcome of a referral never changes.
THEOREM OutcomeStays == Spec => OutcomeIsFinal
  <1>1. TypeOK /\ [Next]_vars
          => [\A r \in Refs : refStatus[r] \in Settled => refStatus'[r] = refStatus[r]]_vars
    BY OutcomeStep
  <1> QED
    BY <1>1, TypeCorrect, PTL DEF Spec, OutcomeIsFinal

-----------------------------------------------------------------------------
(* Refinement: every step is a step of CaseBoard or leaves it unchanged. *)

BoardPhase == [c \in Cases |-> Phase(c)]
BoardWaiting == [c \in Cases |-> Waiting(c)]

\* A step that concerns one case changes the board there only.
LEMMA OneCaseStep ==
    ASSUME NEW c \in Cases, NEW X, NEW Y, Phase(c)' = X, Waiting(c)' = Y,
           \A d \in Cases \ {c} : Phase(d)' = Phase(d) /\ Waiting(d)' = Waiting(d)
    PROVE  /\ BoardPhase' = [BoardPhase EXCEPT ![c] = X]
           /\ BoardWaiting' = [BoardWaiting EXCEPT ![c] = Y]
  BY DEF BoardPhase, BoardWaiting

\* The board sees a case only through its row, its status and its referrals.
LEMMA SameOnBoard ==
    ASSUME NEW d \in Cases, caseRow'[d] = caseRow[d], caseStatus'[d] = caseStatus[d],
           ActiveReferrals(d)' = ActiveReferrals(d)
    PROVE  Phase(d)' = Phase(d) /\ Waiting(d)' = Waiting(d)
  BY DEF Phase, Waiting

\* Only a live case has anyone waiting for an answer.
LEMMA WaitingUnderLive ==
    ASSUME LiveUnderLive, NEW c \in Cases, caseRow[c] # "live"
    PROVE  ActiveReferrals(c) = {} /\ Waiting(c) = {}
  BY DEF LiveUnderLive, ActiveReferrals, LiveReferrals, Waiting

\* The moves of the board, read through the refinement mapping.
LEMMA BoardMoves ==
    ASSUME NEW c \in Cases, NEW X, NEW Y,
           BoardPhase' = [BoardPhase EXCEPT ![c] = X],
           BoardWaiting' = [BoardWaiting EXCEPT ![c] = Y],
           \/ Y = Waiting(c) /\ Phase(c) = "ABSENT" /\ X = "PENDING_REVIEW"
           \/ Y = Waiting(c) /\ Phase(c) = "PENDING_REVIEW" /\ X \in {"OPEN", "REJECTED"}
           \/ /\ Y = Waiting(c) /\ Waiting(c) = {}
              /\ \/ Phase(c) = "OPEN" /\ X = "CLOSED"
                 \/ Phase(c) = "CLOSED" /\ X = "ARCHIVED"
           \/ /\ Y = Waiting(c)
              /\ \/ Phase(c) = "CLOSED" /\ X = "OPEN"
                 \/ Phase(c) = "ARCHIVED" /\ X = "CLOSED"
           \/ Y = {} /\ Phase(c) \in Worked /\ X \in {"TRASH", "GONE"}
           \/ Y = {} /\ Phase(c) = "TRASH" /\ X = "GONE"
           \/ Y \subseteq Agencies /\ Phase(c) = "TRASH" /\ X = "ARCHIVED"
           \/ /\ X = Phase(c)
              /\ \E a \in Agencies :
                   \/ Phase(c) = "OPEN" /\ a \notin Waiting(c) /\ Y = Waiting(c) \cup {a}
                   \/ a \in Waiting(c) /\ Y = Waiting(c) \ {a}
    PROVE  Board!Next
  <1> USE DEF Worked
  <1>0. /\ BoardPhase[c] = Phase(c) /\ BoardWaiting[c] = Waiting(c)
    BY DEF BoardPhase, BoardWaiting
  <1>1. Y = Waiting(c) => BoardWaiting' = BoardWaiting
    BY <1>0 DEF BoardWaiting
  <1>2. X = Phase(c) => BoardPhase' = BoardPhase
    BY <1>0 DEF BoardPhase
  <1>3. CASE Y = Waiting(c) /\ Phase(c) = "ABSENT" /\ X = "PENDING_REVIEW"
    <2>1. Board!File(c)
      BY <1>0, <1>1, <1>3 DEF Board!File, Board!Move, BoardPhase, BoardWaiting
    <2> QED BY <2>1 DEF Board!Next
  <1>4. CASE Y = Waiting(c) /\ Phase(c) = "PENDING_REVIEW" /\ X \in {"OPEN", "REJECTED"}
    <2>1. Board!Approve(c) \/ Board!Reject(c)
      BY <1>0, <1>1, <1>4 DEF Board!Approve, Board!Reject, Board!Move, BoardPhase, BoardWaiting
    <2> QED BY <2>1 DEF Board!Next
  <1>5. CASE /\ Y = Waiting(c) /\ Waiting(c) = {}
             /\ \/ Phase(c) = "OPEN" /\ X = "CLOSED"
                \/ Phase(c) = "CLOSED" /\ X = "ARCHIVED"
    <2>1. Board!Close(c) \/ Board!Archive(c)
      BY <1>0, <1>1, <1>5 DEF Board!Close, Board!Archive, Board!Move, BoardPhase, BoardWaiting
    <2> QED BY <2>1 DEF Board!Next
  <1>6. CASE /\ Y = Waiting(c)
             /\ \/ Phase(c) = "CLOSED" /\ X = "OPEN"
                \/ Phase(c) = "ARCHIVED" /\ X = "CLOSED"
    <2>1. Board!Reopen(c) \/ Board!Unarchive(c)
      BY <1>0, <1>1, <1>6 DEF Board!Reopen, Board!Unarchive, Board!Move, BoardPhase, BoardWaiting
    <2> QED BY <2>1 DEF Board!Next
  <1>7. CASE Y = {} /\ Phase(c) \in Worked /\ X \in {"TRASH", "GONE"}
    <2>1. Board!Trash(c) \/ Board!Purge(c)
      BY <1>0, <1>7 DEF Board!Trash, Board!Purge, Board!Move, BoardPhase, BoardWaiting
    <2> QED BY <2>1 DEF Board!Next
  <1>8. CASE Y = {} /\ Phase(c) = "TRASH" /\ X = "GONE"
    <2>1. Board!Purge(c)
      BY <1>0, <1>8 DEF Board!Purge, Board!Move, BoardPhase, BoardWaiting
    <2> QED BY <2>1 DEF Board!Next
  <1>9. CASE Y \subseteq Agencies /\ Phase(c) = "TRASH" /\ X = "ARCHIVED"
    <2>1. Board!Restore(c)
      BY <1>0, <1>9 DEF Board!Restore, Board!Move, BoardPhase, BoardWaiting
    <2> QED BY <2>1 DEF Board!Next
  <1>10. ASSUME X = Phase(c), NEW a \in Agencies,
                \/ Phase(c) = "OPEN" /\ a \notin Waiting(c) /\ Y = Waiting(c) \cup {a}
                \/ a \in Waiting(c) /\ Y = Waiting(c) \ {a}
         PROVE  Board!Next
    <2>1. Board!Refer(c, a) \/ Board!Settle(c, a)
      BY <1>0, <1>2, <1>10 DEF Board!Refer, Board!Settle, BoardPhase, BoardWaiting
    <2> QED BY <2>1 DEF Board!Next
  <1> QED
    BY <1>3, <1>4, <1>5, <1>6, <1>7, <1>8, <1>9, <1>10

\* A step confined to one case is a move of the board when that case makes one.
LEMMA BoardStep ==
    ASSUME NEW c \in Cases,
           \A d \in Cases \ {c} : Phase(d)' = Phase(d) /\ Waiting(d)' = Waiting(d),
           \/ /\ Waiting(c)' = Waiting(c)
              /\ Phase(c) = "ABSENT" /\ Phase(c)' = "PENDING_REVIEW"
           \/ /\ Waiting(c)' = Waiting(c)
              /\ Phase(c) = "PENDING_REVIEW" /\ Phase(c)' \in {"OPEN", "REJECTED"}
           \/ /\ Waiting(c)' = Waiting(c) /\ Waiting(c) = {}
              /\ \/ Phase(c) = "OPEN" /\ Phase(c)' = "CLOSED"
                 \/ Phase(c) = "CLOSED" /\ Phase(c)' = "ARCHIVED"
           \/ /\ Waiting(c)' = Waiting(c)
              /\ \/ Phase(c) = "CLOSED" /\ Phase(c)' = "OPEN"
                 \/ Phase(c) = "ARCHIVED" /\ Phase(c)' = "CLOSED"
           \/ /\ Waiting(c)' = {}
              /\ Phase(c) \in Worked /\ Phase(c)' \in {"TRASH", "GONE"}
           \/ /\ Waiting(c)' = {}
              /\ Phase(c) = "TRASH" /\ Phase(c)' = "GONE"
           \/ /\ Waiting(c)' \subseteq Agencies
              /\ Phase(c) = "TRASH" /\ Phase(c)' = "ARCHIVED"
           \/ /\ Phase(c)' = Phase(c)
              /\ \E a \in Agencies :
                   \/ /\ Phase(c) = "OPEN" /\ a \notin Waiting(c)
                      /\ Waiting(c)' = Waiting(c) \cup {a}
                   \/ a \in Waiting(c) /\ Waiting(c)' = Waiting(c) \ {a}
    PROVE  Board!Next
  <1> DEFINE X == Phase(c)'
             Y == Waiting(c)'
  <1>1. X = Phase(c)' /\ Y = Waiting(c)'
    OBVIOUS
  <1> HIDE DEF X, Y
  <1>2. /\ BoardPhase' = [BoardPhase EXCEPT ![c] = X]
        /\ BoardWaiting' = [BoardWaiting EXCEPT ![c] = Y]
    BY <1>1, OneCaseStep
  <1> QED
    BY <1>1, <1>2, BoardMoves

LEMMA BoardStutters ==
    ASSUME \A d \in Cases : Phase(d)' = Phase(d) /\ Waiting(d)' = Waiting(d)
    PROVE  UNCHANGED Board!vars
  BY DEF Board!vars

\* A case whose row is not live has nobody waiting after the step either.
LEMMA NobodyWaitsNext ==
    ASSUME LiveUnderLive', NEW c \in Cases, caseRow'[c] # "live"
    PROVE  Waiting(c)' = {}
  BY DEF LiveUnderLive, ActiveReferrals, LiveReferrals, Waiting

LEMMA SameReferrals ==
    ASSUME NEW d \in Cases,
           \A r \in Refs : CaseOf(r) = d =>
             refRow'[r] = refRow[r] /\ refStatus'[r] = refStatus[r]
    PROVE  ActiveReferrals(d)' = ActiveReferrals(d)
  BY DEF ActiveReferrals, LiveReferrals

LEMMA InitBoard == Init => Board!Init
  <1> SUFFICES ASSUME Init PROVE Board!Init
    OBVIOUS
  <1>1. \A c \in Cases : Phase(c) = "ABSENT"
    BY DEF Init, Phase
  <1>2. \A c \in Cases : ActiveReferrals(c) = {}
    BY DEF Init, ActiveReferrals, LiveReferrals
  <1>3. \A c \in Cases : Waiting(c) = {}
    BY <1>2 DEF Waiting
  <1> QED
    BY <1>1, <1>3 DEF Board!Init

\* Steps on a case row that leave the referrals alone.
LEMMA StatusOnBoard ==
    ASSUME IInv, IInv', NEW c \in Cases,
           \/ CreateCase(c) \/ ApproveCase(c) \/ RejectCase(c) \/ UnarchiveCase(c)
    PROVE  Board!Next
  <1> USE DEF IInv
  <1>1. refRow' = refRow /\ refStatus' = refStatus
    BY DEF CreateCase, ApproveCase, RejectCase, UnarchiveCase, refVars
  <1>2. \A d \in Cases : ActiveReferrals(d)' = ActiveReferrals(d)
    BY <1>1, SameReferrals
  <1>3. \A d \in Cases : Waiting(d)' = Waiting(d)
    BY <1>2 DEF Waiting
  <1>4. \A d \in Cases \ {c} : caseRow'[d] = caseRow[d] /\ caseStatus'[d] = caseStatus[d]
    BY DEF CreateCase, ApproveCase, RejectCase, UnarchiveCase, TypeOK
  <1>5. \A d \in Cases \ {c} : Phase(d)' = Phase(d)
    BY <1>2, <1>4, SameOnBoard
  <1>6. CASE CreateCase(c)
    <2>1. Phase(c) = "ABSENT" /\ Phase(c)' = "PENDING_REVIEW"
      BY <1>6 DEF CreateCase, Phase, TypeOK, WorkedOnly
    <2> QED BY <2>1, <1>3, <1>5, BoardStep
  <1>7. CASE ApproveCase(c)
    <2>1. Phase(c) = "PENDING_REVIEW" /\ Phase(c)' = "OPEN"
      BY <1>7 DEF ApproveCase, InReview, Phase, TypeOK
    <2> QED BY <2>1, <1>3, <1>5, BoardStep
  <1>8. CASE RejectCase(c)
    <2>1. Phase(c) = "PENDING_REVIEW" /\ Phase(c)' = "REJECTED"
      BY <1>8 DEF RejectCase, InReview, Phase, TypeOK
    <2> QED BY <2>1, <1>3, <1>5, BoardStep
  <1>9. CASE UnarchiveCase(c)
    <2>1. Phase(c) = "ARCHIVED" /\ Phase(c)' = "CLOSED"
      BY <1>9 DEF UnarchiveCase, Phase, TypeOK
    <2> QED BY <2>1, <1>3, <1>5, BoardStep
  <1> QED
    BY <1>6, <1>7, <1>8, <1>9

\* Closing, reopening and archiving: what the request found still holds.
LEMMA CommitOnBoard ==
    ASSUME IInv, IInv', NEW w \in Workers, ToggleCaseStatus(w) \/ ArchiveCase(w)
    PROVE  Board!Next
  <1> USE DEF IInv
  <1>0. PICK c \in Cases : c = session[w].case
    BY SessionFields DEF ToggleCaseStatus, ArchiveCase
  <1>1. refRow' = refRow /\ refStatus' = refStatus /\ caseRow' = caseRow
    BY DEF ToggleCaseStatus, ArchiveCase, refVars
  <1>2. \A d \in Cases : ActiveReferrals(d)' = ActiveReferrals(d)
    BY <1>1, SameReferrals
  <1>3. \A d \in Cases : Waiting(d)' = Waiting(d)
    BY <1>2 DEF Waiting
  <1>4. \A d \in Cases \ {c} : caseStatus'[d] = caseStatus[d]
    BY <1>0 DEF ToggleCaseStatus, ArchiveCase, TypeOK
  <1>5. \A d \in Cases \ {c} : Phase(d)' = Phase(d)
    BY <1>1, <1>2, <1>4, SameOnBoard
  <1>6. CASE ToggleCaseStatus(w)
    <2>1. /\ caseRow[c] = "live" /\ caseStatus[c] \in {"OPEN", "CLOSED"}
          /\ caseStatus[c] = "OPEN" => CanClose(c)
      BY <1>0, <1>6 DEF ToggleCaseStatus, ToggleHolds
    <2>2. caseStatus[c] = "OPEN" => Waiting(c) = {}
      BY <2>1 DEF CanClose, Waiting
    <2>3. caseStatus'[c] = IF caseStatus[c] = "CLOSED" THEN "OPEN" ELSE "CLOSED"
      BY <1>6, <1>0 DEF ToggleCaseStatus, TypeOK
    <2>4. \/ Phase(c) = "OPEN" /\ Phase(c)' = "CLOSED" /\ Waiting(c) = {}
          \/ Phase(c) = "CLOSED" /\ Phase(c)' = "OPEN"
      BY <1>1, <2>1, <2>2, <2>3 DEF Phase
    <2> QED BY <1>0, <1>3, <1>5, <2>4, BoardStep
  <1>7. CASE ArchiveCase(w)
    <2>1. caseRow[c] = "live" /\ caseStatus[c] = "CLOSED" /\ CanClose(c)
      BY <1>0, <1>7 DEF ArchiveCase, ArchiveHolds
    <2>2. Waiting(c) = {}
      BY <2>1 DEF CanClose, Waiting
    <2>3. caseStatus'[c] = "ARCHIVED"
      BY <1>7, <1>0 DEF ArchiveCase, TypeOK
    <2>4. Phase(c) = "CLOSED" /\ Phase(c)' = "ARCHIVED"
      BY <1>1, <2>1, <2>3 DEF Phase
    <2> QED BY <1>0, <1>3, <1>5, <2>2, <2>4, BoardStep
  <1> QED
    BY <1>6, <1>7

\* Into the trash and out of it: a second deletion of a trashed case is no move.
LEMMA TrashOnBoard ==
    ASSUME IInv, IInv', NEW w \in Workers, DeleteArchivedCase(w)
    PROVE  Board!Next \/ UNCHANGED Board!vars
  <1> USE DEF IInv
  <1>0. PICK c \in Cases : c = session[w].case
    BY SessionFields DEF DeleteArchivedCase
  <1>1. /\ caseRow[c] \in {"live", "trash"}
        /\ \A r \in session[w].kids : CaseOf(r) = c
        /\ caseStatus[c] \in Worked
    BY <1>0 DEF DeleteArchivedCase, CascadeHolds, WorkedOnly
  <1>2. /\ caseRow' = [caseRow EXCEPT ![c] = "trash"]
        /\ caseStatus' = caseStatus
        /\ refStatus' = refStatus
    BY <1>0 DEF DeleteArchivedCase
  <1>3. \A r \in Refs : CaseOf(r) # c => refRow'[r] = refRow[r]
    BY <1>0, <1>1 DEF DeleteArchivedCase
  <1>4. caseRow'[c] = "trash" /\ \A d \in Cases \ {c} : caseRow'[d] = caseRow[d]
    BY <1>0, <1>2 DEF TypeOK
  <1>5. \A d \in Cases \ {c} : ActiveReferrals(d)' = ActiveReferrals(d)
    BY <1>2, <1>3, SameReferrals
  <1>6. \A d \in Cases \ {c} : Phase(d)' = Phase(d) /\ Waiting(d)' = Waiting(d)
    BY <1>2, <1>4, <1>5, SameOnBoard
  <1>7. Waiting(c)' = {}
    BY <1>0, <1>4, NobodyWaitsNext
  <1>8. Phase(c)' = "TRASH"
    BY <1>4 DEF Phase
  <1>9. CASE caseRow[c] = "live"
    <2>1. Phase(c) \in Worked
      BY <1>1, <1>9 DEF Phase
    <2> QED BY <1>0, <1>6, <1>7, <1>8, <2>1, BoardStep
  <1>10. CASE caseRow[c] = "trash"
    <2>1. Waiting(c) = {} /\ Phase(c) = "TRASH"
      BY <1>0, <1>10, WaitingUnderLive DEF Phase
    <2> QED BY <1>6, <1>7, <1>8, <2>1, BoardStutters
  <1> QED
    BY <1>1, <1>9, <1>10

LEMMA RestoreOnBoard ==
    ASSUME IInv, IInv', NEW c \in Cases, RestoreTrashedCase(c)
    PROVE  Board!Next
  <1> USE DEF IInv
  <1>1. \A r \in Refs : CaseOf(r) # c => refRow'[r] = refRow[r]
    BY DEF RestoreTrashedCase, Revived
  <1>2. refStatus' = refStatus
    BY DEF RestoreTrashedCase
  <1>3. /\ caseRow[c] = "trash"
        /\ caseRow'[c] = "live" /\ caseStatus'[c] = "ARCHIVED"
        /\ \A d \in Cases \ {c} : caseRow'[d] = caseRow[d] /\ caseStatus'[d] = caseStatus[d]
    BY DEF RestoreTrashedCase, TypeOK
  <1>4. \A d \in Cases \ {c} : ActiveReferrals(d)' = ActiveReferrals(d)
    BY <1>1, <1>2, SameReferrals
  <1>5. \A d \in Cases \ {c} : Phase(d)' = Phase(d) /\ Waiting(d)' = Waiting(d)
    BY <1>3, <1>4, SameOnBoard
  <1>6. Waiting(c)' \subseteq Agencies
    BY DEF Waiting, ActiveReferrals, LiveReferrals, Refs, AgencyOf
  <1>7. Phase(c) = "TRASH" /\ Phase(c)' = "ARCHIVED"
    BY <1>3 DEF Phase
  <1> QED
    BY <1>5, <1>6, <1>7, BoardStep

LEMMA PurgeOnBoard ==
    ASSUME IInv, IInv', NEW c \in Cases, PurgeCase(c)
    PROVE  Board!Next
  <1> USE DEF IInv
  <1>1. \A r \in Refs : CaseOf(r) # c => refRow'[r] = refRow[r]
    BY DEF PurgeCase
  <1>2. refStatus' = refStatus /\ caseStatus' = caseStatus
    BY DEF PurgeCase
  <1>3. /\ c \in plan
        /\ caseRow'[c] = "gone"
        /\ \A d \in Cases \ {c} : caseRow'[d] = caseRow[d]
    BY DEF PurgeCase, FirstOf, TypeOK
  <1>4. \A d \in Cases \ {c} : ActiveReferrals(d)' = ActiveReferrals(d)
    BY <1>1, <1>2, SameReferrals
  <1>5. \A d \in Cases \ {c} : Phase(d)' = Phase(d) /\ Waiting(d)' = Waiting(d)
    BY <1>2, <1>3, <1>4, SameOnBoard
  <1>6. Waiting(c)' = {}
    BY <1>3, NobodyWaitsNext
  <1>7. Phase(c)' = "GONE"
    BY <1>3 DEF Phase
  <1>8. caseRow[c] \in {"live", "trash"} /\ caseStatus[c] \in Worked
    BY <1>3 DEF WorkedOnly
  <1>9. Phase(c) \in Worked \/ Phase(c) = "TRASH"
    BY <1>8 DEF Phase
  <1> QED
    BY <1>5, <1>6, <1>7, <1>9, BoardStep

\* Sending a referral makes its agency owe an answer, and nobody else.
LEMMA ReferOnBoard ==
    ASSUME IInv, IInv', NEW w \in Workers, NEW r \in Refs, CreateReferral(w, r)
    PROVE  Board!Next \/ UNCHANGED Board!vars
  <1> USE DEF IInv
  <1>0. PICK c \in Cases : c = CaseOf(r)
    BY CaseOfRef
  <1>1. PICK a \in Agencies : a = AgencyOf(r)
    BY DEF Refs, AgencyOf
  <1>2. /\ refRow' = [refRow EXCEPT ![r] = "live"]
        /\ refStatus' = refStatus /\ refRow[r] = "absent"
    BY DEF CreateReferral, NextCopy
  <1>3. /\ caseRow[c] = "live" /\ caseRow' = caseRow
        /\ caseStatus[c] = "OPEN" /\ caseStatus' = caseStatus
        /\ ~Duplicate(c, a)
    BY <1>0, <1>1, ReferAtCommit
  <1>4. a \notin Waiting(c)
    BY <1>1, <1>3 DEF Duplicate, Waiting
  <1>5. \A q \in Refs : q # r => refRow'[q] = refRow[q]
    BY <1>2 DEF TypeOK
  <1>6. refRow'[r] = "live"
    BY <1>2 DEF TypeOK
  <1>7. \A d \in Cases \ {c} : ActiveReferrals(d)' = ActiveReferrals(d)
    BY <1>0, <1>2, <1>5, SameReferrals
  <1>8. \A d \in Cases \ {c} : Phase(d)' = Phase(d) /\ Waiting(d)' = Waiting(d)
    BY <1>3, <1>7, SameOnBoard
  <1>9. Phase(c) = "OPEN" /\ Phase(c)' = Phase(c)
    BY <1>3 DEF Phase
  <1>10. CASE refStatus[r] \notin Settled
    <2>1. ActiveReferrals(c)' = ActiveReferrals(c) \cup {r}
      BY <1>0, <1>2, <1>5, <1>6, <1>10 DEF ActiveReferrals, LiveReferrals
    <2>2. Waiting(c)' = Waiting(c) \cup {a}
      BY <1>1, <2>1 DEF Waiting
    <2> QED BY <1>4, <1>8, <1>9, <2>2, BoardStep
  <1>11. CASE refStatus[r] \in Settled
    <2>1. ActiveReferrals(c)' = ActiveReferrals(c)
      BY <1>2, <1>5, <1>11 DEF ActiveReferrals, LiveReferrals
    <2>2. Waiting(c)' = Waiting(c)
      BY <2>1 DEF Waiting
    <2> QED BY <1>8, <1>9, <2>2, BoardStutters
  <1> QED
    BY <1>10, <1>11

\* An agency owes nothing more once its only active referral is answered or
\* deleted.
LEMMA AnswerOnBoard ==
    ASSUME IInv, IInv', [Next]_vars, NEW r \in Refs,
           DeleteReferral(r) \/ \E s \in ReferralStatus : UpdateStatus(r, s)
    PROVE  Board!Next \/ UNCHANGED Board!vars
  <1> USE DEF IInv
  <1>0. PICK c \in Cases : c = CaseOf(r)
    BY CaseOfRef
  <1>1. PICK a \in Agencies : a = AgencyOf(r)
    BY DEF Refs, AgencyOf
  <1>2. /\ caseRow' = caseRow /\ caseStatus' = caseStatus
        /\ refRow[r] = "live"
        /\ \A q \in Refs : q # r => refRow'[q] = refRow[q] /\ refStatus'[q] = refStatus[q]
    BY DEF DeleteReferral, UpdateStatus, caseVars, TypeOK
  <1>3. refStatus[r] \in Settled => refStatus'[r] = refStatus[r]
    BY OutcomeStep
  <1>4. \A d \in Cases \ {c} : ActiveReferrals(d)' = ActiveReferrals(d)
    BY <1>0, <1>2, SameReferrals
  <1>5. \A d \in Cases \ {c} : Phase(d)' = Phase(d) /\ Waiting(d)' = Waiting(d)
    BY <1>2, <1>4, SameOnBoard
  <1>6. Phase(c)' = Phase(c)
    BY <1>2 DEF Phase
  <1>7. /\ ActiveReferrals(c)' \subseteq ActiveReferrals(c)
        /\ ActiveReferrals(c) \ {r} \subseteq ActiveReferrals(c)'
    BY <1>0, <1>2, <1>3 DEF ActiveReferrals, LiveReferrals
  <1>8. /\ Waiting(c)' \subseteq Waiting(c)
        /\ Waiting(c) \ {a} \subseteq Waiting(c)'
    BY <1>1, <1>7 DEF Waiting
  <1>9. CASE Waiting(c)' = Waiting(c)
    BY <1>5, <1>6, <1>9, BoardStutters
  <1>10. CASE Waiting(c)' # Waiting(c)
    <2>1. a \in Waiting(c) /\ Waiting(c)' = Waiting(c) \ {a}
      BY <1>8, <1>10
    <2> QED BY <1>5, <1>6, <2>1, BoardStep
  <1> QED
    BY <1>9, <1>10

LEMMA OthersOnBoard ==
    ASSUME UNCHANGED <<caseVars, refVars>>
    PROVE  UNCHANGED Board!vars
  <1>1. /\ caseRow' = caseRow /\ caseStatus' = caseStatus
        /\ refRow' = refRow /\ refStatus' = refStatus
    BY DEF caseVars, refVars
  <1>2. \A d \in Cases : ActiveReferrals(d)' = ActiveReferrals(d)
    BY <1>1, SameReferrals
  <1> QED
    BY <1>1, <1>2, SameOnBoard, BoardStutters

LEMMA NextBoard == IInv /\ IInv' /\ [Next]_vars => [Board!Next]_(Board!vars)
  <1> SUFFICES ASSUME IInv, IInv', [Next]_vars
               PROVE  Board!Next \/ UNCHANGED Board!vars
    OBVIOUS
  <1>1. ASSUME NEW c \in Cases,
               \/ CreateCase(c) \/ ApproveCase(c) \/ RejectCase(c) \/ UnarchiveCase(c)
        PROVE  Board!Next
    BY <1>1, StatusOnBoard
  <1>2. ASSUME NEW c \in Cases, RestoreTrashedCase(c) \/ PurgeCase(c)
        PROVE  Board!Next
    BY <1>2, RestoreOnBoard, PurgeOnBoard
  <1>3. ASSUME NEW r \in Refs,
               DeleteReferral(r) \/ \E s \in ReferralStatus : UpdateStatus(r, s)
        PROVE  Board!Next \/ UNCHANGED Board!vars
    BY <1>3, AnswerOnBoard
  <1>4. ASSUME NEW w \in Workers, Commit(w)
        PROVE  Board!Next \/ UNCHANGED Board!vars
    BY <1>4, CommitOnBoard, TrashOnBoard, ReferOnBoard DEF Commit
  <1>5. ASSUME UNCHANGED <<caseVars, refVars>>
        PROVE  UNCHANGED Board!vars
    BY <1>5, OthersOnBoard
  <1>6. ASSUME NEW c \in Cases, PurgeSkip(c)
        PROVE  UNCHANGED <<caseVars, refVars>>
    BY <1>6 DEF PurgeSkip
  <1>7. ASSUME NEW w \in Workers, NEW c \in Cases,
               \/ \E a \in Agencies : LockForReferral(w, c, a)
               \/ LockForToggle(w, c)
               \/ LockForArchive(w, c)
               \/ LoadForDelete(w, c)
        PROVE  UNCHANGED <<caseVars, refVars>>
    BY <1>7 DEF LockForReferral, LockForToggle, LockForArchive, LoadForDelete
  <1>8. ASSUME NEW w \in Workers, BeginCascade(w) \/ DeleteVanished(w)
        PROVE  UNCHANGED <<caseVars, refVars>>
    BY <1>8 DEF BeginCascade, DeleteVanished
  <1>9. ASSUME PurgeRead \/ PurgeAbort \/ Tick \/ UNCHANGED vars
        PROVE  UNCHANGED <<caseVars, refVars>>
    BY <1>9 DEF PurgeRead, PurgeAbort, Tick, vars
  <1> QED
    BY <1>1, <1>2, <1>3, <1>4, <1>5, <1>6, <1>7, <1>8, <1>9 DEF Next

\* The rows, locks and requests of CaseReferral implement the workflow of
\* CaseBoard: whatever interleaves, a case is referred only while it is open
\* and closed or archived only while no agency owes it an answer.
THEOREM Implements == Spec => ImplementsBoard
  BY InitBoard, NextBoard, InductiveInvariant, PTL DEF Spec, ImplementsBoard, Board!Spec
=============================================================================
