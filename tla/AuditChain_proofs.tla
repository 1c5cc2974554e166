-------------------------- MODULE AuditChain_proofs --------------------------
(***************************************************************************)
(* Proofs about AuditChain for every set of writers, retention, legacy     *)
(* prefix, page size and bound.                                            *)
(***************************************************************************)
EXTENDS AuditChainInv, FiniteSetTheorems, TLAPS

USE WritersAssumption, RetentionAssumption, ChunkAssumption, BoundsAssumption

LEMMA LegacyRowsTyped ==
    /\ Legacy \in Nat
    /\ LegacyRows \subseteq Row
    /\ \A r \in LegacyRows : r.seq <= Legacy /\ r.prev = Null
  BY LegacyAssumption DEF Legacy, LegacyRows, Row, Null

\* The type invariant: rows, stamps, hashes and the local states of the jobs
\* keep their shape, whatever transactions, prunes and verifications interleave.
THEOREM TypeCorrect == Spec => []TypeOK
<1>1. Init => TypeOK
  <2> SUFFICES ASSUME Init PROVE TypeOK
    OBVIOUS
  <2>1. rows \subseteq Row /\ nextSeq \in Nat \ {0}
    BY LegacyRowsTyped DEF Init
  <2>2. VerifyIdle \in VerifyState
    BY DEF VerifyIdle, VerifyState, Null
  <2>3. inverted \in BOOLEAN
    BY DEF Init
  <2>4. verify \in VerifyState
    BY <2>2 DEF Init
  <2>5. /\ wpc \in [Writers -> {"idle", "stamped", "read", "open"}]
        /\ stamp \in [Writers -> Nat]
        /\ prev \in [Writers -> Nat]
        /\ pend \in [Writers -> SUBSET Row]
    BY DEF Init, Null
  <2>6. clock \in Nat /\ anchor \in Nat /\ panchor \in Nat /\ pcutoff \in Int
    BY DEF Init, Null
  <2> QED
    BY <2>1, <2>3, <2>4, <2>5, <2>6 DEF Init, TypeOK
<1>2. TypeOK /\ [Next]_vars => TypeOK'
  <2> SUFFICES ASSUME TypeOK, [Next]_vars PROVE TypeOK'
    OBVIOUS
  <2> USE DEF TypeOK
  <2>1. ASSUME NEW w \in Writers, Stamp(w) PROVE TypeOK'
    BY <2>1 DEF Stamp, logVars, archiveVars, pruneVars
  <2>2. ASSUME NEW w \in Writers, LockAndReadPrev(w) PROVE TypeOK'
    <3>1. \A r \in rows \union pend[w] : r.seq \in Nat
      BY DEF Row
    <3>2. \E n \in Nat : prev' = [prev EXCEPT ![w] = n]
      BY <2>2, <3>1 DEF LockAndReadPrev, Newest, Null
    <3>3. prev' \in [Writers -> Nat]
      BY <3>2
    <3> QED
      BY <2>2, <3>3 DEF LockAndReadPrev, logVars, archiveVars, pruneVars
  <2>3. ASSUME NEW w \in Writers, Insert(w) PROVE TypeOK'
    <3>1. pend' \in [Writers -> SUBSET Row]
      BY <2>3 DEF Insert, Row
    <3>2. inverted' \in BOOLEAN
      BY <2>3 DEF Insert
    <3> QED
      BY <2>3, <3>1, <3>2 DEF Insert, archiveVars, pruneVars, Null
  <2>4. ASSUME NEW w \in Writers, DropRow(w) PROVE TypeOK'
    BY <2>4 DEF DropRow, logVars, archiveVars, pruneVars, Null
  <2>5. ASSUME NEW w \in Writers, EndTransaction(w), rows' \subseteq Row PROVE TypeOK'
    BY <2>5 DEF EndTransaction, archiveVars, pruneVars, Null
  <2>6. ASSUME NEW w \in Writers, Commit(w) PROVE TypeOK'
    BY <2>5, <2>6 DEF Commit
  <2>7. ASSUME NEW w \in Writers, Rollback(w) PROVE TypeOK'
    BY <2>5, <2>7 DEF Rollback
  <2>8. ASSUME NEW m \in 0..MaxMonth, ArchivePeriod(m) PROVE TypeOK'
    BY <2>8 DEF ArchivePeriod, logVars, writerVars, pruneVars, RowsOf
  <2>9. CASE PrunePlan
    BY <2>9 DEF PrunePlan, logVars, writerVars, archiveVars
  <2>10. CASE PruneAnchor
    <3>1. panchor' \in Nat
      BY <2>10 DEF PruneAnchor, Newest, Prunable, Row
    <3> QED
      BY <2>10, <3>1 DEF PruneAnchor, logVars, writerVars, archiveVars
  <2>11. CASE PruneDelete
    <3>1. verify' \in VerifyState
      <4> DEFINE b == verify.pc # "idle"
      <4>1. verify' = [verify EXCEPT !.raced = b] /\ b \in BOOLEAN
        BY <2>11 DEF PruneDelete
      <4> HIDE DEF b
      <4>2. CASE b = TRUE
        BY <4>1, <4>2 DEF VerifyState
      <4>3. CASE b = FALSE
        BY <4>1, <4>3 DEF VerifyState
      <4> QED
        BY <4>1, <4>2, <4>3
    <3> QED
      BY <2>11, <3>1 DEF PruneDelete, PruneDone, writerVars, archiveVars, Null
  <2>12. CASE PruneAbort
    BY <2>12 DEF PruneAbort, PruneDone, logVars, writerVars, archiveVars, Null
  <2>13. CASE VerifyStart
    BY <2>13 DEF VerifyStart, VerifyIdle, VerifyState, logVars, writerVars, archiveVars, pruneVars, Null
  <2>14. CASE VerifyPage
    <3>1. Page(verify.page) \in SUBSET Row
      BY DEF Page
    <3>2. verify' \in VerifyState
      <4> DEFINE P == Page(verify.page)
      <4>1. CASE verify' = [verify EXCEPT !.pc = "broken"]
        BY <4>1 DEF VerifyState
      <4>2. CASE verify' = [verify EXCEPT !.pc = "intact"]
        BY <4>2 DEF VerifyState
      <4>3. ASSUME NEW r \in P,
                   verify' = [verify EXCEPT !.pc = IF Cardinality(P) < ChunkSize THEN "intact" ELSE "walk",
                                !.page = @ + 1, !.last = r.seq,
                                !.started = @ \/ \E q \in P : q.prev # Null]
            PROVE verify' \in VerifyState
        <5> HIDE DEF P
        <5>1. r.seq \in Nat
          BY <3>1 DEF Row, P
        <5>2. (verify.started \/ \E q \in P : q.prev # Null) \in BOOLEAN
          OBVIOUS
        <5> DEFINE c == IF Cardinality(P) < ChunkSize THEN "intact" ELSE "walk"
                   b == verify.started \/ \E q \in P : q.prev # Null
        <5>3. c \in {"idle", "walk", "broken", "intact"} /\ b \in BOOLEAN
          BY <5>2
        <5>4. verify' = [verify EXCEPT !.pc = c, !.page = @ + 1, !.last = r.seq, !.started = b]
          BY <4>3 
        <5> HIDE DEF c, b
        <5>5. verify.raced \in BOOLEAN /\ verify.anchor \in Nat /\ verify.page + 1 \in Nat
          BY DEF VerifyState
        <5>6. verify' = [pc |-> c, anchor |-> verify.anchor, page |-> verify.page + 1,
                         last |-> r.seq, started |-> b, raced |-> verify.raced]
          BY <5>4 DEF VerifyState
        <5> QED
          BY <5>1, <5>3, <5>5, <5>6, Zenon DEF VerifyState
      <4> QED
        BY <2>14, <4>1, <4>2, <4>3 DEF VerifyPage
    <3> QED
      BY <2>14, <3>2 DEF VerifyPage, logVars, writerVars, archiveVars, pruneVars
  <2>15. CASE VerifyEnd
    BY <2>15 DEF VerifyEnd, VerifyIdle, VerifyState, logVars, writerVars, archiveVars, pruneVars, Null
  <2>16. CASE Tick
    BY <2>16 DEF Tick, logVars, writerVars, archiveVars, pruneVars
  <2>17. CASE UNCHANGED vars
    BY <2>17 DEF vars, logVars, writerVars, archiveVars, pruneVars
  <2> QED
    BY <2>1, <2>2, <2>3, <2>4, <2>6, <2>7, <2>8, <2>9, <2>10, <2>11, <2>12, <2>13,
       <2>14, <2>15, <2>16, <2>17
       DEF Next, WriterStep, PruneStep, VerifyStep
<1> QED
  BY <1>1, <1>2, PTL DEF Spec

-----------------------------------------------------------------------------
(* NoFork: the advisory lock keeps the chain linear. *)

\* The rows of everybody but the holder of the lock are all committed.
LEMMA OnlyHolderHasRows ==
  ASSUME TypeOK, LockDiscipline, NEW w \in Writers, lock \in {NoWriter, w}
  PROVE  Numbered = rows \union pend[w]
<1>1. \A v \in Writers : v # w => pend[v] = {}
  BY WritersAssumption DEF TypeOK, LockDiscipline
<1>2. Uncommitted = pend[w]
  BY <1>1 DEF Uncommitted
<1> QED
  BY <1>2 DEF Numbered

LEMMA ForkInvInit == Init => ForkInv
<1> SUFFICES ASSUME Init PROVE ForkInv
  OBVIOUS
<1>1. Numbered = LegacyRows
  BY DEF Init, Numbered, Uncommitted
<1>2. \A r, s \in LegacyRows : r.seq = s.seq => r = s
  BY DEF LegacyRows
<1>3. LockDiscipline
  BY DEF Init, LockDiscipline
<1>4. Numbering
  BY <1>1, <1>2, LegacyRowsTyped DEF Init, Numbering, Row
<1>5. NoSkip
  BY <1>1, LegacyRowsTyped DEF Init, NoSkip, Row
<1> QED
  BY <1>3, <1>4, <1>5 DEF ForkInv

LEMMA ForkInvLock ==
  ASSUME TypeOK, ForkInv, NEW w \in Writers, LockAndReadPrev(w)
  PROVE  ForkInv'
<1> USE DEF ForkInv
<1>1. Numbered' = Numbered /\ rows' = rows /\ pend' = pend /\ nextSeq' = nextSeq
  BY DEF LockAndReadPrev, Numbered, Uncommitted, logVars
<1>2. Numbered = rows \union pend[w]
  BY OnlyHolderHasRows DEF LockAndReadPrev
<1>3. LockDiscipline'
  BY <1>1 DEF LockAndReadPrev, LockDiscipline, TypeOK
<1>4. Numbering'
  BY <1>1 DEF Numbering
<1>5. prev'[w] < nextSeq /\ \A s \in Numbered : s.seq <= prev'[w]
  BY <1>2 DEF LockAndReadPrev, TypeOK, Newest, Numbering, Null
<1>6. NoSkip'
  <2>1. ASSUME NEW v \in Writers, wpc'[v] = "read" PROVE v = w
    BY <1>3, <2>1 DEF LockDiscipline, LockAndReadPrev
  <2> QED
    BY <1>1, <1>5, <2>1 DEF NoSkip
<1> QED
  BY <1>3, <1>4, <1>6

\* Inserting: the new row is the newest, and its hash names the newest before it.
LEMMA InsertAdds ==
  ASSUME TypeOK, NEW w \in Writers, Insert(w)
  PROVE  Numbered' = Numbered \union {[seq |-> nextSeq, month |-> stamp[w], prev |-> prev[w]]}
BY DEF Insert, TypeOK, Numbered, Uncommitted

LEMMA ForkInvInsert ==
  ASSUME TypeOK, ForkInv, NEW w \in Writers, Insert(w)
  PROVE  ForkInv'
<1> USE DEF ForkInv
<1> DEFINE new == [seq |-> nextSeq, month |-> stamp[w], prev |-> prev[w]]
<1>1. Numbered' = Numbered \union {new}
  BY InsertAdds
<1>2. /\ lock = w /\ lock' = lock /\ rows' = rows /\ nextSeq' = nextSeq + 1
      /\ pend' = [pend EXCEPT ![w] = @ \union {new}]
      /\ prev' = [prev EXCEPT ![w] = Null] /\ wpc' = [wpc EXCEPT ![w] = "open"]
  BY DEF Insert, LockDiscipline
<1>3. Numbered \subseteq Row /\ prev[w] \in Nat /\ nextSeq \in Nat
  BY DEF TypeOK, Numbered, Uncommitted
<1>4. LockDiscipline'
  BY <1>2 DEF LockDiscipline, TypeOK
<1>5. Numbering'
  <2>1. \A r \in Numbered : r.seq < nextSeq /\ r.seq \in Nat
    BY <1>3 DEF Numbering, Row
  <2>2. \A v \in Writers : \A p \in pend'[v], r \in rows' : r.seq < p.seq
    BY <1>2, <2>1 DEF Numbering, TypeOK, Numbered
  <2>3. \A r, s \in Numbered' : r.seq = s.seq => r = s
    BY <1>1, <2>1 DEF Numbering
  <2>4. Legacy < nextSeq' /\ \A r \in Numbered' : r.seq < nextSeq'
    BY <1>1, <1>2, <1>3, <2>1, LegacyRowsTyped DEF Numbering
  <2> QED
    BY <2>2, <2>3, <2>4 DEF Numbering
<1>6. NoSkip'
  <2>1. prev[w] < nextSeq /\ \A s \in Numbered : s.seq <= prev[w]
    BY DEF NoSkip, Insert
  <2>2. \A r \in Numbered : r.seq < nextSeq /\ r.seq \in Nat /\ r.prev \in Nat
    BY <1>3 DEF Numbering, Row
  <2>3. ASSUME NEW r \in Numbered', r.seq > Legacy
        PROVE  r.prev < r.seq /\ \A s \in Numbered' : ~(r.prev < s.seq /\ s.seq < r.seq)
    <3>1. CASE r = new
      BY <1>1, <1>3, <2>1, <2>2, <3>1
    <3>2. CASE r \in Numbered
      BY <1>1, <1>3, <2>2, <2>3, <3>2 DEF NoSkip
    <3> QED
      BY <1>1, <3>1, <3>2
  <2>4. \A v \in Writers : wpc'[v] # "read"
    BY <1>2 DEF LockDiscipline, TypeOK
  <2> QED
    BY <2>3, <2>4 DEF NoSkip
<1> QED
  BY <1>4, <1>5, <1>6

\* A step that numbers no row and takes no lock: some rows may go.
LEMMA ForkInvShrink ==
  ASSUME TypeOK, ForkInv, LockDiscipline',
         nextSeq' = nextSeq, Numbered' \subseteq Numbered,
         \A w \in Writers : \A p \in pend'[w], r \in rows' : r.seq < p.seq,
         \A w \in Writers : wpc'[w] = "read" => wpc[w] = "read" /\ prev'[w] = prev[w]
  PROVE  ForkInv'
<1>1. Numbering'
  BY DEF ForkInv, Numbering
<1>2. NoSkip'
  BY DEF ForkInv, NoSkip
<1> QED
  BY <1>1, <1>2 DEF ForkInv

LEMMA ForkInvDrop ==
  ASSUME TypeOK, ForkInv, NEW w \in Writers, DropRow(w)
  PROVE  ForkInv'
<1>1. LockDiscipline'
  BY DEF ForkInv, LockDiscipline, DropRow, TypeOK, logVars
<1>2. /\ nextSeq' = nextSeq /\ Numbered' \subseteq Numbered
      /\ \A v \in Writers : \A p \in pend'[v], r \in rows' : r.seq < p.seq
      /\ \A v \in Writers : wpc'[v] = "read" => wpc[v] = "read" /\ prev'[v] = prev[v]
  BY DEF ForkInv, Numbering, DropRow, TypeOK, logVars, Numbered, Uncommitted
<1> QED
  BY <1>1, <1>2, ForkInvShrink

LEMMA ForkInvEnd ==
  ASSUME TypeOK, ForkInv, NEW w \in Writers, EndTransaction(w),
         rows' = rows \/ rows' = rows \union pend[w]
  PROVE  ForkInv'
<1>1. LockDiscipline'
  BY DEF ForkInv, LockDiscipline, EndTransaction, TypeOK
<1>2. Numbered' \subseteq Numbered
  BY DEF EndTransaction, TypeOK, Numbered, Uncommitted
<1>3. \A v \in Writers : \A p \in pend'[v], r \in rows' : r.seq < p.seq
  <2> SUFFICES ASSUME NEW v \in Writers, NEW p \in pend'[v], NEW r \in rows' PROVE r.seq < p.seq
    OBVIOUS
  <2>1. v # w /\ p \in pend[v]
    BY DEF EndTransaction, TypeOK
  <2>2. pend[w] = {}
    BY <2>1 DEF ForkInv, LockDiscipline
  <2> QED
    BY <2>1, <2>2 DEF ForkInv, Numbering
<1>4. nextSeq' = nextSeq /\ \A v \in Writers :
        wpc'[v] = "read" => wpc[v] = "read" /\ prev'[v] = prev[v]
  BY DEF EndTransaction, TypeOK
<1> QED
  BY <1>1, <1>2, <1>3, <1>4, ForkInvShrink

LEMMA ForkInvPrune ==
  ASSUME TypeOK, ForkInv, PruneDelete
  PROVE  ForkInv'
<1>1. LockDiscipline' /\ nextSeq' = nextSeq
  BY DEF ForkInv, LockDiscipline, PruneDelete, writerVars
<1>2. Numbered' \subseteq Numbered
  BY DEF PruneDelete, Numbered, Uncommitted
<1>3. \A w \in Writers : \A p \in pend'[w], r \in rows' : r.seq < p.seq
  BY DEF PruneDelete, ForkInv, Numbering
<1> QED
  BY <1>1, <1>2, <1>3, ForkInvShrink DEF PruneDelete, writerVars

\* Every other step leaves rows, locks and computed hashes alone.
LEMMA ForkInvSame ==
  ASSUME TypeOK, ForkInv, UNCHANGED <<logVars, lock, prev>>,
         \A w \in Writers : wpc'[w] = "read" => wpc[w] = "read",
         \A w \in Writers : wpc'[w] = "idle" => wpc[w] = "idle"
  PROVE  ForkInv'
<1>1. LockDiscipline'
  BY DEF ForkInv, LockDiscipline, logVars
<1>2. Numbered' \subseteq Numbered
  BY DEF Numbered, Uncommitted, logVars
<1>3. \A w \in Writers : \A p \in pend'[w], r \in rows' : r.seq < p.seq
  BY DEF ForkInv, Numbering, logVars
<1> QED
  BY <1>1, <1>2, <1>3, ForkInvShrink DEF logVars

LEMMA ForkInvStep == TypeOK /\ ForkInv /\ [Next]_vars => ForkInv'
<1> SUFFICES ASSUME TypeOK, ForkInv, [Next]_vars PROVE ForkInv'
  OBVIOUS
<1>1. ASSUME NEW w \in Writers, Stamp(w) PROVE ForkInv'
  BY <1>1, ForkInvSame DEF Stamp, TypeOK
<1>2. ASSUME NEW w \in Writers, LockAndReadPrev(w) PROVE ForkInv'
  BY <1>2, ForkInvLock
<1>3. ASSUME NEW w \in Writers, Insert(w) PROVE ForkInv'
  BY <1>3, ForkInvInsert
<1>4. ASSUME NEW w \in Writers, DropRow(w) PROVE ForkInv'
  BY <1>4, ForkInvDrop
<1>5. ASSUME NEW w \in Writers, Commit(w) \/ Rollback(w) PROVE ForkInv'
  BY <1>5, ForkInvEnd DEF Commit, Rollback
<1>6. CASE PruneDelete
  BY <1>6, ForkInvPrune
<1>7. CASE \/ \E m \in 0..MaxMonth : ArchivePeriod(m)
           \/ PrunePlan \/ PruneAnchor \/ PruneAbort \/ VerifyStep \/ Tick \/ UNCHANGED vars
  <2>1. UNCHANGED <<logVars, writerVars>>
    BY <1>7 DEF ArchivePeriod, PrunePlan, PruneAnchor, PruneAbort, VerifyStep, VerifyStart,
       VerifyPage, VerifyEnd, Tick, vars
  <2> QED
    BY <2>1, ForkInvSame DEF writerVars
<1> QED
  BY <1>1, <1>2, <1>3, <1>4, <1>5, <1>6, <1>7 DEF Next, WriterStep, PruneStep

LEMMA ForkInvariant == Spec => []ForkInv
BY ForkInvInit, ForkInvStep, TypeCorrect, PTL DEF Spec

\* Concurrent transactions never fork the chain: two chained rows always carry
\* the hashes of different predecessors, however writers, jobs and crashes
\* interleave and however many writers there are.
THEOREM ChainNeverForks == Spec => []NoFork
<1>1. TypeOK /\ ForkInv => NoFork
  <2> SUFFICES ASSUME TypeOK, ForkInv, NEW r \in rows, NEW s \in rows,
                      r.seq > Legacy, s.seq > Legacy, r.prev = s.prev
               PROVE  r = s
    BY DEF NoFork
  <2>1. r \in Numbered /\ s \in Numbered /\ r.seq \in Nat /\ s.seq \in Nat
    BY DEF Numbered, TypeOK, Row
  <2>2. ~(r.seq < s.seq) /\ ~(s.seq < r.seq)
    BY <2>1 DEF ForkInv, NoSkip
  <2> QED
    BY <2>1, <2>2 DEF ForkInv, Numbering
<1> QED
  BY <1>1, ForkInvariant, TypeCorrect, PTL

\* Committing only ever adds rows newer than every committed row, so readers
\* see the chain grow at its end and nowhere else.
THEOREM CommitsOnlyAppend == Spec => CommitsAppend
<1>1. TypeOK /\ ForkInv /\ [Next]_vars => [\A r \in rows' \ rows, s \in rows : s.seq < r.seq]_vars
  <2> SUFFICES ASSUME TypeOK, ForkInv, Next, NEW r \in rows' \ rows, NEW s \in rows
               PROVE  s.seq < r.seq
    OBVIOUS
  <2>1. PICK w \in Writers : Commit(w)
    BY DEF Next, WriterStep, PruneStep, VerifyStep, Stamp, LockAndReadPrev, Insert, DropRow,
       Rollback, ArchivePeriod, PrunePlan, PruneAnchor, PruneDelete, PruneAbort,
       VerifyStart, VerifyPage, VerifyEnd, Tick, logVars
  <2>2. r \in pend[w]
    BY <2>1 DEF Commit
  <2> QED
    BY <2>2 DEF ForkInv, Numbering
<1> QED
  BY <1>1, ForkInvariant, TypeCorrect, PTL DEF Spec, CommitsAppend

-----------------------------------------------------------------------------
(* UntamperedChainVerifies: pruning keeps the surviving chain anchored. *)

LEMMA NumberedTyped ==
  ASSUME TypeOK
  PROVE  Numbered \subseteq Row
BY DEF TypeOK, Numbered, Uncommitted

LEMMA YoungStep == TypeOK /\ LockDiscipline /\ Young /\ [Next]_vars => Young'
<1> SUFFICES ASSUME TypeOK, LockDiscipline, Young, [Next]_vars PROVE Young'
  OBVIOUS
<1> USE DEF TypeOK, Young
<1>1. ASSUME NEW w \in Writers, Stamp(w) PROVE Young'
  BY <1>1 DEF Stamp, logVars
<1>2. ASSUME NEW w \in Writers, LockAndReadPrev(w) PROVE Young'
  BY <1>2 DEF LockAndReadPrev, logVars
<1>3. ASSUME NEW w \in Writers, Insert(w) PROVE Young'
  BY <1>3 DEF Insert
<1>4. ASSUME NEW w \in Writers, DropRow(w) PROVE Young'
  BY <1>4 DEF DropRow, logVars
<1>5. ASSUME NEW w \in Writers, Commit(w) \/ Rollback(w) PROVE Young'
  BY <1>5 DEF Commit, Rollback, EndTransaction
<1>6. CASE Tick
  <2>1. ASSUME NEW w \in Writers, wpc'[w] # "idle" PROVE stamp'[w] >= clock' - 1
    BY <1>6, <2>1 DEF Tick, writerVars
  <2>2. ASSUME NEW w \in Writers, NEW r \in pend'[w] PROVE r.month >= clock' - 1
    <3>1. r \in pend[w] /\ wpc[w] # "idle"
      BY <1>6, <2>2 DEF Tick, logVars, LockDiscipline
    <3> QED
      BY <1>6, <3>1 DEF Tick
  <2> QED
    BY <2>1, <2>2
<1>7. CASE \/ \E m \in 0..MaxMonth : ArchivePeriod(m)
           \/ PruneStep \/ VerifyStep \/ UNCHANGED vars
  <2>1. UNCHANGED <<clock, pend, wpc, stamp>>
    BY <1>7 DEF ArchivePeriod, PruneStep, PrunePlan, PruneAnchor, PruneDelete, PruneAbort,
       VerifyStep, VerifyStart, VerifyPage, VerifyEnd, vars, logVars, writerVars
  <2> QED
    BY <2>1
<1> QED
  BY <1>1, <1>2, <1>3, <1>4, <1>5, <1>6, <1>7 DEF Next, WriterStep

\* A running plan survives every step that adds only rows of recent months.
LEMMA PlanUndisturbed ==
  ASSUME TypeOK, PlanHolds, UNCHANGED <<ppc, plan, pcutoff, panchor>>,
         TypeOK', clock' >= clock,
         ppc # "idle" => \A r \in Numbered' : r \in Numbered \/ r.month >= pcutoff,
         ppc # "idle" => Prunable' = Prunable
  PROVE  PlanHolds'
<1> SUFFICES ASSUME ppc # "idle" PROVE PlanHolds'
  BY DEF PlanHolds
<1>1. pcutoff' <= clock' - Retention /\ \A p \in plan' : p < pcutoff'
  <2>1. pcutoff <= clock - Retention
    BY DEF PlanHolds
  <2>2. clock \in Int /\ clock' \in Int /\ pcutoff \in Int /\ Retention \in Int
    BY DEF TypeOK
  <2>3. clock' >= clock
    OBVIOUS
  <2>4. pcutoff <= clock' - Retention
    <3>1. ASSUME NEW a \in Int, NEW b \in Int, NEW c \in Int, NEW d \in Int, a <= b - d, c >= b
          PROVE  a <= c - d
      BY <3>1
    <3> QED
      BY ONLY <2>1, <2>2, <2>3, <3>1
  <2>5. \A p \in plan : p < pcutoff
    BY DEF PlanHolds
  <2> QED
    BY <2>4, <2>5
<1>2. \A r \in Numbered', p \in plan' : r.month <= p => r.month \in plan'
  <2> SUFFICES ASSUME NEW r \in Numbered', NEW p \in plan, r.month <= p PROVE r.month \in plan
    OBVIOUS
  <2>1. CASE r \in Numbered
    BY <2>1 DEF PlanHolds
  <2>2. CASE r.month >= pcutoff
    <3>1. r.month \in Nat
      BY DEF TypeOK, Numbered, Uncommitted, Row
    <3>2. p < pcutoff /\ p \in Nat /\ pcutoff \in Int
      BY DEF PlanHolds, TypeOK
    <3> QED
      BY <2>2, <3>1, <3>2
  <2> QED
    BY <2>1, <2>2
<1>3. ppc' = "anchored" => \E d \in Prunable' : Newest(Prunable', d) /\ panchor' = d.seq
  BY DEF PlanHolds, Newest
<1> QED
  BY <1>1, <1>2, <1>3 DEF PlanHolds

LEMMA PlanHoldsStep ==
  TypeOK /\ TypeOK' /\ LockDiscipline /\ Young /\ PlanHolds /\ [Next]_vars => PlanHolds'
<1> SUFFICES ASSUME TypeOK, TypeOK', LockDiscipline, Young, PlanHolds, [Next]_vars PROVE PlanHolds'
  OBVIOUS
<1>0. ppc # "idle" => pcutoff <= clock - 1
  BY DEF PlanHolds, TypeOK
<1>1. ASSUME NEW w \in Writers,
             Stamp(w) \/ LockAndReadPrev(w) \/ DropRow(w) \/ Rollback(w)
      PROVE  PlanHolds'
  <2>1. UNCHANGED <<rows, clock, plan, pcutoff, ppc, panchor>>
    BY <1>1 DEF Stamp, LockAndReadPrev, DropRow, Rollback, EndTransaction, logVars, pruneVars
  <2>2. \A v \in Writers : pend'[v] \subseteq pend[v]
    BY <1>1 DEF Stamp, LockAndReadPrev, DropRow, Rollback, EndTransaction, logVars, TypeOK
  <2>3. Numbered' \subseteq Numbered
    BY <2>1, <2>2 DEF Numbered, Uncommitted
  <2>4. clock' >= clock /\ Prunable' = Prunable
    BY <2>1 DEF Prunable, TypeOK
  <2> QED
    BY <2>1, <2>3, <2>4, PlanUndisturbed
<1>2. ASSUME NEW w \in Writers, Insert(w) PROVE PlanHolds'
  <2>1. UNCHANGED <<rows, clock, plan, pcutoff, ppc, panchor>>
    BY <1>2 DEF Insert, pruneVars
  <2>2. stamp[w] >= clock - 1 /\ stamp[w] \in Nat
    BY <1>2 DEF Insert, Young, TypeOK
  <2>3. ppc # "idle" => stamp[w] >= pcutoff
    BY <1>0, <2>2 DEF TypeOK
  <2>4. ppc # "idle" => \A r \in Numbered' : r \in Numbered \/ r.month >= pcutoff
    BY <1>2, <2>3, InsertAdds
  <2>5. clock' >= clock /\ Prunable' = Prunable
    BY <2>1 DEF Prunable, TypeOK
  <2> QED
    BY <2>1, <2>4, <2>5, PlanUndisturbed
<1>3. ASSUME NEW w \in Writers, Commit(w) PROVE PlanHolds'
  <2>1. UNCHANGED <<clock, plan, pcutoff, ppc, panchor>> /\ Numbered' \subseteq Numbered
    BY <1>3 DEF Commit, EndTransaction, pruneVars, Numbered, Uncommitted, TypeOK
  <2>2. ppc # "idle" => Prunable' = Prunable
    BY <1>0, <1>3, <2>1 DEF Commit, Prunable, Young, TypeOK, Row
  <2>3. clock' >= clock
    BY <2>1 DEF TypeOK
  <2> QED
    BY <2>1, <2>2, <2>3, PlanUndisturbed
<1>4. CASE PrunePlan
  <2>1. /\ pcutoff' = clock - Retention /\ clock' = clock /\ ppc' = "planned"
        /\ Numbered' = Numbered
        /\ \A p \in plan' : p < pcutoff'
        /\ \A r \in rows, p \in plan' : r.month <= p => r.month \in plan'
    <3>1. PICK P \in SUBSET (archives \intersect Expired(clock - Retention)) :
            /\ \A m \in Expired(clock - Retention), p \in P : m <= p => m \in P
            /\ plan' = P
      BY <1>4 DEF PrunePlan
    <3>2. \A r \in rows : r.month \in Nat
      BY DEF TypeOK, Row
    <3>3. \A p \in plan' : p < clock - Retention /\ p \in Nat
      BY <3>1, <3>2 DEF Expired
    <3>4. \A r \in rows, p \in plan' : r.month <= p => r.month \in Expired(clock - Retention)
      BY <3>2, <3>3 DEF Expired, TypeOK
    <3> QED
      BY <1>4, <3>1, <3>3, <3>4 DEF PrunePlan, logVars, Numbered, Uncommitted
  <2>2. ASSUME NEW r \in Numbered, NEW p \in plan', r.month <= p PROVE r.month \in plan'
    <3>1. CASE r \in rows
      BY <2>1, <2>2, <3>1
    <3>2. ASSUME NEW w \in Writers, r \in pend[w] PROVE FALSE
      BY <2>1, <2>2, <3>2 DEF Young, TypeOK, Row
    <3> QED
      BY <3>1, <3>2 DEF Numbered, Uncommitted
  <2> QED
    BY <2>1, <2>2 DEF PlanHolds, TypeOK
<1>5. CASE PruneAnchor
  <2>1. UNCHANGED <<clock, rows, pend, plan, pcutoff>> /\ ppc = "planned"
    BY <1>5 DEF PruneAnchor, logVars
  <2>2. Numbered' = Numbered /\ Prunable' = Prunable
    BY <2>1 DEF Numbered, Uncommitted, Prunable
  <2>3. \E d \in Prunable : Newest(Prunable, d) /\ panchor' = d.seq
    BY <1>5 DEF PruneAnchor
  <2> QED
    BY <2>1, <2>2, <2>3 DEF PlanHolds, Newest
<1>6. CASE PruneDelete \/ PruneAbort
  BY <1>6 DEF PruneDelete, PruneAbort, PruneDone, PlanHolds
<1>7. CASE \/ \E m \in 0..MaxMonth : ArchivePeriod(m)
           \/ VerifyStep \/ Tick \/ UNCHANGED vars
  <2>1. UNCHANGED <<rows, pend, plan, pcutoff, ppc, panchor>>
    BY <1>7 DEF ArchivePeriod, VerifyStep, VerifyStart, VerifyPage, VerifyEnd, Tick, vars,
       logVars, pruneVars
  <2>2. clock' = clock \/ clock' = clock + 1
    BY <1>7 DEF ArchivePeriod, VerifyStep, VerifyStart, VerifyPage, VerifyEnd, Tick, vars
  <2>3. clock' >= clock
    BY <2>2 DEF TypeOK
  <2>4. Numbered' = Numbered /\ Prunable' = Prunable
    BY <2>1 DEF Prunable, Numbered, Uncommitted
  <2> QED
    BY <2>1, <2>3, <2>4, PlanUndisturbed
<1> QED
  BY <1>1, <1>2, <1>3, <1>4, <1>5, <1>6, <1>7 DEF Next, WriterStep, PruneStep

\* Under the two hypotheses, what a prune deletes is a prefix of the chain.
LEMMA PrunableIsPrefix ==
  ASSUME TypeOK, ForkInv, Young, PlanHolds, InOrder, ppc = "anchored"
  PROVE  \A d \in Prunable, r \in Numbered : r.seq <= d.seq => r \in Prunable
<1> SUFFICES ASSUME NEW d \in Prunable, NEW r \in Numbered, r.seq <= d.seq PROVE r \in Prunable
  OBVIOUS
<1>1. d \in rows /\ d \in Numbered /\ d \in Row /\ r \in Row
  BY NumberedTyped DEF Prunable, Numbered
<1>2. r.month <= d.month
  BY <1>1 DEF InOrder, ForkInv, Numbering, Row
<1>3. r.month \in plan
  BY <1>2 DEF PlanHolds, Prunable
<1>4. r.month < pcutoff
  BY <1>3 DEF PlanHolds
<1>5. r \in rows
  BY <1>1 DEF Numbered, Uncommitted, ForkInv, Numbering, Row
<1> QED
  BY <1>3, <1>4, <1>5 DEF Prunable

LEMMA InOrderStep ==
  ASSUME TypeOK, ForkInv, InOrder, [Next]_vars, ~inverted'
  PROVE  InOrder'
<1>1. ASSUME NEW w \in Writers, Insert(w) PROVE InOrder'
  <2> DEFINE new == [seq |-> nextSeq, month |-> stamp[w], prev |-> prev[w]]
  <2>1. Numbered' = Numbered \union {new}
    BY <1>1, InsertAdds
  <2>2. \A r \in Numbered : r.seq < nextSeq /\ r.seq \in Nat /\ r.month \in Nat /\ ~(r.month > stamp[w])
    BY <1>1, NumberedTyped DEF Insert, ForkInv, Numbering, Row
  <2>3. nextSeq \in Nat /\ stamp[w] \in Nat
    BY DEF TypeOK
  <2>4. \A r \in Numbered : r.month <= stamp[w]
    BY <2>2, <2>3
  <2> SUFFICES ASSUME NEW r \in Numbered', NEW s \in Numbered', r.seq < s.seq
               PROVE  r.month <= s.month
    BY DEF InOrder
  <2>5. CASE s = new
    BY <2>1, <2>3, <2>4, <2>5
  <2>6. CASE s \in Numbered /\ r \in Numbered
    BY <2>6 DEF InOrder
  <2>7. CASE s \in Numbered /\ r = new
    BY <2>2, <2>3, <2>7
  <2> QED
    BY <2>1, <2>5, <2>6, <2>7
<1>2. ASSUME Numbered' \subseteq Numbered PROVE InOrder'
  BY <1>2 DEF InOrder
<1>3. ASSUME \A v \in Writers : pend'[v] \subseteq pend[v], rows' \subseteq rows PROVE InOrder'
  BY <1>2, <1>3 DEF Numbered, Uncommitted
<1>4. ASSUME NEW w \in Writers,
             Stamp(w) \/ LockAndReadPrev(w) \/ DropRow(w) \/ Rollback(w)
      PROVE  InOrder'
  BY <1>3, <1>4 DEF Stamp, LockAndReadPrev, DropRow, Rollback, EndTransaction, logVars, TypeOK
<1>5. ASSUME NEW w \in Writers, Commit(w) PROVE InOrder'
  BY <1>2, <1>5 DEF Commit, EndTransaction, TypeOK, Numbered, Uncommitted
<1>6. CASE \/ \E m \in 0..MaxMonth : ArchivePeriod(m)
           \/ PruneStep \/ VerifyStep \/ Tick \/ UNCHANGED vars
  <2>1. pend' = pend /\ rows' \subseteq rows
    BY <1>6 DEF ArchivePeriod, PruneStep, PrunePlan, PruneAnchor, PruneDelete, PruneAbort,
       VerifyStep, VerifyStart, VerifyPage, VerifyEnd, Tick, vars, logVars
  <2> QED
    BY <1>3, <2>1
<1> QED
  BY <1>1, <1>4, <1>5, <1>6 DEF Next, WriterStep

LEMMA LinkedLock ==
  ASSUME TypeOK, ForkInv, ForkInv', Linked, NEW w \in Writers, LockAndReadPrev(w)
  PROVE  Linked'
<1>1. Numbered' = Numbered /\ anchor' = anchor
  BY DEF LockAndReadPrev, Numbered, Uncommitted, logVars, pruneVars
<1>2. Numbered = rows \union pend[w]
  BY OnlyHolderHasRows DEF LockAndReadPrev, ForkInv
<1>3. (\E r \in Numbered : r.seq = prev'[w]) \/ (Numbered = {} /\ Anchored(prev'[w]))
  BY <1>2 DEF LockAndReadPrev, TypeOK, Newest, Anchored
<1>4. ASSUME NEW v \in Writers, wpc'[v] = "read" PROVE v = w
  BY <1>4 DEF ForkInv, LockDiscipline, LockAndReadPrev
<1> QED
  BY <1>1, <1>3, <1>4 DEF Linked, First, Anchored

LEMMA LinkedInsert ==
  ASSUME TypeOK, ForkInv, ForkInv', Linked, NEW w \in Writers, Insert(w)
  PROVE  Linked'
<1> DEFINE new == [seq |-> nextSeq, month |-> stamp[w], prev |-> prev[w]]
<1>1. Numbered' = Numbered \union {new}
  BY InsertAdds
<1>2. anchor' = anchor /\ wpc' = [wpc EXCEPT ![w] = "open"] /\ lock' = lock /\ wpc[w] = "read"
  BY DEF Insert, pruneVars
<1>3. \A r \in Numbered : r.seq < nextSeq /\ r.seq \in Nat
  BY NumberedTyped DEF ForkInv, Numbering, Row
<1>4. \A v \in Writers : wpc'[v] # "read"
  BY <1>2 DEF ForkInv, LockDiscipline, TypeOK
<1>5. nextSeq \in Nat
  BY DEF TypeOK
<1>6. ASSUME NEW s \in Numbered', s.seq > Legacy
      PROVE  (\E r \in Numbered' : r.seq = s.prev) \/ (First(s)' /\ Anchored(s.prev)')
  <2>1. CASE s = new
    <3>1. CASE \E r \in Numbered : r.seq = prev[w]
      BY <1>1, <2>1, <3>1
    <3>2. CASE Numbered = {} /\ Anchored(prev[w])
      BY <1>1, <1>2, <1>5, <2>1, <3>2 DEF First, Anchored
    <3> QED
      BY <1>2, <3>1, <3>2 DEF Linked
  <2>2. CASE s \in Numbered
    <3>1. CASE \E r \in Numbered : r.seq = s.prev
      BY <1>1, <3>1
    <3>2. CASE First(s) /\ Anchored(s.prev)
      BY <1>1, <1>2, <1>3, <1>5, <2>2, <3>2 DEF First, Anchored
    <3> QED
      BY <1>6, <2>2, <3>1, <3>2 DEF Linked
  <2> QED
    BY <1>1, <2>1, <2>2
<1> QED
  BY <1>4, <1>6 DEF Linked

\* A commit keeps every number, and a rollback loses only numbers that no
\* remaining row names.
LEMMA LinkedEnd ==
  ASSUME TypeOK, ForkInv, Linked, NEW w \in Writers, EndTransaction(w),
         rows' = rows \/ rows' = rows \union pend[w]
  PROVE  Linked'
<1>1. /\ anchor' = anchor /\ \A v \in Writers : v # w => pend'[v] = pend[v]
      /\ pend'[w] = {} /\ rows \subseteq rows'
  BY DEF EndTransaction, TypeOK, pruneVars
<1>2. Numbered' \subseteq Numbered
  BY DEF EndTransaction, TypeOK, Numbered, Uncommitted
<1>3. ASSUME NEW r \in Numbered, r \notin Numbered' PROVE r \in pend[w] /\ Numbered' = rows
  <2>1. r \in pend[w] /\ rows' = rows
    BY <1>1, <1>3 DEF Numbered, Uncommitted
  <2>2. \A v \in Writers : pend'[v] = {}
    BY <1>1, <2>1 DEF ForkInv, LockDiscipline
  <2>3. Uncommitted' = {}
    BY <2>2 DEF Uncommitted
  <2> QED
    BY <2>1, <2>3 DEF Numbered
<1>4. ASSUME NEW s \in Numbered', s.seq > Legacy
      PROVE  (\E r \in Numbered' : r.seq = s.prev) \/ (First(s)' /\ Anchored(s.prev)')
  <2>1. CASE First(s) /\ Anchored(s.prev)
    BY <1>1, <1>2, <2>1 DEF First, Anchored
  <2>2. ASSUME NEW r \in Numbered, r.seq = s.prev PROVE r \in Numbered'
    <3> SUFFICES ASSUME r \notin Numbered' PROVE FALSE
      OBVIOUS
    <3>1. r \in pend[w] /\ s \in rows
      BY <1>3
    <3>2. s.seq < r.seq /\ s.prev < s.seq /\ s.seq \in Nat /\ r.seq \in Nat
      BY <1>2, <1>4, <3>1, NumberedTyped DEF ForkInv, Numbering, NoSkip, Row
    <3> QED
      BY <2>2, <3>2
  <2> QED
    BY <1>2, <1>4, <2>1, <2>2 DEF Linked
<1>5. ASSUME NEW v \in Writers, wpc'[v] = "read"
      PROVE  (\E r \in Numbered' : r.seq = prev'[v]) \/ (Numbered' = {} /\ Anchored(prev[v])')
  <2>1. v # w /\ wpc[v] = "read" /\ prev'[v] = prev[v]
    BY <1>5 DEF EndTransaction, TypeOK
  <2>2. pend[w] = {}
    BY <2>1 DEF ForkInv, LockDiscipline
  <2>3. Numbered' = Numbered
    BY <1>2, <1>3, <2>2
  <2> QED
    BY <1>1, <2>1, <2>3 DEF Linked, Anchored
<1> QED
  BY <1>4, <1>5 DEF Linked

\* A prune takes a prefix: the next row names the newest row that went, which
\* is the anchor of the new checkpoint.
LEMMA LinkedPrune ==
  ASSUME TypeOK, ForkInv, Young, PlanHolds, InOrder, Linked, PruneDelete
  PROVE  Linked'
<1>1. PICK d \in Prunable : Newest(Prunable, d) /\ panchor = d.seq
  BY DEF PlanHolds, PruneDelete
<1>2. \A e \in Prunable, r \in Numbered : r.seq <= e.seq => r \in Prunable
  BY PrunableIsPrefix DEF PruneDelete
<1>3. /\ rows' = rows \ Prunable /\ anchor' = d.seq /\ pend' = pend
      /\ wpc' = wpc /\ prev' = prev /\ Prunable \subseteq rows
  BY <1>1 DEF PruneDelete, writerVars, Prunable
<1>4. Numbered \subseteq Row /\ d \in Numbered /\ Prunable \subseteq Numbered
  BY <1>1, <1>3, NumberedTyped DEF Numbered
<1>5. Numbered' = Numbered \ Prunable
  <2>1. \A r \in Uncommitted : r \notin Prunable
    BY <1>3, <1>4 DEF Uncommitted, Numbered, ForkInv, Numbering, Row
  <2> QED
    BY <1>3, <2>1 DEF Numbered, Uncommitted
<1>6. ASSUME NEW s \in Numbered', s.seq > Legacy
      PROVE  (\E r \in Numbered' : r.seq = s.prev) \/ (First(s)' /\ Anchored(s.prev)')
  <2>1. d.seq < s.seq
    BY <1>1, <1>2, <1>4, <1>5 DEF Row
  <2>2. ASSUME NEW r \in Prunable, r.seq = s.prev PROVE First(s)' /\ Anchored(s.prev)'
    <3>1. d.seq <= r.seq
      BY <1>4, <1>5, <1>6, <2>1, <2>2 DEF ForkInv, NoSkip, Row
    <3>2. s.prev = d.seq
      BY <1>1, <1>4, <2>2, <3>1 DEF Newest, Row
    <3>3. ASSUME NEW t \in Numbered', t.seq < s.seq PROVE FALSE
      <4>1. ~(s.prev < t.seq)
        BY <1>5, <1>6, <3>3 DEF ForkInv, NoSkip
      <4>2. t.seq <= d.seq
        BY <1>4, <1>5, <3>2, <4>1 DEF Row
      <4> QED
        BY <1>1, <1>2, <1>5, <4>2
    <3>4. \A t \in Numbered' : s.seq <= t.seq
      BY <1>4, <1>5, <3>3 DEF Row
    <3> QED
      BY <1>3, <3>2, <3>4 DEF First, Anchored
  <2>3. ~First(s)
    BY <1>4, <1>5, <2>1 DEF First, Row
  <2> QED
    BY <1>5, <1>6, <2>2, <2>3 DEF Linked
<1>7. ASSUME NEW w \in Writers, wpc'[w] = "read"
      PROVE  (\E r \in Numbered' : r.seq = prev'[w]) \/ (Numbered' = {} /\ Anchored(prev[w])')
  <2>1. PICK r \in Numbered : r.seq = prev[w]
    BY <1>3, <1>4, <1>7 DEF Linked
  <2>2. \A s \in Numbered : s.seq <= r.seq
    BY <1>3, <1>7, <2>1 DEF ForkInv, NoSkip
  <2>3. CASE r \in Prunable
    <3>1. Numbered' = {}
      BY <1>2, <1>5, <2>2, <2>3
    <3>2. r.seq = d.seq
      BY <1>1, <1>4, <2>2, <2>3 DEF Newest, Row
    <3> QED
      BY <1>3, <2>1, <3>1, <3>2 DEF Anchored
  <2> QED
    BY <1>3, <1>5, <2>1, <2>3
<1> QED
  BY <1>6, <1>7 DEF Linked

LEMMA LinkedSame ==
  ASSUME Linked, UNCHANGED <<rows, pend, prev, anchor>>,
         \A w \in Writers : wpc'[w] = "read" => wpc[w] = "read"
  PROVE  Linked'
<1>1. Numbered' = Numbered
  BY DEF Numbered, Uncommitted
<1> QED
  BY <1>1 DEF Linked, First, Anchored

\* The pre-chain rows share one month, so the prune that takes one takes all.
LEMMA LegacyPrune ==
  ASSUME TypeOK, ForkInv, Young, PlanHolds, InOrder, LegacyTogether, LegacyInOneMonth, PruneDelete
  PROVE  LegacyTogether'
<1> SUFFICES ASSUME NEW l \in Numbered', l.seq <= Legacy PROVE FALSE
  BY DEF LegacyTogether
<1>1. PICK d \in Prunable : Newest(Prunable, d)
  BY DEF PlanHolds, PruneDelete
<1>2. /\ l \in Numbered /\ d \in Numbered /\ d \in rows /\ l \in Row /\ d \in Row
      /\ l \notin Prunable
  <2>1. Numbered' = (rows \ Prunable) \union Uncommitted /\ d \in rows /\ Prunable \subseteq rows
    BY <1>1 DEF PruneDelete, Numbered, Uncommitted, Prunable
  <2>2. \A p \in Uncommitted, r \in rows : r.seq < p.seq
    BY DEF ForkInv, Numbering, Uncommitted
  <2>3. l \notin Prunable
    BY <2>1, <2>2, NumberedTyped DEF Numbered, Row
  <2> QED
    BY <2>1, <2>3, NumberedTyped DEF Numbered
<1>3. d.seq < l.seq
  BY <1>1, <1>2, PrunableIsPrefix DEF PruneDelete, Row
<1>4. d \in LegacyRows /\ l \in LegacyRows
  <2>1. d.seq <= Legacy
    BY <1>2, <1>3, LegacyRowsTyped DEF Row
  <2> QED
    BY <1>2, <2>1 DEF LegacyTogether
<1>5. d.month = l.month
  <2>1. PICK i \in 1..Legacy, j \in 1..Legacy : d.month = LegacyMonths[i] /\ l.month = LegacyMonths[j]
    BY <1>4 DEF LegacyRows
  <2>2. i \in DOMAIN LegacyMonths /\ j \in DOMAIN LegacyMonths
    BY <2>1, LegacyAssumption DEF Legacy
  <2> QED
    BY <2>1, <2>2 DEF LegacyInOneMonth
<1>6. l.month \in plan /\ l.month < pcutoff
  BY <1>1, <1>5 DEF Prunable
<1>7. l \notin rows
  BY <1>2, <1>6 DEF Prunable
<1>8. l.month >= clock - 1
  BY <1>2, <1>7 DEF Numbered, Uncommitted, Young
<1>9. pcutoff <= clock - 1
  BY DEF PlanHolds, PruneDelete, TypeOK
<1> QED
  BY <1>2, <1>6, <1>8, <1>9 DEF TypeOK, Row

LEMMA LegacySame ==
  ASSUME TypeOK, LegacyTogether, anchor' = anchor,
         \A r \in Numbered' : r \in Numbered \/ r.seq > Legacy, Numbered' \subseteq Row
  PROVE  LegacyTogether'
BY LegacyRowsTyped DEF LegacyTogether, Row

LEMMA ChainInvStep ==
  TypeOK /\ TypeOK' /\ ForkInv /\ ForkInv' /\ Young /\ PlanHolds /\ ChainInv /\ [Next]_vars
    => ChainInv'
<1> SUFFICES ASSUME TypeOK, TypeOK', ForkInv, ForkInv', Young, PlanHolds, ChainInv, [Next]_vars,
                    ~inverted', LegacyInOneMonth
             PROVE  InOrder' /\ LegacyTogether' /\ Linked'
  BY DEF ChainInv, LegacyInOneMonth
<1>1. ~inverted
  BY DEF Next, WriterStep, PruneStep, VerifyStep, Stamp, LockAndReadPrev, Insert, DropRow, Commit,
     Rollback, EndTransaction, ArchivePeriod, PrunePlan, PruneAnchor, PruneDelete, PruneAbort,
     VerifyStart, VerifyPage, VerifyEnd, Tick, vars
<1>2. InOrder /\ LegacyTogether /\ Linked
  BY <1>1 DEF ChainInv
<1>3. InOrder'
  BY <1>2, InOrderStep
<1>4. Numbered' \subseteq Row
  BY DEF TypeOK, Numbered, Uncommitted
<1> SUFFICES LegacyTogether' /\ Linked'
  BY <1>3
<1>5. ASSUME NEW w \in Writers, LockAndReadPrev(w) PROVE LegacyTogether' /\ Linked'
  <2>1. Numbered' = Numbered /\ anchor' = anchor
    BY <1>5 DEF LockAndReadPrev, logVars, pruneVars, Numbered, Uncommitted
  <2> QED
    BY <1>2, <1>4, <1>5, <2>1, LinkedLock, LegacySame
<1>6. ASSUME NEW w \in Writers, Insert(w) PROVE LegacyTogether' /\ Linked'
  <2>1. anchor' = anchor
    BY <1>6 DEF Insert, pruneVars
  <2>2. nextSeq > Legacy
    BY LegacyRowsTyped DEF ForkInv, Numbering, TypeOK
  <2>3. \A r \in Numbered' : r \in Numbered \/ r.seq > Legacy
    BY <1>6, <2>2, InsertAdds
  <2> QED
    BY <1>2, <1>4, <1>6, <2>1, <2>3, LinkedInsert, LegacySame
<1>7. ASSUME NEW w \in Writers, Commit(w) \/ Rollback(w) PROVE LegacyTogether' /\ Linked'
  <2>1. EndTransaction(w) /\ (rows' = rows \/ rows' = rows \union pend[w])
    BY <1>7 DEF Commit, Rollback
  <2>2. anchor' = anchor /\ Numbered' \subseteq Numbered
    BY <2>1 DEF EndTransaction, pruneVars, TypeOK, Numbered, Uncommitted
  <2> QED
    BY <1>2, <1>4, <2>1, <2>2, LinkedEnd, LegacySame
<1>8. CASE PruneDelete
  BY <1>2, <1>8, LinkedPrune, LegacyPrune
<1>9. ASSUME UNCHANGED <<rows, pend, prev, anchor>>,
             \A w \in Writers : wpc'[w] = "read" => wpc[w] = "read"
      PROVE  LegacyTogether' /\ Linked'
  <2>1. Numbered' = Numbered
    BY <1>9 DEF Numbered, Uncommitted
  <2> QED
    BY <1>2, <1>4, <1>9, <2>1, LinkedSame, LegacySame
<1>10. ASSUME NEW w \in Writers, Stamp(w) PROVE LegacyTogether' /\ Linked'
  BY <1>9, <1>10 DEF Stamp, logVars, pruneVars, TypeOK
<1>11. ASSUME NEW w \in Writers, DropRow(w) PROVE LegacyTogether' /\ Linked'
  <2>1. UNCHANGED <<rows, pend, anchor>> /\ \A v \in Writers : wpc'[v] # "read"
    BY <1>11 DEF DropRow, logVars, pruneVars, ForkInv, LockDiscipline, TypeOK
  <2>2. Numbered' = Numbered
    BY <2>1 DEF Numbered, Uncommitted
  <2>3. Linked'
    BY <1>2, <2>1, <2>2 DEF Linked, First, Anchored
  <2> QED
    BY <1>2, <1>4, <2>1, <2>2, <2>3, LegacySame
<1>12. CASE \/ \E m \in 0..MaxMonth : ArchivePeriod(m)
            \/ PrunePlan \/ PruneAnchor \/ PruneAbort \/ VerifyStep \/ Tick \/ UNCHANGED vars
  <2>1. UNCHANGED <<rows, pend, prev, anchor, wpc>>
    BY <1>12 DEF ArchivePeriod, PrunePlan, PruneAnchor, PruneAbort, VerifyStep, VerifyStart,
       VerifyPage, VerifyEnd, Tick, vars, logVars, writerVars, pruneVars
  <2> QED
    BY <1>9, <2>1
<1> QED
  BY <1>5, <1>6, <1>7, <1>8, <1>10, <1>11, <1>12 DEF Next, WriterStep, PruneStep

LEMMA ChainInvInit == Init => Young /\ PlanHolds /\ ChainInv
<1> SUFFICES ASSUME Init PROVE Young /\ PlanHolds /\ ChainInv
  OBVIOUS
<1>1. Numbered = LegacyRows
  BY DEF Init, Numbered, Uncommitted
<1>2. Young /\ PlanHolds
  BY DEF Init, Young, PlanHolds
<1>3. InOrder
  BY <1>1, LegacyAssumption DEF InOrder, LegacyRows, Legacy
<1>4. LegacyTogether
  BY <1>1 DEF Init, LegacyTogether
<1>5. Linked
  BY <1>1, LegacyRowsTyped DEF Init, Linked, Row
<1> QED
  BY <1>2, <1>3, <1>4, <1>5 DEF ChainInv

\* The inductive invariant holds in every reachable state.
THEOREM InductiveInvariant == Spec => []IInv
<1>1. TypeOK /\ TypeOK' /\ ForkInv /\ ForkInv' /\ (Young /\ PlanHolds /\ ChainInv) /\ [Next]_vars
        => (Young /\ PlanHolds /\ ChainInv)'
  BY YoungStep, PlanHoldsStep, ChainInvStep DEF ForkInv
<1>2. Spec => [](Young /\ PlanHolds /\ ChainInv)
  BY <1>1, ChainInvInit, TypeCorrect, ForkInvariant, PTL DEF Spec
<1>3. TypeOK /\ ForkInv /\ (Young /\ PlanHolds /\ ChainInv) => IInv
  BY DEF IInv
<1> QED
  BY <1>2, <1>3, TypeCorrect, ForkInvariant, PTL

\* In the three circumstances the code cannot keep the chain: without them it
\* verifies.
LEMMA SoundChain == IInv /\ Sound => ChainIntact
<1> SUFFICES ASSUME IInv, Sound, NEW s \in rows
             PROVE  LET before == {r \in rows : r.seq < s.seq} IN
                    IF before = {} THEN anchor # Null => s.prev = anchor
                    ELSE \/ \E r \in before : Newest(before, r) /\ s.prev = r.seq
                         \/ anchor = Null /\ s.prev = Null /\ \A r \in before : r.prev = Null
  BY DEF ChainIntact
<1> DEFINE before == {r \in rows : r.seq < s.seq}
<1>1. /\ LegacyTogether /\ Linked /\ TypeOK /\ ForkInv
      /\ s \in Numbered /\ rows \subseteq Numbered /\ Numbered \subseteq Row
  BY NumberedTyped DEF IInv, ChainInv, Numbered, Sound
<1>2. CASE s.seq > Legacy
  <2>1. ASSUME NEW r \in Numbered, r.seq = s.prev PROVE r \in before /\ Newest(before, r)
    <3>1. r.seq < s.seq
      BY <1>1, <1>2, <2>1 DEF ForkInv, NoSkip
    <3>2. r \in rows
      BY <1>1, <3>1 DEF ForkInv, Numbering, Numbered, Uncommitted, Row
    <3>3. \A t \in before : t.seq <= r.seq
      BY <1>1, <1>2, <2>1 DEF ForkInv, NoSkip, Row
    <3> QED
      BY <3>1, <3>2, <3>3 DEF Newest
  <2>2. CASE First(s) /\ Anchored(s.prev)
    <3>1. before = {}
      BY <1>1, <2>2 DEF First, Row
    <3>2. anchor # Null => s.prev = anchor
      BY <1>1, <1>2, <2>2 DEF Anchored, Sound, RestartSeen
    <3> QED
      BY <3>1, <3>2
  <2> QED
    BY <1>1, <1>2, <2>1, <2>2 DEF Linked
<1>3. CASE s.seq <= Legacy
  <2>1. anchor = Null /\ s.prev = Null
    BY <1>1, <1>3, LegacyRowsTyped DEF LegacyTogether
  <2>2. \A r \in before : r.prev = Null
    <3> SUFFICES ASSUME NEW r \in before PROVE r.prev = Null
      OBVIOUS
    <3>1. r \in Numbered /\ r.seq <= Legacy
      BY <1>1, <1>3, LegacyRowsTyped DEF Row
    <3> QED
      BY <1>1, <3>1, LegacyRowsTyped DEF LegacyTogether
  <2> QED
    BY <2>1, <2>2
<1> QED
  BY <1>1, <1>2, <1>3, LegacyRowsTyped DEF Row

\* With nobody tampering the surviving chain always verifies, through any
\* number of commits, rollbacks and prunes: every row carries the digest of the
\* row before it and the oldest one the anchor of the latest checkpoint.  The
\* hypotheses are the three circumstances in which the code breaks it.
THEOREM UntamperedChain == Spec => []UntamperedChainVerifies
<1>1. IInv => UntamperedChainVerifies
  <2>1. ~Restarted => ~RestartSeen
    BY DEF Restarted, RestartSeen, Numbered
  <2> QED
    BY <2>1, SoundChain DEF UntamperedChainVerifies, Sound
<1> QED
  BY <1>1, InductiveInvariant, PTL

-----------------------------------------------------------------------------
(* OnlyArchivedRowsPruned: a month is closed before it is archived. *)

LEMMA ArchiveHoldsStep ==
  TypeOK /\ LockDiscipline /\ Young /\ ArchiveHolds /\ [Next]_vars => ArchiveHolds'
<1> SUFFICES ASSUME TypeOK, LockDiscipline, Young, ArchiveHolds, [Next]_vars PROVE ArchiveHolds'
  OBVIOUS
<1> USE RetentionAssumption DEF TypeOK, ArchiveHolds
<1>1. ASSUME NEW w \in Writers, Commit(w) PROVE ArchiveHolds'
  <2>1. ASSUME NEW r \in pend[w] PROVE r.month \notin archives
    <3>1. r.month >= clock - 1 /\ r.month \in Nat
      BY <2>1 DEF Young, Row
    <3> QED
      BY <3>1
  <2> QED
    BY <1>1, <2>1 DEF Commit, EndTransaction, archiveVars, pruneVars
<1>2. ASSUME NEW m \in 0..MaxMonth, ArchivePeriod(m) PROVE ArchiveHolds'
  BY <1>2 DEF ArchivePeriod, RowsOf, logVars, pruneVars
<1>3. CASE PrunePlan
  BY <1>3 DEF PrunePlan, logVars, archiveVars
<1>4. CASE PruneDelete \/ PruneAbort
  BY <1>4 DEF PruneDelete, PruneAbort, PruneDone, logVars, archiveVars
<1>5. CASE Tick
  BY <1>5 DEF Tick, logVars, archiveVars, pruneVars
<1>6. CASE \/ \E w \in Writers : \/ Stamp(w) \/ LockAndReadPrev(w) \/ Insert(w)
                                \/ DropRow(w) \/ Rollback(w)
           \/ PruneAnchor \/ VerifyStep \/ UNCHANGED vars
  <2>1. UNCHANGED <<clock, rows, archives, bundled, plan>>
    BY <1>6 DEF Stamp, LockAndReadPrev, Insert, DropRow, Rollback, EndTransaction, PruneAnchor,
       VerifyStep, VerifyStart, VerifyPage, VerifyEnd, vars, logVars, archiveVars, pruneVars
  <2> QED
    BY <2>1
<1> QED
  BY <1>1, <1>2, <1>3, <1>4, <1>5, <1>6 DEF Next, WriterStep, PruneStep

\* A prune deletes only rows that an archive bundle holds: no transaction
\* commits a row for a month that has been archived, because a month is left
\* alone until the retention has passed and open transactions are younger.
THEOREM PrunesOnlyArchived == Spec => OnlyArchivedRowsPruned
<1>1. Init => ArchiveHolds
  BY DEF Init, ArchiveHolds
<1>2. Spec => []ArchiveHolds
  <2>1. ForkInv => LockDiscipline
    BY DEF ForkInv
  <2>2. IInv => TypeOK /\ ForkInv /\ Young
    BY DEF IInv
  <2> QED
    BY <1>1, <2>1, <2>2, ArchiveHoldsStep, InductiveInvariant, PTL DEF Spec
<1>3. TypeOK /\ ArchiveHolds /\ [Next]_vars => [rows \ rows' \subseteq bundled]_vars
  <2> SUFFICES ASSUME TypeOK, ArchiveHolds, [Next]_vars PROVE rows \ rows' \subseteq bundled
    OBVIOUS
  <2>1. CASE PruneDelete
    BY <2>1 DEF PruneDelete, Prunable, ArchiveHolds
  <2>2. CASE ~PruneDelete
    <3>1. rows \subseteq rows'
      BY <2>2 DEF Next, WriterStep, Stamp, LockAndReadPrev, Insert, DropRow, Commit, Rollback,
         EndTransaction, ArchivePeriod, PruneStep, PrunePlan, PruneAnchor, PruneAbort,
         VerifyStep, VerifyStart, VerifyPage, VerifyEnd, Tick, vars, logVars
    <3> QED
      BY <3>1
  <2> QED
    BY <2>1, <2>2
<1> QED
  BY <1>2, <1>3, TypeCorrect, PTL DEF Spec, OnlyArchivedRowsPruned

-----------------------------------------------------------------------------
(* NoFalseAlarm: a walk that no prune disturbs meets a chain that is sound. *)

\* A set of rows with different numbers below some bound is finite.
LEMMA RowsAreFinite ==
  \A R \in SUBSET Row, n \in Nat :
    (\A r \in R : r.seq < n) /\ (\A r, s \in R : r.seq = s.seq => r = s) => IsFiniteSet(R)
<1> SUFFICES ASSUME NEW R \in SUBSET Row, NEW n \in Nat,
                    \A r \in R : r.seq < n, \A r, s \in R : r.seq = s.seq => r = s
             PROVE  IsFiniteSet(R)
  OBVIOUS
<1> DEFINE f == [r \in R |-> r.seq]
<1>1. f \in Injection(R, 0..n)
  <2>1. \A r \in R : r.seq \in 0..n
    BY DEF Row
  <2> QED
    BY <2>1 DEF Injection, IsInjective
<1>2. IsFiniteSet(0..n)
  BY FS_Interval
<1> QED
  BY <1>1, <1>2, FS_Injection

\* Ranks count rows, so they follow the numbers.
LEMMA RankOrder ==
  \A R \in SUBSET Row : IsFiniteSet(R) =>
    \A r, s \in R :
      LET Below(q) == Cardinality({t \in R : t.seq < q.seq})
      IN  /\ Below(r) \in Nat /\ Below(r) < Cardinality(R)
          /\ r.seq < s.seq => Below(r) < Below(s)
<1> SUFFICES ASSUME NEW R \in SUBSET Row, IsFiniteSet(R), NEW r \in R, NEW s \in R
             PROVE  /\ Cardinality({t \in R : t.seq < r.seq}) \in Nat
                    /\ Cardinality({t \in R : t.seq < r.seq}) < Cardinality(R)
                    /\ r.seq < s.seq => Cardinality({t \in R : t.seq < r.seq})
                                          < Cardinality({t \in R : t.seq < s.seq})
  OBVIOUS
<1> DEFINE B(q) == {t \in R : t.seq < q.seq}
<1>1. IsFiniteSet(B(r)) /\ IsFiniteSet(B(s)) /\ Cardinality(B(r)) <= Cardinality(R)
      /\ (Cardinality(R) = Cardinality(B(r)) => R = B(r))
  <2>1. B(r) \in SUBSET R /\ B(s) \in SUBSET R
    OBVIOUS
  <2> HIDE DEF B
  <2> QED
    BY <2>1, FS_Subset
<1>2. r \notin B(r)
  BY DEF Row
<1>3. Cardinality(B(r)) \in Nat /\ Cardinality(B(s)) \in Nat /\ Cardinality(R) \in Nat
  <2> HIDE DEF B
  <2> QED
    BY <1>1, FS_CardinalityType
<1>4. Cardinality(B(r)) < Cardinality(R)
  <2> HIDE DEF B
  <2>1. R # B(r)
    BY <1>2
  <2> QED
    BY <2>1, <1>1, <1>3
<1>5. ASSUME r.seq < s.seq PROVE Cardinality(B(r)) < Cardinality(B(s))
  <2>1. B(r) \in SUBSET B(s) /\ r \in B(s)
    BY <1>5 DEF Row
  <2> HIDE DEF B
  <2>2. B(r) # B(s)
    BY <2>1, <1>2
  <2>3. Cardinality(B(r)) <= Cardinality(B(s)) /\ (Cardinality(B(s)) = Cardinality(B(r)) => B(s) = B(r))
    BY <2>1, <1>1, FS_Subset
  <2> QED
    BY <2>2, <2>3, <1>3
<1> QED
  BY <1>3, <1>4, <1>5

LEMMA CommittedRows ==
  ASSUME TypeOK, ForkInv
  PROVE  /\ rows \in SUBSET Row
         /\ IsFiniteSet(rows)
         /\ Cardinality(rows) \in Nat
         /\ \A r, s \in rows : r.seq = s.seq => r = s
         /\ \A r \in rows : Rank(r) \in Nat /\ Rank(r) < Cardinality(rows)
         /\ \A r, s \in rows : r.seq < s.seq => Rank(r) < Rank(s)
<1>1. rows \in SUBSET Row /\ nextSeq \in Nat
  BY DEF TypeOK
<1>2. (\A r \in rows : r.seq < nextSeq) /\ (\A r, s \in rows : r.seq = s.seq => r = s)
  BY DEF ForkInv, Numbering, Numbered
<1>3. IsFiniteSet(rows)
  BY <1>1, <1>2, RowsAreFinite
<1>4. Cardinality(rows) \in Nat
  BY <1>3, FS_CardinalityType
<1>5. \A r, s \in rows :
        /\ Rank(r) \in Nat /\ Rank(r) < Cardinality(rows)
        /\ r.seq < s.seq => Rank(r) < Rank(s)
  BY <1>1, <1>3, RankOrder DEF Rank
<1> QED
  BY <1>1, <1>2, <1>3, <1>4, <1>5

\* The page that is read next holds the rows whose rank is in its range.
LEMMA PageRange ==
  ASSUME TypeOK, ForkInv
  PROVE  \E lo, hi \in Nat :
           /\ lo = verify.page * ChunkSize
           /\ hi = (verify.page + 1) * ChunkSize
           /\ hi = lo + ChunkSize
           /\ Page(verify.page) = {r \in rows : lo <= Rank(r) /\ Rank(r) < hi}
<1>1. verify.page \in Nat
  BY DEF TypeOK, VerifyState
<1> DEFINE lo == verify.page * ChunkSize
           hi == (verify.page + 1) * ChunkSize
<1>2. lo \in Nat /\ hi \in Nat /\ hi = lo + ChunkSize
  BY <1>1
<1>3. Page(verify.page) = {r \in rows : Rank(r) \in lo..(hi - 1)}
  BY DEF Page
<1> HIDE DEF lo, hi
<1>4. \A r \in rows : Rank(r) \in lo..(hi - 1) <=> lo <= Rank(r) /\ Rank(r) < hi
  BY <1>2, CommittedRows
<1>5. Page(verify.page) = {r \in rows : lo <= Rank(r) /\ Rank(r) < hi}
  BY <1>3, <1>4
<1> QED
  BY <1>2, <1>5 DEF lo, hi

\* Of a sound chain the walk accepts every row: the row it compares with is the
\* one that comes before in the whole table, on this page or a page before.
LEMMA PageAccepted ==
  ASSUME IInv, Sound, WalkHolds, verify.pc = "walk", ~verify.raced,
         NEW r \in Page(verify.page)
  PROVE  Accepts(Page(verify.page), r)
<1> DEFINE P == Page(verify.page)
           before == {q \in rows : q.seq < r.seq}
           onPage == {q \in P : q.seq < r.seq}
           numbers == {s.seq : s \in onPage} \union {verify.last}
<1>1. TypeOK /\ ForkInv /\ verify.last \in Nat /\ ChainIntact
  BY SoundChain DEF IInv, TypeOK, VerifyState
<1>2. PICK lo \in Nat, hi \in Nat : /\ lo = verify.page * ChunkSize
                                    /\ P = {q \in rows : lo <= Rank(q) /\ Rank(q) < hi}
  BY <1>1, PageRange
<1>3. r \in rows /\ r.seq \in Nat \ {0} /\ \A q \in rows : q.seq \in Nat \ {0}
  BY <1>1, <1>2 DEF TypeOK, Row
<1>4. before = onPage \union {q \in rows : q.seq <= verify.last}
  <2>1. \A q \in rows : q.seq <= verify.last <=> Rank(q) < lo
    BY <1>2 DEF WalkHolds
  <2>2. ASSUME NEW q \in rows PROVE q.seq < r.seq <=> Rank(q) < Rank(r)
    BY <1>1, <1>3, CommittedRows
  <2>3. lo <= Rank(r) /\ Rank(r) < hi
    BY <1>2
  <2>4. \A q \in rows : Rank(q) \in Nat
    BY <1>1, CommittedRows
  <2>5. ASSUME NEW q \in rows PROVE q.seq < r.seq <=> q \in onPage \/ q.seq <= verify.last
    BY <1>2, <1>3, <2>1, <2>2, <2>3, <2>4
  <2> QED
    BY <1>2, <2>5
<1>5. verify.last = Null \/ \E q \in before : q.seq = verify.last
  BY <1>1, <1>3, <1>4 DEF WalkHolds
<1>6. Predecessor(P, r) = CHOOSE n \in numbers : \A k \in numbers : k <= n
  BY DEF Predecessor
<1>7. CASE before = {}
  <2>1. numbers = {Null}
    BY <1>4, <1>5, <1>7
  <2>2. Predecessor(P, r) = Null
    BY <1>6, <2>1 DEF Null
  <2>3. verify.anchor = anchor /\ (anchor # Null => r.prev = anchor)
    BY <1>1, <1>3, <1>7 DEF ChainIntact, WalkHolds
  <2> QED
    BY <2>2, <2>3 DEF Accepts
<1>8. ASSUME NEW b \in before, Newest(before, b), r.prev = b.seq PROVE Accepts(P, r)
  <2>1. b.seq \in Nat \ {0} /\ \A q \in before : q.seq \in Nat /\ q.seq <= b.seq
    BY <1>3, <1>8 DEF Newest
  <2>2. b.seq \in numbers
    <3>1. CASE b \in onPage
      BY <3>1
    <3>2. CASE b.seq <= verify.last
      BY <1>1, <1>5, <2>1, <3>2 DEF Null
    <3> QED
      BY <1>4, <1>8, <3>1, <3>2
  <2>3. \A k \in numbers : k \in Nat /\ k <= b.seq
    BY <1>4, <1>5, <2>1 DEF Null
  <2> HIDE DEF numbers
  <2>4. \A n \in numbers : (\A k \in numbers : k <= n) => n = b.seq
    BY <2>2, <2>3, <2>1
  <2>5. Predecessor(P, r) = b.seq
    BY <1>6, <2>2, <2>3, <2>4
  <2> QED
    BY <1>8, <2>1, <2>5 DEF Accepts, Null
<1>9. ASSUME anchor = Null, r.prev = Null, \A q \in before : q.prev = Null PROVE Accepts(P, r)
  <2>1. verify.anchor = Null /\ ~verify.started
    BY <1>4, <1>9 DEF WalkHolds
  <2>2. ~StartedAt(P, r)
    BY <1>4, <1>9, <2>1 DEF StartedAt
  <2> QED
    BY <1>9, <2>1, <2>2 DEF Accepts
<1> QED
  BY <1>1, <1>3, <1>7, <1>8, <1>9 DEF ChainIntact

\* A full page moves the walk on to where the next page begins.
LEMMA PageWalked ==
  ASSUME IInv, WalkHolds, verify.pc = "walk", ~verify.raced,
         NEW n \in Page(verify.page), Newest(Page(verify.page), n),
         ~(Cardinality(Page(verify.page)) < ChunkSize)
  PROVE  /\ (verify.page + 1) * ChunkSize <= Cardinality(rows)
         /\ \A r \in rows : r.seq <= n.seq <=> Rank(r) < (verify.page + 1) * ChunkSize
         /\ n \in rows
         /\ (verify.started \/ \E q \in Page(verify.page) : q.prev # Null) <=>
              (anchor # Null \/ \E r \in rows : r.seq <= n.seq /\ r.prev # Null)
<1> DEFINE P == Page(verify.page)
<1>1. TypeOK /\ ForkInv /\ verify.last \in Nat
  BY DEF IInv, TypeOK, VerifyState
<1>2. PICK lo \in Nat, hi \in Nat : /\ lo = verify.page * ChunkSize
                                    /\ hi = (verify.page + 1) * ChunkSize
                                    /\ hi = lo + ChunkSize
                                    /\ P = {q \in rows : lo <= Rank(q) /\ Rank(q) < hi}
  BY <1>1, PageRange
<1>3. n \in rows /\ \A q \in rows : q.seq \in Nat /\ Rank(q) \in Nat
  BY <1>1, <1>2, CommittedRows DEF Row
<1>4. \A r \in rows : r.seq <= verify.last <=> Rank(r) < lo
  BY <1>2 DEF WalkHolds
<1>5. \A r, s \in rows : r.seq < s.seq <=> Rank(r) < Rank(s)
  BY <1>1, <1>3, CommittedRows
<1>6. ASSUME NEW r \in rows
      PROVE  r.seq <= n.seq <=> r.seq <= verify.last \/ r \in P
  <2>1. lo <= Rank(n) /\ Rank(n) < hi /\ Rank(n) \in Nat /\ Rank(r) \in Nat
    BY <1>2, <1>3
  <2>2. r \in P => r.seq <= n.seq
    BY DEF Newest
  <2>3. r.seq <= verify.last => r.seq < n.seq
    BY <1>3, <1>4, <1>5, <2>1
  <2>4. r.seq <= n.seq => ~(Rank(n) < Rank(r))
    BY <1>3, <1>5
  <2>5. r.seq <= n.seq => Rank(r) < lo \/ r \in P
    BY <1>2, <2>1, <2>4
  <2> QED
    BY <1>3, <1>4, <2>2, <2>3, <2>5
<1>7. \A r \in rows : r.seq <= n.seq <=> Rank(r) < hi
  BY <1>2, <1>3, <1>4, <1>6
<1>8. hi <= Cardinality(rows)
  <2> DEFINE T == lo..(hi - 1)
             f == [q \in P |-> Rank(q)]
  <2>1. f \in Injection(P, T)
    <3>1. \A q \in P : Rank(q) \in T
      BY <1>2, <1>3
    <3>2. \A q, s \in P : Rank(q) = Rank(s) => q = s
      BY <1>1, <1>2, <1>3, <1>5, CommittedRows
    <3> QED
      BY <3>1, <3>2 DEF Injection, IsInjective
  <2>2. IsFiniteSet(T) /\ Cardinality(T) = ChunkSize
    <3>1. lo \in Int /\ hi - 1 \in Int /\ ~(lo > hi - 1) /\ (hi - 1) - lo + 1 = ChunkSize
      BY <1>2
    <3>2. /\ IsFiniteSet(lo..(hi - 1))
          /\ Cardinality(lo..(hi - 1)) = IF lo > hi - 1 THEN 0 ELSE (hi - 1) - lo + 1
      BY ONLY <3>1, FS_Interval
    <3> QED
      BY <3>1, <3>2
  <2>3. IsFiniteSet(P) /\ Cardinality(P) <= Cardinality(T)
        /\ (Cardinality(P) = Cardinality(T) <=> f \in Surjection(P, T))
    <3> HIDE DEF f, T, P
    <3> QED
      BY <2>1, <2>2, FS_Injection
  <2>4. Cardinality(P) \in Nat
    <3> HIDE DEF P
    <3> QED
      BY <2>3, FS_CardinalityType
  <2>5. f \in Surjection(P, T)
    <3> HIDE DEF f, T
    <3> QED
      BY <2>2, <2>3, <2>4
  <2>6. PICK q \in P : Rank(q) = hi - 1
    <3>1. hi - 1 \in T
      BY <1>2
    <3>2. \E q \in P : f[q] = hi - 1
      <4> HIDE DEF f, T, P
      <4> QED
        BY <2>5, <3>1 DEF Surjection
    <3> QED
      BY <3>2
  <2> QED
    BY <1>1, <1>2, <2>6, CommittedRows
<1>9. (verify.started \/ \E q \in P : q.prev # Null) <=>
        (anchor # Null \/ \E r \in rows : r.seq <= n.seq /\ r.prev # Null)
  <2>1. verify.started <=> (anchor # Null \/ \E r \in rows : r.seq <= verify.last /\ r.prev # Null)
    BY DEF WalkHolds
  <2>2. P \subseteq rows
    BY <1>2
  <2> HIDE DEF P
  <2> QED
    BY <1>6, <2>1, <2>2
<1> QED
  BY <1>2, <1>3, <1>7, <1>8, <1>9

\* Rows committed during the walk come after every page it has read.
LEMMA WalkGrows ==
  ASSUME IInv, IInv', WalkHolds, UNCHANGED <<anchor, verify>>, rows \subseteq rows',
         \A r \in rows' \ rows, s \in rows : s.seq < r.seq
  PROVE  WalkHolds'
<1> SUFFICES ASSUME verify.pc = "walk", ~verify.raced PROVE WalkHolds'
  BY DEF WalkHolds
<1> DEFINE walked == verify.page * ChunkSize
<1>1. /\ TypeOK /\ ForkInv /\ verify.page \in Nat /\ verify.last \in Nat /\ walked \in Nat
      /\ rows \in SUBSET Row /\ rows' \in SUBSET Row /\ nextSeq' \in Nat
  BY DEF IInv, TypeOK, VerifyState
<1>2. IsFiniteSet(rows')
  <2>1. (\A r \in rows' : r.seq < nextSeq') /\ (\A r, s \in rows' : r.seq = s.seq => r = s)
    BY DEF IInv, ForkInv, Numbering, Numbered
  <2> QED
    BY <1>1, <2>1, RowsAreFinite
<1> DEFINE After(r) == {s \in rows' : s.seq < r.seq}
<1>3. \A r \in rows : After(r) = {s \in rows : s.seq < r.seq}
  BY <1>1 DEF Row
<1>4. \A r \in rows : Cardinality(After(r)) = Rank(r)
  BY <1>3 DEF Rank
<1>5. walked <= Cardinality(rows) /\ Cardinality(rows) \in Nat
  BY <1>1, CommittedRows DEF WalkHolds
<1>6. ASSUME NEW r \in rows' \ rows PROVE ~(r.seq <= verify.last) /\ ~(Cardinality(After(r)) < walked)
  <2>1. r.seq \in Nat \ {0} /\ \A s \in rows : s.seq < r.seq
    BY <1>1 DEF Row
  <2>2. ~(r.seq <= verify.last)
    <3>1. CASE verify.last = Null
      BY <2>1, <3>1 DEF Null
    <3>2. CASE \E s \in rows : s.seq = verify.last
      BY <1>1, <2>1, <3>2
    <3> QED
      BY <3>1, <3>2 DEF WalkHolds
  <2>3. rows \in SUBSET After(r) /\ After(r) \in SUBSET rows'
    BY <2>1
  <2>4. IsFiniteSet(After(r)) /\ Cardinality(rows) <= Cardinality(After(r))
        /\ Cardinality(After(r)) \in Nat
    <3> HIDE DEF After
    <3>1. IsFiniteSet(After(r))
      BY <1>2, <2>3, FS_Subset
    <3> QED
      BY <2>3, <3>1, FS_Subset, FS_CardinalityType
  <2> QED
    <3> HIDE DEF After, walked
    <3> QED
      BY <1>1, <1>5, <2>2, <2>4
<1>7. \A r \in rows' : r.seq <= verify.last <=> Cardinality(After(r)) < walked
  <2>1. \A r \in rows : r.seq <= verify.last <=> Rank(r) < walked
    BY DEF WalkHolds
  <2> HIDE DEF After, walked
  <2> QED
    BY <1>4, <1>6, <2>1
<1>8. Cardinality(rows) <= Cardinality(rows') /\ Cardinality(rows') \in Nat
  BY <1>2, FS_Subset, FS_CardinalityType
<1>9. walked <= Cardinality(rows')
  <2> HIDE DEF walked
  <2> QED
    BY <1>1, <1>5, <1>8
<1>10. verify.started <=>
         (anchor # Null \/ \E r \in rows' : r.seq <= verify.last /\ r.prev # Null)
  BY <1>6 DEF WalkHolds
<1>11. \A r \in rows' : r.seq <= verify'.last <=> Rank(r)' < verify'.page * ChunkSize
  BY <1>7 DEF Rank
<1>12. verify.last = Null \/ \E r \in rows' : r.seq = verify.last
  BY DEF WalkHolds
<1> QED
  BY <1>9, <1>10, <1>11, <1>12 DEF WalkHolds

LEMMA AlarmStep ==
  IInv /\ IInv' /\ WalkHolds /\ AlarmHolds /\ [Next]_vars => (WalkHolds /\ AlarmHolds)'
<1> SUFFICES ASSUME IInv, IInv', WalkHolds, AlarmHolds, [Next]_vars
             PROVE  (WalkHolds /\ AlarmHolds)'
  OBVIOUS
<1>1. TypeOK /\ ForkInv /\ verify \in VerifyState /\ verify' \in VerifyState
  BY DEF IInv, TypeOK
<1>2. CASE VerifyStart
  <2>1. /\ verify' = [VerifyIdle EXCEPT !.pc = "walk", !.anchor = anchor, !.started = (anchor # Null)]
        /\ rows' = rows /\ anchor' = anchor
    BY <1>2 DEF VerifyStart, logVars, pruneVars
  <2>2. /\ verify'.pc = "walk" /\ verify'.anchor = anchor /\ verify'.page = 0
        /\ verify'.last = Null /\ verify'.started = (anchor # Null)
    BY <2>1 DEF VerifyIdle
  <2>3. verify'.page * ChunkSize = 0
    BY <2>2
  <2>4. \A r \in rows : Rank(r)' = Rank(r) /\ Rank(r) \in Nat /\ r.seq \in Nat \ {0}
    BY <1>1, <2>1, CommittedRows DEF Rank, Row
  <2>5. Cardinality(rows) \in Nat
    BY <1>1, CommittedRows
  <2>6. AlarmHolds'
    BY <2>2 DEF AlarmHolds
  <2>7. \A r \in rows : ~(r.seq <= Null) /\ ~(Rank(r) < 0)
    BY <2>4 DEF Null
  <2>8. ~\E r \in rows : r.seq <= Null /\ r.prev # Null
    BY <2>7
  <2>9. WalkHolds'
    <3>1. 0 <= Cardinality(rows)
      BY <2>5
    <3> QED
      BY <2>1, <2>2, <2>3, <2>4, <2>7, <2>8, <3>1 DEF WalkHolds
  <2> QED
    BY <2>6, <2>9
<1>3. CASE VerifyPage
  <2> DEFINE P == Page(verify.page)
  <2>1. /\ verify.pc = "walk"
        /\ UNCHANGED <<rows, anchor, inverted>>
    BY <1>3 DEF VerifyPage, logVars, pruneVars
  <2>2. (Sound <=> Sound') /\ \A r \in rows : Rank(r)' = Rank(r)
    BY <2>1 DEF Sound, RestartSeen, Rank
  <2>3. CASE verify' = [verify EXCEPT !.pc = "broken"] /\ \E r \in P : ~Accepts(P, r)
    <3>1. verify'.pc = "broken" /\ verify'.raced = verify.raced
      BY <1>1, <2>3 DEF VerifyState
    <3>2. verify.raced \/ ~Sound
      BY <2>1, <2>3, PageAccepted
    <3> QED
      BY <2>2, <3>1, <3>2 DEF WalkHolds, AlarmHolds
  <2>4. ASSUME NEW n \in P, Newest(P, n),
               verify' = [verify EXCEPT !.pc = IF Cardinality(P) < ChunkSize THEN "intact" ELSE "walk",
                                        !.page = @ + 1,
                                        !.last = n.seq,
                                        !.started = @ \/ \E q \in P : q.prev # Null]
        PROVE  (WalkHolds /\ AlarmHolds)'
    <3>1. /\ verify'.pc = IF Cardinality(P) < ChunkSize THEN "intact" ELSE "walk"
          /\ verify'.page = verify.page + 1 /\ verify'.last = n.seq
          /\ verify'.started = (verify.started \/ \E q \in P : q.prev # Null)
          /\ verify'.raced = verify.raced /\ verify'.anchor = verify.anchor
      <4> HIDE DEF P
      <4> QED
        BY <1>1, <2>4 DEF VerifyState
    <3>2. AlarmHolds'
      BY <3>1 DEF AlarmHolds
    <3>3. ASSUME verify'.pc = "walk", ~verify'.raced PROVE WalkHolds'
      <4>1. ~(Cardinality(P) < ChunkSize) /\ ~verify.raced
        <5> HIDE DEF P
        <5> QED
          BY <3>1, <3>3
      <4>2. /\ (verify.page + 1) * ChunkSize <= Cardinality(rows)
            /\ \A r \in rows : r.seq <= n.seq <=> Rank(r) < (verify.page + 1) * ChunkSize
            /\ n \in rows
            /\ (verify.started \/ \E q \in P : q.prev # Null) <=>
                 (anchor # Null \/ \E r \in rows : r.seq <= n.seq /\ r.prev # Null)
        BY <2>1, <2>4, <4>1, PageWalked
      <4>3. verify.anchor = anchor
        BY <2>1, <4>1 DEF WalkHolds
      <4> HIDE DEF P
      <4> QED
        BY <2>1, <2>2, <3>1, <4>2, <4>3 DEF WalkHolds
    <3> QED
      BY <3>2, <3>3 DEF WalkHolds
  <2>5. CASE verify' = [verify EXCEPT !.pc = "intact"]
    <3>1. verify'.pc = "intact"
      BY <1>1, <2>5 DEF VerifyState
    <3> QED
      BY <3>1 DEF WalkHolds, AlarmHolds
  <2> QED
    BY <1>3, <2>3, <2>4, <2>5 DEF VerifyPage
<1>4. CASE VerifyEnd
  BY <1>4 DEF VerifyEnd, VerifyIdle, WalkHolds, AlarmHolds
<1>5. CASE PruneDelete
  <2>1. verify' = [verify EXCEPT !.raced = (verify.pc # "idle")]
    BY <1>5 DEF PruneDelete
  <2>2. verify'.pc = verify.pc /\ verify'.raced = (verify.pc # "idle")
    BY <1>1, <2>1 DEF VerifyState
  <2> QED
    BY <2>2 DEF WalkHolds, AlarmHolds
<1>6. CASE ~VerifyStep /\ ~PruneDelete
  <2>1. UNCHANGED <<anchor, verify>> /\ rows \subseteq rows' /\ (inverted => inverted')
    <3>1. CASE \E w \in Writers : WriterStep(w)
      <4>1. PICK w \in Writers : WriterStep(w)
        BY <3>1
      <4>2. CASE Stamp(w) \/ LockAndReadPrev(w) \/ DropRow(w)
        BY <4>2 DEF Stamp, LockAndReadPrev, DropRow, logVars, pruneVars
      <4>3. CASE Commit(w) \/ Rollback(w)
        BY <4>3 DEF Commit, Rollback, EndTransaction, pruneVars
      <4>4. CASE Insert(w)
        <5>1. UNCHANGED <<anchor, verify, rows>>
          BY <4>4 DEF Insert, pruneVars
        <5>2. inverted => inverted'
          BY <4>4, Zenon DEF Insert
        <5> QED
          BY <5>1, <5>2
      <4> QED
        BY <4>1, <4>2, <4>3, <4>4 DEF WriterStep
    <3>2. CASE \/ \E m \in 0..MaxMonth : ArchivePeriod(m)
               \/ PrunePlan \/ PruneAnchor \/ PruneAbort
      BY <3>2 DEF ArchivePeriod, PrunePlan, PruneAnchor, PruneAbort, logVars, pruneVars
    <3>3. CASE Tick \/ UNCHANGED vars
      BY <3>3 DEF Tick, vars, logVars, pruneVars
    <3> QED
      BY <1>6, <3>1, <3>2, <3>3 DEF Next, PruneStep
  <2>2. \A r \in rows' \ rows, s \in rows : s.seq < r.seq
    <3>1. CASE \E w \in Writers : Commit(w)
      BY <1>1, <3>1 DEF Commit, ForkInv, Numbering
    <3>2. CASE ~\E w \in Writers : Commit(w)
      <4>1. rows' = rows
        BY <1>6, <3>2 DEF Next, WriterStep, Stamp, LockAndReadPrev, Insert, DropRow, Rollback,
           ArchivePeriod, PruneStep, PrunePlan, PruneAnchor, PruneAbort, Tick, vars, logVars
      <4> QED
        BY <4>1
    <3> QED
      BY <3>1, <3>2
  <2>3. WalkHolds'
    BY <2>1, <2>2, WalkGrows
  <2>4. AlarmHolds'
    BY <2>1 DEF AlarmHolds, Sound, RestartSeen
  <2> QED
    BY <2>3, <2>4
<1> QED
  BY <1>2, <1>3, <1>4, <1>5, <1>6 DEF VerifyStep

\* A verification of untampered data reports a break only in the three
\* circumstances or when a prune committed during its walk: rows that are
\* committed between its pages, for any page size, do not disturb it.
THEOREM AlarmsAreTrue == Spec => []NoFalseAlarm
<1>1. Init => WalkHolds /\ AlarmHolds
  BY DEF Init, VerifyIdle, WalkHolds, AlarmHolds
<1>2. AlarmHolds => NoFalseAlarm
  BY DEF AlarmHolds, NoFalseAlarm, Sound, RestartSeen, Restarted, Numbered
<1> QED
  BY <1>1, <1>2, AlarmStep, InductiveInvariant, PTL DEF Spec
=============================================================================
