----------------------------- MODULE AuditChain -----------------------------
(***************************************************************************)
(* The append-only audit log of app/Models/AuditLog.php: writers that link *)
(* every new row to its predecessor by hash, the monthly archive and prune *)
(* jobs that move old rows to bundles, and the weekly verification walk.   *)
(*                                                                         *)
(* A database transaction is a writer that stamps a row with the current   *)
(* time, waits for the transaction-level advisory lock, reads the newest   *)
(* row, inserts, and finally commits or rolls back.  Each statement is a   *)
(* step; PostgreSQL runs them at READ COMMITTED.                           *)
(*                                                                         *)
(* Abstractions.  Time is the calendar month (the only unit the archive    *)
(* and prune jobs group by), and retention is counted in months.  Rows are *)
(* immutable here, so SHA-256 is taken as injective and a row's digest is  *)
(* its chain_seq; Null (0) is the absent prev_hash.  Bounds: MaxSeq rows   *)
(* are ever numbered and the clock stops at MaxMonth.                      *)
(***************************************************************************)
EXTENDS Integers, FiniteSets, Sequences

CONSTANTS
    Writers,        \* concurrent database transactions that write audit rows
    NoWriter,       \* value of the advisory lock when nobody holds it
    Retention,      \* audit_retention_days, in months
    LegacyMonths,   \* months of the rows that predate the hash chain
    StartMonth,     \* month in which the modelled system starts
    ChunkSize,      \* rows read per query of audit:verify (1000 in the code)
    MaxSeq,         \* bound: rows ever numbered
    MaxMonth        \* bound: last month of the clock

ASSUME WritersAssumption == NoWriter \notin Writers
ASSUME RetentionAssumption == Retention \in Nat \ {0}
ASSUME ChunkAssumption == ChunkSize \in Nat \ {0}
ASSUME BoundsAssumption == MaxSeq \in Nat /\ MaxMonth \in Nat /\ StartMonth \in Nat
ASSUME LegacyAssumption ==
    /\ LegacyMonths \in Seq(Nat)
    /\ \A i, j \in DOMAIN LegacyMonths :
         i <= j => LegacyMonths[i] <= LegacyMonths[j]
    /\ \A i \in DOMAIN LegacyMonths : LegacyMonths[i] <= StartMonth

Null == 0
Row == [seq : Nat \ {0}, month : Nat, prev : Nat]

Legacy == Len(LegacyMonths)
LegacyRows == {[seq |-> i, month |-> LegacyMonths[i], prev |-> Null] : i \in 1..Legacy}

VARIABLES
    clock,      \* the current month
    nextSeq,    \* the chain_seq sequence; a rollback does not give numbers back
    rows,       \* committed rows of audit_logs
    lock,       \* holder of pg_advisory_xact_lock('audit_log_chain')
    wpc,        \* where each writer's transaction stands
    stamp,      \* month of the row a writer is about to insert
    prev,       \* prev_hash a writer has computed for it
    pend,       \* uncommitted rows of each writer
    archives,   \* months with a finalized audit_archives row
    bundled,    \* rows written to the archive disk
    anchor,     \* anchor_hash of the latest audit_chain_checkpoints row
    ppc,        \* where audit:prune stands
    plan,       \* months it decided to delete
    pcutoff,    \* its cutoff, resolved once per run
    panchor,    \* anchor_hash of its uncommitted checkpoint
    verify,     \* local state of audit:verify
    inverted    \* history: a row entered the chain after a row of a later month

logVars == <<nextSeq, rows, pend>>
writerVars == <<lock, wpc, stamp, prev>>
pruneVars == <<anchor, ppc, plan, pcutoff, panchor>>
archiveVars == <<archives, bundled>>
vars == <<clock, logVars, writerVars, archiveVars, pruneVars, verify, inverted>>

VerifyState == [pc : {"idle", "walk", "broken", "intact"}, anchor : Nat, page : Nat,
                last : Nat, started : BOOLEAN, raced : BOOLEAN]
VerifyIdle == [pc |-> "idle", anchor |-> Null, page |-> 0, last |-> Null,
               started |-> FALSE, raced |-> FALSE]

Init ==
    /\ clock = StartMonth
    /\ nextSeq = Legacy + 1
    /\ rows = LegacyRows
    /\ lock = NoWriter
    /\ wpc = [w \in Writers |-> "idle"]
    /\ stamp = [w \in Writers |-> 0]
    /\ prev = [w \in Writers |-> Null]
    /\ pend = [w \in Writers |-> {}]
    /\ archives = {}
    /\ bundled = {}
    /\ anchor = Null
    /\ ppc = "idle"
    /\ plan = {}
    /\ pcutoff = 0
    /\ panchor = Null
    /\ verify = VerifyIdle
    /\ inverted = FALSE

Newest(S, r) == r \in S /\ \A s \in S : s.seq <= r.seq
Uncommitted == UNION {pend[w] : w \in Writers}
Numbered == rows \union Uncommitted

-----------------------------------------------------------------------------
(* Writers: AuditLogger::write, AuditObserver::log, AuditLog::creating. *)

\* Mutation: the row is stamped with the previous month.
StampLastMonth(w) ==
    /\ wpc[w] \in {"idle", "open"}
    /\ wpc' = [wpc EXCEPT ![w] = "stamped"]
    /\ stamp' = [stamp EXCEPT ![w] = clock - 1]
    /\ UNCHANGED <<clock, logVars, lock, prev, archiveVars, pruneVars, verify, inverted>>

\* The caller builds the row: 'timestamp' => now(), before any lock is taken.
Stamp(w) ==
    /\ wpc[w] \in {"idle", "open"}
    /\ wpc' = [wpc EXCEPT ![w] = "stamped"]
    /\ stamp' = [stamp EXCEPT ![w] = clock]
    /\ UNCHANGED <<clock, logVars, lock, prev, archiveVars, pruneVars, verify, inverted>>

\* Mutation: the lock is released when the statement that took it ends.
LockForOneStatement(w) ==
    /\ wpc[w] = "stamped"
    /\ lock = NoWriter
    /\ wpc' = [wpc EXCEPT ![w] = "read"]
    /\ LET visible == rows \union pend[w] IN
         \/ visible = {} /\ prev' = [prev EXCEPT ![w] = Null]
         \/ \E r \in visible : Newest(visible, r) /\ prev' = [prev EXCEPT ![w] = r.seq]
    /\ UNCHANGED <<clock, logVars, lock, stamp, archiveVars, pruneVars, verify, inverted>>

\* The creating hook: take the advisory lock, then read the newest visible row.
LockAndReadPrev(w) ==
    /\ wpc[w] = "stamped"
    /\ lock \in {NoWriter, w}
    /\ lock' = w
    /\ wpc' = [wpc EXCEPT ![w] = "read"]
    /\ LET visible == rows \union pend[w] IN
         \/ visible = {} /\ prev' = [prev EXCEPT ![w] = Null]
         \/ \E r \in visible : Newest(visible, r) /\ prev' = [prev EXCEPT ![w] = r.seq]
    /\ UNCHANGED <<clock, logVars, stamp, archiveVars, pruneVars, verify, inverted>>

Insert(w) ==
    /\ wpc[w] = "read"
    /\ nextSeq <= MaxSeq
    /\ pend' = [pend EXCEPT ![w] =
                  @ \union {[seq |-> nextSeq, month |-> stamp[w], prev |-> prev[w]]}]
    /\ nextSeq' = nextSeq + 1
    /\ prev' = [prev EXCEPT ![w] = Null]
    /\ wpc' = [wpc EXCEPT ![w] = "open"]
    /\ inverted' = (inverted \/ \E r \in Numbered : r.month > stamp[w])
    /\ UNCHANGED <<clock, rows, lock, stamp, archiveVars, pruneVars, verify>>

\* A failed insert rolls back to the observer's savepoint and the caller goes
\* on; the advisory lock goes too when this savepoint was the one that took it.
DropRow(w) ==
    /\ wpc[w] = "read"
    /\ wpc' = [wpc EXCEPT ![w] = "open"]
    /\ lock' = IF pend[w] = {} THEN NoWriter ELSE lock
    /\ prev' = [prev EXCEPT ![w] = Null]
    /\ UNCHANGED <<clock, logVars, stamp, archiveVars, pruneVars, verify, inverted>>

\* Mutation: a session-level lock, which the end of a transaction keeps.
EndKeepingLock(w) ==
    /\ wpc' = [wpc EXCEPT ![w] = "idle"]
    /\ pend' = [pend EXCEPT ![w] = {}]
    /\ stamp' = [stamp EXCEPT ![w] = 0]
    /\ prev' = [prev EXCEPT ![w] = Null]
    /\ UNCHANGED <<clock, nextSeq, lock, archiveVars, pruneVars, verify, inverted>>

EndTransaction(w) ==
    /\ wpc' = [wpc EXCEPT ![w] = "idle"]
    /\ lock' = IF lock = w THEN NoWriter ELSE lock
    /\ pend' = [pend EXCEPT ![w] = {}]
    /\ stamp' = [stamp EXCEPT ![w] = 0]
    /\ prev' = [prev EXCEPT ![w] = Null]
    /\ UNCHANGED <<clock, nextSeq, archiveVars, pruneVars, verify, inverted>>

Commit(w) ==
    /\ wpc[w] = "open"
    /\ rows' = rows \union pend[w]
    /\ EndTransaction(w)

\* An exception, a deadlock abort or a killed process ends the transaction.
Rollback(w) ==
    /\ wpc[w] \in {"stamped", "read", "open"}
    /\ UNCHANGED rows
    /\ EndTransaction(w)

-----------------------------------------------------------------------------
(* audit:archive and audit:prune. *)

RowsOf(m) == {r \in rows : r.month = m}

\* archivePeriod: one full month before the cutoff's month goes to a bundle.
\* Months already finalized are skipped, and a failed upload finalizes nothing.
ArchivePeriod(m) ==
    /\ m < clock - Retention
    /\ RowsOf(m) # {}
    /\ m \notin archives
    /\ archives' = archives \union {m}
    /\ bundled' = bundled \union RowsOf(m)
    /\ UNCHANGED <<clock, logVars, writerVars, pruneVars, verify, inverted>>

Expired(cutoff) == {r.month : r \in {s \in rows : s.month < cutoff}}

\* Mutation: the plan does not ask for a finalized bundle.
PrunePlanUnarchived ==
    /\ ppc = "idle"
    /\ clock >= Retention
    /\ \E P \in SUBSET Expired(clock - Retention) :
         /\ P # {}
         /\ \A m \in Expired(clock - Retention), p \in P : m <= p => m \in P
         /\ plan' = P
    /\ pcutoff' = clock - Retention
    /\ ppc' = "planned"
    /\ UNCHANGED <<clock, logVars, writerVars, archiveVars, anchor, panchor, verify, inverted>>

\* Any oldest-first run of expired months may be chosen: the loop stops at the
\* first month without a finalized bundle or whose stored checksum fails.
PrunePlan ==
    /\ ppc = "idle"
    /\ clock >= Retention
    /\ \E P \in SUBSET (archives \intersect Expired(clock - Retention)) :
         /\ P # {}
         /\ \A m \in Expired(clock - Retention), p \in P : m <= p => m \in P
         /\ plan' = P
    /\ pcutoff' = clock - Retention
    /\ ppc' = "planned"
    /\ UNCHANGED <<clock, logVars, writerVars, archiveVars, anchor, panchor, verify, inverted>>

Prunable == {r \in rows : r.month \in plan /\ r.month < pcutoff}

\* Mutation: the anchor is the oldest row to delete.
PruneAnchorOldest ==
    /\ ppc = "planned"
    /\ \E r \in Prunable : (\A s \in Prunable : r.seq <= s.seq) /\ panchor' = r.seq
    /\ ppc' = "anchored"
    /\ UNCHANGED <<clock, logVars, writerVars, archiveVars, anchor, plan, pcutoff, verify, inverted>>

\* First statements of the prune transaction: find the row with the highest
\* chain_seq among those to delete and insert a checkpoint with its digest.
PruneAnchor ==
    /\ ppc = "planned"
    /\ \E r \in Prunable : Newest(Prunable, r) /\ panchor' = r.seq
    /\ ppc' = "anchored"
    /\ UNCHANGED <<clock, logVars, writerVars, archiveVars, anchor, plan, pcutoff, verify, inverted>>

PruneDone == ppc' = "idle" /\ plan' = {} /\ pcutoff' = 0 /\ panchor' = Null

\* The mass delete and the commit that makes it and the checkpoint visible.
PruneDelete ==
    /\ ppc = "anchored"
    /\ rows' = rows \ Prunable
    /\ anchor' = panchor
    /\ PruneDone
    /\ verify' = [verify EXCEPT !.raced = (verify.pc # "idle")]
    /\ UNCHANGED <<clock, nextSeq, pend, writerVars, archiveVars, inverted>>

\* The confirmation is refused, or the process dies before its commit.
PruneAbort ==
    /\ ppc \in {"planned", "anchored"}
    /\ PruneDone
    /\ UNCHANGED <<clock, logVars, writerVars, archiveVars, anchor, verify, inverted>>

-----------------------------------------------------------------------------
(* audit:verify: the checkpoint first, then OFFSET pages, no transaction. *)

Rank(r) == Cardinality({s \in rows : s.seq < r.seq})
\* Mutation: the offset of a page is one too far.
PageOffByOne(n) == {r \in rows : Rank(r) \in (n * ChunkSize + 1)..((n + 1) * ChunkSize)}
Page(n) == {r \in rows : Rank(r) \in (n * ChunkSize)..((n + 1) * ChunkSize - 1)}

VerifyStart ==
    /\ verify.pc = "idle"
    /\ verify' = [VerifyIdle EXCEPT !.pc = "walk", !.anchor = anchor, !.started = (anchor # Null)]
    /\ UNCHANGED <<clock, logVars, writerVars, archiveVars, pruneVars, inverted>>

\* The walk accepts row r of page P: the first row must carry the checkpoint's
\* anchor when there is one, a row of the leading run without a hash is only
\* counted, and any other row must carry its predecessor's digest.
Predecessor(P, r) ==
    LET before == {s.seq : s \in {q \in P : q.seq < r.seq}} \union {verify.last}
    IN  CHOOSE n \in before : \A k \in before : k <= n
StartedAt(P, r) == verify.started \/ \E q \in P : q.seq < r.seq /\ q.prev # Null
Accepts(P, r) ==
    LET p == Predecessor(P, r) IN
    IF p = Null THEN verify.anchor = Null \/ r.prev = verify.anchor
    ELSE (~StartedAt(P, r) /\ r.prev = Null) \/ r.prev = p

VerifyPage ==
    /\ verify.pc = "walk"
    /\ LET P == Page(verify.page) IN
         \/ /\ \E r \in P : ~Accepts(P, r)
            /\ verify' = [verify EXCEPT !.pc = "broken"]
         \/ /\ \A r \in P : Accepts(P, r)
            /\ \E r \in P : Newest(P, r) /\ verify' =
                 [verify EXCEPT !.pc = IF Cardinality(P) < ChunkSize THEN "intact" ELSE "walk",
                                !.page = @ + 1,
                                !.last = r.seq,
                                !.started = @ \/ \E q \in P : q.prev # Null]
         \/ P = {} /\ verify' = [verify EXCEPT !.pc = "intact"]
    /\ UNCHANGED <<clock, logVars, writerVars, archiveVars, pruneVars, inverted>>

VerifyEnd ==
    /\ verify.pc \in {"broken", "intact"}
    /\ verify' = VerifyIdle
    /\ UNCHANGED <<clock, logVars, writerVars, archiveVars, pruneVars, inverted>>

-----------------------------------------------------------------------------
\* Time passes.  No transaction stays open across two month ends.
Tick ==
    /\ clock < MaxMonth
    /\ \A w \in Writers : wpc[w] # "idle" =>
         stamp[w] = clock /\ \A r \in pend[w] : r.month = clock
    /\ clock' = clock + 1
    /\ UNCHANGED <<logVars, writerVars, archiveVars, pruneVars, verify, inverted>>

WriterStep(w) ==
    Stamp(w) \/ LockAndReadPrev(w) \/ Insert(w) \/ DropRow(w) \/ Commit(w) \/ Rollback(w)
PruneStep == PrunePlan \/ PruneAnchor \/ PruneDelete \/ PruneAbort
VerifyStep == VerifyStart \/ VerifyPage \/ VerifyEnd

Next ==
    \/ \E w \in Writers : WriterStep(w)
    \/ \E m \in 0..MaxMonth : ArchivePeriod(m)
    \/ PruneStep
    \/ VerifyStep
    \/ Tick

Spec == Init /\ [][Next]_vars

\* PostgreSQL serves advisory-lock waiters in order, and every transaction that
\* is past its lock ends: the request finishes, fails, or its connection closes.
\* Nothing makes a waiter give up.
Finish(w) == wpc[w] # "stamped" /\ (Commit(w) \/ Rollback(w))
Fairness == \A w \in Writers : SF_vars(LockAndReadPrev(w)) /\ SF_vars(Finish(w))
FairSpec == Spec /\ Fairness

-----------------------------------------------------------------------------
\* Every row, stamp and job variable keeps its type: numbers, months and hashes
\* of the writers, of audit:archive, audit:prune and audit:verify stay natural.
TypeOK ==
    /\ clock \in Nat
    /\ nextSeq \in Nat \ {0}
    /\ rows \subseteq Row
    /\ lock \in Writers \union {NoWriter}
    /\ wpc \in [Writers -> {"idle", "stamped", "read", "open"}]
    /\ stamp \in [Writers -> Nat]
    /\ prev \in [Writers -> Nat]
    /\ pend \in [Writers -> SUBSET Row]
    /\ archives \subseteq Nat
    /\ bundled \subseteq Row
    /\ anchor \in Nat
    /\ ppc \in {"idle", "planned", "anchored"}
    /\ plan \subseteq Nat
    /\ pcutoff \in Int
    /\ panchor \in Nat
    /\ verify \in VerifyState
    /\ inverted \in BOOLEAN

-----------------------------------------------------------------------------
(* Safety. *)

\* No two chained rows carry the hash of the same predecessor: two concurrent
\* transactions cannot fork the chain (the lock is held from the predecessor
\* read to the commit of the outer transaction).
NoFork == \A r, s \in rows :
    r.seq > Legacy /\ s.seq > Legacy /\ r.prev = s.prev => r = s

\* A row written when the table had been pruned empty starts a second chain.
Restarted == anchor # Null /\ \E r \in Numbered : r.seq > Legacy /\ r.prev = Null
LegacyInOneMonth == \A i, j \in DOMAIN LegacyMonths : LegacyMonths[i] = LegacyMonths[j]

\* What an undisturbed audit:verify over the committed rows would accept.
ChainIntact == \A s \in rows :
    LET before == {r \in rows : r.seq < s.seq} IN
    IF before = {} THEN anchor # Null => s.prev = anchor
    ELSE \/ \E r \in before : Newest(before, r) /\ s.prev = r.seq
         \/ anchor = Null /\ s.prev = Null /\ \A r \in before : r.prev = Null

\* Nobody tampers in this model, so the chain always verifies: commits,
\* rollbacks, archiving and pruning leave the surviving rows linked and the
\* oldest of them anchored at the checkpoint.  Three circumstances break it and
\* are hypotheses here: months out of chain order, a table pruned empty, and
\* pre-chain rows of several months.
UntamperedChainVerifies ==
    ~inverted /\ ~Restarted /\ LegacyInOneMonth => ChainIntact

\* audit:verify reads the checkpoint and the pages in separate statements.  It
\* reports a break on untampered data only in the three circumstances above or
\* when a prune committed during its walk.
NoFalseAlarm == verify.pc = "broken" =>
    verify.raced \/ inverted \/ Restarted \/ ~LegacyInOneMonth

(* Action properties. *)

\* Rows become visible in chain order: a commit never adds a row older than one
\* already committed, so no reader sees the chain grow in its middle.
CommitsAppend == [][\A r \in rows' \ rows, s \in rows : s.seq < r.seq]_vars

\* Only rows that reached a bundle are ever deleted, although months are
\* archived and pruned while transactions that stamped older rows still run.
OnlyArchivedRowsPruned == [][rows \ rows' \subseteq bundled]_vars

(* Liveness. *)

\* A transaction waiting for the chain lock gets it: no rolled-back, failed or
\* finished transaction keeps it.
LockIsServed == \A w \in Writers : wpc[w] = "stamped" ~> wpc[w] # "stamped"
=============================================================================
