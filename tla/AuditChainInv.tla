---------------------------- MODULE AuditChainInv ----------------------------
(***************************************************************************)
(* The inductive invariant behind NoFork and UntamperedChainVerifies.      *)
(***************************************************************************)
EXTENDS AuditChain

\* Only the holder of the advisory lock has computed a hash or holds rows back.
LockDiscipline ==
    /\ \A w \in Writers : pend[w] # {} => lock = w
    /\ \A w \in Writers : wpc[w] = "read" => lock = w
    /\ \A w \in Writers : wpc[w] = "idle" => pend[w] = {}

\* Numbers are handed out once and in order; committed rows precede held ones.
Numbering ==
    /\ Legacy < nextSeq
    /\ \A r \in Numbered : r.seq < nextSeq
    /\ \A r, s \in Numbered : r.seq = s.seq => r = s
    /\ \A w \in Writers : \A p \in pend[w], r \in rows : r.seq < p.seq

\* No row lies between a chained row and the row its hash names, and a hash
\* that was computed names the newest row.
NoSkip ==
    /\ \A r \in Numbered : r.seq > Legacy =>
         /\ r.prev < r.seq
         /\ \A s \in Numbered : ~(r.prev < s.seq /\ s.seq < r.seq)
    /\ \A w \in Writers : wpc[w] = "read" =>
         /\ prev[w] < nextSeq
         /\ \A s \in Numbered : s.seq <= prev[w]

ForkInv == LockDiscipline /\ Numbering /\ NoSkip

\* A running transaction stamped its rows this month or the month before.
Young == \A w \in Writers :
    /\ wpc[w] # "idle" => stamp[w] >= clock - 1
    /\ \A r \in pend[w] : r.month >= clock - 1

\* What audit:prune decided still holds when it deletes: every row up to a
\* planned month is in a planned month, and the anchor is the last row to go.
PlanHolds == ppc # "idle" =>
    /\ pcutoff <= clock - Retention
    /\ \A p \in plan : p < pcutoff
    /\ \A r \in Numbered, p \in plan : r.month <= p => r.month \in plan
    /\ ppc = "anchored" => \E d \in Prunable : Newest(Prunable, d) /\ panchor = d.seq

InOrder == \A r, s \in Numbered : r.seq < s.seq => r.month <= s.month

\* The pre-chain rows go together, with the first prune.
LegacyTogether == \A r \in Numbered : r.seq <= Legacy =>
    /\ r \in LegacyRows
    /\ anchor = Null

First(s) == \A r \in Numbered : s.seq <= r.seq
Anchored(n) == n = anchor \/ n = Null

\* Every chained row names a surviving row, or is the oldest and anchored.
Linked ==
    /\ \A s \in Numbered : s.seq > Legacy =>
         (\E r \in Numbered : r.seq = s.prev) \/ (First(s) /\ Anchored(s.prev))
    /\ \A w \in Writers : wpc[w] = "read" =>
         (\E r \in Numbered : r.seq = prev[w]) \/ (Numbered = {} /\ Anchored(prev[w]))

ChainInv == ~inverted /\ LegacyInOneMonth => InOrder /\ LegacyTogether /\ Linked

\* No row is committed late for a month that is archived, and only archived
\* months are planned.
ArchiveHolds ==
    /\ \A m \in archives : m < clock - Retention
    /\ \A r \in rows : r.month \in archives => r \in bundled
    /\ plan \subseteq archives

\* The rows a verification has walked over are those of the pages before, and it
\* goes on only after full pages, so rows committed meanwhile come later.
WalkHolds == verify.pc = "walk" /\ ~verify.raced =>
    /\ verify.anchor = anchor
    /\ verify.page * ChunkSize <= Cardinality(rows)
    /\ \A r \in rows : r.seq <= verify.last <=> Rank(r) < verify.page * ChunkSize
    /\ verify.last = Null \/ \E r \in rows : r.seq = verify.last
    /\ verify.started <=>
         (anchor # Null \/ \E r \in rows : r.seq <= verify.last /\ r.prev # Null)

\* Restarted as the committed rows show it, which only a prune can undo.
RestartSeen == anchor # Null /\ \E r \in rows : r.seq > Legacy /\ r.prev = Null
Sound == ~inverted /\ ~RestartSeen /\ LegacyInOneMonth

AlarmHolds == verify.pc = "broken" => verify.raced \/ ~Sound

IInv == TypeOK /\ ForkInv /\ Young /\ PlanHolds /\ ChainInv
=============================================================================
