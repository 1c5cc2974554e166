--------------------------- MODULE MCAuditChain ---------------------------
(* Instances of AuditChain for TLC. *)
EXTENDS AuditChainInv, TLC

CONSTANTS w1, w2

MCWriters == {w1, w2}
WriterSymmetry == Permutations(MCWriters)

NoLegacy == <<>>
OneLegacy == <<0>>
TwoLegacyMonths == <<0, 1>>
=============================================================================
