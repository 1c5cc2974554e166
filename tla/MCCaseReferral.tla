-------------------------- MODULE MCCaseReferral --------------------------
(* Instances of CaseReferral for TLC. *)
EXTENDS CaseReferralInv, TLC

CONSTANTS w1, w2, a1, a2

OneWorker == {w1}
TwoWorkers == {w1, w2}
OneCase == {1}
TwoCases == {1, 2}
OneAgency == {a1}
TwoAgencies == {a1, a2}
NoCase == {}
NoAgency == {}
FirstBlocked == {1}

WorkerSymmetry == Permutations(TwoWorkers)
=============================================================================
