-------------------------- MODULE MCClientRequest --------------------------
(* Instances of ClientRequest for TLC. *)
EXTENDS ClientRequestInv, TLC

CONSTANTS w1, w2, b1

TwoWorkers == {w1, w2}
OneBrowser == {b1}
NoBrowser == {}
SomeDue == {Null, 4}
NoDue == {Null}

WorkerSymmetry == Permutations(TwoWorkers)
=============================================================================
