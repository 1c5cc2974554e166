----------------------------- MODULE CaseBoard -----------------------------
(***************************************************************************)
(* What the case workflow promises, without rows, locks or time: a case is *)
(* reviewed, opened, referred to agencies, and closed only when none of    *)
(* them still owes an answer.  Every step is one committed decision.       *)
(*                                                                         *)
(* It follows docs/PROJECT_RULES_v2.1.0.md, lines 111-115, as far as the   *)
(* code keeps it: the trash can take a case in any phase after review, the *)
(* purge can take it in any phase at all, and a restored case may come     *)
(* back with agencies waiting.                                             *)
(***************************************************************************)
CONSTANTS Cases, Agencies

VARIABLES
    phase,    \* where each case stands
    waiting   \* agencies that still owe the case an answer

vars == <<phase, waiting>>

Phases == {"ABSENT", "PENDING_REVIEW", "REJECTED", "OPEN", "CLOSED",
           "ARCHIVED", "TRASH", "GONE"}

TypeOK ==
    /\ phase \in [Cases -> Phases]
    /\ waiting \in [Cases -> SUBSET Agencies]

Init ==
    /\ phase = [c \in Cases |-> "ABSENT"]
    /\ waiting = [c \in Cases |-> {}]

Move(c, from, to) ==
    /\ phase[c] \in from
    /\ phase' = [phase EXCEPT ![c] = to]

File(c) == Move(c, {"ABSENT"}, "PENDING_REVIEW") /\ UNCHANGED waiting
Approve(c) == Move(c, {"PENDING_REVIEW"}, "OPEN") /\ UNCHANGED waiting
Reject(c) == Move(c, {"PENDING_REVIEW"}, "REJECTED") /\ UNCHANGED waiting

Refer(c, a) ==
    /\ phase[c] = "OPEN"
    /\ a \notin waiting[c]
    /\ waiting' = [waiting EXCEPT ![c] = @ \cup {a}]
    /\ UNCHANGED phase

\* An agency completes or rejects the referral, or it is deleted.
Settle(c, a) ==
    /\ a \in waiting[c]
    /\ waiting' = [waiting EXCEPT ![c] = @ \ {a}]
    /\ UNCHANGED phase

Close(c) == waiting[c] = {} /\ Move(c, {"OPEN"}, "CLOSED") /\ UNCHANGED waiting
Archive(c) == waiting[c] = {} /\ Move(c, {"CLOSED"}, "ARCHIVED") /\ UNCHANGED waiting
Reopen(c) == Move(c, {"CLOSED"}, "OPEN") /\ UNCHANGED waiting
Unarchive(c) == Move(c, {"ARCHIVED"}, "CLOSED") /\ UNCHANGED waiting

Trash(c) ==
    /\ Move(c, {"OPEN", "CLOSED", "ARCHIVED"}, "TRASH")
    /\ waiting' = [waiting EXCEPT ![c] = {}]

Restore(c) ==
    /\ Move(c, {"TRASH"}, "ARCHIVED")
    /\ \E A \in SUBSET Agencies : waiting' = [waiting EXCEPT ![c] = A]

Purge(c) ==
    /\ Move(c, {"OPEN", "CLOSED", "ARCHIVED", "TRASH"}, "GONE")
    /\ waiting' = [waiting EXCEPT ![c] = {}]

Next ==
    \E c \in Cases :
      \/ File(c) \/ Approve(c) \/ Reject(c)
      \/ \E a \in Agencies : Refer(c, a) \/ Settle(c, a)
      \/ Close(c) \/ Archive(c) \/ Reopen(c) \/ Unarchive(c)
      \/ Trash(c) \/ Restore(c) \/ Purge(c)

Spec == Init /\ [][Next]_vars
=============================================================================
