------------------------------ MODULE JobLedger ------------------------------
(***************************************************************************)
(* What the persistent job queue promises of its file, independently of    *)
(* loops, locks, crashes and writes that fail: a job's durable record only *)
(* ever moves forward through its life.  A job appears once, is tried some *)
(* number of times that never goes down, reaches at most one of the two    *)
(* final states, and may then be purged, for good.                         *)
(***************************************************************************)
EXTENDS Naturals

CONSTANT Keys       \* the identities of the jobs ever submitted

VARIABLE ledger     \* what the file records of each job

Stages == {"absent", "open", "done", "dead", "purged"}

Entry == [stage : Stages, tries : Nat]

(* Forward(e, f): entry e may later read f.                                *)
Forward(e, f) ==
    \/ e = f
    \/ e.stage = "absent"
    \/ e.stage = "open" /\ f.stage \in Stages \ {"absent"} /\ f.tries >= e.tries
    \/ e.stage \in {"done", "dead"} /\ f.stage = "purged" /\ f.tries = e.tries

Init == ledger = [k \in Keys |-> [stage |-> "absent", tries |-> 0]]

(* One rename of the file: several jobs may have moved since the last one  *)
(* that succeeded.                                                         *)
Write ==
    /\ ledger' \in [Keys -> Entry]
    /\ \A k \in Keys : Forward(ledger[k], ledger'[k])

Spec == Init /\ [][Write]_ledger
==============================================================================
