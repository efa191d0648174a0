---------------------------- MODULE IngestLedger ----------------------------
(***************************************************************************)
(* What durable import promises to its readers, whatever the source and    *)
(* whoever reads it: records only ever accumulate, and the progress a      *)
(* source has recorded never runs ahead of the records that are visible.   *)
(* (docs/architecture/storage.md: "A failed batch therefore cannot         *)
(* advertise progress beyond visible events".)                             *)
(***************************************************************************)
EXTENDS Naturals

CONSTANTS Sources, None

VARIABLES
  stored,   \* <<generation, offset>> of every record that is visible
  mark      \* per source: None, or <<generation, number of records covered>>

vars == <<stored, mark>>

Covered(m, records) ==
  m = None \/ \A i \in 0 .. m[2] - 1 : <<m[1], i>> \in records

Init ==
  /\ stored = {}
  /\ mark = [s \in Sources |-> None]

\* One batch: its records and the new mark of its source appear together.
Advance(s) ==
  /\ stored \subseteq stored'
  /\ \A t \in Sources \ {s} : mark'[t] = mark[t]
  /\ mark'[s] # None
  /\ Covered(mark'[s], stored')

Next == \E s \in Sources : Advance(s)

Spec == Init /\ [][Next]_vars
=============================================================================
