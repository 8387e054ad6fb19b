------------------------------ MODULE MCCommands -----------------------------
(***************************************************************************)
(* Three commands over one directory: an earlier run's files, a run that   *)
(* stops part of the way, and the run that must not take what it finds for *)
(* its own. The one component page is of a component that a scan may or    *)
(* may not hold, or is a file of the caller's.                             *)
(***************************************************************************)
EXTENDS Commands

CONSTANT Strangers     \* bound: paths taken by others before the first command

ASSUME MCCommandsAssumption == Strangers \in Nat

MCInit == Init /\ Cardinality({f \in Files : files[f] # Absent}) <= Strangers

MCSpec == MCInit /\ [][Next]_vars
=============================================================================
