-------------------------------- MODULE MCChat --------------------------------
(* Chat on small instances. *)
EXTENDS ChatProperties, TLC

MCSite == {[serial |-> TRUE, faults |-> FALSE, messages |-> 3],
           [serial |-> TRUE, faults |-> TRUE, messages |-> 2],
           [serial |-> FALSE, faults |-> FALSE, messages |-> 2]}

MCSymmetry == Permutations(Worker) \cup Permutations(Person)
=============================================================================
