------------------------------ MODULE MCOutbox ------------------------------
(* Outbox on small instances. *)
EXTENDS OutboxProperties, TLC

CONSTANTS l1, l2

MCLessonHour == (l1 :> 4) @@ (l2 :> 7)

\* Handlers' calls, with up to three failures; the evening of a teacher at UTC, of one without
\* an address, and of one an hour ahead, whose second lesson is on another day there.
MCSite ==
  LET calm == [offset |-> 0, address |-> TRUE, standing |-> {l1}, calls |-> 0, hours |-> 0,
               sweeps |-> 0, faults |-> 0]
      evening == [calm EXCEPT !.standing = {l1, l2}, !.sweeps = 2, !.hours = 4, !.faults = 1]
  IN {[calm EXCEPT !.standing = {}, !.calls = 3],
      [calm EXCEPT !.calls = 2, !.faults = 1],
      [calm EXCEPT !.calls = 1, !.faults = 3],
      [evening EXCEPT !.calls = 1],
      [evening EXCEPT !.address = FALSE],
      [evening EXCEPT !.offset = 1, !.hours = 7]}
=============================================================================
