--------------------------- MODULE MCNotifications ---------------------------
(* Notifications on small instances. *)
EXTENDS NotificationsProperties, TLC

CONSTANTS b1, b2, t1, t2

\* One booking on one page, handled one at a time by all handlers; and what differs from it.
One == [serial |-> TRUE, faults |-> FALSE, notes |-> 2, bookings |-> {b1}, tabs |-> {t1},
        handlers |-> Handled]
Answers == {"requested", "cancellation", "accept", "decline"}

MCSite == {[One EXCEPT !.notes = 3],
           [One EXCEPT !.bookings = {b1, b2}],
           [One EXCEPT !.faults = TRUE],
           [One EXCEPT !.tabs = {t1, t2}, !.handlers = Answers],
           [One EXCEPT !.serial = FALSE, !.faults = TRUE, !.notes = 3, !.tabs = {}],
           [One EXCEPT !.serial = FALSE, !.handlers = Answers]}

MCSymmetry == Permutations(Worker)
=============================================================================
