------------------------------- MODULE MCDesk -------------------------------
(* Desk on small instances: days of eight steps, weeks of two days.        *)
EXTENDS DeskProperties, TLC

CONSTANTS r1, r2

UTC == [base |-> 0, at |-> 99, change |-> 0]
East == [base |-> 3, at |-> 99, change |-> 0]
West == [base |-> -4, at |-> 99, change |-> 0]
Spring == [base |-> 2, at |-> 17, change |-> 2]
Autumn == [base |-> 2, at |-> 19, change |-> -2]
FarWest == [base |-> -6, at |-> 99, change |-> 0]
MCViewer == {UTC, East, West, FarWest, Spring}

Window1(kind, day, from, to) == [kind |-> kind, day |-> day, from |-> from, to |-> to]
Row(id, v) == [id |-> id, kind |-> v.kind, day |-> v.day, from |-> v.from, to |-> v.to]

\* A teacher of each clock, with edits and bookings; one who is not verified; and the
\* reviews of a lesson.
MCSite ==
  LET rule == Window1("rule", 0, 2, 7)
      week == [zones |-> {UTC, East}, verified |-> TRUE, instant |-> TRUE,
               windows |-> {Row(1, rule)}, now |-> 3, ticks |-> 1, edits |-> 3, books |-> 0,
               lessons |-> 0, calls |-> 0,
               added |-> {Window1("rule", 1, 0, 4), Window1("rule", 1, 3, 7),
                          Window1("slot", 2, 0, 3), Window1("slot", 2, 2, 6),
                          Window1("off", 2, 0, 0), Window1("slot", 1, 5, 3)}]
      booking == [week EXCEPT !.edits = 0, !.ticks = 5, !.books = 2, !.instant = FALSE]
      clocks == [booking EXCEPT !.zones = {Spring, Autumn, West}, !.edits = 1,
                                !.added = {Window1("slot", 2, 1, 5)},
                                !.books = 2, !.ticks = 1, !.instant = TRUE]
      reviews == [week EXCEPT !.zones = {UTC}, !.windows = {}, !.ticks = 0, !.edits = 0]
  IN {week, booking, clocks,
      [week EXCEPT !.zones = {UTC}, !.verified = FALSE, !.edits = 1],
      [reviews EXCEPT !.lessons = 1, !.calls = 7]}
MCSymmetry == Permutations(Request)
=============================================================================
