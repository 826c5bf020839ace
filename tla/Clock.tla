-------------------------------- MODULE Clock --------------------------------
(***************************************************************************)
(* Wall clocks.  Instants and wall times are counted in steps of the slot  *)
(* grid; a zone is ahead of UTC by "base", and from the instant "at" on by *)
(* "change" more: daylight saving begins (change > 0) or ends (change < 0).*)
(* Python compares two times of one zone by their wall times, and times of *)
(* different zones by their instants.                                      *)
(***************************************************************************)
EXTENDS Integers

CONSTANT DayLength  \* steps in a day

ASSUME DayAssumption == DayLength \in Nat \ {0}

Zone == [base : Int, at : Nat, change : Int]

Offset(z, t) == z.base + (IF t >= z.at THEN z.change ELSE 0)

\* timezone.localtime, and its date
WallOf(z, t) == t + Offset(z, t)
DateOf(z, t) == WallOf(z, t) \div DayLength

\* A date-time of the zone (fold = 0): of a repeated hour the first, and in a skipped hour
\* the clock is as it was before.
Instant(z, w) ==
  LET before == w - z.base
  IN IF before < z.at \/ before < z.at + z.change THEN before ELSE before - z.change

\* The offset of a repeated or skipped wall time depends on fold: Python holds such a time
\* for equal to no time of another zone.
Doubtful(z, w) ==
  LET before == w - z.base
  IN \/ z.at <= before /\ before < z.at + z.change
     \/ z.at + z.change <= before /\ before < z.at
=============================================================================
