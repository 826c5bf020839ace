----------------------------- MODULE MCReminders -----------------------------
(* The reminders on a small instance: a day of four ticks.                 *)
EXTENDS RemindersProperties, TLC

CONSTANTS b1, b2, w1, w2, h1

MCSymmetry == Permutations(Booking) \cup Permutations(Sweeper)
=============================================================================
