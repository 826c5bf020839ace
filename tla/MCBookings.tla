----------------------------- MODULE MCBookings -----------------------------
(* Bookings on a small instance: a window of three grid steps on one day.  *)
EXTENDS BookingsProperties, TLC

CONSTANTS r1, r2, s1, s2

MCWindows == {<<3, 5>>}
MCSymmetry == Permutations(Request) \cup Permutations(Student)
=============================================================================
