----------------------------- MODULE MCBooking -----------------------------
(* Instances of BookingLifecycle for TLC. *)
EXTENDS BookingProperties, TLC

CONSTANTS u1

\* One window, which both bookings ask for.
OneWindow == {<<1, 3>>}

\* Two windows side by side: only an extension of the first meets the second.
Adjacent == {<<1, 2>>, <<2, 3>>}

Interchangeable == Permutations(Workers) \cup Permutations(Bookings)
=============================================================================
