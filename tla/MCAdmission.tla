---------------------------- MODULE MCAdmission ----------------------------
(* An instance of BookingAdmission for TLC. *)
EXTENDS BookingAdmission

CONSTANTS k1, k2

\* Two overlapping requests, one of them for two units of the listing.
TwoOverlapping ==
    [k \in Keys |-> IF k = k1 THEN [from |-> 0, to |-> 3, quantity |-> 1]
                              ELSE [from |-> 1, to |-> 4, quantity |-> 2]]

\* The first checkout is retried.
OneRetry == [k \in Keys |-> IF k = k1 THEN 2 ELSE 1]

\* Two units with a deposit, booked at once, or one without, on request.
TwoOffers == {[price |-> 3, deposit |-> 1, quantity |-> 2, mode |-> "instant"],
              [price |-> 4, deposit |-> 0, quantity |-> 1, mode |-> "request"]}

LaterBlock == {[from |-> 3, to |-> 4]}
=============================================================================
