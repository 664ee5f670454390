---------------------------- MODULE UnitCalendar ----------------------------
(***************************************************************************)
(* What the admission of bookings promises, and nothing of how: a checkout *)
(* is granted a unit for its window at most once, however often it is      *)
(* retried; two grants of one unit never overlap; a grant given back frees *)
(* its window, but not its checkout.                                       *)
(***************************************************************************)
EXTENDS Integers

CONSTANTS Keys,     \* the idempotency key of each checkout
          Units,    \* what a booking occupies: an asset, or the whole listing
          Slots     \* the instants a window may begin or end at

VARIABLES held,     \* the grants in force
          spent     \* the keys a grant was ever made for

Windows == [unit : Units, from : Slots, to : Slots]

Clash(g, h) == g.unit = h.unit /\ g.from < h.to /\ h.from < g.to

Init == held = {} /\ spent = {}

\* The grant of w to the checkout k.
Grant(k, w) == [key |-> k, unit |-> w.unit, from |-> w.from, to |-> w.to]

Admit ==
    \E k \in Keys \ spent :
        /\ spent' = spent \cup {k}
        /\ \E w \in Windows :
               /\ held' = held \cup {Grant(k, w)}
               /\ \A h \in held : ~Clash(w, h)

GiveBack ==
    /\ UNCHANGED spent
    /\ \E g \in held : held' = held \ {g}

Next == Admit \/ GiveBack

Spec == Init /\ [][Next]_<<held, spent>>
=============================================================================
