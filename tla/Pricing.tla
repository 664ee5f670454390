------------------------------- MODULE Pricing -------------------------------
(***************************************************************************)
(* The arithmetic of ListingsService.computeQuote and of                   *)
(* computeCancellationRefund: what a rental costs and what its             *)
(* cancellation gives back.  Amounts are minor units; an instant is a slot *)
(* of a clock, SlotsPerDay of them to a day, so that a rental need not be  *)
(* a whole number of days.                                                 *)
(***************************************************************************)
EXTENDS Integers

CONSTANTS SlotsPerDay,
          CommissionBps   \* commissionRateBps of the listing's category

ASSUME PricingAssumption ==
    /\ SlotsPerDay \in Nat \ {0}
    /\ CommissionBps \in 0..10000

Quote == [rental : Nat, service : Nat, deposit : Nat]

\* Mutant: the two ends of the window swapped.
NightsBackwards(from, to) == (from - to) \div SlotsPerDay

\* max(1, ceil(days)).
Nights(from, to) ==
    LET nights == (to - from + SlotsPerDay - 1) \div SlotsPerDay
    IN  IF nights < 1 THEN 1 ELSE nights

\* Math.round of a non-negative quotient: halves go up.
Rounded(n, d) == (2 * n + d) \div (2 * d)

\* What the listing offers: priceMinor, and depositMinor per unit (0: none).
ComputeQuote(offer, from, to, quantity) ==
    LET rental == offer.price * Nights(from, to) * quantity
    IN  [rental  |-> rental,
         service |-> Rounded(rental * CommissionBps, 10000),
         deposit |-> offer.deposit * quantity]

Total(quote) == quote.rental + quote.service + quote.deposit

---------------------------------------------------------------------------
(* Cancellation. *)

Policies == {"flexible", "moderate", "strict"}

\* In percent, by the hours left until the start.
RefundPctFor(policy, hours) ==
    CASE policy = "flexible" -> IF hours >= 24 THEN 100 ELSE 50
      [] policy = "moderate" -> IF hours >= 72 THEN 100 ELSE IF hours >= 24 THEN 50 ELSE 0
      [] policy = "strict"   -> IF hours >= 168 THEN 100 ELSE 0

\* Mutant: the deposit is refunded and prorated as well.
RefundOfEverything(quote, policy, hours) ==
    quote.deposit + Rounded(Total(quote) * RefundPctFor(policy, hours), 100)

\* The deposit comes back whole; only the fees are prorated.
CancellationRefund(quote, policy, hours) ==
    quote.deposit + Rounded((Total(quote) - quote.deposit) * RefundPctFor(policy, hours), 100)
=============================================================================
