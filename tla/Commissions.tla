----------------------------- MODULE Commissions -----------------------------
(***************************************************************************)
(* How the payment processor splits an amount, in centavos, before it      *)
(* sends it to the SGT (transaction-payment.processor.ts).  The code works *)
(* on doubles; for whole centavos Math.round(a * 0.025) is the integer     *)
(* expression below.                                                       *)
(***************************************************************************)
EXTENDS Integers

\* Mutant: the commission is truncated, not rounded.
CommissionTruncated(a) == (25 * a) \div 1000

\* cardholderAmountCents: 2.5% rounded to the nearest centavo, halves up.
Commission(a) == (25 * a + 500) \div 1000

\* settlementAmountCents: what the merchant receives.
Settlement(a) == a - Commission(a)

\* A commission is a nearest whole number of centavos to 2.5% of the amount.
IsNearest(c, a) == 40 * c - a \in -19 .. 20

\* Nothing is created or lost by the split, and it leaves the merchant no less
\* than nothing.
SplitsWell(a) ==
  /\ Commission(a) + Settlement(a) = a
  /\ IsNearest(Commission(a), a)
  /\ Settlement(a) \in 0 .. a
=============================================================================
