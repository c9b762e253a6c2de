----------------------------- MODULE MCPayments -----------------------------
(* Payments on small sets of transactions and requests.                    *)
EXTENDS Payments, TLC

\* Requests of a kind are interchangeable, and so are transactions and ticks.
\* (Not used with liveness properties.)
Symmetry == Permutations(Txs) \cup Permutations(Confirms)
              \cup Permutations(Cancels) \cup Permutations(Ticks)
=============================================================================
