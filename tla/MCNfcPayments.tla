---------------------------- MODULE MCNfcPayments ----------------------------
(* NfcPayments on small sets of requests for one card.                     *)
EXTENDS NfcPayments, FiniteSets, TLC

CONSTANTS
  MostCalm,   \* how many requests a behaviour has, when no service fails
  MostFaulty  \* ... and when services fail

Started ==
  {e \in Enrolls \cup Revokes : epc[e] # "idle"}
    \cup {p \in Prepares : ppc[p] # "idle"}
    \cup {a \in Auths : apc[a] # "idle"}

FewRequests ==
  Cardinality(Started) <= IF faults = {} THEN MostCalm ELSE MostFaulty

Symmetry == Permutations(Enrolls) \cup Permutations(Revokes)
              \cup Permutations(Prepares) \cup Permutations(Auths)
=============================================================================
