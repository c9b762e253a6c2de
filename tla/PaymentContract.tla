--------------------------- MODULE PaymentContract ---------------------------
(***************************************************************************)
(* What the payment service promises about money, without saying how.  A   *)
(* transaction is charged at most once; it is booked as a success only     *)
(* after it was charged; and a request is told "paid" only if it is the    *)
(* one that paid.  Two things the code does not promise: a booking may be  *)
(* lost again (a late writer overwrites it), and a request that was        *)
(* already told something else may still be charged (the switch executes   *)
(* a call the server gave up on).                                          *)
(***************************************************************************)
CONSTANTS Txs, Payers, None

VARIABLES
  charged,   \* the request each transaction was charged to, or None
  booked,    \* transactions whose stored status says success
  told       \* what each request has been told

vars == <<charged, booked, told>>

Init ==
  /\ charged = [t \in Txs |-> None]
  /\ booked = {}
  /\ told = [p \in Payers |-> "waiting"]

Charge(t, p) ==
  /\ charged[t] = None /\ told[p] # "paid"
  /\ charged' = [charged EXCEPT ![t] = p]
  /\ UNCHANGED <<booked, told>>

Book(t) ==
  /\ charged[t] # None
  /\ booked' = booked \cup {t}
  /\ UNCHANGED <<charged, told>>

Unbook(t) ==
  /\ booked' = booked \ {t}
  /\ UNCHANGED <<charged, told>>

TellPaid(p) ==
  /\ told[p] = "waiting"
  /\ \E t \in Txs : charged[t] = p
  /\ told' = [told EXCEPT ![p] = "paid"]
  /\ UNCHANGED <<charged, booked>>

\* Refused, failed, or never answered because the process stopped.
TellOther(P) ==
  /\ \A p \in P : told[p] = "waiting"
  /\ told' = [p \in Payers |-> IF p \in P THEN "other" ELSE told[p]]
  /\ UNCHANGED <<charged, booked>>

\* A write that threw after it reached the database ends the request too.
UnbookAndTell(t, p) ==
  /\ told[p] = "waiting"
  /\ booked' = booked \ {t}
  /\ told' = [told EXCEPT ![p] = "other"]
  /\ UNCHANGED charged

Next ==
  \/ \E t \in Txs, p \in Payers : Charge(t, p) \/ UnbookAndTell(t, p)
  \/ \E t \in Txs : Book(t) \/ Unbook(t)
  \/ \E p \in Payers : TellPaid(p)
  \/ \E P \in SUBSET Payers : TellOther(P)

Spec == Init /\ [][Next]_vars
=============================================================================
