------------------------------ MODULE MCRecords ------------------------------
(***************************************************************************)
(* What the system keeps and shows, on small sets: two tenants and three   *)
(* requests that create transactions, lists and figures of three documents,*)
(* two processes that start, the audit trail of two requests.  The modules *)
(* share no variable but the collection of lists and figures, so a         *)
(* behaviour follows one of them, and the others stay as they started.     *)
(***************************************************************************)
EXTENDS TransactionCreation, Dashboard, Bootstrap, Audit, TLC

CONSTANT MaxFigured   \* bounds the transactions that figures are of

VARIABLE part

Parts == {"creation", "lists", "figures", "start", "audit"}

\* A part that does not move starts in one state.  One list of each kind: of a merchant's
\* own, with documents dropped from a page, with the pages counted, and whole.
RecordsInit ==
  /\ part \in Parts
  /\ Init
  /\ LInit /\ FiguresStart
  /\ list \in {"transactions", "users", "audit", "terminals"}
  /\ list = "transactions" => viewer = [merchant |-> TRUE, userApp |-> FALSE]
  /\ part # "lists" => list = "transactions"
  /\ BootInit /\ (part # "start" => bootFaults = {} /\ configured)
  /\ AuditInit

RecordsNext ==
  \/ part = "creation" /\ Next /\ UNCHANGED <<lvars, bvars, bootVars, auditVars, part>>
  \/ part = "lists" /\ LNext /\ UNCHANGED <<vars, bvars, bootVars, auditVars, part>>
  \/ part = "figures" /\ BNext /\ Cardinality(Stored') <= MaxFigured
     /\ UNCHANGED <<vars, bootVars, auditVars, part>>
  \/ part = "start" /\ BootNext /\ UNCHANGED <<vars, lvars, bvars, auditVars, part>>
  \/ part = "audit" /\ AuditNext /\ UNCHANGED <<vars, lvars, bvars, bootVars, part>>

RecordsSpec == RecordsInit /\ [][RecordsNext]_<<vars, lvars, bvars, bootVars, auditVars, part>>

\* The parts use the same values, and so the same symmetry.
Symmetry == Permutations(Requests) \cup Permutations(Tenants)
=============================================================================
