------------------------------ MODULE MCSecrets ------------------------------
(***************************************************************************)
(* The modules about what is kept in Vault and in Mongo at once, and the   *)
(* client of Vault, on small sets.  They share no variable: what the client*)
(* does shows to the others only as calls that fail.  So a behaviour       *)
(* follows one of them, and the others stay as they started.               *)
(***************************************************************************)
EXTENDS CardRegistration, VaultClient, DeviceKeys, Tenants, TLC

VARIABLE part

Parts == {"cards", "client", "devices", "tenants"}

\* A part that does not move starts in one state, up to symmetry.
Init ==
  /\ part \in Parts
  /\ CInit /\ (part # "cards" => cfaults = {} /\ \A r \in Registrations : holder[r] = CHOOSE h \in Holders : TRUE)
  /\ VInit /\ (part # "client" => ~wrapped /\ ~renewable /\ vfaults = {})
  /\ DInit /\ (part # "devices" => dfaults = {})
  /\ TInit /\ (part # "tenants" => tfaults = {})

Next ==
  \/ part = "cards" /\ CNext /\ UNCHANGED <<vvars, dvars, tvars, part>>
  \/ part = "client" /\ VNext /\ UNCHANGED <<cvars, dvars, tvars, part>>
  \/ part = "devices" /\ DNext /\ UNCHANGED <<cvars, vvars, tvars, part>>
  \/ part = "tenants" /\ TNext /\ UNCHANGED <<cvars, vvars, dvars, part>>

Spec == Init /\ [][Next]_<<cvars, vvars, dvars, tvars, part>>

\* The parts use the same values, and so one symmetry.
Symmetry == Permutations(Registrations) \cup Permutations(Devices) \cup Permutations(Owners)
=============================================================================
