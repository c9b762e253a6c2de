----------------------------- MODULE TenantsProofs -----------------------------
(***************************************************************************)
(* What is proved of Tenants for any number of creations, changes and      *)
(* emails, under every combination of failures.                            *)
(***************************************************************************)
EXTENDS Tenants, TLAPS

CreationPlaces == {"idle", "pan", "secret", "create", "entry", "link", "done"}
ChangePlaces == {"idle", "transition", "record", "rotate", "touch", "email", "webhook", "get", "done"}

\* What the place of a creation says of Vault and of the tenant's document.
CreationsPlaced ==
  \A c \in Creations :
    /\ tpc[c] \in CreationPlaces
    /\ tpc[c] \in {"secret", "create"} \/ c \in tenants => c \in pans
    /\ tpc[c] = "create" \/ c \in tenants => secret[c] # NoValue
    /\ tpc[c] \in {"idle", "pan", "secret", "create"} => c \notin tenants
    /\ tpc[c] \in {"entry", "link"} => c \in tenants
    /\ c \notin tenants => state[c] = "PENDING_REVIEW" /\ \A h \in trail : h.tenant # c

\* A change under way is about a tenant that exists, and a transition about a move that
\* the table allowed.
ChangesPlaced ==
  \A q \in Changes :
    /\ tpc[q] \in ChangePlaces
    /\ tpc[q] \notin {"idle", "done"} => tenant[q] \in tenants
    /\ tpc[q] \in {"transition", "record"} =>
         local[q] \in Entries /\ local[q].tenant = tenant[q] /\ local[q].by = q
    /\ tpc[q] = "email" => local[q] \in Emails
    /\ tpc[q] = "webhook" => local[q] \in Setters

\* Without failures, the secret in Vault is one its owner was given or is about to be.
SecretsGiven ==
  tfaults = {} => \A c \in Creations : secret[c] \in Changes =>
    tpc[secret[c]] = "touch" \/ (tpc[secret[c]] = "done" /\ tanswer[secret[c]] = "202")

\* An entry that is in the history, or whose request is about to write it there.
Recording(c, h) ==
  \/ h \in trail /\ h.tenant = c
  \/ \E q \in Changes : tpc[q] = "record" /\ tenant[q] = c /\ h = local[q]
  \/ tpc[c] = "entry" /\ h = Creation(c)

\* Without failures, these entries explain the state: it is where one of them leads, and
\* each of them, and each transition that has read the state, starts where one leads.
StatesExplained ==
  tfaults = {} => \A c \in tenants :
    /\ \E h \in Entries : Recording(c, h) /\ h.to = state[c]
    /\ \A h \in Entries : Recording(c, h) => \E g \in Entries : Recording(c, g) /\ g.to = h.from
    /\ \A q \in Changes : tpc[q] = "transition" /\ tenant[q] = c =>
         \E g \in Entries : Recording(c, g) /\ g.to = local[q].from

TInv == TTypeOK /\ CreationsPlaced /\ ChangesPlaced /\ SecretsGiven /\ StatesExplained

\* The invariant says what is promised of a tenant.
LEMMA TInvSuffices == TInv => TenantsAreWhole
<1> SUFFICES ASSUME TInv, NEW c \in tenants
             PROVE  /\ HasSecrets(c)
                    /\ tfaults = {} /\ (\A r \in TRequests : tpc[r] \notin {"entry", "record"}) =>
                         IsExplained(c)
  BY DEF TenantsAreWhole
<1>1. HasSecrets(c)
  BY DEF HasSecrets, TInv, TTypeOK, CreationsPlaced, SecretsGiven
<1>2. ASSUME tfaults = {}, \A r \in TRequests : tpc[r] \notin {"entry", "record"}
      PROVE  IsExplained(c)
  <2>1. \A h \in Entries : Recording(c, h) => h \in trail /\ h.tenant = c
    BY <1>2 DEF Recording, TRequests, TInv, TTypeOK
  <2>2. \A h \in trail : h \in Entries /\ (h.tenant = c => Recording(c, h))
    BY DEF Recording, TInv, TTypeOK
  <2> QED
    BY <1>2, <2>1, <2>2 DEF IsExplained, TInv, StatesExplained
<1> QED
  BY <1>1, <1>2

\* A step that loses no entry, moves no state, records nothing new and lets no transition
\* read the state leaves the states explained.
NothingRecorded ==
  /\ tenants' = tenants /\ state' = state /\ tfaults' = tfaults
  /\ \A c \in tenants, h \in Entries : Recording(c, h)' <=> Recording(c, h)
  /\ \A q \in Changes : tpc'[q] = "transition" =>
       tpc[q] = "transition" /\ tenant'[q] = tenant[q] /\ local'[q] = local[q]

LEMMA ExplanationsKept ==
  ASSUME StatesExplained, NothingRecorded
  PROVE  StatesExplained'
<1> DEFINE Kept(c, h) == Recording(c, h)'
<1>1. \A c \in tenants, h \in Entries : Kept(c, h) <=> Recording(c, h)
  BY DEF NothingRecorded
<1> SUFFICES ASSUME tfaults = {}, NEW c \in tenants
             PROVE  /\ \E h \in Entries : Kept(c, h) /\ h.to = state[c]
                    /\ \A h \in Entries : Kept(c, h) => \E g \in Entries : Kept(c, g) /\ g.to = h.from
                    /\ \A q \in Changes : tpc'[q] = "transition" /\ tenant'[q] = c =>
                         \E g \in Entries : Kept(c, g) /\ g.to = local'[q].from
  BY DEF StatesExplained, NothingRecorded
<1> HIDE DEF Kept
<1> QED
  BY <1>1 DEF StatesExplained, NothingRecorded

\* The first entry of a tenant leads from and to the state it is created in.
LEMMA CreationIsEntry ==
  ASSUME NEW c \in Creations
  PROVE  /\ Creation(c) \in Entries /\ Creation(c).tenant = c
         /\ Creation(c).from = "PENDING_REVIEW" /\ Creation(c).to = "PENDING_REVIEW"
  BY TenantAssumption DEF Creation, Entry, Entries, Statuses, TRequests

LEMMA TInvHolds == TInit => TInv
<1> SUFFICES ASSUME TInit PROVE TInv
  OBVIOUS
<1> USE TenantAssumption DEF TInit
<1>1. webhook \in [Creations -> Setters]
  BY DEF Setters, TRequests
<1>2. TTypeOK
  BY <1>1 DEF TTypeOK, Statuses
<1>3. CreationsPlaced /\ ChangesPlaced /\ SecretsGiven /\ StatesExplained
  BY DEF CreationsPlaced, ChangesPlaced, SecretsGiven, StatesExplained, CreationPlaces, ChangePlaces, TRequests
<1> QED
  BY <1>2, <1>3 DEF TInv

LEMMA TInvKept == TInv /\ [TNext]_tvars => TInv'
<1> SUFFICES ASSUME TInv, [TNext]_tvars PROVE TInv'
  OBVIOUS
<1> USE TenantAssumption DEF TFails, TGoto, TAnswer, End, TRequests, tdocs, creds, wish
<1>1. ASSUME NEW c \in Creations, CheckEmail(c) PROVE TInv'
  <2>1. TTypeOK'
    BY <1>1 DEF CheckEmail, TInv, TTypeOK, CreationsPlaced, ChangesPlaced
  <2>2. CreationsPlaced' /\ ChangesPlaced'
    BY <1>1 DEF CheckEmail, TInv, TTypeOK, CreationsPlaced, ChangesPlaced, CreationPlaces, ChangePlaces
  <2>3. SecretsGiven'
    BY <1>1 DEF CheckEmail, TInv, TTypeOK, CreationsPlaced, ChangesPlaced, SecretsGiven
  <2>4. StatesExplained'
    <3>1. NothingRecorded
      BY <1>1 DEF CheckEmail, TInv, TTypeOK, CreationsPlaced, ChangesPlaced, NothingRecorded, Recording
    <3> QED
      BY <3>1, ExplanationsKept DEF TInv
  <2> QED
    BY <2>1, <2>2, <2>3, <2>4 DEF TInv
<1>2. ASSUME NEW c \in Creations, SavePan(c) PROVE TInv'
  <2>1. TTypeOK'
    BY <1>2 DEF SavePan, PanStored, TInv, TTypeOK, CreationsPlaced, ChangesPlaced
  <2>2. CreationsPlaced' /\ ChangesPlaced'
    BY <1>2 DEF SavePan, PanStored, TInv, TTypeOK, CreationsPlaced, ChangesPlaced, CreationPlaces, ChangePlaces
  <2>3. SecretsGiven'
    BY <1>2 DEF SavePan, PanStored, TInv, TTypeOK, CreationsPlaced, ChangesPlaced, SecretsGiven
  <2>4. StatesExplained'
    <3>1. NothingRecorded
      BY <1>2 DEF SavePan, PanStored, TInv, TTypeOK, CreationsPlaced, ChangesPlaced, NothingRecorded, Recording
    <3> QED
      BY <3>1, ExplanationsKept DEF TInv
  <2> QED
    BY <2>1, <2>2, <2>3, <2>4 DEF TInv
<1>3. ASSUME NEW c \in Creations, SaveSecret(c) PROVE TInv'
  <2>1. TTypeOK'
    BY <1>3 DEF SaveSecret, StoreSecret, TInv, TTypeOK, CreationsPlaced, ChangesPlaced
  <2>2. CreationsPlaced' /\ ChangesPlaced'
    BY <1>3 DEF SaveSecret, StoreSecret, TInv, TTypeOK, CreationsPlaced, ChangesPlaced, CreationPlaces, ChangePlaces
  <2>3. SecretsGiven'
    BY <1>3 DEF SaveSecret, StoreSecret, TInv, TTypeOK, CreationsPlaced, ChangesPlaced, SecretsGiven
  <2>4. StatesExplained'
    <3>1. NothingRecorded
      BY <1>3 DEF SaveSecret, StoreSecret, TInv, TTypeOK, CreationsPlaced, ChangesPlaced, NothingRecorded, Recording
    <3> QED
      BY <3>1, ExplanationsKept DEF TInv
  <2> QED
    BY <2>1, <2>2, <2>3, <2>4 DEF TInv
<1>4. ASSUME NEW c \in Creations, CreateTenant(c) PROVE TInv'
  <2>1. TTypeOK'
    BY <1>4 DEF CreateTenant, TInv, TTypeOK, CreationsPlaced, ChangesPlaced
  <2>2. CreationsPlaced' /\ ChangesPlaced'
    BY <1>4 DEF CreateTenant, TInv, TTypeOK, CreationsPlaced, ChangesPlaced, CreationPlaces, ChangePlaces
  <2>3. SecretsGiven'
    BY <1>4 DEF CreateTenant, TInv, TTypeOK, CreationsPlaced, ChangesPlaced, SecretsGiven
  <2>4. ASSUME UNCHANGED tenants PROVE StatesExplained'
    <3>1. CASE tfaults = {}
      <4>1. NothingRecorded
        BY <1>4, <2>4, <3>1 DEF CreateTenant, TInv, TTypeOK, CreationsPlaced, ChangesPlaced, NothingRecorded, Recording
      <4> QED
        BY <4>1, ExplanationsKept DEF TInv
    <3>2. CASE tfaults # {}
      BY <1>4, <3>2 DEF CreateTenant, StatesExplained
    <3> QED
      BY <3>1, <3>2
  <2>5. ASSUME ~UNCHANGED tenants PROVE StatesExplained'
    <3> SUFFICES ASSUME tfaults = {}, NEW b \in tenants \cup {c}
                 PROVE  /\ \E h \in Entries : Recording(b, h)' /\ h.to = state[b]
                        /\ \A h \in Entries : Recording(b, h)' => \E g \in Entries : Recording(b, g)' /\ g.to = h.from
                        /\ \A q \in Changes : tpc'[q] = "transition" /\ tenant'[q] = b =>
                             \E g \in Entries : Recording(b, g)' /\ g.to = local'[q].from
      BY <1>4 DEF CreateTenant, StatesExplained
    <3>1. c \notin tenants /\ tenants' = tenants \cup {c} /\ tpc' = [tpc EXCEPT ![c] = "entry"]
      BY <1>4, <2>5 DEF CreateTenant, TInv, CreationsPlaced
    <3>2. CASE b = c
      <4>1. \A h \in Entries : Recording(c, h)' <=> h = Creation(c)
        BY <1>4, <3>1, CreationIsEntry
        DEF CreateTenant, Recording, Creation, TInv, TTypeOK, CreationsPlaced, ChangesPlaced
      <4>2. \A q \in Changes : ~(tpc'[q] = "transition" /\ tenant'[q] = c)
        BY <1>4, <3>1 DEF CreateTenant, TInv, TTypeOK, ChangesPlaced
      <4>3. state[c] = "PENDING_REVIEW"
        BY <3>1 DEF TInv, CreationsPlaced
      <4> QED
        BY <3>2, <4>1, <4>2, <4>3, CreationIsEntry
    <3>3. CASE b # c /\ b \in tenants
      <4>1. \A h \in Entries : Recording(b, h)' <=> Recording(b, h)
        BY <1>4, <3>1, <3>3 DEF CreateTenant, Recording, Creation, TInv, TTypeOK
      <4>2. \A q \in Changes : tpc'[q] = "transition" =>
              tpc[q] = "transition" /\ tenant'[q] = tenant[q] /\ local'[q] = local[q]
        BY <1>4, <3>1 DEF CreateTenant, TInv, TTypeOK
      <4> QED
        BY <3>3, <4>1, <4>2 DEF TInv, StatesExplained
    <3> QED
      BY <3>2, <3>3
  <2> QED
    BY <2>1, <2>2, <2>3, <2>4, <2>5 DEF TInv
<1>5. ASSUME NEW c \in Creations, RecordCreation(c) PROVE TInv'
  <2>1. TTypeOK'
    BY <1>5, CreationIsEntry DEF RecordCreation, TInv, TTypeOK, CreationsPlaced, ChangesPlaced
  <2>2. CreationsPlaced' /\ ChangesPlaced'
    BY <1>5, CreationIsEntry DEF RecordCreation, TInv, TTypeOK, CreationsPlaced, ChangesPlaced, CreationPlaces, ChangePlaces
  <2>3. SecretsGiven'
    BY <1>5 DEF RecordCreation, TInv, TTypeOK, CreationsPlaced, ChangesPlaced, SecretsGiven
  <2>4. StatesExplained'
    <3>1. CASE tfaults = {}
      <4>1. \A b \in tenants, h \in Entries : Recording(b, h)' <=> Recording(b, h)
        BY <1>5, <3>1, CreationIsEntry DEF RecordCreation, Recording, Creation, TInv, TTypeOK
      <4>2. NothingRecorded
        BY <1>5, <4>1 DEF RecordCreation, NothingRecorded, TInv, TTypeOK
      <4> QED
        BY <4>2, ExplanationsKept DEF TInv
    <3>2. CASE tfaults # {}
      BY <1>5, <3>2 DEF RecordCreation, StatesExplained
    <3> QED
      BY <3>1, <3>2
  <2> QED
    BY <2>1, <2>2, <2>3, <2>4 DEF TInv
<1>6. ASSUME NEW c \in Creations, LinkCreator(c) PROVE TInv'
  <2>1. TTypeOK'
    BY <1>6 DEF LinkCreator, TInv, TTypeOK, CreationsPlaced, ChangesPlaced
  <2>2. CreationsPlaced' /\ ChangesPlaced'
    BY <1>6 DEF LinkCreator, TInv, TTypeOK, CreationsPlaced, ChangesPlaced, CreationPlaces, ChangePlaces
  <2>3. SecretsGiven'
    BY <1>6 DEF LinkCreator, TInv, TTypeOK, CreationsPlaced, ChangesPlaced, SecretsGiven
  <2>4. StatesExplained'
    <3>1. NothingRecorded
      BY <1>6 DEF LinkCreator, TInv, TTypeOK, CreationsPlaced, ChangesPlaced, NothingRecorded, Recording
    <3> QED
      BY <3>1, ExplanationsKept DEF TInv
  <2> QED
    BY <2>1, <2>2, <2>3, <2>4 DEF TInv
<1>7. ASSUME NEW q \in Changes, NotFound(q) PROVE TInv'
  <2>1. TTypeOK'
    BY <1>7 DEF NotFound, TInv, TTypeOK, CreationsPlaced, ChangesPlaced
  <2>2. CreationsPlaced' /\ ChangesPlaced'
    BY <1>7 DEF NotFound, TInv, TTypeOK, CreationsPlaced, ChangesPlaced, CreationPlaces, ChangePlaces
  <2>3. SecretsGiven'
    BY <1>7 DEF NotFound, TInv, TTypeOK, CreationsPlaced, ChangesPlaced, SecretsGiven
  <2>4. StatesExplained'
    <3>1. NothingRecorded
      BY <1>7 DEF NotFound, TInv, TTypeOK, CreationsPlaced, ChangesPlaced, NothingRecorded, Recording
    <3> QED
      BY <3>1, ExplanationsKept DEF TInv
  <2> QED
    BY <2>1, <2>2, <2>3, <2>4 DEF TInv
<1>8. ASSUME NEW q \in Changes, TransitionFind(q) PROVE TInv'
  <2>1. CASE End(q, "406")
    <3>1. UNCHANGED <<tdocs, creds, trail, tfaults>> /\ tpc[q] = "idle"
      BY <1>8 DEF TransitionFind
    <3>2. TTypeOK'
      BY <2>1, <3>1 DEF TInv, TTypeOK
    <3>3. CreationsPlaced' /\ ChangesPlaced'
      BY <2>1, <3>1 DEF TInv, TTypeOK, CreationsPlaced, ChangesPlaced, CreationPlaces, ChangePlaces
    <3>4. SecretsGiven' /\ NothingRecorded
      BY <2>1, <3>1 DEF TInv, TTypeOK, CreationsPlaced, ChangesPlaced, SecretsGiven, NothingRecorded, Recording
    <3> QED
      BY <3>2, <3>3, <3>4, ExplanationsKept DEF TInv
  <2>2. ASSUME NEW c \in tenants, NEW s \in Statuses, IsValidStateTransition(state[c], s),
               Begin(q, c, "transition", Entry(c, q, state[c], s))
        PROVE  TInv'
    <3> DEFINE e == Entry(c, q, state[c], s)
    <3>1. UNCHANGED <<tdocs, creds, trail, tfaults>> /\ tpc[q] = "idle"
      BY <1>8 DEF TransitionFind
    <3>2. e \in Entries /\ e.tenant = c /\ e.by = q /\ e.from = state[c] /\ e.to = s
      BY DEF Entry, Entries, TInv, TTypeOK
    <3> HIDE DEF e
    <3>3. /\ tpc' = [tpc EXCEPT ![q] = "transition"] /\ tanswer' = tanswer
          /\ tenant' = [tenant EXCEPT ![q] = c] /\ local' = [local EXCEPT ![q] = e]
      BY <2>2 DEF Begin, e
    <3>4. TTypeOK'
      BY <3>1, <3>2, <3>3 DEF TInv, TTypeOK
    <3>5. CreationsPlaced' /\ ChangesPlaced'
      BY <2>2, <3>1, <3>2, <3>3 DEF TInv, TTypeOK, CreationsPlaced, ChangesPlaced, CreationPlaces, ChangePlaces
    <3>6. SecretsGiven'
      BY <3>1, <3>3 DEF TInv, TTypeOK, SecretsGiven
    <3>7. StatesExplained'
      <4> SUFFICES ASSUME tfaults = {}, NEW b \in tenants
                   PROVE  /\ \E h \in Entries : Recording(b, h)' /\ h.to = state[b]
                          /\ \A h \in Entries : Recording(b, h)' => \E g \in Entries : Recording(b, g)' /\ g.to = h.from
                          /\ \A r \in Changes : tpc'[r] = "transition" /\ tenant'[r] = b =>
                               \E g \in Entries : Recording(b, g)' /\ g.to = local'[r].from
        BY <3>1 DEF StatesExplained
      <4>1. \A h \in Entries : Recording(b, h)' <=> Recording(b, h)
        BY <3>1, <3>3 DEF Recording, Creation, TInv, TTypeOK
      <4>2. /\ \E h \in Entries : Recording(b, h) /\ h.to = state[b]
            /\ \A r \in Changes : tpc[r] = "transition" /\ tenant[r] = b =>
                 \E g \in Entries : Recording(b, g) /\ g.to = local[r].from
        BY DEF TInv, StatesExplained
      <4>3. \A r \in Changes : tpc'[r] = "transition" /\ tenant'[r] = b =>
              \E g \in Entries : Recording(b, g) /\ g.to = local'[r].from
        BY <3>2, <3>3, <4>2 DEF TInv, TTypeOK
      <4> QED
        BY <4>1, <4>2, <4>3 DEF TInv, StatesExplained
    <3> QED
      BY <3>4, <3>5, <3>6, <3>7 DEF TInv
  <2> QED
    BY <1>8, <2>1, <2>2 DEF TransitionFind
<1>9. ASSUME NEW q \in Changes, TransitionWrite(q) PROVE TInv'
  <2>1. TTypeOK'
    <3>1. tenant[q] \in Creations /\ local[q] \in Entries /\ local[q].to \in Statuses
      BY <1>9 DEF TransitionWrite, TInv, TTypeOK, ChangesPlaced, Entries
    <3> QED
      BY <1>9, <3>1 DEF TransitionWrite, Moved, Keep, TInv, TTypeOK
  <2>2. CreationsPlaced' /\ ChangesPlaced'
    BY <1>9 DEF TransitionWrite, Moved, Keep, TInv, TTypeOK, CreationsPlaced, ChangesPlaced, CreationPlaces, ChangePlaces
  <2>3. SecretsGiven'
    BY <1>9 DEF TransitionWrite, Moved, Keep, TInv, TTypeOK, CreationsPlaced, ChangesPlaced, SecretsGiven
  <2>4. ASSUME tfaults = {}, NEW b \in tenants
        PROVE  /\ \E h \in Entries : Recording(b, h)' /\ h.to = state'[b]
               /\ \A h \in Entries : Recording(b, h)' => \E g \in Entries : Recording(b, g)' /\ g.to = h.from
               /\ \A r \in Changes : tpc'[r] = "transition" /\ tenant'[r] = b =>
                    \E g \in Entries : Recording(b, g)' /\ g.to = local'[r].from
    <3>1. /\ tpc[q] = "transition" /\ tpc' = [tpc EXCEPT ![q] = "record"] /\ UNCHANGED <<tenant, local, trail>>
          /\ state' = [state EXCEPT ![tenant[q]] = local[q].to] /\ local[q] \in Entries /\ tenant[q] \in Creations
      BY <1>9, <2>4 DEF TransitionWrite, Moved, Keep, TInv, TTypeOK, ChangesPlaced
    <3>2. \A h \in Entries : Recording(b, h)' <=> Recording(b, h) \/ (b = tenant[q] /\ h = local[q])
      BY <3>1 DEF Recording, Creation, TInv, TTypeOK
    <3>3. \A r \in Changes : tpc'[r] = "transition" => tpc[r] = "transition"
      BY <3>1 DEF TInv, TTypeOK
    <3>4. state'[b] = IF b = tenant[q] THEN local[q].to ELSE state[b]
      BY <3>1 DEF TInv, TTypeOK
    <3>5. /\ \E h \in Entries : Recording(b, h) /\ h.to = state[b]
          /\ \A h \in Entries : Recording(b, h) => \E g \in Entries : Recording(b, g) /\ g.to = h.from
          /\ \A r \in Changes : tpc[r] = "transition" /\ tenant[r] = b =>
               \E g \in Entries : Recording(b, g) /\ g.to = local[r].from
      BY <2>4 DEF TInv, StatesExplained
    <3> DEFINE Before(h) == Recording(b, h)
               After(h) == Recording(b, h)'
    <3>6. /\ \E h \in Entries : After(h) /\ h.to = state'[b]
          /\ \A h \in Entries : After(h) => \E g \in Entries : After(g) /\ g.to = h.from
          /\ \A r \in Changes : tpc'[r] = "transition" /\ tenant[r] = b =>
               \E g \in Entries : After(g) /\ g.to = local[r].from
      <4>1. /\ \A h \in Entries : After(h) <=> Before(h) \/ (b = tenant[q] /\ h = local[q])
            /\ \E h \in Entries : Before(h) /\ h.to = state[b]
            /\ \A h \in Entries : Before(h) => \E g \in Entries : Before(g) /\ g.to = h.from
            /\ \A r \in Changes : tpc[r] = "transition" /\ tenant[r] = b =>
                 \E g \in Entries : Before(g) /\ g.to = local[r].from
        BY <3>2, <3>5
      <4> HIDE DEF Before, After
      <4> QED
        BY <3>1, <3>3, <3>4, <4>1
    <3> QED
      BY <3>1, <3>6
  <2>5. StatesExplained'
    BY <1>9, <2>4 DEF TransitionWrite, StatesExplained
  <2> QED
    BY <2>1, <2>2, <2>3, <2>5 DEF TInv
<1>10. ASSUME NEW q \in Changes, TransitionRecord(q) PROVE TInv'
  <2>1. TTypeOK'
    BY <1>10, SMTT(30) DEF TransitionRecord, TInv, TTypeOK, CreationsPlaced, ChangesPlaced
  <2>2. CreationsPlaced' /\ ChangesPlaced'
    BY <1>10 DEF TransitionRecord, TInv, TTypeOK, CreationsPlaced, ChangesPlaced, CreationPlaces, ChangePlaces
  <2>3. SecretsGiven'
    BY <1>10 DEF TransitionRecord, TInv, TTypeOK, CreationsPlaced, ChangesPlaced, SecretsGiven
  <2>4. StatesExplained'
    <3>1. CASE tfaults = {}
      <4>1. local[q] \in Entries /\ local[q].tenant = tenant[q] /\ tpc[q] = "record"
        BY <1>10 DEF TransitionRecord, TInv, ChangesPlaced
      <4>2. \A b \in tenants, h \in Entries : Recording(b, h)' <=> Recording(b, h)
        BY <1>10, <3>1, <4>1 DEF TransitionRecord, Recording, Creation, TInv, TTypeOK
      <4>3. NothingRecorded
        BY <1>10, <4>2 DEF TransitionRecord, NothingRecorded, TInv, TTypeOK
      <4> QED
        BY <4>3, ExplanationsKept DEF TInv
    <3>2. CASE tfaults # {}
      BY <1>10, <3>2 DEF TransitionRecord, StatesExplained
    <3> QED
      BY <3>1, <3>2
  <2> QED
    BY <2>1, <2>2, <2>3, <2>4 DEF TInv
<1>11. ASSUME NEW q \in Changes, SecretFind(q) PROVE TInv'
  <2>1. TTypeOK'
    BY <1>11 DEF SecretFind, Begin, TInv, TTypeOK, CreationsPlaced, ChangesPlaced
  <2>2. CreationsPlaced' /\ ChangesPlaced'
    BY <1>11 DEF SecretFind, Begin, TInv, TTypeOK, CreationsPlaced, ChangesPlaced, CreationPlaces, ChangePlaces
  <2>3. SecretsGiven'
    BY <1>11 DEF SecretFind, Begin, TInv, TTypeOK, CreationsPlaced, ChangesPlaced, SecretsGiven
  <2>4. StatesExplained'
    <3>1. NothingRecorded
      BY <1>11 DEF SecretFind, Begin, TInv, TTypeOK, CreationsPlaced, ChangesPlaced, NothingRecorded, Recording
    <3> QED
      BY <3>1, ExplanationsKept DEF TInv
  <2> QED
    BY <2>1, <2>2, <2>3, <2>4 DEF TInv
<1>12. ASSUME NEW q \in Changes, SecretRotate(q) PROVE TInv'
  <2>1. TTypeOK'
    BY <1>12 DEF SecretRotate, SecretRotated, StoreSecret, Keep, TInv, TTypeOK, CreationsPlaced, ChangesPlaced
  <2>2. CreationsPlaced' /\ ChangesPlaced'
    BY <1>12 DEF SecretRotate, SecretRotated, StoreSecret, Keep, TInv, TTypeOK, CreationsPlaced, ChangesPlaced, CreationPlaces, ChangePlaces
  <2>3. SecretsGiven'
    BY <1>12 DEF SecretRotate, SecretRotated, StoreSecret, Keep, TInv, TTypeOK, CreationsPlaced, ChangesPlaced, SecretsGiven
  <2>4. StatesExplained'
    <3>1. NothingRecorded
      BY <1>12 DEF SecretRotate, SecretRotated, StoreSecret, Keep, TInv, TTypeOK, CreationsPlaced, ChangesPlaced, NothingRecorded, Recording
    <3> QED
      BY <3>1, ExplanationsKept DEF TInv
  <2> QED
    BY <2>1, <2>2, <2>3, <2>4 DEF TInv
<1>13. ASSUME NEW q \in Changes, SecretTouch(q) PROVE TInv'
  <2>1. TTypeOK'
    BY <1>13 DEF SecretTouch, TInv, TTypeOK, CreationsPlaced, ChangesPlaced
  <2>2. CreationsPlaced' /\ ChangesPlaced'
    BY <1>13 DEF SecretTouch, TInv, TTypeOK, CreationsPlaced, ChangesPlaced, CreationPlaces, ChangePlaces
  <2>3. SecretsGiven'
    BY <1>13 DEF SecretTouch, TInv, TTypeOK, CreationsPlaced, ChangesPlaced, SecretsGiven
  <2>4. StatesExplained'
    <3>1. NothingRecorded
      BY <1>13 DEF SecretTouch, TInv, TTypeOK, CreationsPlaced, ChangesPlaced, NothingRecorded, Recording
    <3> QED
      BY <3>1, ExplanationsKept DEF TInv
  <2> QED
    BY <2>1, <2>2, <2>3, <2>4 DEF TInv
<1>14. ASSUME NEW q \in Changes, EmailFind(q) PROVE TInv'
  <2>1. TTypeOK'
    BY <1>14 DEF EmailFind, Begin, TInv, TTypeOK, CreationsPlaced, ChangesPlaced
  <2>2. CreationsPlaced' /\ ChangesPlaced'
    BY <1>14 DEF EmailFind, Begin, TInv, TTypeOK, CreationsPlaced, ChangesPlaced, CreationPlaces, ChangePlaces
  <2>3. SecretsGiven'
    BY <1>14 DEF EmailFind, Begin, TInv, TTypeOK, CreationsPlaced, ChangesPlaced, SecretsGiven
  <2>4. StatesExplained'
    <3>1. NothingRecorded
      BY <1>14 DEF EmailFind, Begin, TInv, TTypeOK, CreationsPlaced, ChangesPlaced, NothingRecorded, Recording
    <3> QED
      BY <3>1, ExplanationsKept DEF TInv
  <2> QED
    BY <2>1, <2>2, <2>3, <2>4 DEF TInv
<1>15. ASSUME NEW q \in Changes, EmailWrite(q) PROVE TInv'
  <2>1. TTypeOK'
    BY <1>15 DEF EmailWrite, Renamed, TInv, TTypeOK, CreationsPlaced, ChangesPlaced
  <2>2. CreationsPlaced' /\ ChangesPlaced'
    BY <1>15 DEF EmailWrite, Renamed, TInv, TTypeOK, CreationsPlaced, ChangesPlaced, CreationPlaces, ChangePlaces
  <2>3. SecretsGiven'
    BY <1>15 DEF EmailWrite, Renamed, TInv, TTypeOK, CreationsPlaced, ChangesPlaced, SecretsGiven
  <2>4. StatesExplained'
    <3>1. NothingRecorded
      BY <1>15 DEF EmailWrite, Renamed, TInv, TTypeOK, CreationsPlaced, ChangesPlaced, NothingRecorded, Recording
    <3> QED
      BY <3>1, ExplanationsKept DEF TInv
  <2> QED
    BY <2>1, <2>2, <2>3, <2>4 DEF TInv
<1>16. ASSUME NEW q \in Changes, WebhookFind(q) PROVE TInv'
  <2>1. TTypeOK'
    BY <1>16 DEF WebhookFind, Begin, TInv, TTypeOK, CreationsPlaced, ChangesPlaced
  <2>2. CreationsPlaced' /\ ChangesPlaced'
    BY <1>16 DEF WebhookFind, Begin, TInv, TTypeOK, CreationsPlaced, ChangesPlaced, CreationPlaces, ChangePlaces
  <2>3. SecretsGiven'
    BY <1>16 DEF WebhookFind, Begin, TInv, TTypeOK, CreationsPlaced, ChangesPlaced, SecretsGiven
  <2>4. StatesExplained'
    <3>1. NothingRecorded
      BY <1>16 DEF WebhookFind, Begin, TInv, TTypeOK, CreationsPlaced, ChangesPlaced, NothingRecorded, Recording
    <3> QED
      BY <3>1, ExplanationsKept DEF TInv
  <2> QED
    BY <2>1, <2>2, <2>3, <2>4 DEF TInv
<1>17. ASSUME NEW q \in Changes, WebhookWrite(q) PROVE TInv'
  <2>1. TTypeOK'
    <3>1. tenant[q] \in Creations /\ local[q] \in Setters
      BY <1>17 DEF WebhookWrite, TInv, TTypeOK, ChangesPlaced
    <3>2. \A given \in SUBSET Fields : [f \in Fields |-> IF f \in given THEN q ELSE local[q][f]] \in Setters
      BY <3>1 DEF Setters
    <3>3. webhook' \in [Creations -> Setters]
      <4>1. PICK given \in SUBSET Fields :
              LET new == [f \in Fields |-> IF f \in given THEN q ELSE local[q][f]] IN
              webhook' = [webhook EXCEPT ![tenant[q]] = new] \/ webhook' = webhook
        BY <1>17 DEF WebhookWrite
      <4>2. [f \in Fields |-> IF f \in given THEN q ELSE local[q][f]] \in Setters
        BY <3>2
      <4> QED
        BY <3>1, <4>1, <4>2 DEF TInv, TTypeOK
    <3> QED
      BY <1>17, <3>3 DEF WebhookWrite, TInv, TTypeOK
  <2>2. CreationsPlaced' /\ ChangesPlaced'
    BY <1>17 DEF WebhookWrite, TInv, TTypeOK, CreationsPlaced, ChangesPlaced, CreationPlaces, ChangePlaces
  <2>3. SecretsGiven'
    BY <1>17 DEF WebhookWrite, TInv, TTypeOK, CreationsPlaced, ChangesPlaced, SecretsGiven
  <2>4. StatesExplained'
    <3>1. NothingRecorded
      BY <1>17 DEF WebhookWrite, TInv, TTypeOK, CreationsPlaced, ChangesPlaced, NothingRecorded, Recording
    <3> QED
      BY <3>1, ExplanationsKept DEF TInv
  <2> QED
    BY <2>1, <2>2, <2>3, <2>4 DEF TInv
<1>18. ASSUME NEW q \in Changes, GetFind(q) PROVE TInv'
  <2>1. TTypeOK'
    BY <1>18 DEF GetFind, Begin, TInv, TTypeOK, CreationsPlaced, ChangesPlaced
  <2>2. CreationsPlaced' /\ ChangesPlaced'
    BY <1>18 DEF GetFind, Begin, TInv, TTypeOK, CreationsPlaced, ChangesPlaced, CreationPlaces, ChangePlaces
  <2>3. SecretsGiven'
    BY <1>18 DEF GetFind, Begin, TInv, TTypeOK, CreationsPlaced, ChangesPlaced, SecretsGiven
  <2>4. StatesExplained'
    <3>1. NothingRecorded
      BY <1>18 DEF GetFind, Begin, TInv, TTypeOK, CreationsPlaced, ChangesPlaced, NothingRecorded, Recording
    <3> QED
      BY <3>1, ExplanationsKept DEF TInv
  <2> QED
    BY <2>1, <2>2, <2>3, <2>4 DEF TInv
<1>19. ASSUME NEW q \in Changes, GetAnswer(q) PROVE TInv'
  <2>1. TTypeOK'
    BY <1>19, SMTT(30) DEF GetAnswer, TInv, TTypeOK, CreationsPlaced, ChangesPlaced
  <2>2. CreationsPlaced' /\ ChangesPlaced'
    BY <1>19 DEF GetAnswer, TInv, TTypeOK, CreationsPlaced, ChangesPlaced, CreationPlaces, ChangePlaces
  <2>3. SecretsGiven'
    BY <1>19 DEF GetAnswer, TInv, TTypeOK, CreationsPlaced, ChangesPlaced, SecretsGiven
  <2>4. StatesExplained'
    <3>1. NothingRecorded
      BY <1>19 DEF GetAnswer, TInv, TTypeOK, CreationsPlaced, ChangesPlaced, NothingRecorded, Recording
    <3> QED
      BY <3>1, ExplanationsKept DEF TInv
  <2> QED
    BY <2>1, <2>2, <2>3, <2>4 DEF TInv
<1>20. ASSUME TCrash PROVE TInv'
  <2>1. TTypeOK'
    BY <1>20 DEF TCrash, TInv, TTypeOK, CreationsPlaced, ChangesPlaced
  <2>2. CreationsPlaced' /\ ChangesPlaced'
    BY <1>20 DEF TCrash, TInv, TTypeOK, CreationsPlaced, ChangesPlaced, CreationPlaces, ChangePlaces
  <2>3. SecretsGiven'
    BY <1>20 DEF TCrash, TInv, TTypeOK, CreationsPlaced, ChangesPlaced, SecretsGiven
  <2>4. StatesExplained'
    BY <1>20 DEF TCrash, TInv, TTypeOK, CreationsPlaced, ChangesPlaced, StatesExplained, Recording
  <2> QED
    BY <2>1, <2>2, <2>3, <2>4 DEF TInv
<1>21. ASSUME UNCHANGED tvars PROVE TInv'
  <2>1. TTypeOK'
    BY <1>21 DEF tvars, TInv, TTypeOK, CreationsPlaced, ChangesPlaced
  <2>2. CreationsPlaced' /\ ChangesPlaced'
    BY <1>21 DEF tvars, TInv, TTypeOK, CreationsPlaced, ChangesPlaced, CreationPlaces, ChangePlaces
  <2>3. SecretsGiven'
    BY <1>21 DEF tvars, TInv, TTypeOK, CreationsPlaced, ChangesPlaced, SecretsGiven
  <2>4. StatesExplained'
    <3>1. NothingRecorded
      BY <1>21 DEF tvars, TInv, TTypeOK, CreationsPlaced, ChangesPlaced, NothingRecorded, Recording
    <3> QED
      BY <3>1, ExplanationsKept DEF TInv
  <2> QED
    BY <2>1, <2>2, <2>3, <2>4 DEF TInv
<1> QED
  BY <1>1, <1>2, <1>3, <1>4, <1>5, <1>6, <1>7, <1>8, <1>9, <1>10, <1>11, <1>12, <1>13, <1>14, <1>15, <1>16, <1>17, <1>18, <1>19, <1>20, <1>21 DEF TNext

LEMMA TInvAlways == TSpec => []TInv
  BY TInvHolds, TInvKept, PTL DEF TSpec

\* Every variable keeps its type.
THEOREM TenantsTypeCorrect == TSpec => []TTypeOK
<1>1. TInv => TTypeOK
  BY DEF TInv
<1> QED
  BY <1>1, TInvAlways, PTL

\* A tenant that exists has its PAN and a client secret its owner was given, and a history
\* that explains its state, however creations and changes interleave and where they stop.
THEOREM TenantsAlwaysWhole == TSpec => []TenantsAreWhole
  BY TInvSuffices, TInvAlways, PTL
=============================================================================
