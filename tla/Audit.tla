------------------------------- MODULE Audit -------------------------------
(***************************************************************************)
(* The audit trail of a request (audit.service.ts, audit.interceptor.ts    *)
(* and the two adapters): handlers log events while they run, which are    *)
(* saved in the background; the answer is captured after it was sent, and  *)
(* written a moment later to the events of that x-request-id.  A client    *)
(* may send the same x-request-id again.                                   *)
(*                                                                         *)
(* An event is named by its request and the order in which it was logged.  *)
(***************************************************************************)
EXTENDS Naturals, FiniteSets

CONSTANTS
  Calls,      \* HTTP requests
  Ids,        \* what clients send as x-request-id
  NoCall,
  MaxEvents,  \* bounds the events of a request
  Latest,     \* how many events the update looks at (5)
  Delay,      \* how long it waits first (50 ms)
  Window,     \* how old an event may be (5 s)
  Horizon,    \* bounds the clock
  AuditFaults

ASSUME AuditAssumption ==
  /\ NoCall \notin Calls /\ MaxEvents \in Nat /\ Latest \in Nat \ {0}
  /\ Delay \in Nat /\ Window \in Nat /\ Horizon \in Nat
  /\ AuditFaults \subseteq SUBSET {"db", "crash"}

Events == Calls \X (1..MaxEvents)

VARIABLES
  clock,
  apc,      \* where each call is
  id,       \* its requestId, once it runs
  logged,   \* how many events it has logged
  saving,   \* events that are being saved
  saved,    \* the audit_events collection
  at,       \* createdAt of each event that is not lost, else 0
  shows,    \* the call whose answer an event shows, or NoCall
  since,    \* when the answer of a call that waits was captured, else 0
  todo,     \* the events an update found without an answer and has not come to
  prompt,   \* history: a call's update found all its events
  searched, \* history: when it looked for them
  auditFaults

auditVars == <<clock, apc, id, logged, saving, saved, at, shows, since, todo, prompt, searched,
               auditFaults>>

AuditTypeOK ==
  /\ clock \in 0..Horizon
  /\ apc \in [Calls -> {"idle", "running", "answered", "waiting", "updating", "updated", "over"}]
  /\ id \in [Calls -> Ids \cup {NoCall}] /\ logged \in [Calls -> 0..MaxEvents]
  /\ saving \in SUBSET Events /\ saved \in SUBSET Events
  /\ at \in [Events -> 0..Horizon] /\ shows \in [Events -> Calls \cup {NoCall}]
  /\ since \in [Calls -> 0..Horizon] /\ todo \in [Calls -> SUBSET Events]
  /\ prompt \in [Calls -> BOOLEAN] /\ searched \in [Calls -> 0..Horizon]
  /\ auditFaults \in AuditFaults

AuditInit ==
  /\ clock = 0
  /\ apc = [c \in Calls |-> "idle"]
  /\ id = [c \in Calls |-> NoCall]
  /\ logged = [c \in Calls |-> 0]
  /\ saving = {} /\ saved = {}
  /\ at = [e \in Events |-> 0] /\ shows = [e \in Events |-> NoCall]
  /\ since = [c \in Calls |-> 0] /\ todo = [c \in Calls |-> {}]
  /\ prompt = [c \in Calls |-> FALSE] /\ searched = [c \in Calls |-> 0]
  /\ auditFaults \in AuditFaults

AuditFails(what) == what \in auditFaults

-----------------------------------------------------------------------------

AGoto(c, l) == apc' = [apc EXCEPT ![c] = l]

StartCall(c) ==
  /\ apc[c] = "idle" /\ AGoto(c, "running")
  /\ \E i \in Ids : id' = [id EXCEPT ![c] = i]
  /\ UNCHANGED <<clock, logged, saving, saved, at, shows, since, todo, prompt, searched, auditFaults>>

\* logAllow, logDeny and logError: the event is emitted, and its save begins.
LogEvent(c) ==
  /\ apc[c] = "running" /\ logged[c] < MaxEvents
  /\ logged' = [logged EXCEPT ![c] = @ + 1]
  /\ saving' = saving \cup {<<c, logged'[c]>>}
  /\ at' = [at EXCEPT ![<<c, logged'[c]>>] = clock]
  /\ UNCHANGED <<clock, apc, id, saved, shows, since, todo, prompt, searched, auditFaults>>

\* The five seconds after which the save is given up on only change what is written to the
\* console: it goes on.
Save(e) ==
  /\ e \in saving /\ saving' = saving \ {e}
  /\ \/ saved' = saved \cup {e} /\ UNCHANGED at
     \/ AuditFails("db") /\ UNCHANGED saved /\ at' = [at EXCEPT ![e] = 0]
  /\ UNCHANGED <<clock, apc, id, logged, shows, since, todo, prompt, searched, auditFaults>>

\* The handler returns, or throws, and then no answer is captured.
Return(c) ==
  /\ apc[c] = "running" /\ (AGoto(c, "answered") \/ AGoto(c, "over"))
  /\ UNCHANGED <<clock, id, logged, saving, saved, at, shows, since, todo, prompt, searched, auditFaults>>

\* setImmediate, and 'audit.response-captured'.
Capture(c) ==
  /\ apc[c] = "answered" /\ AGoto(c, "waiting")
  /\ since' = [since EXCEPT ![c] = clock]
  /\ UNCHANGED <<clock, id, logged, saving, saved, at, shows, todo, prompt, searched, auditFaults>>

\* Mutant: events of that requestId, however old.
OfAnyAge(c) == {e \in saved : id[e[1]] = id[c]}

OfRequest(c) == {e \in saved : id[e[1]] = id[c] /\ at[e] + Window >= clock}

\* sort and limit: the latest ones, in any order those of the same time.
AreLatest(es, c) ==
  /\ es \subseteq OfRequest(c)
  /\ Cardinality(es) = IF Cardinality(OfRequest(c)) < Latest THEN Cardinality(OfRequest(c)) ELSE Latest
  /\ \A e \in es, f \in OfRequest(c) \ es : at[e] >= at[f]

FindEvents(c) ==
  /\ apc[c] = "waiting" /\ clock >= since[c] + Delay
  /\ \/ \E es \in SUBSET OfRequest(c) :
          /\ AreLatest(es, c) /\ AGoto(c, "updating")
          /\ todo' = [todo EXCEPT ![c] = {e \in es : shows[e] = NoCall}]
          /\ prompt' = [prompt EXCEPT ![c] = \A i \in 1..logged[c] : <<c, i>> \in es]
          /\ searched' = [searched EXCEPT ![c] = clock]
     \/ AuditFails("db") /\ AGoto(c, "over") /\ UNCHANGED <<todo, prompt, searched>>
  /\ since' = [since EXCEPT ![c] = 0]
  /\ UNCHANGED <<clock, id, logged, saving, saved, at, shows, auditFaults>>

\* One event after the other, the latest first; one that cannot be saved ends it.
UpdateEvent(c) ==
  /\ apc[c] = "updating"
  /\ \/ \E e \in todo[c] :
          /\ \A f \in todo[c] : at[e] >= at[f]
          /\ \/ shows' = [shows EXCEPT ![e] = c] /\ todo' = [todo EXCEPT ![c] = @ \ {e}] /\ UNCHANGED apc
             \/ /\ AuditFails("db") /\ shows' \in {shows, [shows EXCEPT ![e] = c]}
                /\ todo' = [todo EXCEPT ![c] = {}] /\ AGoto(c, "over")
     \/ todo[c] = {} /\ AGoto(c, "updated") /\ UNCHANGED <<shows, todo>>
  /\ UNCHANGED <<clock, id, logged, saving, saved, at, since, prompt, searched, auditFaults>>

Tick ==
  /\ clock < Horizon /\ clock' = clock + 1
  /\ UNCHANGED <<apc, id, logged, saving, saved, at, shows, since, todo, prompt, searched, auditFaults>>

\* The process stops, and what has not been saved is lost.
StopAudit ==
  /\ AuditFails("crash")
  /\ apc' = [c \in Calls |-> IF apc[c] \in {"idle", "updated"} THEN apc[c] ELSE "over"]
  /\ saving' = {} /\ todo' = [c \in Calls |-> {}] /\ since' = [c \in Calls |-> 0]
  /\ at' = [e \in Events |-> IF e \in saved THEN at[e] ELSE 0]
  /\ prompt' = [c \in Calls |-> prompt[c] /\ apc'[c] = "updated"]
  /\ UNCHANGED <<clock, id, logged, saved, shows, searched, auditFaults>>

AuditNext ==
  \/ \E c \in Calls : \/ StartCall(c) \/ LogEvent(c) \/ Return(c)
                      \/ Capture(c) \/ FindEvents(c) \/ UpdateEvent(c)
  \/ \E e \in Events : Save(e)
  \/ Tick \/ StopAudit

AuditSpec == AuditInit /\ [][AuditNext]_auditVars

-----------------------------------------------------------------------------
(* Properties.                                                             *)

\* An event shows no answer but its own request's, or, as long as clients use their
\* x-request-id again within Window of it only, that of such a request; and all events of a
\* request that its update found have an answer when the update has ended.
EventsShowAnswers ==
  /\ \A e \in saved : shows[e] \notin {NoCall, e[1]} =>
       /\ id[shows[e]] = id[e[1]]
       /\ searched[shows[e]] <= at[e] + Window
  /\ \A c \in Calls : apc[c] = "updated" /\ prompt[c] =>
       \A i \in 1..logged[c] : shows[<<c, i>>] # NoCall
=============================================================================
