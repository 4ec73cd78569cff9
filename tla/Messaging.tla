----------------------------- MODULE Messaging -----------------------------
(***************************************************************************)
(* How an event gets from one service to another: the outbox and its relay *)
(* (shared/outbox.py), the broker, and the consumer (shared/messaging.py). *)
(*                                                                         *)
(* The events followed have one key, so the broker keeps them in one       *)
(* partition, or under one ordering key, in the order they were sent; and  *)
(* one consuming service, since consumer groups know nothing of each other.*)
(* What a handler does with an event is left to the modules that extend    *)
(* this one: Handled, LateCommit and RestartsAfterCommit are conjoined     *)
(* with it there.                                                          *)
(***************************************************************************)
EXTENDS Naturals, FiniteSets, SequencesExt

CONSTANTS
    Relays,        \* replicas of the publishing service, each with its relay
    MaxEvents,     \* bound on the events of the key
    BatchSize,
    MaxTrouble     \* bound on failed sends and handlers, timeouts and restarts

ASSUME MessagingAssumption ==
    /\ BatchSize \in Nat \ {0}
    /\ {MaxEvents, MaxTrouble} \subseteq Nat

VARIABLES
    transport,  \* MESSAGING_TRANSPORT, which no step changes
    outbox,     \* the rows of the outbox with this key, by id
    relay,      \* relay[r]: the batch of r's relay
    log,        \* the rows the broker has taken, in order, as ids
    pos,        \* the message of the log the consumer handles next
    committed,  \* where it goes on after a restart
    late,       \* messages whose handler went on after its timeout
    failed,     \* messages not acknowledged when last handled (history)
    overtaken,  \* did a late handler commit?  (history)
    applied,    \* messages a handler committed (history)
    trouble

relayVars == <<transport, outbox, relay, log>>
consumerVars == <<pos, committed, late, failed, overtaken, applied>>
messagingVars == <<transport, outbox, relay, log, pos, committed, late, failed, overtaken, applied, trouble>>

Events == DOMAIN outbox
Trouble == trouble < MaxTrouble /\ trouble' = trouble + 1

\* The rows SELECTed, those still to send, those sent.
Batch == [rows : SUBSET (1..MaxEvents), todo : SUBSET (1..MaxEvents), sent : SUBSET (1..MaxEvents)]
NoBatch == [rows |-> {}, todo |-> {}, sent |-> {}]

MessagingInit ==
    /\ transport \in {"kafka", "pubsub"}
    /\ outbox = <<>>
    /\ relay = [r \in Relays |-> NoBatch]
    /\ log = <<>>
    /\ pos = 1 /\ committed = 1
    /\ late = {} /\ failed = {} /\ applied = {}
    /\ overtaken = FALSE
    /\ trouble = 0

-----------------------------------------------------------------------------

(* The outbox *)

\* In the transaction that changes the row the event is about.
record_event(payload) ==
    /\ Len(outbox) < MaxEvents
    /\ outbox' = Append(outbox, [payload |-> payload, published |-> FALSE])
    /\ UNCHANGED <<transport, relay, log, consumerVars, trouble>>

\* FOR UPDATE SKIP LOCKED: rows of another relay's batch are passed over.
Pending(r) == {n \in Events : ~outbox[n].published /\ \A s \in Relays \ {r} : n \notin relay[s].rows}

\* The oldest, LIMIT batch_size.
Rows(r) == {n \in Pending(r) : Cardinality({m \in Pending(r) : m < n}) < BatchSize}

\* Mutant: the relay waits until a batch is full.
TakeFullBatch(r) ==
    /\ relay[r] = NoBatch
    /\ Cardinality(Rows(r)) = BatchSize
    /\ relay' = [relay EXCEPT ![r] = [rows |-> Rows(r), todo |-> Rows(r), sent |-> {}]]
    /\ UNCHANGED <<transport, outbox, log, consumerVars, trouble>>

TakeBatch(r) ==
    /\ relay[r] = NoBatch
    /\ Rows(r) # {}
    /\ relay' = [relay EXCEPT ![r] = [rows |-> Rows(r), todo |-> Rows(r), sent |-> {}]]
    /\ UNCHANGED <<transport, outbox, log, consumerVars, trouble>>

Due(r) == CHOOSE n \in relay[r].todo : \A m \in relay[r].todo : n <= m

SendSucceeds(r) ==
    /\ relay[r].todo # {}
    /\ log' = Append(log, Due(r))
    /\ relay' = [relay EXCEPT ![r].todo = @ \ {Due(r)}, ![r].sent = @ \cup {Due(r)}]
    /\ UNCHANGED <<transport, outbox, consumerVars, trouble>>

\* An exception, which may be a timeout of what the broker did take.
SendFails(r) ==
    /\ relay[r].todo # {}
    /\ Trouble
    /\ log' \in {log, Append(log, Due(r))}
    /\ relay' = [relay EXCEPT ![r].todo = @ \ {Due(r)}]
    /\ UNCHANGED <<transport, outbox, consumerVars>>

Marked(r) == relay[r].sent

BatchCommits(r) ==
    /\ relay[r].rows # {} /\ relay[r].todo = {}
    /\ outbox' = [n \in Events |-> [outbox[n] EXCEPT !.published = @ \/ n \in Marked(r)]]
    /\ relay' = [relay EXCEPT ![r] = NoBatch]
    /\ UNCHANGED <<transport, log, consumerVars, trouble>>

\* A restart or a failed batch: the locks go, what was sent stays sent.
BatchLost(r) ==
    /\ relay[r] # NoBatch
    /\ Trouble
    /\ relay' = [relay EXCEPT ![r] = NoBatch]
    /\ UNCHANGED <<transport, outbox, log, consumerVars>>

\* The relay's loop, pass after pass.
Relay(r) == TakeBatch(r) \/ SendSucceeds(r) \/ BatchCommits(r)

RelayStep == \E r \in Relays : Relay(r) \/ SendFails(r) \/ BatchLost(r)

(* The consumer *)

Payload(k) == outbox[log[k]].payload

Acknowledge == pos' = pos + 1 /\ committed' = pos + 1

\* Mutant: the message is acknowledged all the same.
PassedOver == Acknowledge

\* Not acknowledged: Kafka's iterator goes on to the next message, Pub/Sub
\* delivers this one again before any other with its ordering key.
NotAcknowledged == pos' = (IF transport = "kafka" THEN pos + 1 ELSE pos) /\ UNCHANGED committed

Handled ==
    /\ pos <= Len(log)
    /\ Acknowledge
    /\ applied' = applied \cup {pos}
    /\ failed' = failed \ {pos}
    /\ UNCHANGED <<relayVars, late, overtaken, trouble>>

HandlerFails ==
    /\ pos <= Len(log)
    /\ Trouble
    /\ NotAcknowledged
    /\ failed' = failed \cup {pos}
    /\ UNCHANGED <<relayVars, late, overtaken, applied>>

\* result(timeout) gives up; the coroutine is not cancelled and goes on with
\* what it has read.
HandlerTimesOut(read) ==
    /\ pos <= Len(log)
    /\ Trouble
    /\ NotAcknowledged
    /\ failed' = failed \cup {pos}
    /\ late' = late \cup {[message |-> pos, read |-> read]}
    /\ UNCHANGED <<relayVars, overtaken, applied>>

LateCommit(l) ==
    /\ l \in late
    /\ late' = late \ {l}
    /\ overtaken' = TRUE
    /\ applied' = applied \cup {l.message}
    /\ UNCHANGED <<relayVars, pos, committed, failed, trouble>>

\* A restart, when the message at hand has changed nothing yet, or between
\* its handler's commit and its acknowledgement.
Restarts ==
    /\ Trouble
    /\ pos' = committed
    /\ late' = {}
    /\ UNCHANGED <<relayVars, committed, failed, overtaken, applied>>

RestartsAfterCommit ==
    /\ Trouble
    /\ pos <= Len(log)
    /\ pos' = committed
    /\ late' = {}
    /\ applied' = applied \cup {pos}
    /\ UNCHANGED <<relayVars, committed, failed, overtaken>>

-----------------------------------------------------------------------------

MessagingTypeOK ==
    /\ \A n \in Events : outbox[n].published \in BOOLEAN
    /\ Len(outbox) <= MaxEvents
    /\ relay \in [Relays -> Batch]
    /\ log \in Seq(Events)
    /\ pos \in 1..Len(log) + 1 /\ committed \in 1..pos
    /\ {l.message : l \in late} \cup applied \cup failed \subseteq DOMAIN log
    /\ \A r, s \in Relays : r # s => relay[r].rows \cap relay[s].rows = {}

\* messaging.py:16-23 promises of every transport "at-least-once" and that "a handler
\* that raises leaves the message unacknowledged for redelivery".  On Pub/Sub it is so:
\* what a restart does not repeat was handled.  On Kafka it is not: a message that
\* failed is passed by the commit of one that succeeded after it, and never repeated.
\* Nothing else is passed unhandled.
PassedIsHandled ==
    \A k \in 1..committed - 1 : k \in applied \/ (transport = "kafka" /\ k \in failed)

\* "A running service is enough to guarantee delivery": again and again the
\* broker has whatever is in the outbox, failed sends and restarts
\* notwithstanding.
EverythingGoesOut == []<>(Events \subseteq Range(log))

=============================================================================
