------------------------ MODULE NotificationPipeline ------------------------
(***************************************************************************)
(* The notification-service's consumers and its stored notifications       *)
(* (consumer.go, notification_repository.go, notification_handler.go).     *)
(*                                                                         *)
(* Every event goes through a fanout exchange to the queue ticket_created, *)
(* which the replicas share, and to one exclusive queue per connected      *)
(* replica.  consumePersist stores the events that are for one user;       *)
(* consumeBroadcast hands every event to the replica's WebSocket hub.      *)
(*                                                                         *)
(* The broker pushes without limit (no Qos): a delivered message waits in  *)
(* the client's buffer.  When a connection dies the broker requeues what   *)
(* was not acknowledged, while the replica may still be working on it and  *)
(* on its buffer, until it notices; acknowledging is then without effect.  *)
(* Failed dials and declarations leave everything as it was.               *)
(***************************************************************************)
EXTENDS Naturals, Sequences, FiniteSets

CONSTANTS
    Replicas,
    Events,      \* published messages
    Users,
    Null,
    QueueTypes,  \* values of RABBITMQ_QUEUE_TYPE to deploy with
    MaxDrops     \* bound: lost connections, crashes and broker restarts

(* ValidateQueueType. *)
ASSUME QueueTypeAssumption == QueueTypes \subseteq {"classic", "quorum"}
ASSUME DropsAssumption == MaxDrops \in Nat
ASSUME NullAssumption == Null \notin Users \cup Events
ASSUME TargetsAssumption == {"roles", "none", "malformed"} \cap (Users \cup {Null}) = {}
ASSUME ReplicasAssumption == IsFiniteSet(Replicas)

VARIABLES
    queueType,
    event,    \* the message: its TargetUserID, "roles" for TargetRoles, "none"
              \* for neither, or "malformed"; Null before it is sent
    ready,    \* ticket_created: messages not delivered
    unacked,  \* and those delivered to each replica's consumer
    acked, dlq, lost,
    link,     \* connection of consumePersist: "down", "up"; "stale" is a dead
              \* connection the replica takes for a live one
    buf,      \* deliveries in the client's buffer
    cur, pc,  \* the delivery being handled
    rows,     \* the notifications table, by id
    blink, bqueue, bcur,  \* the same for consumeBroadcast, on its own queue
    pushed,   \* how often each replica handed an event to its hub
    drops,
    returned  \* history: how often the broker put a delivered event back into
              \* ticket_created, unacknowledged

persistVars == <<unacked, acked, dlq, lost, link, buf, cur, pc>>
broadcastVars == <<blink, bqueue, bcur, pushed>>
faultVars == <<drops, returned>>
vars == <<queueType, event, ready, persistVars, rows, broadcastVars, faultVars>>

Targets == Users \cup {"roles", "none", "malformed"}
Links == {"down", "up", "stale"}

TypeOK ==
    /\ queueType \in QueueTypes
    /\ event \in [Events -> Targets \cup {Null}]
    /\ ready \cup acked \cup dlq \cup lost \subseteq Events
    /\ unacked \in [Replicas -> SUBSET Events]
    /\ link \in [Replicas -> Links]
    /\ buf \in [Replicas -> SUBSET Events]
    /\ cur \in [Replicas -> Events \cup {Null}]
    /\ pc \in [Replicas -> {"loop", "create", "ack", "nack"}]
    /\ rows \in Seq([event : Events, read : BOOLEAN])
    /\ blink \in [Replicas -> Links]
    /\ bqueue \in [Replicas -> SUBSET Events]
    /\ bcur \in [Replicas -> Events \cup {Null}]
    /\ pushed \in [Replicas -> [Events -> Nat]]
    /\ drops \in 0..MaxDrops
    /\ returned \in [Events -> Nat]

Init ==
    /\ queueType \in QueueTypes
    /\ event = [e \in Events |-> Null]
    /\ ready = {} /\ acked = {} /\ dlq = {} /\ lost = {}
    /\ unacked = [r \in Replicas |-> {}]
    /\ link = [r \in Replicas |-> "down"]
    /\ buf = [r \in Replicas |-> {}]
    /\ cur = [r \in Replicas |-> Null]
    /\ pc = [r \in Replicas |-> "loop"]
    /\ rows = <<>>
    /\ blink = [r \in Replicas |-> "down"]
    /\ bqueue = [r \in Replicas |-> {}]
    /\ bcur = [r \in Replicas |-> Null]
    /\ pushed = [r \in Replicas |-> [e \in Events |-> 0]]
    /\ drops = 0
    /\ returned = [e \in Events |-> 0]

-----------------------------------------------------------------------------
(* ticket-service publishes: the exchange copies the message to            *)
(* ticket_created and to the queue of every connected replica.             *)
Publish(e, target) ==
    /\ event[e] = Null
    /\ event' = [event EXCEPT ![e] = target]
    /\ ready' = ready \cup {e}
    /\ bqueue' = [r \in Replicas |->
                     IF blink[r] = "up" THEN bqueue[r] \cup {e} ELSE bqueue[r]]
    /\ UNCHANGED <<queueType, persistVars, rows, blink, bcur, pushed, faultVars>>

(* consumePersist's dial, declarations and Consume. *)
Connect(r) ==
    /\ link[r] = "down"
    /\ link' = [link EXCEPT ![r] = "up"]
    /\ UNCHANGED <<queueType, event, ready, unacked, acked, dlq, lost, buf, cur, pc, rows,
                   broadcastVars, faultVars>>

Deliver(r, e) ==
    /\ link[r] = "up"
    /\ e \in ready
    /\ ready' = ready \ {e}
    /\ unacked' = [unacked EXCEPT ![r] = @ \cup {e}]
    /\ buf' = [buf EXCEPT ![r] = @ \cup {e}]
    /\ UNCHANGED <<queueType, event, acked, dlq, lost, link, cur, pc, rows, broadcastVars,
                   faultVars>>

(* Mutant: automatic acknowledgement on receipt of a user's event. *)
HandledEarly(e) == IF event[e] = "malformed" THEN "nack" ELSE "ack"

(* Mutant: a malformed message is skipped without an answer. *)
HandledSkipped(e) ==
    IF event[e] = "malformed" THEN "loop"
    ELSE IF event[e] \in {"roles", "none"} THEN "ack" ELSE "create"

(* What the handler does with a message: malformed JSON is refused, one    *)
(* without a TargetUserID is only acknowledged.                            *)
Handled(e) ==
    IF event[e] = "malformed" THEN "nack"
    ELSE IF event[e] \in {"roles", "none"} THEN "ack" ELSE "create"

Take(r, e) ==
    /\ link[r] # "down"
    /\ pc[r] = "loop"
    /\ e \in buf[r]
    /\ buf' = [buf EXCEPT ![r] = @ \ {e}]
    /\ cur' = [cur EXCEPT ![r] = e]
    /\ pc' = [pc EXCEPT ![r] = Handled(e)]
    /\ UNCHANGED <<queueType, event, ready, unacked, acked, dlq, lost, link, rows,
                   broadcastVars, faultVars>>

(* Mutant: the insert is tried again. *)
AfterCreateRetry(ok) == IF ok THEN "ack" ELSE "create"

AfterCreate(ok) == IF ok THEN "ack" ELSE "nack"

(* notifier.Create.  When the database fails, the row may still be there.  *)
Create(r) ==
    /\ pc[r] = "create"
    /\ \E ok \in BOOLEAN, inserted \in BOOLEAN :
          /\ ok => inserted
          /\ rows' = IF inserted
                     THEN Append(rows, [event |-> cur[r], read |-> FALSE])
                     ELSE rows
          /\ pc' = [pc EXCEPT ![r] = AfterCreate(ok)]
    /\ UNCHANGED <<queueType, event, ready, unacked, acked, dlq, lost, link, buf, cur,
                   broadcastVars, faultVars>>

(* d.Ack, or d.Nack without requeue, which the queue's dead-letter         *)
(* exchange turns into a message in ticket_events.dlq.                     *)
Answer(r) ==
    LET e == cur[r] IN
    /\ pc[r] \in {"ack", "nack"}
    /\ IF link[r] = "up"
       THEN /\ unacked' = [unacked EXCEPT ![r] = @ \ {e}]
            /\ acked' = IF pc[r] = "ack" THEN acked \cup {e} ELSE acked
            /\ dlq' = IF pc[r] = "nack" THEN dlq \cup {e} ELSE dlq
       ELSE UNCHANGED <<unacked, acked, dlq>>
    /\ cur' = [cur EXCEPT ![r] = Null]
    /\ pc' = [pc EXCEPT ![r] = "loop"]
    /\ UNCHANGED <<queueType, event, ready, lost, link, buf, rows, broadcastVars, faultVars>>

(* connClosed, chClosed or the closed channel of deliveries: return, and   *)
(* StartConsumer's loop dials again.                                       *)
Notice(r) ==
    /\ link[r] = "stale"
    /\ pc[r] = "loop"
    /\ link' = [link EXCEPT ![r] = "down"]
    /\ buf' = [buf EXCEPT ![r] = {}]
    /\ UNCHANGED <<queueType, event, ready, unacked, acked, dlq, lost, cur, pc, rows,
                   broadcastVars, faultVars>>

-----------------------------------------------------------------------------
(* consumeBroadcast: every connection has a queue of its own, empty at     *)
(* first.                                                                  *)
BConnect(r) ==
    /\ blink[r] = "down"
    /\ blink' = [blink EXCEPT ![r] = "up"]
    /\ bqueue' = [bqueue EXCEPT ![r] = {}]
    /\ UNCHANGED <<queueType, event, ready, persistVars, rows, bcur, pushed, faultVars>>

(* SendToUser or SendToRoles; an event that is malformed or has no target  *)
(* goes no further.                                                        *)
Push(r, e) ==
    /\ blink[r] # "down"
    /\ bcur[r] = Null
    /\ e \in bqueue[r]
    /\ bqueue' = [bqueue EXCEPT ![r] = @ \ {e}]
    /\ bcur' = [bcur EXCEPT ![r] = e]
    /\ pushed' = IF event[e] \in {"malformed", "none"} THEN pushed
                 ELSE [pushed EXCEPT ![r][e] = @ + 1]
    /\ UNCHANGED <<queueType, event, ready, persistVars, rows, blink, faultVars>>

BAnswer(r) ==
    /\ bcur[r] # Null
    /\ bcur' = [bcur EXCEPT ![r] = Null]
    /\ UNCHANGED <<queueType, event, ready, persistVars, rows, blink, bqueue, pushed, faultVars>>

BNotice(r) ==
    /\ blink[r] = "stale"
    /\ bcur[r] = Null
    /\ blink' = [blink EXCEPT ![r] = "down"]
    /\ bqueue' = [bqueue EXCEPT ![r] = {}]
    /\ UNCHANGED <<queueType, event, ready, persistVars, rows, bcur, pushed, faultVars>>

(* Mutant: a named queue that outlives the connection, and requeues. *)
AfterDropNamed(r) == bqueue[r] \cup ({bcur[r]} \ {Null})

(* What the client still holds of the exclusive queue, which the broker    *)
(* deletes with the connection.                                            *)
AfterDrop(r) == bqueue[r]

BDrop(r) ==
    /\ blink[r] = "up"
    /\ drops < MaxDrops
    /\ drops' = drops + 1
    /\ blink' = [blink EXCEPT ![r] = "stale"]
    /\ \E kept \in SUBSET AfterDrop(r) : bqueue' = [bqueue EXCEPT ![r] = kept]
    /\ UNCHANGED <<queueType, event, ready, persistVars, rows, bcur, pushed, returned>>

-----------------------------------------------------------------------------
(* The broker requeues the unacknowledged messages. *)
Requeue(es) ==
    /\ ready' = ready \cup es
    /\ returned' = [e \in Events |-> IF e \in es THEN returned[e] + 1 ELSE returned[e]]

(* A connection of consumePersist dies. *)
Drop(r) ==
    /\ link[r] = "up"
    /\ drops < MaxDrops
    /\ drops' = drops + 1
    /\ link' = [link EXCEPT ![r] = "stale"]
    /\ Requeue(unacked[r])
    /\ unacked' = [unacked EXCEPT ![r] = {}]
    /\ UNCHANGED <<queueType, event, acked, dlq, lost, buf, cur, pc, rows, broadcastVars>>

(* A replica dies and is started again. *)
Crash(r) ==
    /\ drops < MaxDrops
    /\ drops' = drops + 1
    /\ link' = [link EXCEPT ![r] = "down"]
    /\ Requeue(unacked[r])
    /\ unacked' = [unacked EXCEPT ![r] = {}]
    /\ buf' = [buf EXCEPT ![r] = {}]
    /\ cur' = [cur EXCEPT ![r] = Null]
    /\ pc' = [pc EXCEPT ![r] = "loop"]
    /\ blink' = [blink EXCEPT ![r] = "down"]
    /\ bqueue' = [bqueue EXCEPT ![r] = {}]
    /\ bcur' = [bcur EXCEPT ![r] = Null]
    /\ UNCHANGED <<queueType, event, acked, dlq, lost, rows, pushed>>

Delivered == UNION {unacked[r] : r \in Replicas}

Cut(l) == [r \in Replicas |-> IF l[r] = "up" THEN "stale" ELSE l[r]]

(* The broker restarts.  The messages are not marked persistent: a classic *)
(* queue comes back empty, a quorum queue keeps them.                      *)
BrokerRestart ==
    /\ drops < MaxDrops
    /\ drops' = drops + 1
    /\ IF queueType = "quorum"
       THEN /\ Requeue(Delivered)
            /\ UNCHANGED <<dlq, lost>>
       ELSE /\ ready' = {}
            /\ dlq' = {}
            /\ lost' = lost \cup ready \cup Delivered \cup dlq
            /\ UNCHANGED returned
    /\ unacked' = [r \in Replicas |-> {}]
    /\ link' = Cut(link)
    /\ blink' = Cut(blink)
    /\ UNCHANGED <<queueType, event, acked, buf, cur, pc, rows, bqueue, bcur, pushed>>

-----------------------------------------------------------------------------
(* The ids FindByUser lists. *)
FindByUser(u, unreadOnly) ==
    {i \in DOMAIN rows : event[rows[i].event] = u /\ (unreadOnly => ~rows[i].read)}

SetRead(ids) ==
    /\ rows' = [i \in DOMAIN rows |->
                   IF i \in ids THEN [rows[i] EXCEPT !.read = TRUE] ELSE rows[i]]
    /\ UNCHANGED <<queueType, event, ready, persistVars, broadcastVars, faultVars>>

(* PATCH /notifications/{id}/read, with id AND user_id in the statement. *)
MarkRead(u, id) == id \in FindByUser(u, FALSE) /\ SetRead({id})

MarkAllRead(u) ==
    /\ FindByUser(u, TRUE) # {}
    /\ SetRead(FindByUser(u, TRUE))

-----------------------------------------------------------------------------
Consume(r) ==
    \/ \E e \in Events : Deliver(r, e)
    \/ \E e \in Events : Take(r, e)
    \/ Create(r) \/ Answer(r) \/ Notice(r) \/ Connect(r)

Broadcast(r) ==
    \/ \E e \in Events : Push(r, e)
    \/ BAnswer(r) \/ BNotice(r) \/ BConnect(r)

Fault == BrokerRestart \/ \E r \in Replicas : Drop(r) \/ BDrop(r) \/ Crash(r)

Request ==
    \E u \in Users :
        \/ MarkAllRead(u)
        \/ \E id \in DOMAIN rows : MarkRead(u, id)

Next ==
    \/ \E e \in Events, target \in Targets : Publish(e, target)
    \/ \E r \in Replicas : Consume(r) \/ Broadcast(r)
    \/ Fault
    \/ Request

(* The consumer's goroutine and the broker go on while they can. *)
Fairness ==
    \A r \in Replicas :
        /\ WF_vars(\E e \in Events : Deliver(r, e))
        /\ WF_vars((\E e \in Events : Take(r, e)) \/ Create(r) \/ Answer(r))
        /\ WF_vars(Notice(r))
        /\ WF_vars(Connect(r))

Spec == Init /\ [][Next]_vars /\ Fairness

-----------------------------------------------------------------------------
Fate(e) ==
    IF event[e] = Null THEN "unsent"
    ELSE IF e \in lost THEN "lost"
    ELSE IF e \in acked THEN "done"
    ELSE IF e \in dlq THEN "parked" ELSE "accepted"

CopiesOf(e) == Cardinality({i \in DOMAIN rows : rows[i].event = e})

Abstract == INSTANCE EventDelivery WITH
    durable <- queueType = "quorum",
    fate <- [e \in Events |-> Fate(e)],
    wanted <- {e \in Events : event[e] \in Users},
    copies <- [e \in Events |-> CopiesOf(e)]

(* The consumers implement at-least-once delivery: whatever the order of   *)
(* lost connections, crashes and redeliveries, no event is acknowledged    *)
(* before its notification is stored and none disappears from              *)
(* ticket_created unless a classic queue is restarted.                     *)
ImplementsDelivery == Abstract!Spec

(* An event is stored once, and once more at most for each time a lost     *)
(* connection, a dead replica or a restarted quorum queue returned that    *)
(* very event to ticket_created while it was unacknowledged, before or     *)
(* after notifier.Create; no other failure adds a copy.  An insert that    *)
(* failed is parked, never retried, although its row may be there.  So     *)
(* "persisted exactly once collectively" (consumer.go) holds of the events *)
(* whose delivery was never lost, and of those only.                       *)
DuplicatesPaid == \A e \in Events : CopiesOf(e) <= 1 + returned[e]

(* A replica never hands the same event to its WebSocket hub twice: the    *)
(* queue of consumeBroadcast dies with the connection, so that what was    *)
(* pushed but not acknowledged is not redelivered.                         *)
LiveOnce == \A r \in Replicas, e \in Events : pushed[r][e] <= 1

(* Every published event is settled in the end, stored, parked or lost,    *)
(* once connections stop failing.                                          *)
EventuallySettled ==
    \A e \in Events : event[e] # Null ~> e \in acked \cup dlq \cup lost
=============================================================================
