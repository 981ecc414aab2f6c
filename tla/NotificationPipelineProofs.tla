--------------------- MODULE NotificationPipelineProofs ---------------------
(***************************************************************************)
(* TLAPS proofs about NotificationPipeline for any number of replicas,     *)
(* events and failures: the consumers implement EventDelivery, duplicates  *)
(* are bounded by the failures, and the live push is at most once.         *)
(***************************************************************************)
EXTENDS NotificationPipeline, FiniteSetTheorems, SequenceTheorems, TLAPS

(* Where a message is: nowhere before it is published, then in exactly one *)
(* place of the broker.                                                    *)
Held(e) == \E r \in Replicas : e \in unacked[r]

PlaceInv ==
    /\ \A e \in Events : event[e] # Null <=>
          e \in ready \/ Held(e) \/ e \in acked \/ e \in dlq \/ e \in lost
    /\ ready \cap (acked \cup dlq \cup lost) = {}
    /\ acked \cap (dlq \cup lost) = {}
    /\ dlq \cap lost = {}
    /\ \A r \in Replicas : unacked[r] \cap (ready \cup acked \cup dlq \cup lost) = {}
    /\ \A r, s \in Replicas : r # s => unacked[r] \cap unacked[s] = {}

Stored(e) == \E i \in DOMAIN rows : rows[i].event = e

(* What a consumer holds in memory, by the state of its connection. *)
ConsumerInv(r) ==
    /\ link[r] = "up" => /\ buf[r] \subseteq unacked[r]
                         /\ pc[r] # "loop" => cur[r] \in unacked[r]
    /\ link[r] # "up" => unacked[r] = {}
    /\ link[r] = "down" => buf[r] = {} /\ pc[r] = "loop"
    /\ \A e \in buf[r] : event[e] # Null
    /\ pc[r] # "loop" => /\ cur[r] \in Events
                         /\ event[cur[r]] # Null
                         /\ cur[r] \notin buf[r]
    /\ pc[r] = "create" => event[cur[r]] \in Users
    /\ pc[r] = "ack" /\ event[cur[r]] \in Users => Stored(cur[r])

(* Only events for a user are stored. *)
RowsInv == \A i \in DOMAIN rows : event[rows[i].event] \in Users

(* The broadcast queue holds what was not pushed. *)
PushInv(r) ==
    \A e \in Events :
        /\ pushed[r][e] <= 1
        /\ e \in bqueue[r] => pushed[r][e] = 0 /\ event[e] # Null
        /\ event[e] = Null => pushed[r][e] = 0

(* The inductive invariant. *)
IInv ==
    /\ TypeOK
    /\ PlaceInv
    /\ \A r \in Replicas : ConsumerInv(r) /\ PushInv(r)
    /\ RowsInv

(* The replicas that will still store the event. *)
Holders(e) == {r \in Replicas : e \in buf[r] \/ (pc[r] = "create" /\ cur[r] = e)}

(* Every notification of an event that exists, or can come to exist        *)
(* without another failure, is accounted for by the event itself or by a   *)
(* failure.                                                                *)
CountInv ==
    \A e \in Events :
        event[e] # Null =>
            CopiesOf(e) + Cardinality(Holders(e)) + (IF e \in ready THEN 1 ELSE 0)
                <= 1 + returned[e]

USE DEF faultVars

----------------------------------------------------------------------------
(* Nothing is published at first. *)
LEMMA InitIInv == Init => IInv
<1> SUFFICES ASSUME Init PROVE IInv
  OBVIOUS
<1>1. TypeOK
  BY DropsAssumption DEF Init, TypeOK, Links
<1>2. PlaceInv
  BY DEF Init, PlaceInv, Held
<1>3. ASSUME NEW r \in Replicas PROVE ConsumerInv(r) /\ PushInv(r)
  BY DEF Init, ConsumerInv, PushInv
<1>4. RowsInv
  BY DEF Init, RowsInv
<1> QED
  BY <1>1, <1>2, <1>3, <1>4 DEF IInv

(* The notifications table. *)
LEMMA RowFacts ==
  ASSUME TypeOK
  PROVE  /\ Len(rows) \in Nat /\ DOMAIN rows = 1..Len(rows)
         /\ \A i \in DOMAIN rows : rows[i].event \in Events
<1>1. rows \in Seq([event : Events, read : BOOLEAN])
  BY DEF TypeOK
<1>2. Len(rows) \in Nat /\ DOMAIN rows = 1..Len(rows)
  BY <1>1, LenProperties
<1>3. \A i \in 1..Len(rows) : rows[i] \in [event : Events, read : BOOLEAN]
  BY <1>1, ElementOfSeq
<1> QED
  BY <1>2, <1>3

(* A message is accepted by the broker. *)
LEMMA PublishIInv ==
  ASSUME IInv, NEW e \in Events, NEW target \in Targets, Publish(e, target)
  PROVE  IInv'
<1> USE DEF IInv, Publish, persistVars
<1>1. target # Null /\ event[e] = Null
  BY NullAssumption, TargetsAssumption DEF Targets
<1>2. /\ event'[e] = target /\ \A d \in Events \ {e} : event'[d] = event[d]
      /\ event' \in [Events -> Targets \cup {Null}]
  BY DEF TypeOK
<1>3. TypeOK'
  <2>1. bqueue' \in [Replicas -> SUBSET Events]
    BY DEF TypeOK
  <2> QED
    BY <1>2, <2>1 DEF TypeOK
<1>4. PlaceInv'
  BY <1>1, <1>2 DEF PlaceInv, Held, TypeOK
<1>5. ASSUME NEW r \in Replicas PROVE ConsumerInv(r)'
  <2>1. \A d \in Events : event[d] # Null => event'[d] = event[d]
    BY <1>1, <1>2
  <2>2. e \notin buf[r] /\ (pc[r] # "loop" => cur[r] \in Events /\ cur[r] # e)
    BY <1>1 DEF ConsumerInv
  <2> QED
    BY <1>2, <2>1, <2>2 DEF ConsumerInv, Stored, TypeOK
<1>6. ASSUME NEW r \in Replicas PROVE PushInv(r)'
  BY <1>1, <1>2 DEF PushInv, TypeOK
<1>7. RowsInv'
  <2>1. ASSUME NEW i \in DOMAIN rows PROVE event'[rows[i].event] \in Users
    <3>1. rows[i].event \in Events /\ event[rows[i].event] \in Users
      BY RowFacts DEF RowsInv
    <3> QED
      BY <1>1, <1>2, <3>1, NullAssumption
  <2> QED
    BY <2>1 DEF RowsInv
<1> QED
  BY <1>3, <1>4, <1>5, <1>6, <1>7

(* The broker hands a message to a consumer, or a consumer connects. *)
LEMMA DeliverIInv ==
  ASSUME IInv, NEW r \in Replicas,
         Connect(r) \/ \E e \in Events : Deliver(r, e)
  PROVE  IInv'
<1> USE DEF IInv, broadcastVars
<1>1. CASE Connect(r)
  <2> USE <1>1 DEF Connect
  <2>1. TypeOK' /\ PlaceInv' /\ RowsInv'
    BY DEF TypeOK, Links, PlaceInv, Held, RowsInv
  <2>2. ASSUME NEW s \in Replicas PROVE ConsumerInv(s)' /\ PushInv(s)'
    BY DEF ConsumerInv, PushInv, TypeOK, Stored
  <2> QED
    BY <2>1, <2>2
<1>2. ASSUME NEW e \in Events, Deliver(r, e) PROVE IInv'
  <2> USE <1>2 DEF Deliver
  <2>1. /\ unacked'[r] = unacked[r] \cup {e} /\ buf'[r] = buf[r] \cup {e}
        /\ \A s \in Replicas \ {r} : unacked'[s] = unacked[s] /\ buf'[s] = buf[s]
        /\ link[r] = "up" /\ e \in ready /\ ready' = ready \ {e}
        /\ UNCHANGED <<event, acked, dlq, lost, link, cur, pc, rows, bqueue, pushed>>
    BY DEF TypeOK
  <2>2. TypeOK'
    BY DEF TypeOK
  <2>3. PlaceInv'
    <3>1. \A d \in Events : Held(d)' <=> Held(d) \/ d = e
      BY <2>1 DEF Held
    <3> QED
      BY <2>1, <3>1 DEF PlaceInv
  <2>4. ASSUME NEW s \in Replicas PROVE ConsumerInv(s)' /\ PushInv(s)'
    <3>1. e \notin unacked[r] /\ event[e] # Null
      BY <2>1 DEF PlaceInv
    <3>2. CASE s = r
      BY <2>1, <3>1, <3>2 DEF ConsumerInv, PushInv, Stored
    <3>3. CASE s # r
      BY <2>1, <3>3 DEF ConsumerInv, PushInv, Stored
    <3> QED
      BY <3>2, <3>3
  <2>5. RowsInv'
    BY <2>1 DEF RowsInv
  <2> QED
    BY <2>2, <2>3, <2>4, <2>5
<1> QED
  BY <1>1, <1>2

(* A consumer takes a message from its buffer. *)
LEMMA TakeIInv ==
  ASSUME IInv, NEW r \in Replicas, NEW e \in Events, Take(r, e)
  PROVE  IInv'
<1> USE DEF IInv, Take, broadcastVars
<1>1. /\ pc'[r] = Handled(e) /\ cur'[r] = e /\ buf'[r] = buf[r] \ {e}
      /\ \A s \in Replicas \ {r} : pc'[s] = pc[s] /\ cur'[s] = cur[s] /\ buf'[s] = buf[s]
      /\ e \in buf[r] /\ link[r] # "down"
      /\ UNCHANGED <<event, ready, unacked, acked, dlq, lost, link, rows, bqueue, pushed>>
  BY DEF TypeOK
<1>2. /\ Handled(e) \in {"create", "ack", "nack"}
      /\ Handled(e) = "create" => event[e] \notin {"roles", "none", "malformed"}
      /\ Handled(e) = "ack" => event[e] \in {"roles", "none"}
  BY DEF Handled
<1>3. event[e] # Null /\ event[e] \in Users \cup {"roles", "none", "malformed"}
  BY <1>1 DEF ConsumerInv, TypeOK, Targets
<1>4. TypeOK'
  BY <1>2 DEF TypeOK
<1>5. PlaceInv' /\ RowsInv'
  BY <1>1 DEF PlaceInv, Held, RowsInv
<1>6. ASSUME NEW s \in Replicas PROVE ConsumerInv(s)' /\ PushInv(s)'
  <2>1. CASE s = r
    BY <1>1, <1>2, <1>3, <2>1, TargetsAssumption DEF ConsumerInv, PushInv, Stored
  <2>2. CASE s # r
    BY <1>1, <2>2 DEF ConsumerInv, PushInv, Stored
  <2> QED
    BY <2>1, <2>2
<1> QED
  BY <1>4, <1>5, <1>6

(* What notifier.Create does to the table. *)
LEMMA CreateFacts ==
  ASSUME IInv, NEW r \in Replicas, Create(r)
  PROVE  /\ cur[r] \in Events /\ event[cur[r]] \in Users
         /\ \/ rows' = rows /\ pc' = [pc EXCEPT ![r] = "nack"]
            \/ /\ rows' = Append(rows, [event |-> cur[r], read |-> FALSE])
               /\ \E to \in {"ack", "nack"} : pc' = [pc EXCEPT ![r] = to]
               /\ rows' \in Seq([event : Events, read : BOOLEAN])
               /\ Len(rows') = Len(rows) + 1
               /\ rows'[Len(rows) + 1].event = cur[r]
               /\ \A i \in 1..Len(rows) : rows'[i] = rows[i]
         /\ UNCHANGED <<event, ready, unacked, acked, dlq, lost, link, buf, cur, bqueue,
                        pushed>>
<1>1. cur[r] \in Events /\ event[cur[r]] \in Users
  BY DEF IInv, ConsumerInv, Create
<1>2. \/ rows' = rows /\ pc' = [pc EXCEPT ![r] = "nack"]
      \/ /\ rows' = Append(rows, [event |-> cur[r], read |-> FALSE])
         /\ \E to \in {"ack", "nack"} : pc' = [pc EXCEPT ![r] = to]
  BY DEF Create, AfterCreate
<1>3. [event |-> cur[r], read |-> FALSE] \in [event : Events, read : BOOLEAN]
  BY <1>1
<1>4. rows \in Seq([event : Events, read : BOOLEAN])
  BY DEF IInv, TypeOK
<1>5. CASE rows' = Append(rows, [event |-> cur[r], read |-> FALSE])
  <2>1. /\ rows' \in Seq([event : Events, read : BOOLEAN])
        /\ Len(rows') = Len(rows) + 1
        /\ rows'[Len(rows) + 1] = [event |-> cur[r], read |-> FALSE]
        /\ \A i \in 1..Len(rows) : rows'[i] = rows[i]
    BY <1>3, <1>4, <1>5, AppendProperties
  <2> QED
    BY <1>1, <1>2, <2>1 DEF Create, broadcastVars
<1> QED
  BY <1>1, <1>2, <1>5 DEF Create, broadcastVars

(* The notification is stored, or the insert fails. *)
LEMMA CreateIInv ==
  ASSUME IInv, NEW r \in Replicas, Create(r) PROVE IInv'
<1> USE DEF IInv
<1>1. PICK to \in {"ack", "nack"} : pc' = [pc EXCEPT ![r] = to]
  BY CreateFacts
<1>2. pc'[r] = to /\ pc[r] = "create" /\ \A s \in Replicas \ {r} : pc'[s] = pc[s]
  BY <1>1 DEF TypeOK, Create
<1>3. UNCHANGED <<event, ready, unacked, acked, dlq, lost, link, buf, cur, bqueue, pushed>>
  BY CreateFacts
<1>4. TypeOK'
  <2>1. rows' \in Seq([event : Events, read : BOOLEAN])
    BY CreateFacts DEF TypeOK
  <2>2. UNCHANGED <<queueType, blink, bcur, faultVars>>
    BY DEF Create, broadcastVars
  <2> QED
    BY <1>1, <1>3, <2>1, <2>2 DEF TypeOK
<1>5. /\ RowsInv'
      /\ \A d \in Events : Stored(d) => Stored(d)'
      /\ to = "ack" => Stored(cur[r])'
  <2>1. DOMAIN rows = 1..Len(rows) /\ Len(rows) \in Nat
    BY RowFacts
  <2>2. CASE rows' = rows
    <3> HIDE DEF IInv
    <3>1. Len(rows') # Len(rows) + 1
      <4>1. Len(rows') = Len(rows) /\ Len(rows) \in Nat
        BY <2>1, <2>2
      <4>2. \A m, n \in Nat : m = n => m # n + 1
        OBVIOUS
      <4> QED
        BY <4>1, <4>2
    <3> USE DEF IInv
    <3>2. to = "nack"
      BY <1>2, <3>1, CreateFacts DEF TypeOK
    <3> QED
      BY <1>3, <2>2, <3>2 DEF RowsInv, Stored
  <2>3. CASE rows' # rows
    <3>1. /\ DOMAIN rows' = 1..(Len(rows) + 1) /\ rows'[Len(rows) + 1].event = cur[r]
          /\ \A i \in 1..Len(rows) : rows'[i] = rows[i]
      BY <2>3, CreateFacts, LenProperties
    <3>2. RowsInv'
      <4>1. ASSUME NEW i \in 1..(Len(rows) + 1) PROVE event[rows'[i].event] \in Users
        <5>1. CASE i = Len(rows) + 1
          BY <3>1, <5>1, CreateFacts
        <5>2. CASE i \in 1..Len(rows)
          BY <2>1, <3>1, <5>2 DEF RowsInv
        <5> QED
          BY <2>1, <5>1, <5>2
      <4> QED
        BY <1>3, <3>1, <4>1 DEF RowsInv
    <3>3. (\A d \in Events : Stored(d) => Stored(d)') /\ Stored(cur[r])'
      BY <1>3, <2>1, <3>1 DEF Stored
    <3> QED
      BY <3>2, <3>3
  <2> QED
    BY <2>2, <2>3
<1>6. PlaceInv'
  BY <1>3 DEF PlaceInv, Held
<1>7. ASSUME NEW s \in Replicas PROVE ConsumerInv(s)' /\ PushInv(s)'
  <2>1. PushInv(s)'
    BY <1>3 DEF PushInv
  <2>2. CASE s = r
    BY <1>2, <1>3, <1>5, <2>1, <2>2 DEF ConsumerInv
  <2>3. CASE s # r
    BY <1>2, <1>3, <1>5, <2>1, <2>3 DEF ConsumerInv
  <2> QED
    BY <2>2, <2>3
<1> QED
  BY <1>4, <1>5, <1>6, <1>7

(* Ack or Nack: effective while the connection lives. *)
LEMMA AnswerIInv ==
  ASSUME IInv, NEW r \in Replicas, Answer(r) PROVE IInv'
<1> USE DEF IInv, Answer, broadcastVars
<1> DEFINE e == cur[r]
<1>1. /\ pc'[r] = "loop" /\ \A s \in Replicas \ {r} : pc'[s] = pc[s] /\ cur'[s] = cur[s]
      /\ pc[r] \in {"ack", "nack"} /\ e \in Events
      /\ UNCHANGED <<event, ready, lost, link, buf, rows, bqueue, pushed>>
  BY DEF TypeOK, ConsumerInv
<1>2. CASE link[r] = "up"
  <2>1. /\ e \in unacked[r] /\ unacked'[r] = unacked[r] \ {e}
        /\ \A s \in Replicas \ {r} : unacked'[s] = unacked[s]
        /\ \/ acked' = acked \cup {e} /\ dlq' = dlq
           \/ acked' = acked /\ dlq' = dlq \cup {e}
    BY <1>1, <1>2 DEF TypeOK, ConsumerInv
  <2>2. TypeOK'
    <3>1. unacked' \in [Replicas -> SUBSET Events]
      <4>1. unacked[r] \ {e} \in SUBSET Events
        BY DEF TypeOK
      <4> QED
        BY <1>2, <4>1 DEF TypeOK
    <3>2. cur' \in [Replicas -> Events \cup {Null}]
      BY DEF TypeOK
    <3>3. pc' \in [Replicas -> {"loop", "create", "ack", "nack"}]
      BY DEF TypeOK
    <3>4. ready' \cup acked' \cup dlq' \cup lost' \subseteq Events
      BY <1>1, <2>1 DEF TypeOK
    <3> QED
      BY <3>1, <3>2, <3>3, <3>4 DEF TypeOK
  <2>3. PlaceInv'
    <3>1. \A d \in Events : Held(d)' <=> Held(d) /\ d # e
      BY <2>1 DEF Held, PlaceInv
    <3>2. e \notin ready \cup acked \cup dlq \cup lost
      BY <2>1 DEF PlaceInv
    <3>3. event[e] # Null
      BY <1>1 DEF ConsumerInv
    <3>4. \A d \in Events : event'[d] # Null <=>
             d \in ready' \/ Held(d)' \/ d \in acked' \/ d \in dlq' \/ d \in lost'
      BY <1>1, <2>1, <3>1, <3>3 DEF PlaceInv
    <3>5. \A s \in Replicas : unacked'[s] \subseteq unacked[s] /\ e \notin unacked'[s]
      BY <2>1 DEF PlaceInv
    <3>6. /\ \A s \in Replicas :
                unacked'[s] \cap (ready' \cup acked' \cup dlq' \cup lost') = {}
          /\ \A s, t \in Replicas : s # t => unacked'[s] \cap unacked'[t] = {}
      BY <1>1, <2>1, <3>5 DEF PlaceInv
    <3>7. /\ ready' \cap (acked' \cup dlq' \cup lost') = {}
          /\ acked' \cap (dlq' \cup lost') = {}
          /\ dlq' \cap lost' = {}
      BY <1>1, <2>1, <3>2 DEF PlaceInv
    <3> QED
      BY <3>4, <3>6, <3>7 DEF PlaceInv
  <2>4. e \notin buf[r]
    BY <1>1 DEF ConsumerInv
  <2>5. ASSUME NEW s \in Replicas PROVE ConsumerInv(s)' /\ PushInv(s)'
    <3>1. CASE s = r
      BY <1>1, <2>1, <2>4, <3>1 DEF ConsumerInv, PushInv, Stored
    <3>2. CASE s # r
      BY <1>1, <2>1, <3>2 DEF ConsumerInv, PushInv, Stored
    <3> QED
      BY <3>1, <3>2
  <2> QED
    BY <1>1, <2>2, <2>3, <2>5 DEF RowsInv
<1>3. CASE link[r] # "up"
  <2>1. UNCHANGED <<unacked, acked, dlq>>
    BY <1>3
  <2>2. TypeOK'
    BY <2>1 DEF TypeOK
  <2>3. PlaceInv' /\ RowsInv'
    BY <1>1, <2>1 DEF PlaceInv, Held, RowsInv
  <2>4. ASSUME NEW s \in Replicas PROVE ConsumerInv(s)' /\ PushInv(s)'
    <3>1. CASE s = r
      BY <1>1, <2>1, <1>3, <3>1 DEF ConsumerInv, PushInv, Stored
    <3>2. CASE s # r
      BY <1>1, <2>1, <3>2 DEF ConsumerInv, PushInv, Stored
    <3> QED
      BY <3>1, <3>2
  <2> QED
    BY <2>2, <2>3, <2>4
<1> QED
  BY <1>2, <1>3

(* The consumer notices that its connection is dead. *)
LEMMA NoticeIInv ==
  ASSUME IInv, NEW r \in Replicas, Notice(r) PROVE IInv'
<1> USE DEF IInv, Notice, broadcastVars
<1>1. TypeOK'
  BY DEF TypeOK, Links
<1>2. PlaceInv' /\ RowsInv'
  BY DEF PlaceInv, Held, RowsInv
<1>3. ASSUME NEW s \in Replicas PROVE ConsumerInv(s)' /\ PushInv(s)'
  BY DEF ConsumerInv, PushInv, Stored, TypeOK
<1> QED
  BY <1>1, <1>2, <1>3

(* consumeBroadcast. *)
LEMMA BroadcastIInv ==
  ASSUME IInv, NEW r \in Replicas, Broadcast(r) \/ BDrop(r) PROVE IInv'
<1> USE DEF IInv, persistVars
<1> DEFINE Rest == /\ UNCHANGED <<queueType, event, ready, persistVars, rows>>
                   /\ drops' \in 0..MaxDrops /\ UNCHANGED returned
                   /\ blink' \in [Replicas -> Links]
                   /\ bcur' \in [Replicas -> Events \cup {Null}]
<1>1. Rest
  <2>1. ASSUME NEW e \in Events, Push(r, e) PROVE Rest
    BY <2>1 DEF Push, TypeOK
  <2>2. CASE BAnswer(r)
    BY <2>2 DEF BAnswer, TypeOK
  <2>3. CASE BNotice(r)
    BY <2>3 DEF BNotice, TypeOK, Links
  <2>4. CASE BConnect(r)
    BY <2>4 DEF BConnect, TypeOK, Links
  <2>5. CASE BDrop(r)
    <3>1. drops' \in 0..MaxDrops
      BY <2>5, DropsAssumption DEF BDrop, TypeOK
    <3> QED
      BY <2>5, <3>1 DEF BDrop, TypeOK, Links
  <2> QED
    BY <2>1, <2>2, <2>3, <2>4, <2>5 DEF Broadcast
<1>2. PlaceInv' /\ RowsInv' /\ \A s \in Replicas : ConsumerInv(s)'
  BY <1>1 DEF PlaceInv, Held, RowsInv, ConsumerInv, Stored
<1>3. ASSUME NEW e \in Events, Push(r, e)
      PROVE  /\ bqueue' \in [Replicas -> SUBSET Events]
             /\ pushed' \in [Replicas -> [Events -> Nat]]
             /\ \A s \in Replicas : PushInv(s)'
  <2>1. /\ bqueue' = [bqueue EXCEPT ![r] = @ \ {e}] /\ e \in bqueue[r]
        /\ pushed' = pushed \/ pushed' = [pushed EXCEPT ![r][e] = @ + 1]
    BY <1>3 DEF Push
  <2>2. bqueue' \in [Replicas -> SUBSET Events] /\ pushed' \in [Replicas -> [Events -> Nat]]
    <3>1. bqueue' \in [Replicas -> SUBSET Events]
      BY <2>1 DEF TypeOK
    <3>2. pushed \in [Replicas -> [Events -> Nat]]
      BY DEF TypeOK
    <3>3. CASE pushed' = [pushed EXCEPT ![r][e] = @ + 1]
      BY <3>1, <3>2, <3>3
    <3>4. CASE pushed' = pushed
      BY <3>1, <3>2, <3>4
    <3> QED
      BY <2>1, <3>1, <3>3, <3>4
  <2>3. ASSUME NEW s \in Replicas PROVE PushInv(s)'
    <3>1. pushed[r][e] = 0 /\ event[e] # Null
      BY <2>1 DEF PushInv
    <3>2. \A d \in Events : \/ pushed'[s][d] = pushed[s][d]
                            \/ s = r /\ d = e /\ pushed'[s][d] = 1
      BY <2>1, <3>1 DEF TypeOK
    <3>3. bqueue'[s] = IF s = r THEN bqueue[s] \ {e} ELSE bqueue[s]
      BY <2>1 DEF TypeOK
    <3> QED
      BY <1>1, <3>1, <3>2, <3>3 DEF PushInv
  <2> QED
    BY <2>2, <2>3
<1>4. CASE BAnswer(r) \/ BNotice(r) \/ BConnect(r) \/ BDrop(r)
  <2>1. /\ bqueue' \in [Replicas -> SUBSET Events] /\ UNCHANGED pushed
        /\ \A s \in Replicas : bqueue'[s] \subseteq bqueue[s]
    <3>1. CASE BAnswer(r)
      BY <3>1 DEF BAnswer, TypeOK
    <3>2. CASE BNotice(r)
      BY <3>2 DEF BNotice, TypeOK
    <3>3. CASE BConnect(r)
      BY <3>3 DEF BConnect, TypeOK
    <3>4. CASE BDrop(r)
      BY <3>4 DEF BDrop, AfterDrop, TypeOK
    <3> QED
      BY <1>4, <3>1, <3>2, <3>3, <3>4
  <2>2. ASSUME NEW s \in Replicas PROVE PushInv(s)'
    BY <1>1, <2>1 DEF PushInv
  <2>3. pushed' \in [Replicas -> [Events -> Nat]]
    BY <2>1 DEF TypeOK
  <2>4. TypeOK'
    BY <1>1, <2>1, <2>3 DEF TypeOK
  <2> QED
    BY <1>2, <2>2, <2>4
<1>5. ASSUME NEW e \in Events, Push(r, e) PROVE IInv'
  <2>1. TypeOK'
    BY <1>1, <1>3, <1>5 DEF TypeOK
  <2> QED
    BY <1>2, <1>3, <1>5, <2>1
<1> QED
  BY <1>4, <1>5 DEF Broadcast

(* What a lost connection or a crash makes of the messages of a replica. *)
LEMMA RequeuePlace ==
  ASSUME TypeOK, PlaceInv, NEW r \in Replicas,
         ready' = ready \cup unacked[r],
         unacked' = [unacked EXCEPT ![r] = {}],
         UNCHANGED <<event, acked, dlq, lost>>
  PROVE  PlaceInv' /\ ready' \subseteq Events /\ unacked' \in [Replicas -> SUBSET Events]
<1>1. unacked'[r] = {} /\ \A s \in Replicas \ {r} : unacked'[s] = unacked[s]
  BY DEF TypeOK
<1>2. \A e \in Events : Held(e)' \/ e \in ready' <=> Held(e) \/ e \in ready
  BY <1>1 DEF Held
<1>3. PlaceInv'
  <2>1. \A e \in Events : event'[e] # Null <=>
           e \in ready' \/ Held(e)' \/ e \in acked' \/ e \in dlq' \/ e \in lost'
    BY <1>2 DEF PlaceInv
  <2>2. \A s \in Replicas : unacked'[s] \cap (ready' \cup acked' \cup dlq' \cup lost') = {}
    BY <1>1 DEF PlaceInv
  <2>3. \A s, t \in Replicas : s # t => unacked'[s] \cap unacked'[t] = {}
    BY <1>1 DEF PlaceInv
  <2>4. /\ ready' \cap (acked' \cup dlq' \cup lost') = {}
        /\ acked' \cap (dlq' \cup lost') = {}
        /\ dlq' \cap lost' = {}
    BY DEF PlaceInv
  <2> QED
    BY <2>1, <2>2, <2>3, <2>4 DEF PlaceInv
<1> QED
  BY <1>3 DEF TypeOK

(* A connection dies. *)
LEMMA DropIInv ==
  ASSUME IInv, NEW r \in Replicas, Drop(r) PROVE IInv'
<1> USE DEF IInv, Drop, Requeue, broadcastVars
<1>1. PlaceInv' /\ ready' \subseteq Events /\ unacked' \in [Replicas -> SUBSET Events]
  BY RequeuePlace
<1>2. drops' \in 0..MaxDrops /\ returned' \in [Events -> Nat]
  BY DropsAssumption DEF TypeOK
<1>3. TypeOK'
  BY <1>1, <1>2 DEF TypeOK, Links
<1>4. RowsInv'
  BY DEF RowsInv
<1>5. ASSUME NEW s \in Replicas PROVE ConsumerInv(s)' /\ PushInv(s)'
  BY DEF ConsumerInv, PushInv, Stored, TypeOK
<1> QED
  BY <1>1, <1>3, <1>4, <1>5

(* A replica dies. *)
LEMMA CrashIInv ==
  ASSUME IInv, NEW r \in Replicas, Crash(r) PROVE IInv'
<1> USE DEF IInv, Crash, Requeue
<1>1. PlaceInv' /\ ready' \subseteq Events /\ unacked' \in [Replicas -> SUBSET Events]
  BY RequeuePlace
<1>2. drops' \in 0..MaxDrops /\ returned' \in [Events -> Nat]
  BY DropsAssumption DEF TypeOK
<1>3. TypeOK'
  BY <1>1, <1>2 DEF TypeOK, Links
<1>4. RowsInv'
  BY DEF RowsInv
<1>5. ASSUME NEW s \in Replicas PROVE ConsumerInv(s)' /\ PushInv(s)'
  BY DEF ConsumerInv, PushInv, Stored, TypeOK
<1> QED
  BY <1>1, <1>3, <1>4, <1>5

(* The broker restarts. *)
LEMMA RestartIInv ==
  ASSUME IInv, BrokerRestart PROVE IInv'
<1> USE DEF IInv, BrokerRestart, Requeue
<1>1. drops' \in 0..MaxDrops /\ returned' \in [Events -> Nat]
  <2>1. drops' \in 0..MaxDrops
    BY DropsAssumption DEF TypeOK
  <2>2. returned \in [Events -> Nat]
    BY DEF TypeOK
  <2>3. \/ returned' = returned
        \/ returned' = [e \in Events |->
                          IF e \in Delivered THEN returned[e] + 1 ELSE returned[e]]
    OBVIOUS
  <2> QED
    BY <2>1, <2>2, <2>3
<1>2. link' \in [Replicas -> Links] /\ blink' \in [Replicas -> Links]
  BY DEF TypeOK, Cut, Links
<1>3. \A e \in Events : e \in Delivered <=> Held(e)
  BY DEF Delivered, Held
<1>4. Delivered \subseteq Events
  BY DEF Delivered, TypeOK
<1>5. \A e \in Events : ~Held(e)'
  BY DEF Held
<1>6. PlaceInv' /\ ready' \cup acked' \cup dlq' \cup lost' \subseteq Events
  <2>1. CASE queueType = "quorum"
    <3>1. ready' = ready \cup Delivered /\ UNCHANGED <<event, acked, dlq, lost>>
      BY <2>1
    <3>2. \A e \in Delivered : e \notin acked \cup dlq \cup lost
      BY DEF Delivered, PlaceInv
    <3> QED
      BY <1>3, <1>4, <1>5, <3>1, <3>2 DEF PlaceInv, TypeOK
  <2>2. CASE queueType # "quorum"
    <3>1. /\ ready' = {} /\ dlq' = {} /\ lost' = lost \cup ready \cup Delivered \cup dlq
          /\ UNCHANGED <<event, acked>>
      BY <2>2
    <3>2. \A e \in Delivered : e \notin acked
      BY DEF Delivered, PlaceInv
    <3> QED
      BY <1>3, <1>4, <1>5, <3>1, <3>2 DEF PlaceInv, TypeOK
  <2> QED
    BY <2>1, <2>2
<1>7. TypeOK'
  BY <1>1, <1>2, <1>6 DEF TypeOK
<1>8. RowsInv'
  BY DEF RowsInv
<1>9. ASSUME NEW s \in Replicas PROVE ConsumerInv(s)' /\ PushInv(s)'
  BY DEF ConsumerInv, PushInv, Stored, TypeOK, Cut
<1> QED
  BY <1>6, <1>7, <1>8, <1>9

(* The requests change nothing but the read marks. *)
LEMMA SetReadFacts ==
  ASSUME TypeOK, NEW ids, SetRead(ids)
  PROVE  /\ rows' \in Seq([event : Events, read : BOOLEAN])
         /\ DOMAIN rows' = DOMAIN rows
         /\ \A i \in DOMAIN rows : rows'[i].event = rows[i].event
<1>1. /\ rows \in Seq([event : Events, read : BOOLEAN])
      /\ DOMAIN rows = 1..Len(rows) /\ Len(rows) \in Nat
  BY RowFacts DEF TypeOK
<1>2. ASSUME NEW i \in DOMAIN rows
      PROVE  /\ rows'[i] \in [event : Events, read : BOOLEAN]
             /\ rows'[i].event = rows[i].event
  <2>1. rows[i] \in [event : Events, read : BOOLEAN]
    BY <1>1, ElementOfSeq
  <2>2. rows'[i] = IF i \in ids THEN [rows[i] EXCEPT !.read = TRUE] ELSE rows[i]
    BY DEF SetRead
  <2> QED
    BY <2>1, <2>2
<1>3. rows' \in [1..Len(rows) -> [event : Events, read : BOOLEAN]]
  BY <1>1, <1>2 DEF SetRead
<1>4. rows' \in Seq([event : Events, read : BOOLEAN])
  BY <1>1, <1>3, IsASeq
<1> QED
  BY <1>2, <1>4 DEF SetRead

(* The REST calls change read flags only. *)
LEMMA RequestIInv ==
  ASSUME IInv, NEW ids, SetRead(ids) PROVE IInv'
<1> USE DEF IInv, persistVars, broadcastVars
<1>1. UNCHANGED <<queueType, event, ready, persistVars, broadcastVars, faultVars>>
  BY DEF SetRead
<1>2. TypeOK'
  BY <1>1, SetReadFacts DEF TypeOK
<1>3. RowsInv'
  BY <1>1, SetReadFacts DEF RowsInv
<1>4. \A e \in Events : Stored(e)' <=> Stored(e)
  BY SetReadFacts DEF Stored
<1>5. PlaceInv'
  BY <1>1 DEF PlaceInv, Held
<1>6. ASSUME NEW s \in Replicas PROVE ConsumerInv(s)' /\ PushInv(s)'
  BY <1>1, <1>4 DEF ConsumerInv, PushInv
<1> QED
  BY <1>2, <1>3, <1>5, <1>6

----------------------------------------------------------------------------
(* Every step preserves the invariant. *)
LEMMA NextIInv == IInv /\ [Next]_vars => IInv'
<1> SUFFICES ASSUME IInv, [Next]_vars PROVE IInv'
  OBVIOUS
<1>1. ASSUME NEW e \in Events, NEW target \in Targets, Publish(e, target) PROVE IInv'
  BY <1>1, PublishIInv
<1>2. ASSUME NEW r \in Replicas, Consume(r) PROVE IInv'
  BY <1>2, DeliverIInv, TakeIInv, CreateIInv, AnswerIInv, NoticeIInv DEF Consume
<1>3. ASSUME NEW r \in Replicas, Broadcast(r) PROVE IInv'
  BY <1>3, BroadcastIInv
<1>4. CASE Fault
  BY <1>4, RestartIInv, DropIInv, BroadcastIInv, CrashIInv DEF Fault
<1>5. CASE Request
  BY <1>5, RequestIInv DEF Request, MarkRead, MarkAllRead
<1>6. CASE UNCHANGED vars
  BY <1>6 DEF vars, persistVars, broadcastVars, IInv, TypeOK, PlaceInv, Held, ConsumerInv,
              Stored, PushInv, RowsInv
<1> QED
  BY <1>1, <1>2, <1>3, <1>4, <1>5, <1>6 DEF Next

(* The inductive invariant holds in every reachable state. *)
LEMMA InvariantHolds == Spec => []IInv
BY InitIInv, NextIInv, PTL DEF Spec

(* Type correctness of the consumers and of the notifications table. *)
THEOREM TypeCorrect == Spec => []TypeOK
<1>1. IInv => TypeOK
  BY DEF IInv
<1> QED
  BY <1>1, InvariantHolds, PTL

(* No replica pushes an event to its hub twice, whatever connections it    *)
(* loses: consumeBroadcast reads an exclusive queue.                       *)
THEOREM PushedOnce == Spec => []LiveOnce
<1>1. IInv => LiveOnce
  BY DEF IInv, PushInv, LiveOnce
<1> QED
  BY <1>1, InvariantHolds, PTL

----------------------------------------------------------------------------
(* The stored notifications of an event. *)
LEMMA CopyFacts ==
  ASSUME TypeOK, NEW e \in Events
  PROVE  /\ IsFiniteSet({i \in DOMAIN rows : rows[i].event = e})
         /\ CopiesOf(e) \in Nat
         /\ Stored(e) <=> CopiesOf(e) > 0
<1> DEFINE S == {i \in DOMAIN rows : rows[i].event = e}
<1>1. IsFiniteSet(DOMAIN rows)
  BY RowFacts, FS_Interval
<1>2. IsFiniteSet(S)
  BY <1>1, FS_Subset
<1>3. Cardinality(S) \in Nat
  BY <1>2, FS_CardinalityType
<1>4. Cardinality(S) = 0 <=> S = {}
  BY <1>2, FS_EmptySet
<1>5. Stored(e) <=> S # {}
  BY DEF Stored
<1> QED
  BY <1>2, <1>3, <1>4, <1>5 DEF CopiesOf

(* An insert adds one notification, and to its event only. *)
LEMMA AppendCopies ==
  ASSUME TypeOK, NEW e \in Events, NEW d \in Events,
         Len(rows') = Len(rows) + 1, DOMAIN rows' = 1..Len(rows'),
         rows'[Len(rows) + 1].event = e,
         \A i \in 1..Len(rows) : rows'[i] = rows[i]
  PROVE  CopiesOf(d)' = IF d = e THEN CopiesOf(d) + 1 ELSE CopiesOf(d)
<1> DEFINE S == {i \in DOMAIN rows : rows[i].event = d}
<1>1. Len(rows) \in Nat /\ DOMAIN rows = 1..Len(rows)
  BY RowFacts
<1>2. DOMAIN rows' = DOMAIN rows \cup {Len(rows) + 1} /\ Len(rows) + 1 \notin DOMAIN rows
  BY <1>1
<1>3. CASE d = e
  <2>1. {i \in DOMAIN rows' : rows'[i].event = d} = S \cup {Len(rows) + 1}
    BY <1>1, <1>2, <1>3
  <2>2. Cardinality(S \cup {Len(rows) + 1}) = Cardinality(S) + 1
    BY <1>2, CopyFacts, FS_AddElement
  <2> QED
    BY <1>3, <2>1, <2>2 DEF CopiesOf
<1>4. CASE d # e
  <2>1. {i \in DOMAIN rows' : rows'[i].event = d} = S
    BY <1>1, <1>2, <1>4
  <2> QED
    BY <1>4, <2>1 DEF CopiesOf
<1> QED
  BY <1>3, <1>4

(* What an insert does to the number of notifications. *)
LEMMA CreateCopies ==
  ASSUME IInv, NEW r \in Replicas, Create(r)
  PROVE  \/ \A d \in Events : CopiesOf(d)' = CopiesOf(d)
         \/ \A d \in Events :
               CopiesOf(d)' = IF d = cur[r] THEN CopiesOf(d) + 1 ELSE CopiesOf(d)
<1>1. CASE rows' = rows
  BY <1>1 DEF CopiesOf
<1>2. CASE rows' # rows
  <2>1. /\ Len(rows') = Len(rows) + 1
        /\ rows' \in Seq([event : Events, read : BOOLEAN])
        /\ rows'[Len(rows) + 1].event = cur[r]
        /\ \A i \in 1..Len(rows) : rows'[i] = rows[i]
    BY <1>2, CreateFacts
  <2>2. DOMAIN rows' = 1..Len(rows')
    BY <2>1, LenProperties
  <2>3. TypeOK /\ cur[r] \in Events
    BY CreateFacts DEF IInv
  <2> QED
    BY <2>1, <2>2, <2>3, AppendCopies
<1> QED
  BY <1>1, <1>2

(* Marking as read leaves the number of notifications. *)
LEMMA ReadCopies ==
  ASSUME TypeOK, NEW ids, SetRead(ids), NEW e \in Events
  PROVE  CopiesOf(e)' = CopiesOf(e)
<1>1. {i \in DOMAIN rows' : rows'[i].event = e} = {i \in DOMAIN rows : rows[i].event = e}
  BY SetReadFacts
<1> QED
  BY <1>1 DEF CopiesOf

----------------------------------------------------------------------------
(* The replicas that will still store an event. *)
LEMMA HolderFacts ==
  ASSUME NEW e \in Events, NEW S \in SUBSET Replicas
  PROVE  IsFiniteSet(S) /\ Cardinality(S) \in Nat
BY ReplicasAssumption, FS_Subset, FS_CardinalityType

(* The counts are naturals. *)
LEMMA NumberFacts ==
  ASSUME IInv, NEW e \in Events
  PROVE  CopiesOf(e) \in Nat /\ returned[e] \in Nat /\ (Stored(e) <=> CopiesOf(e) > 0)
<1>1. TypeOK
  BY DEF IInv
<1>2. returned[e] \in Nat
  BY <1>1 DEF TypeOK
<1> QED
  BY <1>1, <1>2, CopyFacts

(* A step that stores nothing and lets no new replica store, and that puts *)
(* a message back into the queue only as a failure.                        *)
LEMMA CountStep ==
  ASSUME IInv, CountInv,
         \A e \in Events :
            /\ event'[e] # Null => event[e] # Null
            /\ CopiesOf(e)' = CopiesOf(e)
            /\ Holders(e)' \subseteq Holders(e)
            /\ \/ returned'[e] = returned[e] /\ (e \in ready' => e \in ready)
               \/ returned'[e] = returned[e] + 1
  PROVE  CountInv'
<1> SUFFICES ASSUME NEW e \in Events, event'[e] # Null
             PROVE  CopiesOf(e)' + Cardinality(Holders(e)') + (IF e \in ready' THEN 1 ELSE 0)
                      <= 1 + returned'[e]
  BY DEF CountInv
<1>1. CopiesOf(e) \in Nat /\ returned[e] \in Nat
  BY NumberFacts
<1>2. Holders(e) \subseteq Replicas
  BY DEF Holders
<1>3. /\ Cardinality(Holders(e)) \in Nat /\ Cardinality(Holders(e)') \in Nat
      /\ Cardinality(Holders(e)') <= Cardinality(Holders(e))
  BY <1>2, HolderFacts, FS_Subset, FS_CardinalityType
<1>4. CopiesOf(e) + Cardinality(Holders(e)) + (IF e \in ready THEN 1 ELSE 0) <= 1 + returned[e]
  BY DEF CountInv
<1> QED
  BY <1>1, <1>3, <1>4

(* A published event has neither notifications nor holders yet. *)
LEMMA PublishCount ==
  ASSUME IInv, CountInv, NEW e \in Events, NEW target \in Targets, Publish(e, target)
  PROVE  CountInv'
<1> USE DEF Publish, persistVars
<1>1. event[e] = Null /\ \A d \in Events \ {e} : event'[d] = event[d]
  BY DEF IInv, TypeOK
<1>2. /\ ready' = ready \cup {e}
      /\ returned' = returned /\ \A d \in Events : returned[d] \in Nat
      /\ \A d \in Events : CopiesOf(d)' = CopiesOf(d) /\ Holders(d)' = Holders(d)
  BY DropsAssumption DEF CopiesOf, Holders, IInv, TypeOK
<1>3. CopiesOf(e) = 0
  <2>1. ~Stored(e)
    BY <1>1, NullAssumption DEF IInv, RowsInv, Stored
  <2> QED
    BY <2>1, NumberFacts
<1>4. Holders(e) = {}
  BY <1>1 DEF IInv, ConsumerInv, Holders
<1>5. Cardinality(Holders(e)) = 0
  BY <1>4, FS_EmptySet
<1> SUFFICES ASSUME NEW d \in Events, event'[d] # Null
             PROVE  CopiesOf(d) + Cardinality(Holders(d)) + (IF d \in ready' THEN 1 ELSE 0)
                      <= 1 + returned[d]
  BY <1>2 DEF CountInv
<1>6. CASE d = e
  BY <1>2, <1>3, <1>5, <1>6
<1>7. CASE d # e
  BY <1>1, <1>2, <1>7 DEF CountInv
<1> QED
  BY <1>6, <1>7

(* A delivery moves the event from the queue to a replica. *)
LEMMA DeliverCount ==
  ASSUME IInv, CountInv, NEW r \in Replicas, NEW e \in Events, Deliver(r, e)
  PROVE  CountInv'
<1> USE DEF Deliver, broadcastVars
<1>1. /\ e \in ready /\ ready' = ready \ {e} /\ UNCHANGED <<event, rows, cur, pc, returned>>
      /\ buf'[r] = buf[r] \cup {e} /\ \A s \in Replicas \ {r} : buf'[s] = buf[s]
  BY DEF IInv, TypeOK
<1> SUFFICES ASSUME NEW d \in Events, event[d] # Null
             PROVE  CopiesOf(d)' + Cardinality(Holders(d)') + (IF d \in ready' THEN 1 ELSE 0)
                      <= 1 + returned[d]
  BY <1>1 DEF CountInv
<1>2. CopiesOf(d)' = CopiesOf(d) /\ CopiesOf(d) \in Nat /\ returned[d] \in Nat
  <2>1. CopiesOf(d)' = CopiesOf(d)
    BY <1>1 DEF CopiesOf
  <2> QED
    BY <2>1, NumberFacts
<1>3. CopiesOf(d) + Cardinality(Holders(d)) + (IF d \in ready THEN 1 ELSE 0) <= 1 + returned[d]
  BY DEF CountInv
<1>4. IsFiniteSet(Holders(d)) /\ Cardinality(Holders(d)) \in Nat
  BY HolderFacts DEF Holders
<1>5. CASE d = e
  <2>1. Holders(d)' = Holders(d) \cup {r}
    BY <1>1, <1>5 DEF Holders
  <2>2. Cardinality(Holders(d) \cup {r}) =
           IF r \in Holders(d) THEN Cardinality(Holders(d)) ELSE Cardinality(Holders(d)) + 1
    BY <1>4, FS_AddElement
  <2>3. \/ Cardinality(Holders(d)') = Cardinality(Holders(d))
        \/ Cardinality(Holders(d)') = Cardinality(Holders(d)) + 1
    BY <2>1, <2>2
  <2> QED
    BY <1>1, <1>2, <1>3, <1>4, <1>5, <2>3
<1>6. CASE d # e
  <2>1. Holders(d)' = Holders(d)
    BY <1>1, <1>6 DEF Holders
  <2> QED
    BY <1>1, <1>2, <1>3, <1>6, <2>1
<1> QED
  BY <1>5, <1>6

(* An insert turns a holder into a notification. *)
LEMMA CreateCount ==
  ASSUME IInv, CountInv, NEW r \in Replicas, Create(r)
  PROVE  CountInv'
<1> DEFINE e == cur[r]
<1>1. /\ pc[r] = "create" /\ pc'[r] # "create"
      /\ \A s \in Replicas \ {r} : pc'[s] = pc[s]
      /\ UNCHANGED <<event, ready, buf, cur, returned>>
      /\ e \in Events /\ e \notin buf[r]
  <2>1. pc[r] = "create" /\ UNCHANGED returned
    BY DEF Create
  <2>2. e \in Events /\ UNCHANGED <<event, ready, buf, cur>>
    BY CreateFacts
  <2>3. e \notin buf[r]
    BY <2>1 DEF IInv, ConsumerInv
  <2>4. PICK to \in {"ack", "nack"} : pc' = [pc EXCEPT ![r] = to]
    BY CreateFacts
  <2>5. pc'[r] = to /\ \A s \in Replicas \ {r} : pc'[s] = pc[s]
    BY <2>4 DEF IInv, TypeOK
  <2> QED
    BY <2>1, <2>2, <2>3, <2>5
<1> SUFFICES ASSUME NEW d \in Events, event[d] # Null
             PROVE  CopiesOf(d)' + Cardinality(Holders(d)') + (IF d \in ready THEN 1 ELSE 0)
                      <= 1 + returned[d]
  BY <1>1 DEF CountInv
<1>2. CopiesOf(d) \in Nat /\ returned[d] \in Nat
  BY NumberFacts
<1>3. CopiesOf(d) + Cardinality(Holders(d)) + (IF d \in ready THEN 1 ELSE 0) <= 1 + returned[d]
  BY DEF CountInv
<1>4. IsFiniteSet(Holders(d)) /\ Cardinality(Holders(d)) \in Nat
  BY HolderFacts DEF Holders
<1>5. CASE d = e
  <2>1. r \in Holders(d) /\ Holders(d)' = Holders(d) \ {r}
    BY <1>1, <1>5 DEF Holders
  <2>2. Cardinality(Holders(d)') = Cardinality(Holders(d)) - 1
    BY <1>4, <2>1, FS_RemoveElement
  <2>3. CopiesOf(d)' = CopiesOf(d) \/ CopiesOf(d)' = CopiesOf(d) + 1
    BY <1>5, CreateCopies
  <2> QED
    BY <1>2, <1>3, <1>4, <2>2, <2>3
<1>6. CASE d # e
  <2>1. Holders(d)' = Holders(d)
    BY <1>1, <1>6 DEF Holders
  <2>2. CopiesOf(d)' = CopiesOf(d)
    BY <1>6, CreateCopies
  <2> QED
    BY <1>3, <2>1, <2>2
<1> QED
  BY <1>5, <1>6

(* No step makes more notifications than the failures pay for. *)
LEMMA NextCount == IInv /\ CountInv /\ [Next]_vars => CountInv'
<1> SUFFICES ASSUME IInv, CountInv, [Next]_vars PROVE CountInv'
  OBVIOUS
<1>1. ASSUME NEW e \in Events, NEW target \in Targets, Publish(e, target) PROVE CountInv'
  BY <1>1, PublishCount
<1>2. ASSUME NEW r \in Replicas, Consume(r) PROVE CountInv'
  <2>1. ASSUME NEW e \in Events, Take(r, e) PROVE CountInv'
    <3>1. UNCHANGED <<event, ready, rows, returned>>
      BY <2>1 DEF Take
    <3>2. ASSUME NEW d \in Events PROVE Holders(d)' \subseteq Holders(d)
      BY <2>1 DEF Take, Holders, IInv, TypeOK
    <3> QED
      BY <3>1, <3>2, CountStep DEF CopiesOf
  <2>2. CASE Answer(r)
    <3>1. UNCHANGED <<event, ready, rows, returned>>
      BY <2>2 DEF Answer
    <3>2. ASSUME NEW d \in Events PROVE Holders(d)' \subseteq Holders(d)
      BY <2>2 DEF Answer, Holders, IInv, TypeOK
    <3> QED
      BY <3>1, <3>2, CountStep DEF CopiesOf
  <2>3. CASE Notice(r)
    <3>1. UNCHANGED <<event, ready, rows, returned>>
      BY <2>3 DEF Notice
    <3>2. ASSUME NEW d \in Events PROVE Holders(d)' \subseteq Holders(d)
      BY <2>3 DEF Notice, Holders, IInv, TypeOK
    <3> QED
      BY <3>1, <3>2, CountStep DEF CopiesOf
  <2>4. CASE Connect(r)
    BY <2>4, CountStep DEF Connect, CopiesOf, Holders
  <2> QED
    BY <1>2, <2>1, <2>2, <2>3, <2>4, DeliverCount, CreateCount DEF Consume
<1>3. ASSUME NEW r \in Replicas, Broadcast(r) PROVE CountInv'
  <2>1. UNCHANGED <<event, ready, rows, returned, buf, pc, cur>>
    BY <1>3 DEF Broadcast, Push, BAnswer, BNotice, BConnect, persistVars
  <2> QED
    BY <2>1, CountStep DEF CopiesOf, Holders
<1>4. CASE Fault
  <2>1. UNCHANGED <<event, rows>>
    BY <1>4 DEF Fault, BrokerRestart, Drop, BDrop, Crash
  <2>2. ASSUME NEW d \in Events PROVE Holders(d)' \subseteq Holders(d)
    <3>1. CASE UNCHANGED <<buf, pc, cur>>
      BY <3>1 DEF Holders
    <3>2. ASSUME NEW r \in Replicas, Crash(r) PROVE Holders(d)' \subseteq Holders(d)
      BY <3>2 DEF Crash, Holders, IInv, TypeOK
    <3> QED
      BY <1>4, <3>1, <3>2 DEF Fault, BrokerRestart, Drop, BDrop, persistVars
  <2>3. ASSUME NEW d \in Events
        PROVE  \/ returned'[d] = returned[d] /\ (d \in ready' => d \in ready)
               \/ returned'[d] = returned[d] + 1
    <3>1. ASSUME NEW es, Requeue(es)
          PROVE  \/ returned'[d] = returned[d] /\ (d \in ready' => d \in ready)
                 \/ returned'[d] = returned[d] + 1
      BY <3>1 DEF Requeue
    <3>2. CASE UNCHANGED returned /\ ready' \subseteq ready
      BY <3>2
    <3> QED
      BY <1>4, <3>1, <3>2 DEF Fault, BrokerRestart, Drop, BDrop, Crash
  <2> QED
    BY <2>1, <2>2, <2>3, CountStep DEF CopiesOf
<1>5. CASE Request
  <2>1. PICK ids : SetRead(ids)
    BY <1>5 DEF Request, MarkRead, MarkAllRead
  <2>2. \A e \in Events : CopiesOf(e)' = CopiesOf(e)
    BY <2>1, ReadCopies DEF IInv
  <2>3. UNCHANGED <<event, ready, returned, buf, pc, cur>>
    BY <2>1 DEF SetRead, persistVars
  <2> QED
    BY <2>2, <2>3, CountStep DEF Holders
<1>6. CASE UNCHANGED vars
  BY <1>6, CountStep DEF vars, persistVars, CopiesOf, Holders
<1> QED
  BY <1>1, <1>2, <1>3, <1>4, <1>5, <1>6 DEF Next

(* Each return of an unacknowledged event to the queue can duplicate its   *)
(* notification once, and nothing else can: a message is stored by the     *)
(* replica it was delivered to, at most once for each delivery.            *)
THEOREM DuplicatesBounded == Spec => []DuplicatesPaid
<1>1. Init => CountInv
  BY DEF Init, CountInv
<1>2. IInv /\ CountInv => DuplicatesPaid
  <2> SUFFICES ASSUME IInv, CountInv, NEW e \in Events PROVE CopiesOf(e) <= 1 + returned[e]
    BY DEF DuplicatesPaid
  <2>1. CopiesOf(e) \in Nat /\ returned[e] \in Nat /\ (Stored(e) <=> CopiesOf(e) > 0)
    BY NumberFacts
  <2>2. CASE event[e] = Null
    <3>1. ~Stored(e)
      BY <2>2, NullAssumption DEF IInv, RowsInv, Stored
    <3> QED
      BY <2>1, <3>1
  <2>3. CASE event[e] # Null
    <3>1. Cardinality(Holders(e)) \in Nat
      BY HolderFacts DEF Holders
    <3> QED
      BY <2>1, <2>3, <3>1 DEF CountInv
  <2> QED
    BY <2>2, <2>3
<1> QED
  BY <1>1, <1>2, NextCount, InvariantHolds, PTL DEF Spec

----------------------------------------------------------------------------
(* At first no event is sent and nothing stored. *)
LEMMA InitRefines == Init => Abstract!Init
<1> SUFFICES ASSUME Init PROVE Abstract!Init
  OBVIOUS
<1>1. \A e \in Events : Fate(e) = "unsent"
  BY DEF Init, Fate
<1>2. {e \in Events : event[e] \in Users} = {}
  BY NullAssumption DEF Init
<1>3. ASSUME NEW e \in Events PROVE CopiesOf(e) = 0
  <2>1. {i \in DOMAIN rows : rows[i].event = e} = {}
    BY DEF Init
  <2> QED
    BY <2>1, FS_EmptySet DEF CopiesOf
<1>4. (queueType = "quorum") \in BOOLEAN
  OBVIOUS
<1> QED
  BY <1>1, <1>2, <1>3, <1>4 DEF Abstract!Init

(* A step that changes neither the place of a settled event nor the number *)
(* of notifications is invisible.                                          *)
LEMMA StutterRefines ==
  ASSUME UNCHANGED <<queueType, event, acked, dlq, lost>>,
         \A e \in Events : CopiesOf(e)' = CopiesOf(e)
  PROVE  UNCHANGED Abstract!vars
<1>1. \A e \in Events : Fate(e)' = Fate(e)
  BY DEF Fate
<1> QED
  BY <1>1 DEF Abstract!vars

(* Publishing is the acceptance of the event. *)
LEMMA PublishRefines ==
  ASSUME IInv, NEW e \in Events, NEW target \in Targets, Publish(e, target)
  PROVE  Abstract!Accept(e)
<1>1. /\ event[e] = Null /\ event'[e] = target /\ target # Null
      /\ \A d \in Events \ {e} : event'[d] = event[d]
      /\ UNCHANGED <<queueType, acked, dlq, lost, rows>>
  BY NullAssumption, TargetsAssumption DEF IInv, TypeOK, Publish, Targets, persistVars
<1>2. e \notin lost /\ e \notin acked /\ e \notin dlq
  BY <1>1 DEF IInv, PlaceInv
<1>3. /\ Fate(e) = "unsent" /\ Fate(e)' = "accepted"
      /\ \A d \in Events \ {e} : Fate(d)' = Fate(d)
  BY <1>1, <1>2 DEF Fate
<1>4. [d \in Events |-> Fate(d)'] = [[d \in Events |-> Fate(d)] EXCEPT ![e] = "accepted"]
  BY <1>3
<1>5. \/ {d \in Events : event'[d] \in Users} = {d \in Events : event[d] \in Users}
      \/ {d \in Events : event'[d] \in Users} = {d \in Events : event[d] \in Users} \cup {e}
  BY <1>1, NullAssumption
<1>6. \A d \in Events : CopiesOf(d)' = CopiesOf(d)
  BY <1>1 DEF CopiesOf
<1> QED
  BY <1>1, <1>3, <1>4, <1>5, <1>6 DEF Abstract!Accept

(* An insert stores a notification that was wanted, or fails. *)
LEMMA CreateRefines ==
  ASSUME IInv, NEW r \in Replicas, Create(r)
  PROVE  [Abstract!Next]_(Abstract!vars)
<1>1. /\ cur[r] \in Events /\ event[cur[r]] \in Users
      /\ UNCHANGED <<queueType, event, acked, dlq, lost>>
  BY CreateFacts DEF Create
<1>2. CASE \A d \in Events : CopiesOf(d)' = CopiesOf(d)
  BY <1>1, <1>2, StutterRefines
<1>3. CASE \A d \in Events :
               CopiesOf(d)' = IF d = cur[r] THEN CopiesOf(d) + 1 ELSE CopiesOf(d)
  <2>1. \A d \in Events : Fate(d)' = Fate(d)
    BY <1>1 DEF Fate
  <2>2. [d \in Events |-> CopiesOf(d)'] =
           [[d \in Events |-> CopiesOf(d)] EXCEPT ![cur[r]] = @ + 1]
    BY <1>1, <1>3
  <2>3. Abstract!Store(cur[r])
    BY <1>1, <2>1, <2>2 DEF Abstract!Store
  <2> QED
    BY <1>1, <2>3 DEF Abstract!Next
<1> QED
  BY <1>2, <1>3, CreateCopies

(* An acknowledgement that reaches the broker settles an event whose       *)
(* notification exists, a refusal parks it; any other has no effect.       *)
LEMMA AnswerRefines ==
  ASSUME IInv, NEW r \in Replicas, Answer(r)
  PROVE  [Abstract!Next]_(Abstract!vars)
<1>0. PICK e \in Events : e = cur[r]
  BY DEF IInv, ConsumerInv, Answer
<1>1. /\ event[e] # Null /\ UNCHANGED <<queueType, event, lost, rows>>
      /\ pc[r] \in {"ack", "nack"}
  BY <1>0 DEF IInv, ConsumerInv, Answer
<1>2. \A d \in Events : CopiesOf(d)' = CopiesOf(d)
  BY <1>1 DEF CopiesOf
<1>3. CASE link[r] # "up"
  <2>1. UNCHANGED <<acked, dlq>>
    BY <1>3 DEF Answer
  <2> QED
    BY <1>1, <1>2, <2>1, StutterRefines
<1>4. CASE link[r] = "up"
  <2>1. e \in unacked[r]
    BY <1>0, <1>1, <1>4 DEF IInv, ConsumerInv
  <2>2. e \notin acked /\ e \notin dlq /\ e \notin lost
    BY <2>1 DEF IInv, PlaceInv
  <2>3. Fate(e) = "accepted"
    BY <1>1, <2>2 DEF Fate
  <2>4. CASE pc[r] = "ack"
    <3>1. acked' = acked \cup {e} /\ dlq' = dlq
      BY <1>0, <1>4, <2>4 DEF Answer
    <3>2. Fate(e)' = "done" /\ \A d \in Events \ {e} : Fate(d)' = Fate(d)
      BY <1>1, <2>2, <3>1 DEF Fate
    <3>3. event[e] \in Users => CopiesOf(e) > 0
      BY <1>0, <1>1, <2>4, NumberFacts DEF IInv, ConsumerInv
    <3>4. [d \in Events |-> Fate(d)'] = [[d \in Events |-> Fate(d)] EXCEPT ![e] = "done"]
      BY <3>2
    <3>5. Abstract!Done(e)
      BY <1>1, <1>2, <2>3, <3>3, <3>4 DEF Abstract!Done
    <3> QED
      BY <1>1, <3>5 DEF Abstract!Next
  <2>5. CASE pc[r] = "nack"
    <3>1. acked' = acked /\ dlq' = dlq \cup {e}
      BY <1>0, <1>4, <2>5 DEF Answer
    <3>2. Fate(e)' = "parked" /\ \A d \in Events \ {e} : Fate(d)' = Fate(d)
      BY <1>1, <2>2, <3>1 DEF Fate
    <3>3. [d \in Events |-> Fate(d)'] = [[d \in Events |-> Fate(d)] EXCEPT ![e] = "parked"]
      BY <3>2
    <3>4. Abstract!Park(e)
      BY <1>1, <1>2, <2>3, <3>3 DEF Abstract!Park
    <3> QED
      BY <1>1, <3>4 DEF Abstract!Next
  <2> QED
    BY <1>1, <2>4, <2>5
<1> QED
  BY <1>3, <1>4

(* A restart of the broker loses what a classic queue holds. *)
LEMMA RestartRefines ==
  ASSUME IInv, BrokerRestart
  PROVE  [Abstract!Next]_(Abstract!vars)
<1>1. UNCHANGED <<queueType, event, acked, rows>>
  BY DEF BrokerRestart
<1>2. \A d \in Events : CopiesOf(d)' = CopiesOf(d)
  BY <1>1 DEF CopiesOf
<1>3. CASE queueType = "quorum"
  <2>1. UNCHANGED <<dlq, lost>>
    BY <1>3 DEF BrokerRestart
  <2> QED
    BY <1>1, <1>2, <2>1, StutterRefines
<1>4. CASE queueType # "quorum"
  <2>1. dlq' = {} /\ lost' = lost \cup ready \cup Delivered \cup dlq
    BY <1>4 DEF BrokerRestart
  <2>2. \A e \in Events : e \in Delivered <=> Held(e)
    BY DEF Delivered, Held
  <2>3. ASSUME NEW e \in Events
        PROVE  Fate(e)' = IF Fate(e) \in {"accepted", "parked"} THEN "lost" ELSE Fate(e)
    <3>1. event[e] # Null <=>
             e \in ready \/ e \in Delivered \/ e \in acked \/ e \in dlq \/ e \in lost
      BY <2>2 DEF IInv, PlaceInv
    <3>2. e \in acked => e \notin ready /\ e \notin Delivered /\ e \notin dlq
      BY <2>2 DEF IInv, PlaceInv, Held
    <3> QED
      BY <1>1, <2>1, <3>1, <3>2 DEF Fate
  <2>4. Abstract!Lose
    BY <1>1, <1>2, <1>4, <2>3 DEF Abstract!Lose
  <2> QED
    BY <2>4 DEF Abstract!Next
<1> QED
  BY <1>3, <1>4

(* Every step is a step of EventDelivery or invisible to it. *)
LEMMA NextRefines == IInv /\ [Next]_vars => [Abstract!Next]_(Abstract!vars)
<1> SUFFICES ASSUME IInv, [Next]_vars PROVE [Abstract!Next]_(Abstract!vars)
  OBVIOUS
<1>0. CASE UNCHANGED <<queueType, event, acked, dlq, lost, rows>>
  BY <1>0, StutterRefines DEF CopiesOf
<1>1. ASSUME NEW e \in Events, NEW target \in Targets, Publish(e, target)
      PROVE  [Abstract!Next]_(Abstract!vars)
  BY <1>1, PublishRefines DEF Abstract!Next
<1>2. ASSUME NEW r \in Replicas, Consume(r) PROVE [Abstract!Next]_(Abstract!vars)
  BY <1>0, <1>2, CreateRefines, AnswerRefines DEF Consume, Deliver, Take, Notice, Connect
<1>3. ASSUME NEW r \in Replicas, Broadcast(r) PROVE [Abstract!Next]_(Abstract!vars)
  BY <1>0, <1>3 DEF Broadcast, Push, BAnswer, BNotice, BConnect, persistVars
<1>4. CASE Fault
  BY <1>0, <1>4, RestartRefines DEF Fault, Drop, BDrop, Crash, persistVars
<1>5. CASE Request
  <2>1. PICK ids : SetRead(ids)
    BY <1>5 DEF Request, MarkRead, MarkAllRead
  <2>2. \A e \in Events : CopiesOf(e)' = CopiesOf(e)
    BY <2>1, ReadCopies DEF IInv
  <2> QED
    BY <2>1, <2>2, StutterRefines DEF SetRead, persistVars
<1>6. CASE UNCHANGED vars
  BY <1>0, <1>6 DEF vars, persistVars
<1> QED
  BY <1>1, <1>2, <1>3, <1>4, <1>5, <1>6 DEF Next

(* The consumers implement at-least-once delivery: no event is             *)
(* acknowledged before its notification is stored, and none leaves         *)
(* ticket_created unsettled unless a classic queue is restarted.           *)
THEOREM DeliveryImplemented == Spec => ImplementsDelivery
BY InitRefines, NextRefines, InvariantHolds, PTL
   DEF Spec, ImplementsDelivery, Abstract!Spec
=============================================================================
