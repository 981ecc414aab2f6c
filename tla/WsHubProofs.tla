---------------------------- MODULE WsHubProofs ----------------------------
(***************************************************************************)
(* TLAPS proofs about WsHub for any number of connections and messages and *)
(* any limits: what a registered client receives, how far the cap can be   *)
(* exceeded, and that no open connection is forgotten.                     *)
(***************************************************************************)
EXTENDS WsHub, FiniteSetTheorems, SequenceTheorems, TLAPS

(* How many messages have left the channel. *)
Taken == IF out # Null /\ ~locked THEN handled + 1 ELSE handled

(* The channel holds the accepted messages that were not taken, in order,  *)
(* and out is the last one that was.                                       *)
ChannelInv ==
    /\ Len(accepted) = Taken + Len(broadcast)
    /\ \A i \in 1..Len(broadcast) : broadcast[i] = accepted[Taken + i]
    /\ out # Null => Taken \in 1..Len(accepted) /\ out = accepted[Taken]

(* HandleMessages works on a message, for clients it is for, under the     *)
(* lock only.                                                              *)
LockInv ==
    /\ locked => out # Null
    /\ ~locked => todo = {}
    /\ \A c \in todo : Matches(c, out)

(* A connection joined before the messages it is written, and was written  *)
(* nothing before it joined.                                               *)
JoinInv ==
    /\ \A c \in clients : joined[c] <= handled /\ (c \in todo => joined[c] < handled)
    /\ \A c \in Conns : pc[c] \in {"idle", "checked", "upgraded"} => written[c] = <<>>

SocketInv ==
    /\ SocketsTracked
    /\ \A c \in Conns : pc[c] = "upgraded" => sock[c] = "open"

(* Every client was written what was due to it. *)
ReceivedDue == \A c \in clients : InOrder(written[c], accepted, Due(c))

(* The inductive invariant. *)
IInv ==
    /\ TypeOK
    /\ SocketInv
    /\ ChannelInv
    /\ LockInv
    /\ JoinInv
    /\ ReceivedDue

(* The messages entered the channel in the order they were handed over. *)
OrderInv ==
    /\ \A k \in 1..Len(accepted) : accepted[k] <= sent
    /\ \A k, n \in 1..Len(accepted) : k < n => accepted[k] < accepted[n]

(* As many handshakes overlapped as are under way. *)
PeakInv == CapExceededByOverlap /\ Cardinality(Shaking) <= peak

----------------------------------------------------------------------------
(* Nothing was due and nothing written. *)
LEMMA InOrderEmpty == \A s : InOrder(<<>>, s, {})
<1> SUFFICES ASSUME NEW s PROVE InOrder(<<>>, s, {})
  OBVIOUS
<1>1. [i \in {} |-> 0] \in [1..Len(<<>>) -> {}]
  OBVIOUS
<1>2. 1..Len(<<>>) = {}
  OBVIOUS
<1> QED
  BY <1>1, <1>2 DEF InOrder

(* The positions that matter still hold the same messages. *)
LEMMA InOrderSame ==
  ASSUME NEW w, NEW s, NEW t, NEW due, InOrder(w, s, due),
         \A k \in due : t[k] = s[k]
  PROVE  InOrder(w, t, due)
<1>1. PICK at \in [1..Len(w) -> due] :
        /\ \A i, j \in 1..Len(w) : i < j => at[i] < at[j]
        /\ \A k \in due : \E i \in 1..Len(w) : at[i] = k
        /\ \A i \in 1..Len(w) : w[i] = s[at[i]]
  BY DEF InOrder
<1>2. \A i \in 1..Len(w) : w[i] = t[at[i]]
  BY <1>1
<1> QED
  BY <1>1, <1>2 DEF InOrder

(* The next position is written after all the others. *)
LEMMA InOrderNext ==
  ASSUME NEW T, NEW w \in Seq(T), NEW s, NEW due \in SUBSET Nat, InOrder(w, s, due),
         NEW n \in Nat, \A k \in due : k < n, s[n] \in T
  PROVE  InOrder(Append(w, s[n]), s, due \cup {n})
<1>1. PICK at \in [1..Len(w) -> due] :
        /\ \A i, j \in 1..Len(w) : i < j => at[i] < at[j]
        /\ \A k \in due : \E i \in 1..Len(w) : at[i] = k
        /\ \A i \in 1..Len(w) : w[i] = s[at[i]]
  BY DEF InOrder
<1> DEFINE v == Append(w, s[n])
           to == [i \in 1..(Len(w) + 1) |-> IF i = Len(w) + 1 THEN n ELSE at[i]]
<1>2. /\ Len(w) \in Nat /\ Len(v) = Len(w) + 1 /\ v[Len(w) + 1] = s[n]
      /\ \A i \in 1..Len(w) : v[i] = w[i]
  BY AppendProperties, LenProperties
<1>3. \A i \in 1..(Len(w) + 1) : i \in 1..Len(w) \/ i = Len(w) + 1
  BY <1>2
<1>4. to \in [1..(Len(w) + 1) -> due \cup {n}]
  BY <1>1, <1>3
<1>5. ASSUME NEW i \in 1..(Len(w) + 1), NEW j \in 1..(Len(w) + 1), i < j
      PROVE  to[i] < to[j]
  <2>1. i \in 1..Len(w)
    BY <1>2, <1>5
  <2>2. at[i] \in due /\ to[i] = at[i]
    BY <1>1, <1>2, <2>1
  <2>3. CASE j = Len(w) + 1
    BY <2>2, <2>3
  <2>4. CASE j \in 1..Len(w)
    BY <1>1, <1>2, <1>5, <2>1, <2>2, <2>4
  <2> QED
    BY <1>3, <2>3, <2>4
<1>6. ASSUME NEW k \in due \cup {n} PROVE \E i \in 1..(Len(w) + 1) : to[i] = k
  <2>1. CASE k = n
    BY <1>2, <2>1
  <2>2. CASE k \in due
    BY <1>1, <1>2, <2>2
  <2> QED
    BY <2>1, <2>2
<1>7. ASSUME NEW i \in 1..(Len(w) + 1) PROVE v[i] = s[to[i]]
  <2>1. CASE i = Len(w) + 1
    BY <1>2, <2>1
  <2>2. CASE i \in 1..Len(w)
    BY <1>1, <1>2, <2>2
  <2> QED
    BY <1>3, <2>1, <2>2
<1> HIDE DEF v, to
<1> QED
  BY <1>2, <1>4, <1>5, <1>6, <1>7 DEF InOrder, v

----------------------------------------------------------------------------
(* No connection at first, nothing in the channel. *)
LEMMA InitIInv == Init => IInv
<1> SUFFICES ASSUME Init PROVE IInv
  OBVIOUS
<1>1. TypeOK
  <2>1. locked \in BOOLEAN
    BY DEF Init
  <2>2. Len(broadcast) <= QueueLimit /\ handled \in 0..Len(accepted)
    BY HubLimits DEF Init
  <2>3. /\ broadcast \in Seq(Messages) /\ accepted \in Seq(Messages)
        /\ written \in [Conns -> Seq(Messages)]
    BY DEF Init
  <2>4. sent \in 0..MaxMessages
    BY HubLimits DEF Init
  <2> QED
    BY <2>1, <2>2, <2>3, <2>4 DEF Init, TypeOK
<1>2. SocketInv
  BY DEF Init, SocketInv, SocketsTracked
<1>3. ChannelInv
  BY DEF Init, ChannelInv, Taken
<1>4. LockInv /\ JoinInv /\ ReceivedDue
  BY DEF Init, LockInv, JoinInv, ReceivedDue
<1> QED
  BY <1>1, <1>2, <1>3, <1>4 DEF IInv

(* The lengths the invariant speaks of. *)
LEMMA LengthFacts ==
  ASSUME IInv
  PROVE  /\ Len(accepted) \in Nat /\ Len(broadcast) \in Nat /\ handled \in Nat
         /\ accepted \in Seq(Messages) /\ broadcast \in Seq(Messages)
         /\ DOMAIN accepted = 1..Len(accepted)
         /\ handled <= Len(accepted)
         /\ \A c \in Conns : Due(c) \subseteq Nat
BY LenProperties DEF IInv, TypeOK, Due

(* A step of the handler or of the reader of one connection. *)
LEMMA ConnectionFacts ==
  ASSUME IInv, NEW c \in Conns, Connection(c)
  PROVE  /\ UNCHANGED <<hubVars, phase>>
         /\ \A d \in Conns \ {c} :
               /\ pc'[d] = pc[d] /\ sock'[d] = sock[d] /\ joined'[d] = joined[d]
               /\ d \in clients' <=> d \in clients
         /\ \/ clients' = clients /\ joined' = joined
            \/ ~locked /\ clients' = clients \ {c} /\ joined' = joined
            \/ /\ ~locked /\ clients' = clients \cup {c} /\ joined'[c] = handled
               /\ pc[c] = "upgraded"
         /\ \/ pc'[c] \notin {"idle", "checked", "upgraded"}
            \/ pc[c] \in {"idle", "checked", "upgraded"}
<1>1. CASE Check(c)
  BY <1>1 DEF Check, IInv, TypeOK
<1>2. CASE Upgrade(c)
  BY <1>2 DEF Upgrade, IInv, TypeOK
<1>3. CASE Register(c)
  BY <1>3 DEF Register, IInv, TypeOK
<1>4. CASE ReadError(c)
  BY <1>4 DEF ReadError, IInv, TypeOK
<1>5. CASE CloseConn(c)
  BY <1>5 DEF CloseConn, IInv, TypeOK
<1>6. CASE PeerMoves(c)
  BY <1>6 DEF PeerMoves, IInv, TypeOK
<1> QED
  BY <1>1, <1>2, <1>3, <1>4, <1>5, <1>6 DEF Connection

(* The handshakes a step of one connection starts or ends. *)
LEMMA ConnectionTypes ==
  ASSUME IInv, NEW c \in Conns, Connection(c)
  PROVE  TypeOK' /\ SocketInv'
<1> USE DEF IInv, SocketInv, SocketsTracked
<1> DEFINE T == /\ pc' \in [Conns -> {"idle", "checked", "upgraded", "reading",
                                    "closing", "done"}]
                /\ peer' \in [Conns -> {"reading", "stuck", "gone"}]
                /\ sock' \in [Conns -> {"none", "open", "closed"}]
                /\ clients' \subseteq Conns
                /\ joined' \in [Conns -> Nat]
                /\ todo \subseteq clients'
                /\ SocketInv'
<1>0. Cardinality(Shaking) \in Nat
  BY HubConns, FS_Subset, FS_CardinalityType DEF Shaking
<1>1. CASE Check(c)
  <2>1. T
    BY <1>1 DEF Check, TypeOK
  <2>2. peak' \in Nat
    BY <1>0, <1>1 DEF Check, TypeOK, Max2
  <2> QED
    BY <1>1, <2>1, <2>2 DEF Check, TypeOK, hubVars
<1>2. CASE Upgrade(c)
  <2>1. T
    <3>1. CASE pc' = [pc EXCEPT ![c] = "upgraded"] /\ sock' = [sock EXCEPT ![c] = "open"]
      BY <1>2, <3>1 DEF Upgrade, TypeOK
    <3>2. CASE pc' = [pc EXCEPT ![c] = "done"] /\ sock' = sock
      <4>1. c \notin clients /\ sock[c] # "open"
        BY <1>2 DEF Upgrade, TypeOK
      <4> QED
        BY <1>2, <3>2, <4>1 DEF Upgrade, TypeOK
    <3> QED
      BY <1>2, <3>1, <3>2 DEF Upgrade
  <2> QED
    BY <1>2, <2>1 DEF Upgrade, TypeOK, hubVars
<1>3. CASE Register(c)
  <2>1. T
    BY <1>3, LengthFacts DEF Register, TypeOK
  <2> QED
    BY <1>3, <2>1 DEF Register, TypeOK, hubVars
<1>4. CASE ReadError(c)
  <2>1. T
    BY <1>4 DEF ReadError, TypeOK, LockInv
  <2> QED
    BY <1>4, <2>1 DEF ReadError, TypeOK, hubVars
<1>5. CASE CloseConn(c)
  <2>1. T
    BY <1>5 DEF CloseConn, TypeOK
  <2> QED
    BY <1>5, <2>1 DEF CloseConn, TypeOK, hubVars
<1>6. CASE PeerMoves(c)
  <2>1. T
    BY <1>6 DEF PeerMoves, TypeOK
  <2> QED
    BY <1>6, <2>1 DEF PeerMoves, TypeOK, hubVars
<1> QED
  BY <1>1, <1>2, <1>3, <1>4, <1>5, <1>6 DEF Connection

(* The handlers and readers of the connections. *)
LEMMA ConnectionIInv ==
  ASSUME IInv, NEW c \in Conns, Connection(c)
  PROVE  IInv'
<1>1. TypeOK' /\ SocketInv'
  BY ConnectionTypes
<1>2. UNCHANGED hubVars
  BY ConnectionFacts
<1>0. \A d \in Conns \ {c} : pc'[d] = pc[d]
  BY ConnectionFacts
<1>3. ChannelInv' /\ LockInv'
  BY <1>2 DEF hubVars, IInv, ChannelInv, Taken, LockInv, Matches
<1>4. JoinInv'
  <2>1. ASSUME NEW d \in clients'
        PROVE  joined'[d] <= handled' /\ (d \in todo' => joined'[d] < handled')
    <3>1. d \in Conns /\ handled \in Nat /\ UNCHANGED <<todo, handled>>
      BY <1>1, <1>2, LengthFacts DEF hubVars, TypeOK
    <3>2. CASE d \in clients /\ joined'[d] = joined[d]
      BY <3>1, <3>2 DEF IInv, JoinInv
    <3>3. CASE ~(d \in clients /\ joined'[d] = joined[d])
      <4>1. ~locked /\ joined'[d] = handled
        BY <3>1, <3>3, ConnectionFacts
      <4>2. d \notin todo
        BY <4>1 DEF IInv, LockInv
      <4> QED
        BY <3>1, <4>1, <4>2
    <3> QED
      BY <3>2, <3>3
  <2>2. ASSUME NEW d \in Conns, pc'[d] \in {"idle", "checked", "upgraded"}
        PROVE  written'[d] = <<>>
    <3>1. pc[d] \in {"idle", "checked", "upgraded"}
      <4>1. CASE d = c
        BY <2>2, <4>1, ConnectionFacts
      <4>2. CASE d # c
        BY <1>0, <2>2, <4>2
      <4> QED
        BY <4>1, <4>2
    <3> QED
      BY <1>2, <3>1 DEF hubVars, IInv, JoinInv
  <2> QED
    BY <2>1, <2>2 DEF JoinInv
<1>5. ReceivedDue'
  <2> SUFFICES ASSUME NEW d \in clients' PROVE InOrder(written[d], accepted, Due(d)')
    BY <1>2 DEF ReceivedDue, hubVars
  <2>0. d \in Conns
    BY <1>1 DEF TypeOK
  <2>1. CASE d \in clients /\ joined'[d] = joined[d]
    <3>1. Due(d)' = Due(d)
      BY <1>2, <2>1 DEF Due, Matches, hubVars
    <3> QED
      BY <2>1, <3>1 DEF IInv, ReceivedDue
  <2>2. CASE ~(d \in clients /\ joined'[d] = joined[d])
    <3>1. d = c /\ ~locked /\ joined'[c] = handled /\ pc[c] = "upgraded"
      BY <2>0, <2>2, ConnectionFacts
    <3>2. written[d] = <<>> /\ d \notin todo
      BY <3>1 DEF IInv, JoinInv, LockInv
    <3>3. Due(d)' = {}
      BY <1>2, <3>1, <3>2, LengthFacts DEF Due, hubVars
    <3> QED
      BY <3>2, <3>3, InOrderEmpty
  <2> QED
    BY <2>1, <2>2
<1> QED
  BY <1>1, <1>3, <1>4, <1>5 DEF IInv

(* A message enters the channel or is dropped. *)
LEMMA EnqueueIInv ==
  ASSUME IInv, NEW m \in Messages, Enqueue(m)
  PROVE  IInv'
<1> USE DEF connVars
<1>1. UNCHANGED <<connVars, out, locked, todo, handled, written, phase>>
  BY DEF Enqueue
<1>2. SocketInv' /\ LockInv' /\ JoinInv'
  BY <1>1 DEF IInv, SocketInv, SocketsTracked, LockInv, JoinInv, Matches
<1>3. Taken' = Taken /\ Taken \in Nat
  BY <1>1, LengthFacts DEF Taken
<1>4. CASE UNCHANGED <<broadcast, accepted>>
  <2>1. TypeOK'
    BY <1>1, <1>4 DEF Enqueue, IInv, TypeOK, Messages
  <2>2. ChannelInv' /\ ReceivedDue'
    BY <1>1, <1>3, <1>4 DEF IInv, ChannelInv, ReceivedDue, Due, Matches
  <2> QED
    BY <1>2, <2>1, <2>2 DEF IInv
<1>5. CASE /\ Len(broadcast) < QueueLimit
           /\ broadcast' = Append(broadcast, m) /\ accepted' = Append(accepted, m)
  <2>1. /\ broadcast' \in Seq(Messages) /\ Len(broadcast') = Len(broadcast) + 1
        /\ \A i \in 1..Len(broadcast) : broadcast'[i] = broadcast[i]
        /\ broadcast'[Len(broadcast) + 1] = m
    BY <1>5, LengthFacts, AppendProperties
  <2>2. /\ accepted' \in Seq(Messages) /\ Len(accepted') = Len(accepted) + 1
        /\ \A i \in 1..Len(accepted) : accepted'[i] = accepted[i]
        /\ accepted'[Len(accepted) + 1] = m
    BY <1>5, LengthFacts, AppendProperties
  <2>3. TypeOK'
    <3>1. Len(broadcast') <= QueueLimit /\ handled' \in 0..Len(accepted')
      BY <1>1, <1>5, <2>1, <2>2, LengthFacts, HubLimits
    <3>2. sent' \in 0..MaxMessages
      BY HubLimits DEF Enqueue, Messages
    <3> QED
      BY <1>1, <2>1, <2>2, <3>1, <3>2 DEF IInv, TypeOK
  <2>4. ChannelInv'
    <3>1. Len(accepted') = Taken' + Len(broadcast')
      BY <1>3, <2>1, <2>2, LengthFacts DEF IInv, ChannelInv
    <3>2. ASSUME NEW i \in 1..Len(broadcast') PROVE broadcast'[i] = accepted'[Taken + i]
      <4>1. CASE i = Len(broadcast) + 1
        <5>1. Taken + i = Len(accepted) + 1
          BY <1>3, <4>1, LengthFacts DEF IInv, ChannelInv
        <5> QED
          BY <2>1, <2>2, <4>1, <5>1
      <4>2. CASE i # Len(broadcast) + 1
        <5>1. i \in 1..Len(broadcast)
          BY <2>1, <4>2, LengthFacts
        <5>2. Taken + i \in 1..Len(accepted)
          BY <1>3, <5>1, LengthFacts DEF IInv, ChannelInv
        <5> QED
          BY <2>1, <2>2, <5>1, <5>2 DEF IInv, ChannelInv
      <4> QED
        BY <4>1, <4>2
    <3>3. out # Null => Taken \in 1..Len(accepted') /\ out = accepted'[Taken]
      BY <1>3, <2>2, LengthFacts DEF IInv, ChannelInv
    <3> QED
      BY <1>1, <1>3, <3>1, <3>2, <3>3 DEF ChannelInv
  <2>5. ReceivedDue'
    <3> SUFFICES ASSUME NEW c \in clients
                 PROVE  InOrder(written[c], accepted', Due(c)')
      BY <1>1 DEF ReceivedDue
    <3>1. c \in Conns /\ joined[c] \in Nat
      BY DEF IInv, TypeOK
    <3>2. \A k \in joined[c] + 1 .. (IF c \in todo THEN handled - 1 ELSE handled) :
             k \in 1..Len(accepted)
      BY <3>1, LengthFacts
    <3>3. Due(c)' = Due(c) /\ \A k \in Due(c) : accepted'[k] = accepted[k]
      BY <1>1, <2>2, <3>2 DEF Due, Matches
    <3>4. InOrder(written[c], accepted, Due(c))
      BY DEF IInv, ReceivedDue
    <3> QED
      BY <3>3, <3>4, InOrderSame
  <2> QED
    BY <1>2, <2>3, <2>4, <2>5 DEF IInv
<1> QED
  BY <1>4, <1>5 DEF Enqueue

(* HandleMessages receives a message. *)
LEMMA DequeueIInv ==
  ASSUME IInv, Dequeue PROVE IInv'
<1> USE DEF connVars
<1>1. /\ out = Null /\ broadcast # <<>> /\ out' = broadcast[1] /\ broadcast' = Tail(broadcast)
      /\ UNCHANGED <<connVars, locked, todo, sent, accepted, handled, written, phase>>
  BY DEF Dequeue
<1>2. ~locked /\ todo = {}
  BY <1>1 DEF IInv, LockInv
<1>3. /\ broadcast' \in Seq(Messages) /\ Len(broadcast') = Len(broadcast) - 1
      /\ Len(broadcast) >= 1 /\ broadcast[1] \in Messages
      /\ \A i \in 1..Len(broadcast') : broadcast'[i] = broadcast[i + 1]
  BY <1>1, LengthFacts, EmptySeq, HeadTailProperties, ElementOfSeq
<1>4. out' # Null /\ Taken = handled /\ Taken' = handled + 1
  BY <1>1, <1>2, <1>3, HubNull DEF Taken
<1>5. TypeOK'
  BY <1>1, <1>3, LengthFacts, HubLimits DEF IInv, TypeOK
<1>6. SocketInv' /\ LockInv' /\ JoinInv'
  BY <1>1, <1>2, <1>4 DEF IInv, SocketInv, SocketsTracked, LockInv, JoinInv, Matches
<1>7. ChannelInv'
  <2>1. Len(accepted) = Taken' + Len(broadcast')
    BY <1>3, <1>4, LengthFacts DEF IInv, ChannelInv
  <2>2. ASSUME NEW i \in 1..Len(broadcast') PROVE broadcast'[i] = accepted[Taken' + i]
    <3>1. i + 1 \in 1..Len(broadcast) /\ Taken' + i = Taken + (i + 1)
      BY <1>3, <1>4, LengthFacts
    <3> QED
      BY <1>3, <3>1 DEF IInv, ChannelInv
  <2>3. Taken' \in 1..Len(accepted) /\ out' = accepted[Taken']
    <3>1. 1 \in 1..Len(broadcast)
      BY <1>3, LengthFacts
    <3>2. broadcast[1] = accepted[Taken + 1]
      BY <3>1 DEF IInv, ChannelInv
    <3> QED
      BY <1>1, <1>3, <1>4, <2>1, <3>2, LengthFacts
  <2> QED
    BY <1>1, <2>1, <2>2, <2>3 DEF ChannelInv
<1>8. ReceivedDue'
  BY <1>1 DEF IInv, ReceivedDue, Due, Matches
<1> QED
  BY <1>5, <1>6, <1>7, <1>8 DEF IInv

(* HandleMessages takes clientsMu. *)
LEMMA LockIInv ==
  ASSUME IInv, Lock PROVE IInv'
<1> USE DEF connVars
<1>1. /\ out # Null /\ ~locked /\ locked' = TRUE
      /\ todo' = {c \in clients : Matches(c, out)} /\ handled' = handled + 1
      /\ UNCHANGED <<connVars, broadcast, out, sent, accepted, written, phase>>
  BY DEF Lock
<1>2. todo = {}
  BY <1>1 DEF IInv, LockInv
<1>3. Taken = handled + 1 /\ Taken' = handled + 1
  BY <1>1 DEF Taken
<1>4. handled + 1 \in 1..Len(accepted) /\ out = accepted[handled + 1]
  BY <1>1, <1>3 DEF IInv, ChannelInv
<1>5. TypeOK'
  <2>1. locked' \in BOOLEAN /\ handled' \in 0..Len(accepted')
    BY <1>1, <1>4, LengthFacts
  <2> QED
    BY <1>1, <2>1 DEF IInv, TypeOK
<1>6. SocketInv' /\ LockInv'
  BY <1>1 DEF IInv, SocketInv, SocketsTracked, LockInv, Matches
<1>7. ChannelInv'
  BY <1>1, <1>3 DEF IInv, ChannelInv
<1>8. JoinInv'
  <2>1. ASSUME NEW c \in clients PROVE joined[c] <= handled + 1 /\ joined[c] < handled + 1
    BY LengthFacts DEF IInv, JoinInv, TypeOK
  <2> QED
    BY <1>1, <2>1 DEF IInv, JoinInv
<1>9. ReceivedDue'
  <2>1. ASSUME NEW c \in clients PROVE Due(c)' = Due(c)
    <3>0. joined[c] \in Nat /\ handled \in Nat /\ c \notin todo
      BY <1>2, LengthFacts DEF IInv, TypeOK
    <3>1. CASE c \in todo'
      <4>1. handled' - 1 = handled
        BY <1>1, <3>0
      <4> QED
        BY <1>1, <3>0, <3>1, <4>1 DEF Due, Matches
    <3>2. CASE c \notin todo'
      <4>1. ~Matches(c, accepted[handled + 1])
        BY <1>1, <1>4, <3>2
      <4>2. \A k \in joined[c] + 1 .. handled + 1 :
               k \in joined[c] + 1 .. handled \/ k = handled + 1
        BY <3>0
      <4>3. \A k \in joined[c] + 1 .. handled : k \in joined[c] + 1 .. handled + 1
        BY <3>0
      <4> QED
        BY <1>1, <3>0, <3>2, <4>1, <4>2, <4>3 DEF Due, Matches
    <3> QED
      BY <3>1, <3>2
  <2> QED
    BY <1>1, <2>1 DEF IInv, ReceivedDue
<1> QED
  BY <1>5, <1>6, <1>7, <1>8, <1>9 DEF IInv

(* A client still to be written to: the message is the last one handled. *)
LEMMA TodoFacts ==
  ASSUME IInv, NEW c \in todo
  PROVE  /\ c \in clients /\ c \in Conns /\ locked /\ Matches(c, out)
         /\ handled \in 1..Len(accepted) /\ out = accepted[handled] /\ out \in Messages
         /\ joined[c] \in Nat /\ joined[c] < handled
<1>1. c \in clients /\ c \in Conns /\ joined[c] \in Nat
  BY DEF IInv, TypeOK
<1>2. locked /\ out # Null /\ Matches(c, out)
  BY DEF IInv, LockInv
<1>3. Taken = handled
  BY <1>2 DEF Taken
<1>4. handled \in 1..Len(accepted) /\ out = accepted[handled]
  BY <1>2, <1>3 DEF IInv, ChannelInv
<1>5. out \in Messages
  BY <1>2 DEF IInv, TypeOK
<1>6. joined[c] < handled
  BY <1>1 DEF IInv, JoinInv
<1> QED
  BY <1>1, <1>2, <1>4, <1>5, <1>6

(* HandleMessages writes to one client. *)
LEMMA WriteIInv ==
  ASSUME IInv, NEW c \in Conns, Write(c) PROVE IInv'
<1> USE DEF connVars
<1>1. /\ c \in todo /\ todo' = todo \ {c}
      /\ written' = [written EXCEPT ![c] = Append(@, out)]
      /\ UNCHANGED <<connVars, broadcast, out, locked, sent, accepted, handled, phase>>
  BY DEF Write
<1>2. /\ written[c] \in Seq(Messages) /\ written'[c] = Append(written[c], out)
      /\ written' \in [Conns -> Seq(Messages)]
      /\ \A d \in Conns \ {c} : written'[d] = written[d]
  BY <1>1, TodoFacts, AppendProperties DEF IInv, TypeOK
<1>3. TypeOK'
  BY <1>1, <1>2 DEF IInv, TypeOK
<1>4. SocketInv' /\ LockInv' /\ ChannelInv'
  BY <1>1 DEF IInv, SocketInv, SocketsTracked, LockInv, ChannelInv, Taken, Matches
<1>5. JoinInv'
  <2>1. pc[c] = "reading"
    BY <1>1, TodoFacts DEF IInv, SocketInv, SocketsTracked
  <2> QED
    BY <1>1, <1>2, <2>1 DEF IInv, JoinInv
<1>6. ReceivedDue'
  <2> SUFFICES ASSUME NEW d \in clients PROVE InOrder(written'[d], accepted, Due(d)')
    BY <1>1 DEF ReceivedDue
  <2>1. InOrder(written[d], accepted, Due(d)) /\ d \in Conns
    BY DEF IInv, ReceivedDue, TypeOK
  <2>2. CASE d # c
    <3>1. Due(d)' = Due(d)
      BY <1>1, <2>2 DEF Due, Matches
    <3> QED
      BY <1>2, <2>1, <2>2, <3>1
  <2>3. CASE d = c
    <3>1. /\ joined[c] \in Nat /\ handled \in Nat /\ joined[c] < handled
          /\ out = accepted[handled] /\ out \in Messages /\ Matches(c, out)
      BY <1>1, TodoFacts, LengthFacts
    <3>2. \A k : k \in joined[c] + 1 .. handled <=>
                    k \in joined[c] + 1 .. handled - 1 \/ k = handled
      BY <3>1
    <3>3. Due(c) = {k \in joined[c] + 1 .. handled - 1 : Matches(c, accepted[k])}
      BY <1>1 DEF Due
    <3>4. Due(c)' = {k \in joined[c] + 1 .. handled : Matches(c, accepted[k])}
      BY <1>1 DEF Due, Matches
    <3>5. Due(c)' = Due(c) \cup {handled}
      BY <3>1, <3>2, <3>3, <3>4
    <3>6. Due(c) \in SUBSET Nat /\ \A k \in Due(c) : k < handled
      BY <3>1, <3>3
    <3>7. InOrder(Append(written[c], accepted[handled]), accepted, Due(c) \cup {handled})
      BY <1>2, <2>1, <2>3, <3>1, <3>6, InOrderNext
    <3> QED
      BY <1>2, <2>3, <3>1, <3>5, <3>7
  <2> QED
    BY <2>2, <2>3
<1> QED
  BY <1>3, <1>4, <1>5, <1>6 DEF IInv

(* A client that is gone is closed and forgotten. *)
LEMMA WriteErrorIInv ==
  ASSUME IInv, NEW c \in Conns, WriteError(c) PROVE IInv'
<1>1. /\ c \in todo /\ sock' = [sock EXCEPT ![c] = "closed"]
      /\ clients' = clients \ {c} /\ todo' = todo \ {c}
      /\ UNCHANGED <<pc, peer, joined, peak, broadcast, out, locked, sent, accepted,
                     handled, written, phase>>
  BY DEF WriteError, OnError, AfterError
<1>2. TypeOK'
  BY <1>1 DEF IInv, TypeOK
<1>3. SocketInv'
  BY <1>1, TodoFacts DEF IInv, TypeOK, SocketInv, SocketsTracked
<1>4. LockInv' /\ ChannelInv' /\ JoinInv'
  BY <1>1 DEF IInv, LockInv, ChannelInv, Taken, Matches, JoinInv
<1>5. ASSUME NEW d \in clients' PROVE Due(d)' = Due(d)
  BY <1>1, <1>5 DEF Due, Matches
<1>6. ReceivedDue'
  BY <1>1, <1>5 DEF IInv, ReceivedDue
<1> QED
  BY <1>2, <1>3, <1>4, <1>6 DEF IInv

(* HandleMessages is done with the message. *)
LEMMA UnlockIInv ==
  ASSUME IInv, Unlock PROVE IInv'
<1> USE DEF connVars
<1>1. /\ locked /\ todo = {} /\ locked' = FALSE /\ out' = Null
      /\ UNCHANGED <<connVars, broadcast, todo, sent, accepted, handled, written, phase>>
  BY DEF Unlock
<1>2. Taken' = Taken
  BY <1>1 DEF Taken
<1>3. TypeOK'
  <2>1. locked' \in BOOLEAN
    BY <1>1
  <2> QED
    BY <1>1, <2>1 DEF IInv, TypeOK
<1>4. SocketInv' /\ LockInv' /\ JoinInv'
  BY <1>1 DEF IInv, SocketInv, SocketsTracked, LockInv, JoinInv
<1>5. ChannelInv'
  BY <1>1, <1>2 DEF IInv, ChannelInv
<1>6. ReceivedDue'
  BY <1>1 DEF IInv, ReceivedDue, Due, Matches
<1> QED
  BY <1>3, <1>4, <1>5, <1>6 DEF IInv

(* The replica shuts down. *)
LEMMA ShutdownIInv ==
  ASSUME IInv, CloseAll \/ Exit PROVE IInv'
<1> USE DEF hubVars, connVars
<1>1. CASE CloseAll
  <2>1. todo = {}
    BY <1>1 DEF CloseAll, IInv, LockInv
  <2>2. TypeOK'
    BY <1>1, <2>1 DEF CloseAll, IInv, TypeOK
  <2>3. SocketInv'
    BY <1>1 DEF CloseAll, IInv, TypeOK, SocketInv, SocketsTracked
  <2>4. LockInv' /\ ChannelInv' /\ JoinInv' /\ ReceivedDue'
    BY <1>1 DEF CloseAll, IInv, LockInv, ChannelInv, Taken, Matches, JoinInv, ReceivedDue
  <2> QED
    BY <2>2, <2>3, <2>4 DEF IInv
<1>2. CASE Exit
  <2>1. TypeOK'
    BY <1>2 DEF Exit, IInv, TypeOK
  <2>2. SocketInv' /\ JoinInv'
    BY <1>2 DEF Exit, IInv, SocketInv, SocketsTracked, JoinInv
  <2>3. LockInv' /\ ChannelInv'
    BY <1>2 DEF Exit, IInv, LockInv, ChannelInv, Taken, Matches
  <2>4. ReceivedDue'
    BY <1>2 DEF Exit, IInv, ReceivedDue, Due, Matches
  <2> QED
    BY <2>1, <2>2, <2>3, <2>4 DEF IInv
<1> QED
  BY <1>1, <1>2

(* Every step preserves the invariant. *)
LEMMA NextIInv == IInv /\ [Next]_vars => IInv'
<1> SUFFICES ASSUME IInv, [Next]_vars PROVE IInv'
  OBVIOUS
<1>1. CASE UNCHANGED vars
  <2>1. TypeOK'
    BY <1>1 DEF vars, hubVars, connVars, IInv, TypeOK
  <2>2. SocketInv' /\ JoinInv'
    BY <1>1 DEF vars, hubVars, connVars, IInv, SocketInv, SocketsTracked, JoinInv
  <2>3. LockInv' /\ ChannelInv'
    BY <1>1 DEF vars, hubVars, connVars, IInv, LockInv, ChannelInv, Taken, Matches
  <2>4. ReceivedDue'
    BY <1>1 DEF vars, hubVars, connVars, IInv, ReceivedDue, Due, Matches
  <2> QED
    BY <2>1, <2>2, <2>3, <2>4 DEF IInv
<1> QED
  BY <1>1, ConnectionIInv, EnqueueIInv, DequeueIInv, LockIInv, WriteIInv, WriteErrorIInv,
     UnlockIInv, ShutdownIInv DEF Next, HandleMessages

(* The inductive invariant holds in every reachable state. *)
LEMMA InvariantHolds == Spec => []IInv
BY InitIInv, NextIInv, PTL DEF Spec

(* Type correctness of the hub. *)
THEOREM TypeCorrect == Spec => []TypeOK
<1>1. IInv => TypeOK
  BY DEF IInv
<1> QED
  BY <1>1, InvariantHolds, PTL

(* enqueue drops messages but never changes their order. *)
LEMMA NextOrder == IInv /\ OrderInv /\ [Next]_vars => OrderInv'
<1> SUFFICES ASSUME IInv, OrderInv, [Next]_vars PROVE OrderInv'
  OBVIOUS
<1>1. ASSUME NEW m \in Messages, Enqueue(m) PROVE OrderInv'
  <2>1. sent \in Nat /\ sent' = sent + 1 /\ m = sent + 1
    BY <1>1 DEF Enqueue, IInv, TypeOK
  <2>2. \A k \in 1..Len(accepted) : accepted[k] \in Nat
    BY LengthFacts, ElementOfSeq, HubLimits DEF Messages
  <2>3. CASE accepted' = accepted
    BY <2>1, <2>2, <2>3 DEF OrderInv
  <2>4. CASE accepted' = Append(accepted, m)
    <3>1. /\ Len(accepted') = Len(accepted) + 1
          /\ \A k \in 1..Len(accepted) : accepted'[k] = accepted[k]
          /\ accepted'[Len(accepted) + 1] = m
      BY <2>4, LengthFacts, AppendProperties
    <3>2. ASSUME NEW k \in 1..Len(accepted') PROVE accepted'[k] <= sent'
      BY <2>1, <2>2, <3>1, LengthFacts DEF OrderInv
    <3>3. ASSUME NEW k \in 1..Len(accepted'), NEW n \in 1..Len(accepted'), k < n
          PROVE  accepted'[k] < accepted'[n]
      <4>1. k \in 1..Len(accepted)
        BY <3>1, <3>3, LengthFacts
      <4>2. CASE n = Len(accepted) + 1
        BY <2>1, <2>2, <3>1, <4>1, <4>2 DEF OrderInv
      <4>3. CASE n # Len(accepted) + 1
        <5>1. n \in 1..Len(accepted)
          BY <3>1, <4>3, LengthFacts
        <5> QED
          BY <3>1, <3>3, <4>1, <5>1 DEF OrderInv
      <4> QED
        BY <4>2, <4>3
    <3> QED
      BY <3>2, <3>3 DEF OrderInv
  <2> QED
    BY <1>1, <2>3, <2>4 DEF Enqueue
<1>2. CASE UNCHANGED <<accepted, sent>>
  BY <1>2 DEF OrderInv
<1>3. CASE UNCHANGED vars
  BY <1>2, <1>3 DEF vars, hubVars
<1>4. ASSUME NEW c \in Conns, Connection(c) PROVE OrderInv'
  BY <1>2, <1>4, ConnectionFacts DEF hubVars
<1>5. CASE HandleMessages
  BY <1>2, <1>5 DEF HandleMessages, Dequeue, Lock, Unlock, Write, WriteError
<1>6. CASE CloseAll \/ Exit
  BY <1>2, <1>6 DEF CloseAll, Exit, hubVars
<1> QED
  BY <1>1, <1>3, <1>4, <1>5, <1>6 DEF Next

(* A registered client receives every message for it that was handled      *)
(* since it joined, once and in order, because HandleMessages holds        *)
(* clientsMu from the moment it looks at the map until it has written to   *)
(* all, goes on after a client that failed, and takes the messages from    *)
(* the channel in the order the consumer put them there.                   *)
THEOREM ClientsReceiveInOrder == Spec => []ReceivedInOrder
<1>1. IInv /\ OrderInv => ReceivedInOrder
  <2> SUFFICES ASSUME IInv, OrderInv, NEW c \in clients
               PROVE  /\ InOrder(written[c], accepted, Due(c))
                      /\ \A i, j \in 1..Len(written[c]) : i < j => written[c][i] < written[c][j]
    BY DEF ReceivedInOrder
  <2>1. InOrder(written[c], accepted, Due(c))
    BY DEF IInv, ReceivedDue
  <2>2. PICK at \in [1..Len(written[c]) -> Due(c)] :
           /\ \A i, j \in 1..Len(written[c]) : i < j => at[i] < at[j]
           /\ \A i \in 1..Len(written[c]) : written[c][i] = accepted[at[i]]
    BY <2>1 DEF InOrder
  <2>3. Due(c) \subseteq 1..Len(accepted)
    <3>1. c \in Conns /\ joined[c] \in Nat
      BY DEF IInv, TypeOK
    <3> QED
      BY <3>1, LengthFacts DEF Due
  <2>4. ASSUME NEW i \in 1..Len(written[c]), NEW j \in 1..Len(written[c]), i < j
        PROVE  written[c][i] < written[c][j]
    <3>1. at[i] \in 1..Len(accepted) /\ at[j] \in 1..Len(accepted) /\ at[i] < at[j]
      BY <2>2, <2>3, <2>4
    <3> QED
      BY <2>2, <3>1 DEF OrderInv
  <2> QED
    BY <2>1, <2>4
<1>2. Init => OrderInv
  BY DEF Init, OrderInv
<1> QED
  BY <1>1, <1>2, NextOrder, InvariantHolds, PTL DEF Spec

(* An open connection is in the map or in the hands of its goroutine, and  *)
(* the map holds open connections only.                                    *)
THEOREM NoSocketForgotten == Spec => []SocketsTracked
<1>1. IInv => SocketsTracked
  BY DEF IInv, SocketInv
<1> QED
  BY <1>1, InvariantHolds, PTL

----------------------------------------------------------------------------
(* The numbers of clients and of handshakes. *)
LEMMA CountFacts ==
  ASSUME NEW S \in SUBSET Conns
  PROVE  /\ IsFiniteSet(S) /\ Cardinality(S) \in Nat
         /\ \A T \in SUBSET S : Cardinality(T) \in Nat /\ Cardinality(T) <= Cardinality(S)
         /\ \A c \in Conns \ S : Cardinality(S \cup {c}) = Cardinality(S) + 1
         /\ \A c \in S : Cardinality(S \ {c}) = Cardinality(S) - 1
<1>1. IsFiniteSet(S)
  BY HubConns, FS_Subset
<1>2. Cardinality(S) \in Nat
  BY <1>1, FS_CardinalityType
<1>3. ASSUME NEW T \in SUBSET S PROVE Cardinality(T) \in Nat /\ Cardinality(T) <= Cardinality(S)
  BY <1>1, FS_Subset, FS_CardinalityType
<1>4. ASSUME NEW c \in Conns \ S PROVE Cardinality(S \cup {c}) = Cardinality(S) + 1
  BY <1>1, FS_AddElement
<1>5. ASSUME NEW c \in S PROVE Cardinality(S \ {c}) = Cardinality(S) - 1
  BY <1>1, FS_RemoveElement
<1> QED
  BY <1>1, <1>2, <1>3, <1>4, <1>5

(* A step that starts no handshake and registers no client. *)
LEMMA PeakStep ==
  ASSUME IInv, PeakInv, clients' \subseteq clients, Shaking' \subseteq Shaking, peak' = peak
  PROVE  PeakInv'
<1>1. clients \subseteq Conns /\ Shaking \subseteq Conns /\ peak \in Nat
  BY DEF IInv, TypeOK, Shaking
<1>2. /\ Cardinality(clients) \in Nat /\ Cardinality(Shaking) \in Nat
      /\ Cardinality(clients') \in Nat /\ Cardinality(clients') <= Cardinality(clients)
      /\ Cardinality(Shaking') \in Nat /\ Cardinality(Shaking') <= Cardinality(Shaking)
  BY <1>1, CountFacts
<1> QED
  BY <1>1, <1>2, HubLimits DEF PeakInv, CapExceededByOverlap

(* No step lets the cap be exceeded by more. *)
LEMMA NextPeak == IInv /\ PeakInv /\ [Next]_vars => PeakInv'
<1> SUFFICES ASSUME IInv, PeakInv, [Next]_vars PROVE PeakInv'
  OBVIOUS
<1>0. /\ clients \subseteq Conns /\ Shaking \subseteq Conns /\ peak \in Nat
      /\ Cardinality(clients) \in Nat /\ Cardinality(Shaking) \in Nat
  BY CountFacts DEF IInv, TypeOK, Shaking
<1>1. ASSUME NEW c \in Conns, Check(c) PROVE PeakInv'
  <2>1. CASE Full
    <3>1. Shaking' = Shaking /\ clients' = clients
      BY <1>1, <2>1 DEF Check, Shaking, IInv, TypeOK
    <3>2. peak' = peak
      BY <1>0, <1>1, <2>1 DEF Check, Max2, PeakInv
    <3> QED
      BY <3>1, <3>2, PeakStep
  <2>2. CASE ~Full
    <3>1. Shaking' = Shaking \cup {c} /\ c \notin Shaking /\ clients' = clients
      BY <1>1, <2>2 DEF Check, Shaking, IInv, TypeOK
    <3>2. Cardinality(Shaking') = Cardinality(Shaking) + 1
      BY <1>0, <3>1, CountFacts
    <3>3. peak' = Max2(peak, Cardinality(Shaking) + 1)
      BY <1>1, <2>2 DEF Check
    <3>4. peak' >= Cardinality(Shaking') /\ peak' \in Nat
      BY <1>0, <3>2, <3>3 DEF Max2
    <3>5. Cardinality(clients') < MaxConnections
      BY <1>0, <2>2, <3>1, HubLimits DEF Full
    <3> QED
      BY <1>0, <3>1, <3>2, <3>4, <3>5, HubLimits DEF PeakInv, CapExceededByOverlap
  <2> QED
    BY <2>1, <2>2
<1>2. ASSUME NEW c \in Conns, Register(c) PROVE PeakInv'
  <2>1. clients' = clients \cup {c} /\ c \notin clients /\ peak' = peak
    BY <1>2 DEF Register, IInv, SocketInv, SocketsTracked
  <2>2. c \in Shaking /\ Shaking' = Shaking \ {c}
    BY <1>2 DEF Register, Shaking, IInv, TypeOK
  <2>3. /\ Cardinality(clients') = Cardinality(clients) + 1
        /\ Cardinality(Shaking') = Cardinality(Shaking) - 1
    BY <1>0, <2>1, <2>2, CountFacts
  <2> QED
    BY <1>0, <2>1, <2>3, HubLimits DEF PeakInv, CapExceededByOverlap
<1>3. ASSUME NEW c \in Conns, Upgrade(c) \/ ReadError(c) \/ CloseConn(c) \/ PeerMoves(c)
      PROVE  PeakInv'
  <2>1. clients' \subseteq clients /\ peak' = peak
    BY <1>3 DEF Upgrade, ReadError, CloseConn, PeerMoves
  <2>2. Shaking' \subseteq Shaking
    BY <1>3 DEF Upgrade, ReadError, CloseConn, PeerMoves, Shaking, IInv, TypeOK
  <2> QED
    BY <2>1, <2>2, PeakStep
<1>4. CASE \/ UNCHANGED vars
           \/ \E m \in Messages : Enqueue(m)
           \/ HandleMessages \/ CloseAll \/ Exit
  <2>1. clients' \subseteq clients /\ UNCHANGED <<pc, peak>>
    BY <1>4 DEF vars, connVars, Enqueue, HandleMessages, Dequeue, Lock, Unlock, Write,
                WriteError, CloseAll, Exit
  <2> QED
    BY <2>1, PeakStep DEF Shaking
<1> QED
  BY <1>1, <1>2, <1>3, <1>4 DEF Next, Connection

(* MAX_WS_CONNECTIONS is exceeded by fewer clients than the handshakes     *)
(* that overlapped: HandleConnections tests the cap and registers the      *)
(* client in different critical sections.                                  *)
THEOREM CapOverlapBound == Spec => []CapExceededByOverlap
<1>1. Init => PeakInv
  <2> SUFFICES ASSUME Init PROVE PeakInv
    OBVIOUS
  <2>1. Shaking = {} /\ peak = 0
    BY DEF Init, Shaking
  <2> QED
    BY <2>1, FS_EmptySet DEF PeakInv, CapExceededByOverlap
<1>2. PeakInv => CapExceededByOverlap
  BY DEF PeakInv
<1> QED
  BY <1>1, <1>2, NextPeak, InvariantHolds, PTL DEF Spec
=============================================================================
