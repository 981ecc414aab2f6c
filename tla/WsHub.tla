------------------------------- MODULE WsHub -------------------------------
(***************************************************************************)
(* The WebSocket hub of one notification-service replica (ws.go), with the *)
(* shutdown sequence of its cmd/main.go.                                   *)
(*                                                                         *)
(* Each connection is served by its HTTP handler and then by its reader    *)
(* goroutine; HandleMessages is one goroutine that holds clientsMu while   *)
(* it writes to the clients a message is for.  WriteMessage has no         *)
(* deadline: a peer that stops reading makes it wait.  Handshakes refused  *)
(* for their token or their origin change nothing and are left out.        *)
(***************************************************************************)
EXTENDS Naturals, Sequences, FiniteSets

CONSTANTS
    Conns,            \* connection attempts
    User, Role,       \* the claims user_id and role of each one's token
    MaxMessages,      \* bound: the messages the consumer hands to the hub
    TargetUsers,      \* outbound.targetUserID of the messages that have one
    TargetRoles,      \* and outbound.targetRoles of the others
    MaxConnections,   \* MAX_WS_CONNECTIONS
    QueueLimit,       \* capacity of the channel broadcast, 256
    Null

(* The messages, numbered in the order consumeBroadcast hands them over. *)
Messages == 1..MaxMessages

ASSUME HubLimits ==
    /\ MaxConnections \in Nat \ {0} /\ QueueLimit \in Nat \ {0}
    /\ MaxMessages \in Nat
ASSUME HubTargets ==
    /\ DOMAIN TargetUsers \cup DOMAIN TargetRoles = Messages
    /\ DOMAIN TargetUsers \cap DOMAIN TargetRoles = {}
ASSUME HubNull == Null \notin Messages
ASSUME HubConns == IsFiniteSet(Conns)

VARIABLES
    pc,         \* where the handler or the reader of a connection is
    peer,       \* the other end: "reading", "stuck" (not reading) or "gone"
    sock,       \* this end: "none", "open" or "closed"
    clients,    \* the map clients
    broadcast,  \* the channel
    out,        \* the message HandleMessages works on
    locked,     \* HandleMessages holds clientsMu
    todo,       \* clients its loop has yet to write to
    phase,      \* "running", "closed" (CloseAll has returned) or "exited"
    sent,       \* how many messages the consumer handed to the hub
    (* history *)
    accepted,   \* the messages that entered the channel, in order
    handled,    \* how many of them HandleMessages went through the map for
    joined,     \* the value of handled when a connection was registered
    written,    \* messages written to each connection
    peak        \* the largest number of handshakes under way at a time

connVars == <<pc, peer, sock, clients, joined, peak>>
hubVars == <<broadcast, out, locked, todo, sent, accepted, handled, written>>
vars == <<connVars, hubVars, phase>>

TypeOK ==
    /\ pc \in [Conns -> {"idle", "checked", "upgraded", "reading", "closing", "done"}]
    /\ peer \in [Conns -> {"reading", "stuck", "gone"}]
    /\ sock \in [Conns -> {"none", "open", "closed"}]
    /\ clients \subseteq Conns
    /\ broadcast \in Seq(Messages) /\ Len(broadcast) <= QueueLimit
    /\ out \in Messages \cup {Null}
    /\ locked \in BOOLEAN
    /\ todo \subseteq clients
    /\ phase \in {"running", "closed", "exited"}
    /\ sent \in 0..MaxMessages
    /\ accepted \in Seq(Messages)
    /\ handled \in 0..Len(accepted)
    /\ joined \in [Conns -> Nat]
    /\ written \in [Conns -> Seq(Messages)]
    /\ peak \in Nat

Init ==
    /\ pc = [c \in Conns |-> "idle"]
    /\ peer = [c \in Conns |-> "reading"]
    /\ sock = [c \in Conns |-> "none"]
    /\ clients = {} /\ todo = {} /\ sent = 0
    /\ broadcast = <<>> /\ accepted = <<>>
    /\ out = Null
    /\ locked = FALSE
    /\ phase = "running"
    /\ handled = 0 /\ peak = 0
    /\ joined = [c \in Conns |-> 0]
    /\ written = [c \in Conns |-> <<>>]

Max2(a, b) == IF a > b THEN a ELSE b

-----------------------------------------------------------------------------
(* HandleConnections *)

Shaking == {c \in Conns : pc[c] \in {"checked", "upgraded"}}

Full == Cardinality(clients) >= MaxConnections

(* The cap is read under RLock; 503 when it is reached. *)
Check(c) ==
    /\ phase # "exited"
    /\ pc[c] = "idle"
    /\ ~locked
    /\ pc' = [pc EXCEPT ![c] = IF Full THEN "done" ELSE "checked"]
    /\ peak' = Max2(peak, Cardinality(Shaking) + (IF Full THEN 0 ELSE 1))
    /\ UNCHANGED <<peer, sock, clients, joined, hubVars, phase>>

Upgrade(c) ==
    /\ phase # "exited"
    /\ pc[c] = "checked"
    /\ \/ /\ pc' = [pc EXCEPT ![c] = "upgraded"]
          /\ sock' = [sock EXCEPT ![c] = "open"]
       \/ /\ pc' = [pc EXCEPT ![c] = "done"]
          /\ UNCHANGED sock
    /\ UNCHANGED <<peer, clients, joined, peak, hubVars, phase>>

Register(c) ==
    /\ phase # "exited"
    /\ pc[c] = "upgraded"
    /\ ~locked
    /\ clients' = clients \cup {c}
    /\ pc' = [pc EXCEPT ![c] = "reading"]
    /\ joined' = [joined EXCEPT ![c] = handled]
    /\ UNCHANGED <<peer, sock, peak, hubVars, phase>>

(* The reader's ReadMessage fails: it takes the lock and deletes the entry *)
(* of its connection ...                                                   *)
ReadError(c) ==
    /\ phase # "exited"
    /\ pc[c] = "reading"
    /\ peer[c] = "gone" \/ sock[c] = "closed"
    /\ ~locked
    /\ clients' = clients \ {c}
    /\ pc' = [pc EXCEPT ![c] = "closing"]
    /\ UNCHANGED <<peer, sock, joined, peak, hubVars, phase>>

(* ... and closes the connection. *)
CloseConn(c) ==
    /\ phase # "exited"
    /\ pc[c] = "closing"
    /\ sock' = [sock EXCEPT ![c] = "closed"]
    /\ pc' = [pc EXCEPT ![c] = "done"]
    /\ UNCHANGED <<peer, clients, joined, peak, hubVars, phase>>

(* The other end stops reading, goes on, or goes away. *)
PeerMoves(c) ==
    /\ phase # "exited"
    /\ sock[c] = "open"
    /\ \E to \in {"reading", "stuck", "gone"} :
          peer[c] \notin {to, "gone"} /\ peer' = [peer EXCEPT ![c] = to]
    /\ UNCHANGED <<pc, sock, clients, joined, peak, hubVars, phase>>

-----------------------------------------------------------------------------
(* SendToUser and SendToRoles; enqueue drops the message when the channel  *)
(* is full.                                                                *)
Enqueue(m) ==
    /\ phase # "exited"
    /\ m = sent + 1
    /\ sent' = m
    /\ IF Len(broadcast) < QueueLimit
       THEN /\ broadcast' = Append(broadcast, m)
            /\ accepted' = Append(accepted, m)
       ELSE UNCHANGED <<broadcast, accepted>>
    /\ UNCHANGED <<connVars, out, locked, todo, handled, written, phase>>

Matches(c, m) ==
    IF m \in DOMAIN TargetUsers THEN User[c] = TargetUsers[m]
    ELSE Role[c] \in TargetRoles[m]

(* Mutant: a message is taken from anywhere in the channel, as by several  *)
(* goroutines.                                                             *)
DequeueAny ==
    /\ phase # "exited"
    /\ out = Null
    /\ \E i \in DOMAIN broadcast :
          /\ out' = broadcast[i]
          /\ broadcast' = SubSeq(broadcast, 1, i - 1)
                            \o SubSeq(broadcast, i + 1, Len(broadcast))
    /\ UNCHANGED <<connVars, locked, todo, sent, accepted, handled, written, phase>>

(* HandleMessages receives from the channel, *)
Dequeue ==
    /\ phase # "exited"
    /\ out = Null
    /\ broadcast # <<>>
    /\ out' = Head(broadcast)
    /\ broadcast' = Tail(broadcast)
    /\ UNCHANGED <<connVars, locked, todo, sent, accepted, handled, written, phase>>

(* takes clientsMu and goes over the map, *)
Lock ==
    /\ phase # "exited"
    /\ out # Null
    /\ ~locked
    /\ locked' = TRUE
    /\ todo' = {c \in clients : Matches(c, out)}
    /\ handled' = handled + 1
    /\ UNCHANGED <<connVars, broadcast, out, sent, accepted, written, phase>>

(* writes to each client, *)
Write(c) ==
    /\ phase # "exited"
    /\ c \in todo
    /\ sock[c] = "open"
    /\ peer[c] # "stuck"
    /\ written' = [written EXCEPT ![c] = Append(@, out)]
    /\ todo' = todo \ {c}
    /\ UNCHANGED <<connVars, broadcast, out, locked, sent, accepted, handled, phase>>

(* Mutant: the write is tried again. *)
AfterErrorRetry(c) == todo

AfterError(c) == todo \ {c}

(* Mutant: the connection is forgotten but not closed. *)
OnErrorForget(c) == sock

OnError(c) == [sock EXCEPT ![c] = "closed"]

(* or closes and deletes a client that is gone, *)
WriteError(c) ==
    /\ phase # "exited"
    /\ c \in todo
    /\ peer[c] = "gone"
    /\ sock' = OnError(c)
    /\ clients' = clients \ {c}
    /\ todo' = AfterError(c)
    /\ UNCHANGED <<pc, peer, joined, peak, broadcast, out, locked, sent, accepted,
                   handled, written, phase>>

(* and unlocks. *)
Unlock ==
    /\ phase # "exited"
    /\ locked
    /\ todo = {}
    /\ locked' = FALSE
    /\ out' = Null
    /\ UNCHANGED <<connVars, broadcast, todo, sent, accepted, handled, written, phase>>

-----------------------------------------------------------------------------
(* On SIGTERM main calls CloseAll (its writes have a deadline) ... *)
CloseAll ==
    /\ phase = "running"
    /\ ~locked
    /\ sock' = [c \in Conns |-> IF c \in clients THEN "closed" ELSE sock[c]]
    /\ clients' = {}
    /\ phase' = "closed"
    /\ UNCHANGED <<pc, peer, joined, peak, hubVars>>

(* ... and then srv.Shutdown, which knows nothing of hijacked connections  *)
(* and waits 10 s at most for the other handlers.                          *)
Exit ==
    /\ phase = "closed"
    /\ phase' = "exited"
    /\ UNCHANGED <<connVars, hubVars>>

HandleMessages == Dequeue \/ Lock \/ Unlock \/ \E c \in Conns : Write(c) \/ WriteError(c)

Connection(c) ==
    \/ Check(c) \/ Upgrade(c) \/ Register(c)
    \/ ReadError(c) \/ CloseConn(c)
    \/ PeerMoves(c)

Next ==
    \/ \E c \in Conns : Connection(c)
    \/ \E m \in Messages : Enqueue(m)
    \/ HandleMessages
    \/ CloseAll
    \/ Exit

(* The goroutine of HandleMessages is scheduled; a blocked write goes on   *)
(* when its peer reads again and again, or fails.                          *)
Fairness ==
    /\ WF_vars(Dequeue) /\ WF_vars(Lock) /\ WF_vars(Unlock)
    /\ \A c \in Conns : SF_vars(Write(c) \/ WriteError(c))

Spec == Init /\ [][Next]_vars /\ Fairness

-----------------------------------------------------------------------------
(* The positions among the accepted messages of those that are for a       *)
(* client and that HandleMessages has passed to it since it joined.        *)
Due(c) ==
    {k \in joined[c] + 1 .. (IF c \in todo THEN handled - 1 ELSE handled) :
        Matches(c, accepted[k])}

(* w is the messages of s at the positions due, in increasing order. *)
InOrder(w, s, due) ==
    \E at \in [1..Len(w) -> due] :
        /\ \A i, j \in 1..Len(w) : i < j => at[i] < at[j]
        /\ \A k \in due : \E i \in 1..Len(w) : at[i] = k
        /\ \A i \in 1..Len(w) : w[i] = s[at[i]]

(* While a client is registered it is written every message that is for it *)
(* and was handled since it joined, once and in the order the consumer     *)
(* handed them over, whatever enqueue dropped in between and whoever else  *)
(* failed, joined or left meanwhile.                                       *)
ReceivedInOrder ==
    \A c \in clients :
        /\ InOrder(written[c], accepted, Due(c))
        /\ \A i, j \in 1..Len(written[c]) : i < j => written[c][i] < written[c][j]

(* The cap, tested in one critical section and used in another, is no hard *)
(* one: overlapping handshakes exceed it, but by no more than the number   *)
(* that were under way at the same time, less one.  Sequential connections *)
(* respect it.                                                             *)
CapExceededByOverlap ==
    peak > 0 =>
        Cardinality(clients) + Cardinality(Shaking) < MaxConnections + peak

(* No connection is forgotten: an open one is in the map, where CloseAll   *)
(* and the next write find it, or in the hands of its handler or reader,   *)
(* and the map holds no closed one.                                        *)
SocketsTracked ==
    /\ \A c \in clients : sock[c] = "open" /\ pc[c] = "reading"
    /\ \A c \in Conns : sock[c] = "open" =>
                          c \in clients \/ pc[c] \in {"upgraded", "closing"}

(* Every message that entered the channel is handled before the replica    *)
(* exits, provided no peer stays stuck for ever: HandleMessages waits for  *)
(* one that does with clientsMu held.                                      *)
AllHandled ==
    (\A c \in Conns : []<>(peer[c] # "stuck")) =>
        \A n \in 1..Cardinality(Messages) :
            Len(accepted) >= n ~> handled >= n \/ phase = "exited"
=============================================================================
