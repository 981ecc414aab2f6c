-------------------------- MODULE TicketWorkflow --------------------------
(***************************************************************************)
(* The ticket life cycle of the ticket-service: POST /tickets,             *)
(* PATCH /tickets/:id/assign and PATCH /tickets/:id/status, down to the    *)
(* statements they send to PostgreSQL (handler.go, ticket_usecase.go,      *)
(* ticket_repository.go).                                                  *)
(*                                                                         *)
(* A handler first reads the ticket (FindByID) and decides, and only then  *)
(* runs a transaction of its own that updates the row and inserts an audit *)
(* row.  The database runs at its default isolation, READ COMMITTED: a     *)
(* SELECT sees the last committed row, an UPDATE takes the row's lock,     *)
(* waits for it if needed, and keeps it until COMMIT or ROLLBACK.          *)
(* `history' is kept in commit order; FindHistory sorts it by changed_at,  *)
(* which the handler took from the clock before its transaction began.     *)
(* The event published after the commit cannot fail the request; it is the *)
(* subject of module Publisher.                                            *)
(***************************************************************************)
EXTENDS Naturals, Sequences

CONSTANTS
    Admins, Agents, Customers,  \* accounts by role
    Tickets,                    \* ticket ids
    Workers,                    \* handler goroutines, of all replicas
    Null,                       \* SQL NULL, a free lock, no row
    Zero,                       \* agent id 0: the request named no agent
    MaxClock                    \* bound: how many writing requests arrive

Users == Admins \cup Agents \cup Customers

ASSUME AccountsAssumption ==
    /\ Null \notin Users \cup Workers \cup {Zero}
    /\ Zero \notin Users

ASSUME ClockAssumption == MaxClock \in Nat

VARIABLES
    row,      \* tickets: the last committed row of each ticket, or Null
    history,  \* ticket_status_histories, per ticket, in commit order
    lock,     \* the worker whose transaction holds the row's lock
    clock,    \* time.Now()
    pc, job   \* the workers: where they are, the write they work on

vars == <<row, history, lock, clock, pc, job>>

Statuses == {"open", "assigned", "in_progress", "pending", "resolved", "closed"}

TicketRow == [status : Statuses, agent : Users \cup {Null, Zero},
              resolvedAt : Nat, closedAt : Nat]    \* a time of 0 is NULL

AuditRow == [from : Statuses, to : Statuses, at : Nat]

Job == [op : {"assign", "status"}, ticket : Tickets, by : Users,
        agent : Users \cup {Zero}, from : Statuses, to : Statuses, at : Nat]

ASSUME NullAssumption == Null \notin TicketRow \cup Job

PCs == {"idle", "select", "update", "insert"}

TypeOK ==
    /\ row \in [Tickets -> TicketRow \cup {Null}]
    /\ history \in [Tickets -> Seq(AuditRow)]
    /\ lock \in [Tickets -> Workers \cup {Null}]
    /\ clock \in Nat
    /\ pc \in [Workers -> PCs]
    /\ job \in [Workers -> Job \cup {Null}]
    /\ \A w \in Workers : pc[w] = "idle" <=> job[w] = Null

Init ==
    /\ row = [t \in Tickets |-> Null]
    /\ history = [t \in Tickets |-> <<>>]
    /\ lock = [t \in Tickets |-> Null]
    /\ clock = 0
    /\ pc = [w \in Workers |-> "idle"]
    /\ job = [w \in Workers |-> Null]

Goto(w, l) == pc' = [pc EXCEPT ![w] = l]

Take(w, l, j) ==
    /\ clock < MaxClock
    /\ clock' = clock + 1
    /\ job' = [job EXCEPT ![w] = j]
    /\ Goto(w, l)

Finish(w) ==
    /\ job' = [job EXCEPT ![w] = Null]
    /\ Goto(w, "idle")

----------------------------------------------------------------------------
(* POST /tickets: one INSERT; the column default makes the status "open".  *)
Create(w, t) ==
    /\ pc[w] = "idle"
    /\ row[t] = Null
    /\ row' = [row EXCEPT ![t] = [status |-> "open", agent |-> Null,
                                  resolvedAt |-> 0, closedAt |-> 0]]
    /\ UNCHANGED <<history, lock, clock, pc, job>>

----------------------------------------------------------------------------
(* What AssignTicket and UpdateStatus allow, given the row they read.      *)

MayAssign(by, target, seen) ==
    \/ by \in Admins
    \/ by \in Agents /\ target \in {Zero, by} /\ seen.agent = Null

(* Mutant: an admin who names no agent stores NULL. *)
AssigneeUnset(by, target) ==
    IF by \in Agents THEN by ELSE IF target = Zero THEN Null ELSE target

Assignee(by, target) == IF by \in Agents THEN by ELSE target

(* Mutant: the table also has the edge that only AssignTicket may take. *)
TransitionsFromOpen(s) ==
    CASE s = "open"        -> {"assigned", "in_progress"}
      [] s = "assigned"    -> {"in_progress"}
      [] s = "in_progress" -> {"pending", "resolved"}
      [] s = "pending"     -> {"in_progress", "resolved"}
      [] s = "resolved"    -> {"closed", "in_progress"}
      [] OTHER             -> {}

(* Mutant: a ticket can be closed without having been resolved. *)
TransitionsCloseEarly(s) ==
    CASE s = "assigned"    -> {"in_progress"}
      [] s = "in_progress" -> {"pending", "resolved", "closed"}
      [] s = "pending"     -> {"in_progress", "resolved"}
      [] s = "resolved"    -> {"closed", "in_progress"}
      [] OTHER             -> {}

allowedTransitions(s) ==
    CASE s = "assigned"    -> {"in_progress"}
      [] s = "in_progress" -> {"pending", "resolved"}
      [] s = "pending"     -> {"in_progress", "resolved"}
      [] s = "resolved"    -> {"closed", "in_progress"}
      [] OTHER             -> {}

MayUpdate(by, to, seen) ==
    /\ by \in Admins \/ (by \in Agents /\ seen.agent = by)
    /\ to \in allowedTransitions(seen.status)

FindByID(t) == row[t]

(* PATCH /tickets/:id/assign, up to the transaction. *)
Assign(w, by, t, target) ==
    /\ pc[w] = "idle"
    /\ FindByID(t) # Null
    /\ MayAssign(by, target, FindByID(t))
    /\ Take(w, "select",
            [op |-> "assign", ticket |-> t, by |-> by,
             agent |-> Assignee(by, target), from |-> FindByID(t).status,
             to |-> "assigned", at |-> clock + 1])
    /\ UNCHANGED <<row, history, lock>>

(* PATCH /tickets/:id/status, up to the transaction. *)
UpdateStatus(w, by, t, to) ==
    /\ pc[w] = "idle"
    /\ FindByID(t) # Null
    /\ MayUpdate(by, to, FindByID(t))
    /\ Take(w, "update",
            [op |-> "status", ticket |-> t, by |-> by, agent |-> Zero,
             from |-> FindByID(t).status, to |-> to, at |-> clock + 1])
    /\ UNCHANGED <<row, history, lock>>

(* 404, 403, 409 or 400: the request is answered and changes nothing. *)
Reject(w, by, t) ==
    /\ pc[w] = "idle"
    /\ FindByID(t) # Null =>
          \/ \E target \in Users \cup {Zero} : ~MayAssign(by, target, FindByID(t))
          \/ \E to \in Statuses : ~MayUpdate(by, to, FindByID(t))
    /\ UNCHANGED vars

----------------------------------------------------------------------------
(* Mutant: fromStatus is taken after Updates, which has set the model too. *)
SelectAfterUpdates(w) ==
    /\ pc[w] = "select"
    /\ job' = [job EXCEPT ![w].from = job[w].to]
    /\ Goto(w, "update")
    /\ UNCHANGED <<row, history, lock, clock>>

(* AssignAndTransition: the SELECT inside the transaction. *)
Select(w) ==
    /\ pc[w] = "select"
    /\ job' = [job EXCEPT ![w].from = FindByID(job[w].ticket).status]
    /\ Goto(w, "update")
    /\ UNCHANGED <<row, history, lock, clock>>

(* AssignAndTransition, TransitionStatus: the UPDATE, which needs the lock. *)
Update(w) ==
    LET t == job[w].ticket IN
    /\ pc[w] = "update"
    /\ lock[t] = Null
    /\ lock' = [lock EXCEPT ![t] = w]
    /\ Goto(w, "insert")
    /\ UNCHANGED <<row, history, clock, job>>

(* The columns the UPDATE sets, on the row it holds the lock of. *)
Written(r, j) ==
    IF j.op = "assign"
    THEN [r EXCEPT !.agent = j.agent, !.status = j.to]
    ELSE [r EXCEPT !.status = j.to,
                   !.resolvedAt = IF j.to = "resolved" THEN j.at ELSE @,
                   !.closedAt = IF j.to = "closed" THEN j.at ELSE @]

Audit(j) == [from |-> j.from, to |-> j.to, at |-> j.at]

(* Mutant: the audit row is written outside the transaction and may fail. *)
CommitSplit(w) ==
    LET t == job[w].ticket IN
    /\ pc[w] = "insert"
    /\ row' = [row EXCEPT ![t] = Written(@, job[w])]
    /\ \/ history' = [history EXCEPT ![t] = Append(@, Audit(job[w]))]
       \/ UNCHANGED history
    /\ lock' = [lock EXCEPT ![t] = Null]
    /\ Finish(w)
    /\ UNCHANGED clock

(* The INSERT of the audit row, and COMMIT. *)
Commit(w) ==
    LET t == job[w].ticket IN
    /\ pc[w] = "insert"
    /\ row' = [row EXCEPT ![t] = Written(@, job[w])]
    /\ history' = [history EXCEPT ![t] = Append(@, Audit(job[w]))]
    /\ lock' = [lock EXCEPT ![t] = Null]
    /\ Finish(w)
    /\ UNCHANGED clock

(* Mutant: a failed transaction keeps its lock. *)
LocksKept(w) == lock

LocksReleased(w) == [t \in Tickets |-> IF lock[t] = w THEN Null ELSE lock[t]]

(* A statement fails, or the replica dies: the transaction is rolled back. *)
Abandon(w) ==
    /\ pc[w] # "idle"
    /\ lock' = LocksReleased(w)
    /\ Finish(w)
    /\ UNCHANGED <<row, history, clock>>

Progress(w) == Select(w) \/ Update(w) \/ Commit(w)

Next ==
    \E w \in Workers :
        \/ \E t \in Tickets : Create(w, t)
        \/ \E u \in Users, t \in Tickets : Reject(w, u, t)
        \/ \E u \in Users, t \in Tickets, target \in Users \cup {Zero} :
               Assign(w, u, t, target)
        \/ \E u \in Users, t \in Tickets, to \in Statuses :
               UpdateStatus(w, u, t, to)
        \/ Progress(w)
        \/ Abandon(w)

(* An accepted request runs on: goroutines are scheduled fairly, and a     *)
(* statement that waits for a row lock gets it in its turn (PostgreSQL's   *)
(* wait queues are first come, first served), hence strong fairness.       *)
(* Nothing says that requests arrive, or that they fail.                   *)
Fairness == \A w \in Workers : SF_vars(Progress(w))

Spec == Init /\ [][Next]_vars /\ Fairness

----------------------------------------------------------------------------
Last(s) == s[Len(s)]
Existing == {t \in Tickets : row[t] # Null}

(* The ticket and its audit trail agree: the status is the one the last    *)
(* committed audit row leads to, and "open" before the first one.  It      *)
(* rests on the transaction being atomic and on the row lock being kept    *)
(* until COMMIT (AssignAndTransition, TransitionStatus).                   *)
StatusIsLastAudited ==
    \A t \in Existing :
        row[t].status = IF history[t] = <<>> THEN "open" ELSE Last(history[t]).to

(* A ticket is open exactly while its agent column is NULL, whatever       *)
(* requests overlap: the queue (FindUnassigned, QueueSize) holds the open  *)
(* tickets and no other ("open->assigned only happens through              *)
(* AssignTicket, never a direct status update").  Agent id 0, which an     *)
(* admin's empty body stores, is not NULL: such a ticket is out of the     *)
(* queue and no agent's.                                                   *)
OpenIffUnassigned ==
    \A t \in Existing : row[t].status = "open" <=> row[t].agent = Null

(* A closed ticket has both its resolution and its closing time, which the *)
(* reports average: it was resolved before, also when requests overlap.    *)
ClosedWasResolved ==
    \A t \in Existing :
        /\ row[t].status \in {"resolved", "closed"} => row[t].resolvedAt # 0
        /\ row[t].status = "closed" => row[t].closedAt # 0

(* The status an audit row starts from is one the ticket had before: open, *)
(* or the result of a change committed earlier, never one that was rolled  *)
(* back, or that this change brings about.                                 *)
AuditedFromReal ==
    \A t \in Tickets : \A i \in 1..Len(history[t]) :
        \/ history[t][i].from = "open"
        \/ \E k \in 1..(i - 1) : history[t][k].to = history[t][i].from

(* What a change was allowed for is still true when it is applied: "agents *)
(* may only claim an unassigned ticket for themselves", "only an admin or  *)
(* the agent currently assigned to the ticket may do this, and only along  *)
(* a legal edge of the state machine".  The checks are made on a row read  *)
(* before the transaction that applies the change.  (An agent's claim that *)
(* arrives twice does no harm.)                                            *)
AllowedWhenApplied ==
    [][\A w \in Workers :
          LET j == job[w] IN
          pc[w] = "insert" /\ pc'[w] = "idle" /\ history' # history =>
              IF j.op = "assign"
              THEN MayAssign(j.by, j.agent, row[j.ticket]) \/ row[j.ticket].agent = j.by
              ELSE MayUpdate(j.by, j.to, row[j.ticket])]_vars

(* Every accepted request ends: no request waits for a row lock for ever.  *)
RequestsEnd == \A w \in Workers : pc[w] # "idle" ~> pc[w] = "idle"
============================================================================
