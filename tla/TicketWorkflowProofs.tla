------------------------ MODULE TicketWorkflowProofs ------------------------
(***************************************************************************)
(* TLAPS proofs about TicketWorkflow for any accounts, tickets and number  *)
(* of concurrent requests.                                                 *)
(***************************************************************************)
EXTENDS TicketWorkflow, TLAPS

(* The row lock belongs to the transaction between its UPDATE and COMMIT.  *)
LockInv ==
    \A w \in Workers, t \in Tickets :
        lock[t] = w <=> pc[w] = "insert" /\ job[w].ticket = t

(* What a decision taken on an older version of the row still means for    *)
(* the current one: the ticket exists; a status change was legal from a    *)
(* status other than open, which the ticket never gets again; a ticket to  *)
(* be closed had been resolved.                                            *)
JobInv(w) ==
    LET j == job[w]
        t == job[w].ticket
    IN  /\ row[t] # Null
        /\ j.at # 0
        /\ j.to # "open"
        /\ j.op = "assign" => j.to = "assigned"
        /\ j.op = "status" => row[t].status # "open"
        /\ j.to = "closed" => row[t].resolvedAt # 0
        /\ \/ j.from = "open"
           \/ \E k \in 1..Len(history[t]) : history[t][k].to = j.from

NoTrailBefore == \A t \in Tickets : row[t] = Null => history[t] = <<>>

(* The inductive invariant. *)
IInv ==
    /\ TypeOK
    /\ StatusIsLastAudited
    /\ OpenIffUnassigned
    /\ ClosedWasResolved
    /\ AuditedFromReal
    /\ LockInv
    /\ NoTrailBefore
    /\ \A w \in Workers : pc[w] # "idle" => JobInv(w)

----------------------------------------------------------------------------
(* The status table: nothing leads to open and nothing leaves it, and only *)
(* a resolved ticket can be closed.                                        *)
LEMMA TransitionFacts ==
  ASSUME NEW s \in Statuses
  PROVE  /\ allowedTransitions(s) \subseteq Statuses
         /\ "open" \notin allowedTransitions(s)
         /\ allowedTransitions("open") = {}
         /\ "assigned" \notin allowedTransitions(s)
         /\ "closed" \in allowedTransitions(s) => s = "resolved"
  BY DEF allowedTransitions, Statuses

(* No ticket exists at first. *)
LEMMA InitIInv == Init => IInv
  BY AccountsAssumption
     DEF Init, IInv, TypeOK, PCs, Existing, StatusIsLastAudited,
         OpenIffUnassigned, ClosedWasResolved, AuditedFromReal, LockInv,
         NoTrailBefore

(* POST /tickets preserves the invariant. *)
LEMMA CreateIInv ==
  ASSUME IInv, NEW w \in Workers, NEW t \in Tickets, Create(w, t) PROVE IInv'
  BY AccountsAssumption
     DEF Create, IInv, TypeOK, TicketRow, Statuses, Existing,
         StatusIsLastAudited, OpenIffUnassigned, ClosedWasResolved,
         AuditedFromReal, LockInv, NoTrailBefore, JobInv

(* A request is accepted: a job that fits the row as it is now. *)
LEMMA TakeIInv ==
  ASSUME IInv, NEW w \in Workers, pc[w] = "idle",
         NEW l \in {"select", "update"}, NEW j \in Job, Take(w, l, j),
         UNCHANGED <<row, history, lock>>,
         row[j.ticket] # Null, j.at # 0, j.to # "open",
         j.op = "assign" => j.to = "assigned",
         j.op = "status" => row[j.ticket].status # "open",
         j.to = "closed" => row[j.ticket].status = "resolved",
         j.from = row[j.ticket].status
  PROVE  IInv'
<1> USE DEF IInv, Take, Goto
<1>1. TypeOK'
  BY NullAssumption DEF TypeOK, PCs
<1>2. LockInv'
  BY DEF LockInv, TypeOK
<1>3. (StatusIsLastAudited /\ OpenIffUnassigned /\ ClosedWasResolved
       /\ AuditedFromReal /\ NoTrailBefore)'
  BY DEF StatusIsLastAudited, OpenIffUnassigned, ClosedWasResolved,
         AuditedFromReal, NoTrailBefore, Existing
<1>4. \A v \in Workers : pc'[v] # "idle" => JobInv(v)'
  <2> SUFFICES ASSUME NEW v \in Workers, pc'[v] # "idle" PROVE JobInv(v)'
    OBVIOUS
  <2>1. CASE v # w
    BY <2>1 DEF JobInv, TypeOK
  <2>2. CASE v = w
    <3>1. job'[w] = j /\ j.ticket \in Tickets
      BY DEF TypeOK, Job
    <3>2. j.to = "closed" => row[j.ticket].resolvedAt # 0
      BY <3>1 DEF ClosedWasResolved, Existing
    <3>3. \/ j.from = "open"
          \/ \E k \in 1..Len(history[j.ticket]) :
                history[j.ticket][k].to = j.from
      BY <3>1 DEF StatusIsLastAudited, Existing, Last, TypeOK
    <3> QED
      BY <2>2, <3>1, <3>2, <3>3 DEF JobInv
  <2> QED
    BY <2>1, <2>2
<1> QED
  BY <1>1, <1>2, <1>3, <1>4

(* PATCH /tickets/:id/assign, accepted. *)
LEMMA AssignIInv ==
  ASSUME IInv, NEW w \in Workers, NEW u \in Users, NEW t \in Tickets,
         NEW target \in Users \cup {Zero}, Assign(w, u, t, target)
  PROVE  IInv'
<1> DEFINE j == [op |-> "assign", ticket |-> t, by |-> u,
                 agent |-> Assignee(u, target), from |-> row[t].status,
                 to |-> "assigned", at |-> clock + 1]
<1>1. j \in Job /\ row[t] # Null
  BY DEF Assign, FindByID, Job, TicketRow, IInv, TypeOK, Assignee, Users,
         Statuses
<1>2. Take(w, "select", j) /\ UNCHANGED <<row, history, lock>>
  BY DEF Assign, FindByID
<1>3. j.at # 0
  BY DEF IInv, TypeOK
<1> QED
  BY <1>1, <1>2, <1>3, TakeIInv DEF Assign

(* PATCH /tickets/:id/status, accepted. *)
LEMMA UpdateStatusIInv ==
  ASSUME IInv, NEW w \in Workers, NEW u \in Users, NEW t \in Tickets,
         NEW to \in Statuses, UpdateStatus(w, u, t, to)
  PROVE  IInv'
<1> DEFINE j == [op |-> "status", ticket |-> t, by |-> u, agent |-> Zero,
                 from |-> row[t].status, to |-> to, at |-> clock + 1]
<1>1. row[t] \in TicketRow /\ to \in allowedTransitions(row[t].status)
  BY DEF UpdateStatus, MayUpdate, FindByID, IInv, TypeOK
<1>2. j \in Job /\ row[t] # Null
  BY <1>1 DEF UpdateStatus, FindByID, Job, TicketRow, IInv, TypeOK
<1>3. /\ to # "open"
      /\ row[t].status # "open"
      /\ to = "closed" => row[t].status = "resolved"
  BY <1>1, TransitionFacts DEF TicketRow
<1>4. Take(w, "update", j) /\ UNCHANGED <<row, history, lock>>
  BY DEF UpdateStatus, FindByID
<1>5. j.at # 0
  BY DEF IInv, TypeOK
<1> QED
  BY <1>2, <1>3, <1>4, <1>5, TakeIInv DEF UpdateStatus

(* The SELECT inside AssignAndTransition reads a committed status again. *)
LEMMA SelectIInv == ASSUME IInv, NEW w \in Workers, Select(w) PROVE IInv'
<1> DEFINE t == job[w].ticket
           j == [job[w] EXCEPT !.from = row[t].status]
<1> USE DEF IInv, Select, Goto, FindByID
<1>1. job[w] \in Job /\ t \in Tickets /\ row[t] \in TicketRow /\ JobInv(w)
  BY DEF TypeOK, JobInv, Job
<1>2. j \in Job /\ job' = [job EXCEPT ![w] = j]
  BY <1>1 DEF Job, TicketRow, TypeOK
<1>3. TypeOK'
  BY <1>2, NullAssumption DEF TypeOK, PCs
<1>4. LockInv'
  BY <1>1, <1>2 DEF LockInv, TypeOK, Job
<1>5. (StatusIsLastAudited /\ OpenIffUnassigned /\ ClosedWasResolved
       /\ AuditedFromReal /\ NoTrailBefore)'
  BY DEF StatusIsLastAudited, OpenIffUnassigned, ClosedWasResolved,
         AuditedFromReal, NoTrailBefore, Existing
<1>6. \/ j.from = "open"
      \/ \E k \in 1..Len(history[t]) : history[t][k].to = j.from
  <2>1. /\ history[t] \in Seq(AuditRow) /\ t \in Existing
        /\ j.from = row[t].status
    BY <1>1 DEF Job, JobInv, TypeOK, Existing
  <2>2. CASE history[t] = <<>>
    BY <2>1, <2>2 DEF StatusIsLastAudited
  <2>3. CASE history[t] # <<>>
    BY <2>1, <2>3 DEF StatusIsLastAudited, Last
  <2> QED
    BY <2>2, <2>3
<1>7. ASSUME NEW v \in Workers, pc'[v] # "idle" PROVE JobInv(v)'
  <2>1. CASE v # w
    BY <1>7, <2>1, <1>2 DEF JobInv, TypeOK
  <2>2. CASE v = w
    <3>1. job'[w] = j /\ UNCHANGED <<row, history>>
      BY <1>2 DEF TypeOK
    <3>2. /\ j.ticket = t /\ j.at = job[w].at /\ j.to = job[w].to
          /\ j.op = job[w].op
      BY <1>1 DEF Job
    <3>3. /\ row[t] # Null /\ j.at # 0 /\ j.to # "open"
          /\ j.op = "assign" => j.to = "assigned"
          /\ j.op = "status" => row[t].status # "open"
          /\ j.to = "closed" => row[t].resolvedAt # 0
      BY <1>1, <3>2 DEF JobInv
    <3> HIDE DEF j, t
    <3> QED
      BY <1>6, <2>2, <3>1, <3>2, <3>3 DEF JobInv
  <2> QED
    BY <2>1, <2>2
<1> QED
  BY <1>3, <1>4, <1>5, <1>7

(* The UPDATE takes the row lock. *)
LEMMA UpdateIInv == ASSUME IInv, NEW w \in Workers, Update(w) PROVE IInv'
<1> USE DEF IInv, Update, Goto
<1>1. TypeOK'
  BY DEF TypeOK, PCs
<1>2. LockInv'
  BY AccountsAssumption DEF LockInv, TypeOK, Job
<1>3. (StatusIsLastAudited /\ OpenIffUnassigned /\ ClosedWasResolved
       /\ AuditedFromReal /\ NoTrailBefore)'
  BY DEF StatusIsLastAudited, OpenIffUnassigned, ClosedWasResolved,
         AuditedFromReal, NoTrailBefore, Existing
<1>4. \A v \in Workers : pc'[v] # "idle" => JobInv(v)'
  BY DEF JobInv, TypeOK
<1> QED
  BY <1>1, <1>2, <1>3, <1>4

(* A ROLLBACK gives the lock back and leaves the tables alone. *)
LEMMA AbandonIInv == ASSUME IInv, NEW w \in Workers, Abandon(w) PROVE IInv'
<1> USE DEF IInv, Abandon, Finish, Goto, LocksReleased
<1>1. TypeOK'
  BY DEF TypeOK, PCs
<1>2. LockInv'
  BY AccountsAssumption DEF LockInv, TypeOK
<1>3. (StatusIsLastAudited /\ OpenIffUnassigned /\ ClosedWasResolved
       /\ AuditedFromReal /\ NoTrailBefore)'
  BY DEF StatusIsLastAudited, OpenIffUnassigned, ClosedWasResolved,
         AuditedFromReal, NoTrailBefore, Existing
<1>4. \A v \in Workers : pc'[v] # "idle" => JobInv(v)'
  BY DEF JobInv, TypeOK
<1> QED
  BY <1>1, <1>2, <1>3, <1>4

(* COMMIT: row and audit trail change together. *)
LEMMA CommitIInv == ASSUME IInv, NEW w \in Workers, Commit(w) PROVE IInv'
<1> DEFINE t == job[w].ticket
           h == Audit(job[w])
           r == Written(row[t], job[w])
<1> USE DEF IInv
<1>1. /\ job[w] \in Job /\ t \in Tickets /\ row[t] \in TicketRow
      /\ JobInv(w) /\ lock[t] = w /\ history[t] \in Seq(AuditRow)
      /\ pc[w] = "insert"
  BY DEF Commit, TypeOK, JobInv, LockInv, Job
<1>2. /\ row' = [row EXCEPT ![t] = r]
      /\ history' = [history EXCEPT ![t] = Append(history[t], h)]
      /\ lock' = [lock EXCEPT ![t] = Null]
      /\ job' = [job EXCEPT ![w] = Null]
      /\ pc' = [pc EXCEPT ![w] = "idle"]
      /\ clock' = clock
  BY DEF Commit, Finish, Goto, TypeOK
<1>3. /\ r \in TicketRow /\ r.status = job[w].to
      /\ r.resolvedAt = 0 => row[t].resolvedAt = 0 /\ r.status # "resolved"
      /\ r.closedAt = 0 => row[t].closedAt = 0 /\ r.status # "closed"
      /\ r.agent = Null => row[t].agent = Null /\ job[w].op = "status"
  BY <1>1, AccountsAssumption DEF Written, JobInv, Job, TicketRow
<1>4. h \in AuditRow /\ h.to = job[w].to /\ h.from = job[w].from
  BY <1>1 DEF Audit, Job, AuditRow
<1>5. /\ history'[t] \in Seq(AuditRow)
      /\ Len(history'[t]) = Len(history[t]) + 1
      /\ history'[t][Len(history[t]) + 1] = h
      /\ \A i \in 1..Len(history[t]) : history'[t][i] = history[t][i]
  BY <1>1, <1>2, <1>4 DEF TypeOK
<1>6. TypeOK'
  BY <1>1, <1>2, <1>3, <1>5 DEF TypeOK, PCs
<1>7. LockInv'
  BY <1>1, <1>2, AccountsAssumption DEF LockInv, TypeOK
<1>8. StatusIsLastAudited' /\ NoTrailBefore'
  <2>1. /\ history'[t] # <<>> /\ Last(history'[t]).to = row'[t].status
        /\ row'[t] # Null
    <3>1. row'[t] = r /\ r # Null /\ r.status = h.to
      BY <1>1, <1>2, <1>3, <1>4, NullAssumption DEF TypeOK
    <3>2. Len(history'[t]) # 0 /\ history'[t][Len(history'[t])] = h
      BY <1>1, <1>5
    <3> QED
      BY <3>1, <3>2, <1>5 DEF Last
  <2>2. \A u \in Tickets : u # t => row'[u] = row[u] /\ history'[u] = history[u]
    BY <1>2 DEF TypeOK
  <2> QED
    BY <2>1, <2>2 DEF StatusIsLastAudited, NoTrailBefore, Existing
<1>9. OpenIffUnassigned'
  BY <1>1, <1>2, <1>3 DEF OpenIffUnassigned, Existing, JobInv, TypeOK
<1>10. ClosedWasResolved'
  BY <1>1, <1>2, <1>3 DEF ClosedWasResolved, Existing, JobInv, TypeOK
<1>11. AuditedFromReal'
  <2> SUFFICES ASSUME NEW u \in Tickets, NEW i \in 1..Len(history'[u])
               PROVE  \/ history'[u][i].from = "open"
                      \/ \E k \in 1..(i - 1) :
                            history'[u][k].to = history'[u][i].from
    BY DEF AuditedFromReal
  <2>1. CASE u # t
    BY <2>1, <1>1, <1>2 DEF AuditedFromReal, TypeOK
  <2>2. CASE u = t /\ i = Len(history[t]) + 1
    BY <2>2, <1>1, <1>4, <1>5, SMTT(30) DEF JobInv
  <2>3. CASE u = t /\ i \in 1..Len(history[t])
    <3>1. \/ history[t][i].from = "open"
          \/ \E k \in 1..(i - 1) : history[t][k].to = history[t][i].from
      BY <2>3, <1>1 DEF AuditedFromReal
    <3>2. /\ history'[t][i] = history[t][i]
          /\ \A k \in 1..(i - 1) : history'[t][k] = history[t][k]
      BY <2>3, <1>1, <1>5
    <3> QED
      BY <2>3, <3>1, <3>2
  <2> QED
    BY <2>1, <2>2, <2>3, <1>1, <1>5, SMTT(30)
<1>12. ASSUME NEW v \in Workers, pc'[v] # "idle" PROVE JobInv(v)'
  <2>1. v # w /\ pc[v] # "idle" /\ job'[v] = job[v] /\ JobInv(v)
    BY <1>12, <1>2 DEF TypeOK
  <2>2. CASE job[v].ticket # t
    BY <2>1, <2>2, <1>2 DEF JobInv, TypeOK
  <2>3. CASE job[v].ticket = t
    <3>1. row'[t] = r /\ r # Null
      BY <1>1, <1>2, <1>3, NullAssumption DEF TypeOK
    <3>2. \/ job[v].from = "open"
          \/ \E k \in 1..Len(history'[t]) : history'[t][k].to = job[v].from
      <4>1. \/ job[v].from = "open"
            \/ \E k \in 1..Len(history[t]) : history[t][k].to = job[v].from
        BY <2>1, <2>3 DEF JobInv
      <4>2. 1..Len(history[t]) \subseteq 1..Len(history'[t])
        BY <1>1, <1>5
      <4> QED
        BY <4>1, <4>2, <1>5
    <3> QED
      BY <2>1, <2>3, <3>1, <3>2, <1>1, <1>3 DEF JobInv
  <2> QED
    BY <2>2, <2>3
<1> QED
  BY <1>6, <1>7, <1>8, <1>9, <1>10, <1>11, <1>12

(* Every step preserves the invariant. *)
LEMMA NextIInv == IInv /\ [Next]_vars => IInv'
<1> SUFFICES ASSUME IInv, [Next]_vars PROVE IInv'
  OBVIOUS
<1>1. ASSUME UNCHANGED vars PROVE IInv'
  BY <1>1 DEF vars, IInv, TypeOK, StatusIsLastAudited, OpenIffUnassigned,
              ClosedWasResolved, AuditedFromReal, LockInv, NoTrailBefore,
              Existing, JobInv
<1> QED
  BY <1>1, CreateIInv, AssignIInv, UpdateStatusIInv, SelectIInv, UpdateIInv,
     CommitIInv, AbandonIInv DEF Next, Progress, Reject

(* IInv holds in every state the ticket tables reach. *)
THEOREM Invariance == Spec => []IInv
  BY InitIInv, NextIInv, PTL DEF Spec

(* Rows, audit rows and requests keep their types. *)
THEOREM TypeCorrect == Spec => []TypeOK
<1>1. IInv => TypeOK
  BY DEF IInv
<1> QED
  BY <1>1, Invariance, PTL

(* However many requests overlap, the status of a ticket is the one its    *)
(* last committed audit row leads to.                                      *)
THEOREM AuditAgrees == Spec => []StatusIsLastAudited
<1>1. IInv => StatusIsLastAudited
  BY DEF IInv
<1> QED
  BY <1>1, Invariance, PTL

(* A ticket is in the unassigned queue exactly while it is open. *)
THEOREM QueueIsOpen == Spec => []OpenIffUnassigned
<1>1. IInv => OpenIffUnassigned
  BY DEF IInv
<1> QED
  BY <1>1, Invariance, PTL

(* Closed tickets have been resolved, and both times are set. *)
THEOREM ClosedAfterResolved == Spec => []ClosedWasResolved
<1>1. IInv => ClosedWasResolved
  BY DEF IInv
<1> QED
  BY <1>1, Invariance, PTL

(* No audit row starts from a status the ticket never had. *)
THEOREM AuditFromCommitted == Spec => []AuditedFromReal
<1>1. IInv => AuditedFromReal
  BY DEF IInv
<1> QED
  BY <1>1, Invariance, PTL
=============================================================================
