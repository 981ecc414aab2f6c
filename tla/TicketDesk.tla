---------------------------- MODULE TicketDesk ----------------------------
(***************************************************************************)
(* What the ticket-service shows to whom: tickets and their lists,         *)
(* comments, attachments and the events of activity on a ticket            *)
(* (comment_*.go, attachment_*.go, activity_target.go, and of handler.go,  *)
(* ticket_usecase.go and ticket_repository.go what concerns them).         *)
(*                                                                         *)
(* A request is authorized against the ticket row it reads first           *)
(* (GetTicketByID) and does its work with a later statement; the ticket    *)
(* may be reassigned in between.  How assignments and status changes come  *)
(* about is the subject of TicketWorkflow: here each is one step, of the   *)
(* status only whether the ticket is done (resolved or closed) is kept.    *)
(* Requests that are refused, or whose first statement fails, change       *)
(* nothing.                                                                *)
(***************************************************************************)
EXTENDS Naturals, Sequences, FiniteSets, Functions

CONSTANTS
    Admins, Agents, Customers,
    Owners,          \* the users who open tickets
    Assignees,       \* the agents, and the other ids an admin may send: those
                     \* of other users, and 0, which is nobody's
    Workers,         \* handler goroutines
    PageLimit,       \* the page size in force, after the handler's clamping
    MaxTickets, MaxItems, MaxLeft,  \* bounds
    Null

Users == Admins \cup Agents \cup Customers

ASSUME DeskAssumption ==
    /\ PageLimit \in Nat \ {0}
    /\ {MaxTickets, MaxItems, MaxLeft} \subseteq Nat
    /\ Owners \subseteq Users
    /\ Null \notin Users \cup Assignees
    /\ Customers \cap (Admins \cup Agents) = {}  \* an account has one role

VARIABLES
    tickets,  \* the rows; the id is the position
    items,    \* comments and attachments, likewise
    job,      \* what each worker is in the middle of, or Null
    shown     \* who is shown what by the last step, in an answer or an event

vars == <<tickets, items, job, shown>>

Row == [owner : Users, agent : Assignees \cup {Null},
        done : BOOLEAN,   \* the status is resolved or closed
        late : BOOLEAN]   \* due_at has passed
Ids == 1..MaxTickets
Scope == {"all", "own", "mine", "queue"}
Filter == {"none", "active", "done", "overdue"}

(* A request on a ticket that was authorized, with the assigned agent of   *)
(* the row that was read (agents is history: whom the ticket was assigned  *)
(* to since); and a caller who turns the pages of a list (history: the     *)
(* rows that have stayed in the list since he began, those he got, and how *)
(* many left it).                                                          *)
Job ==
    [op : {"request"}, by : Users, ticket : Ids, agent : Assignees \cup {Null},
     agents : SUBSET (Assignees \cup {Null})]
    \cup [op : {"browse"}, by : Users, scope : Scope, filter : Filter, page : Nat \ {0},
          stay : SUBSET Ids, got : SUBSET Ids, left : Nat]

ASSUME NullAssumption == Null \notin Job

Item == [kind : {"ticket", "history", "comment", "attachment"}, ticket : Ids,
         internal : BOOLEAN]

TypeOK ==
    /\ tickets \in Seq(Row) /\ Len(tickets) <= MaxTickets
    /\ items \in Seq(Item) /\ Len(items) <= MaxItems
    /\ job \in [Workers -> Job \cup {Null}]
    /\ shown \subseteq (Users \cup Assignees) \X Item

Init ==
    /\ tickets = <<>> /\ items = <<>>
    /\ job = [w \in Workers |-> Null]
    /\ shown = {}

Role(u) == IF u \in Admins THEN "admin" ELSE IF u \in Agents THEN "agent" ELSE "user"

TicketItem(t) == [kind |-> "ticket", ticket |-> t, internal |-> FALSE]

At(w, ops) == job[w] # Null /\ job[w].op \in ops

-----------------------------------------------------------------------------
(* GET /tickets: the rows its queries select, without LIMIT and OFFSET. *)

(* applyFilter: a status is asked for by "active" or "done".  The filters  *)
(* on columns that never change (priority, department, created_at, title)  *)
(* select like the owner in FindByUser and are left out.                   *)
Passes(row, filter) ==
    CASE filter = "none"    -> TRUE
      [] filter = "active"  -> ~row.done
      [] filter = "done"    -> row.done
      [] filter = "overdue" -> row.late /\ ~row.done

Filtered(ts, filter) == {t \in DOMAIN ts : Passes(ts[t], filter)}

FindByUser(ts, u, filter) == {t \in Filtered(ts, filter) : ts[t].owner = u}
FindByAgent(ts, u, filter) == {t \in Filtered(ts, filter) : ts[t].agent = u}
FindUnassigned(ts, filter) == {t \in Filtered(ts, filter) : ts[t].agent = Null}

(* "all" is FindAll. *)
Selected(ts, u, scope, filter) ==
    CASE scope = "all"   -> Filtered(ts, filter)
      [] scope = "own"   -> FindByUser(ts, u, filter)
      [] scope = "mine"  -> FindByAgent(ts, u, filter)
      [] scope = "queue" -> FindUnassigned(ts, filter)

ListOf(j, ts) == Selected(ts, j.by, j.scope, j.filter)

-----------------------------------------------------------------------------
(* The table changes to ts, with the history of the requests under way. *)
Follow(j, ts) ==
    IF j = Null THEN Null
    ELSE IF j.op = "browse"
    THEN [j EXCEPT !.stay = @ \cap ListOf(j, ts),
                   !.left = @ + Cardinality(ListOf(j, tickets) \ ListOf(j, ts))]
    ELSE [j EXCEPT !.agents = @ \cup {ts[j.ticket].agent}]

Update(ts) ==
    /\ tickets' = ts
    /\ job' = [w \in Workers |-> Follow(job[w], ts)]
    /\ \A w \in Workers : At(w, {"browse"}) => job'[w].left <= MaxLeft
    /\ UNCHANGED items

(* Everyone of some users is shown everything of a set. *)
Told(users, set) == {<<u, i>> : u \in users, i \in set}

(* publishEvent: some users are told of a change, or the event is lost.    *)
(* It is published after the commit, but with the targets and the contents *)
(* the request then has: it is counted as shown in the step it reports.    *)
Notify(users, item) == \E to \in {{}, users} : shown' = Told(to, {item})

(* POST /tickets; ticket_created goes to the roles admin and agent. *)
Create(u) ==
    /\ Len(tickets) < MaxTickets
    /\ Update(Append(tickets, [owner |-> u, agent |-> Null, done |-> FALSE,
                               late |-> FALSE]))
    /\ Notify(Admins \cup Agents, TicketItem(Len(tickets) + 1))

(* A committed assignment, an agent's claim that overwrites another's      *)
(* included; ticket_assigned goes to the new agent.                        *)
Assign(t, a) ==
    /\ Update([tickets EXCEPT ![t].agent = a, ![t].done = FALSE])
    /\ Notify({a}, TicketItem(t))

(* A committed change of the status, which an assigned ticket only can     *)
(* have; ticket_status_changed goes to the owner.                          *)
UpdateStatus(t, done) ==
    /\ tickets[t].agent # Null
    /\ Update([tickets EXCEPT ![t].done = done])
    /\ Notify({tickets[t].owner}, TicketItem(t))

(* due_at passes. *)
FallDue(t) ==
    /\ ~tickets[t].late
    /\ Update([tickets EXCEPT ![t].late = TRUE])
    /\ shown' = {}

-----------------------------------------------------------------------------
Begin(w, j) == job' = [job EXCEPT ![w] = j]
Answer(w) == job' = [job EXCEPT ![w] = Null]

(* GetTicketByID: the admin, the assigned agent, or the owner, by role. *)
MaySee(u, t) ==
    CASE Role(u) = "admin" -> TRUE
      [] Role(u) = "agent" -> tickets[t].agent = u
      [] Role(u) = "user"  -> tickets[t].owner = u

(* The first half of every request on a ticket; which handler it is shows  *)
(* in how it goes on.                                                      *)
Authorize(w, u, t) ==
    /\ job[w] = Null
    /\ MaySee(u, t)
    /\ Begin(w, [op |-> "request", by |-> u, ticket |-> t, agent |-> tickets[t].agent,
                 agents |-> {tickets[t].agent}])
    /\ shown' = {}
    /\ UNCHANGED <<tickets, items>>

(* ticketActivityTarget, on the row that was read for the authorization. *)
ActivityTarget(j) ==
    IF Role(j.by) # "user" THEN {tickets[j.ticket].owner}
    ELSE IF j.agent # Null THEN {j.agent} ELSE Admins

(* The insert, and the event, which carries the body or the file's name    *)
(* and may be lost.  The author has seen what he wrote.                    *)
Insert(w, item, notified) ==
    /\ Len(items) < MaxItems
    /\ items' = Append(items, item)
    /\ \E to \in {{}, notified} : shown' = Told(to \cup {job[w].by}, {item})
    /\ Answer(w)
    /\ UNCHANGED tickets

(* CommentUsecase.Create: only staff can write an internal note. *)
NewComment(j, isInternal) ==
    [kind |-> "comment", ticket |-> j.ticket,
     internal |-> isInternal /\ Role(j.by) # "user"]

(* Nobody is notified of an internal note. *)
CreateComment(w, isInternal) ==
    LET c == NewComment(job[w], isInternal) IN
    /\ At(w, {"request"})
    /\ Insert(w, c, IF c.internal THEN {} ELSE ActivityTarget(job[w]))

NewAttachment(j) == [kind |-> "attachment", ticket |-> j.ticket, internal |-> FALSE]

CreateAttachment(w) ==
    /\ At(w, {"request"})
    /\ Insert(w, NewAttachment(job[w]), ActivityTarget(job[w]))

Show(w, set) ==
    /\ shown' = Told({job[w].by}, set)
    /\ Answer(w)
    /\ UNCHANGED <<tickets, items>>

FindByTicket(kind, t) == {i \in Range(items) : i.kind = kind /\ i.ticket = t}

(* CommentUsecase.List: users do not see notes. *)
ListComments(w) ==
    LET j == job[w] IN
    /\ At(w, {"request"})
    /\ Show(w, {c \in FindByTicket("comment", j.ticket) :
                   c.internal => Role(j.by) # "user"})

ListAttachments(w) ==
    /\ At(w, {"request"})
    /\ Show(w, FindByTicket("attachment", job[w].ticket))

(* GET /tickets/{id} answers with the row that was read first. *)
GetByID(w) ==
    /\ At(w, {"request"})
    /\ Show(w, {TicketItem(job[w].ticket)})

(* GET /tickets/{id}/history reads the audit trail after the check. *)
GetHistory(w) ==
    /\ At(w, {"request"})
    /\ Show(w, {[kind |-> "history", ticket |-> job[w].ticket, internal |-> FALSE]})

(* Mutant: any attachment can be had through a ticket of one's own. *)
BelongsAny(a, t) == TRUE

Belongs(a, t) == a.ticket = t

(* AttachmentUsecase.Get: 404 for an attachment of another ticket. *)
Download(w, i) ==
    /\ At(w, {"request"})
    /\ items[i].kind = "attachment"
    /\ Show(w, IF Belongs(items[i], job[w].ticket) THEN {items[i]} ELSE {})

-----------------------------------------------------------------------------
(* GetTickets: the queries a role may use. *)
Scopes(u) ==
    CASE Role(u) = "admin" -> {"all"}
      [] Role(u) = "agent" -> {"mine", "queue"}
      [] Role(u) = "user"  -> {"own"}

(* Mutant: pages counted from zero. *)
OffsetFromZero(page) == page * PageLimit

Offset(page) == (page - 1) * PageLimit

(* ORDER BY id DESC LIMIT OFFSET: the rows with at least Offset and fewer  *)
(* than Offset + PageLimit rows before them.                               *)
Page(set, page) ==
    {t \in set : LET before == Cardinality({s \in set : s > t})
                 IN  before >= Offset(page) /\ before < Offset(page) + PageLimit}

Browse(w, u, scope, filter) ==
    /\ job[w] = Null
    /\ scope \in Scopes(u)
    /\ Begin(w, [op |-> "browse", by |-> u, scope |-> scope, filter |-> filter, page |-> 1,
                 stay |-> Selected(tickets, u, scope, filter), got |-> {}, left |-> 0])
    /\ shown' = {}
    /\ UNCHANGED <<tickets, items>>

(* The caller turns pages until one is empty. *)
NextPage(w) ==
    LET j    == job[w]
        rows == Page(ListOf(j, tickets), j.page)
    IN
    /\ At(w, {"browse"})
    /\ shown' = Told({j.by}, {TicketItem(t) : t \in rows})
    /\ IF rows = {} THEN Answer(w)
       ELSE Begin(w, [j EXCEPT !.page = @ + 1, !.got = @ \cup rows])
    /\ UNCHANGED <<tickets, items>>

-----------------------------------------------------------------------------
Request(w) ==
    \/ \E u \in Users, t \in DOMAIN tickets : Authorize(w, u, t)
    \/ \E isInternal \in BOOLEAN : CreateComment(w, isInternal)
    \/ CreateAttachment(w)
    \/ ListComments(w) \/ ListAttachments(w)
    \/ GetByID(w) \/ GetHistory(w)
    \/ \E i \in DOMAIN items : Download(w, i)
    \/ \E u \in Users, scope \in Scope, filter \in Filter : Browse(w, u, scope, filter)
    \/ NextPage(w)

Change(t) ==
    \/ \E a \in Assignees : Assign(t, a)
    \/ \E done \in BOOLEAN : UpdateStatus(t, done)
    \/ FallDue(t)

Next ==
    \/ \E u \in Owners : Create(u)
    \/ \E t \in DOMAIN tickets : Change(t)
    \/ \E w \in Workers : Request(w)

Spec == Init /\ [][Next]_vars

-----------------------------------------------------------------------------
(* A request on the ticket ends, during which it was assigned to u. *)
HeldDuring(u, t) ==
    \E w \in Workers : /\ At(w, {"request"}) /\ job'[w] = Null
                       /\ job[w].ticket = t /\ u \in job[w].agents

(* Agents see the tickets nobody has, and their own. *)
OnTheList(u, t) ==
    \/ tickets'[t].agent = u
    \/ tickets'[t].agent = Null /\ u \in Agents

(* Whoever is shown a comment, an attachment or the history of a ticket,   *)
(* in an answer or an event, is an admin, its owner, or somebody it was    *)
(* assigned to at some moment of that very request: one who has lost the   *)
(* ticket sees no more than the request he was in the middle of.  Ticket   *)
(* rows are shown also to the assigned agent and, while nobody has the     *)
(* ticket, to every agent.  No customer is ever shown an internal note,    *)
(* not even one the ticket is assigned to.                                 *)
ShownToParties ==
    [][\A u \in Users \cup Assignees, item \in Item : <<u, item>> \in shown' =>
          /\ \/ u \in Admins \cup {tickets'[item.ticket].owner}
             \/ HeldDuring(u, item.ticket)
             \/ item.kind = "ticket" /\ OnTheList(u, item.ticket)
          /\ item.internal => u \notin Customers]_vars

(* A caller who turns the pages of a list to the end misses of the rows    *)
(* that were in it all the time no more than rows left it meanwhile,       *)
(* whatever the filter: tickets opened, and rows that enter the list,      *)
(* push the others back, but each one that leaves (reassigned, resolved)   *)
(* pulls the next rows forward by one, past the offset already asked for.  *)
PagesComplete ==
    [][\A w \in Workers :
          At(w, {"browse"}) /\ job'[w] = Null =>
              Cardinality(job[w].stay \ job[w].got) <= job[w].left]_vars
=============================================================================
