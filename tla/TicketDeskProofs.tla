-------------------------- MODULE TicketDeskProofs --------------------------
(***************************************************************************)
(* TLAPS proofs about TicketDesk for any users, tickets, page sizes and    *)
(* handler goroutines: who is shown what, and how much turning pages can   *)
(* miss.                                                                   *)
(***************************************************************************)
EXTENDS TicketDesk, FiniteSetTheorems, SequenceTheorems, WellFoundedInduction, TLAPS

RequestJob ==
    [op : {"request"}, by : Users, ticket : Ids, agent : Assignees \cup {Null},
     agents : SUBSET (Assignees \cup {Null})]
BrowseJob ==
    [op : {"browse"}, by : Users, scope : Scope, filter : Filter, page : Nat \ {0},
     stay : SUBSET Ids, got : SUBSET Ids, left : Nat]

Somebody == Users \cup Assignees

(* How many rows of a list come before a ticket. *)
Before(set, t) == Cardinality({s \in set : s > t})

(* Of some tickets, those in front of the offset. *)
Passed(set, some, off) == {t \in some : Before(set, t) < off}

(* The tickets the caller has not got are in the list, and no more of them *)
(* than have left it are in front of the next page he will ask for.        *)
Unseen(j, ts) ==
    /\ j.stay \ j.got \subseteq ListOf(j, ts)
    /\ Cardinality(Passed(ListOf(j, ts), j.stay \ j.got, Offset(j.page))) <= j.left

(* What is true of a request that was begun, whatever happens meanwhile. *)
JobOK(j, ts) ==
    /\ j.op = "request" =>
          /\ j.ticket \in 1..Len(ts)
          /\ j.by \in Admins \cup j.agents \cup {ts[j.ticket].owner}
          /\ j.agent \in j.agents
    /\ j.op = "browse" => j.scope \in Scopes(j.by) /\ Unseen(j, ts)

(* Only comments are internal. *)
NotesInv == \A i \in 1..Len(items) : items[i].internal => items[i].kind = "comment"

(* The inductive invariant. *)
IInv ==
    /\ TypeOK
    /\ NotesInv
    /\ \A w \in Workers : job[w] # Null => JobOK(job[w], tickets)

(* What ShownToParties says of a step. *)
ShownOK ==
    \A u \in Users \cup Assignees, item \in Item : <<u, item>> \in shown' =>
          /\ \/ u \in Admins \cup {tickets'[item.ticket].owner}
             \/ HeldDuring(u, item.ticket)
             \/ item.kind = "ticket" /\ OnTheList(u, item.ticket)
          /\ item.internal => u \notin Customers

----------------------------------------------------------------------------
(* Every non-empty set of naturals has a smallest element. *)
LEMMA Smallest ==
  ASSUME NEW S \in SUBSET Nat, S # {}
  PROVE  \E x \in S : \A y \in S : x <= y
<1> DEFINE R == {p \in Nat \X Nat : p[1] < p[2]}
<1>1. IsWellFoundedOn(R, Nat)
  BY NatLessThanWellFounded DEF OpToRel
<1> HIDE DEF R
<1>2. PICK x \in S : \A y \in S : ~ (<<y, x>> \in R)
  BY <1>1, WFMin
<1>3. \A y \in S : <<y, x>> \in R <=> y < x
  BY DEF R
<1>4. \A y \in S : x \in Nat /\ y \in Nat /\ ~(y < x)
  BY <1>2, <1>3
<1>5. \A y \in S : x <= y
  BY <1>4
<1> QED
  BY <1>5

(* The number of rows before a ticket. *)
LEMMA BeforeFacts ==
  ASSUME NEW set \in SUBSET Nat, IsFiniteSet(set), NEW t \in Nat
  PROVE  Before(set, t) \in Nat /\ IsFiniteSet({s \in set : s > t})
<1>1. IsFiniteSet({s \in set : s > t})
  BY FS_Subset
<1>2. Before(set, t) \in Nat
  BY <1>1, FS_CardinalityType DEF Before
<1> QED
  BY <1>1, <1>2

(* The next page of a list is empty only behind its end: if some row has   *)
(* at least Offset rows before it, then the row with exactly Offset rows   *)
(* before it exists.                                                       *)
LEMMA EmptyPage ==
  ASSUME NEW set \in SUBSET Nat, IsFiniteSet(set), NEW page \in Nat \ {0},
         Page(set, page) = {}
  PROVE  \A t \in set : Before(set, t) < Offset(page)
<1> SUFFICES ASSUME NEW t \in set, ~(Before(set, t) < Offset(page)) PROVE FALSE
  OBVIOUS
<1>1. Offset(page) \in Nat /\ PageLimit \in Nat \ {0}
  BY DeskAssumption DEF Offset
<1> DEFINE Far == {x \in set : Before(set, x) >= Offset(page)}
           Counts == {Before(set, x) : x \in Far}
<1>2. \A x \in set : x \in Nat /\ Before(set, x) \in Nat
  BY BeforeFacts
<1>3. Counts \in SUBSET Nat /\ Counts # {}
  BY <1>1, <1>2
<1>4. PICK x \in Far : \A y \in Far : Before(set, x) <= Before(set, y)
  <2>1. PICK n \in Counts : \A m \in Counts : n <= m
    BY <1>3, Smallest
  <2> QED
    BY <2>1
<1>5. CASE Before(set, x) = Offset(page)
  BY <1>1, <1>4, <1>5 DEF Page, Before
<1>6. CASE Before(set, x) # Offset(page)
  <2>1. x \in set /\ x \in Nat /\ Before(set, x) > Offset(page)
    BY <1>1, <1>2, <1>4, <1>6
  <2> DEFINE After == {s \in set : s > x}
  <2>2. IsFiniteSet(After) /\ Cardinality(After) = Before(set, x)
    BY <2>1, BeforeFacts DEF Before
  <2>3. After # {} /\ After \in SUBSET Nat
    <3>1. Cardinality(After) # 0
      BY <1>1, <1>2, <2>1, <2>2
    <3> QED
      BY <3>1, FS_EmptySet
  <2>4. PICK y \in After : \A z \in After : y <= z
    BY <2>3, Smallest
  <2>5. {s \in set : s > y} = After \ {y}
    <3>1. \A s \in set : s > y <=> s > x /\ s # y
      BY <2>1, <2>3, <2>4
    <3> QED
      BY <3>1
  <2>6. Before(set, y) = Before(set, x) - 1
    <3> HIDE DEF After
    <3>1. Cardinality(After \ {y}) = Cardinality(After) - 1
      BY <2>2, <2>4, FS_RemoveElement
    <3>2. Before(set, y) = Cardinality(After \ {y})
      BY <2>5 DEF Before
    <3> QED
      BY <2>2, <3>1, <3>2
  <2>7. y \in Far
    BY <1>1, <1>2, <2>1, <2>4, <2>6
  <2> QED
    BY <1>2, <1>4, <2>1, <2>6, <2>7
<1> QED
  BY <1>5, <1>6

(* A ticket comes forward by no more rows than have left the list. *)
LEMMA BeforeLoses ==
  ASSUME NEW was \in SUBSET Nat, NEW is \in SUBSET Nat, IsFiniteSet(was), IsFiniteSet(is),
         NEW t \in Nat
  PROVE  /\ Before(was, t) \in Nat /\ Before(is, t) \in Nat
         /\ Cardinality(was \ is) \in Nat
         /\ Before(is, t) + Cardinality(was \ is) >= Before(was, t)
<1> DEFINE A == {s \in was : s > t}
           B == {s \in is : s > t}
           L == was \ is
<1>1. IsFiniteSet(A) /\ IsFiniteSet(B) /\ IsFiniteSet(L)
  BY FS_Subset
<1>2. Before(was, t) = Cardinality(A) /\ Before(is, t) = Cardinality(B)
  BY DEF Before
<1>3. A \in SUBSET (B \cup L)
  OBVIOUS
<1> HIDE DEF A, B, L
<1>4. /\ IsFiniteSet(B \cup L) /\ IsFiniteSet(B \cap L)
      /\ Cardinality(B \cup L) = Cardinality(B) + Cardinality(L) - Cardinality(B \cap L)
  BY <1>1, FS_Union, FS_Intersection
<1>5. Cardinality(A) <= Cardinality(B \cup L)
  BY <1>3, <1>4, FS_Subset
<1>6. /\ Cardinality(A) \in Nat /\ Cardinality(B) \in Nat /\ Cardinality(L) \in Nat
      /\ Cardinality(B \cap L) \in Nat /\ Cardinality(B \cup L) \in Nat
  BY <1>1, <1>4, FS_CardinalityType
<1>7. Cardinality(B) + Cardinality(L) >= Cardinality(A)
  BY <1>4, <1>5, <1>6
<1> QED
  BY <1>2, <1>6, <1>7 DEF L

(* No two rows of a list have the same number of rows before them. *)
LEMMA BeforeInjective ==
  ASSUME NEW set \in SUBSET Nat, IsFiniteSet(set), NEW s \in set, NEW t \in set, s < t
  PROVE  Before(set, s) # Before(set, t)
<1> DEFINE A == {x \in set : x > s}
           B == {x \in set : x > t}
<1>1. IsFiniteSet(A)
  BY FS_Subset
<1>2. B \in SUBSET A
  <2>1. \A x \in set : x \in Nat /\ s \in Nat /\ t \in Nat
    OBVIOUS
  <2>2. \A x \in set : x > t => x > s
    BY <2>1
  <2> QED
    BY <2>2
<1>3. t \in A /\ t \notin B
  OBVIOUS
<1>4. Before(set, s) = Cardinality(A) /\ Before(set, t) = Cardinality(B)
  BY DEF Before
<1> HIDE DEF A, B
<1> QED
  BY <1>1, <1>2, <1>3, <1>4, FS_Subset

(* At most gone rows are within gone of the offset. *)
LEMMA Crossing ==
  ASSUME NEW set \in SUBSET Nat, IsFiniteSet(set), NEW off \in Nat, NEW gone \in Nat
  PROVE  LET C == {t \in set : off <= Before(set, t) /\ Before(set, t) < off + gone}
         IN  IsFiniteSet(C) /\ Cardinality(C) <= gone
<1> DEFINE C == {t \in set : off <= Before(set, t) /\ Before(set, t) < off + gone}
           R == off..(off + gone - 1)
           f == [t \in C |-> Before(set, t)]
<1>1. \A t \in set : Before(set, t) \in Nat
  BY BeforeFacts
<1>2. f \in [C -> R]
  <2>1. \A t \in C : Before(set, t) \in R
    BY <1>1
  <2> HIDE DEF C, R
  <2> QED
    BY <2>1
<1>3. \A s, t \in C : f[s] = f[t] => s = t
  <2> SUFFICES ASSUME NEW s \in C, NEW t \in C, s # t PROVE f[s] # f[t]
    OBVIOUS
  <2>1. s \in Nat /\ t \in Nat /\ s \in set /\ t \in set
    OBVIOUS
  <2>2. s < t \/ t < s
    BY <2>1
  <2>3. Before(set, s) # Before(set, t)
    BY <2>1, <2>2, BeforeInjective
  <2> QED
    BY <2>3
<1>4. IsFiniteSet(R) /\ Cardinality(R) = gone
  BY FS_Interval
<1>5. f \in Injection(C, R)
  <2> HIDE DEF C, R, f
  <2> QED
    BY <1>2, <1>3 DEF Injection, IsInjective
<1>6. IsFiniteSet(C) /\ Cardinality(C) <= Cardinality(R)
  <2> HIDE DEF C, R, f
  <2> QED
    BY <1>4, <1>5, FS_Injection
<1> QED
  BY <1>4, <1>6

(* Rows that leave the list bring at most as many others in front of the   *)
(* offset.                                                                 *)
LEMMA PassedGrows ==
  ASSUME NEW was \in SUBSET Nat, NEW is \in SUBSET Nat, IsFiniteSet(was), IsFiniteSet(is),
         NEW some \in SUBSET was, NEW rest \in SUBSET (some \cap is), NEW off \in Nat
  PROVE  /\ Cardinality(Passed(is, rest, off)) \in Nat
         /\ Cardinality(Passed(was, some, off)) \in Nat
         /\ Cardinality(was \ is) \in Nat
         /\ Cardinality(Passed(is, rest, off))
              <= Cardinality(Passed(was, some, off)) + Cardinality(was \ is)
<1>1. PICK gone : gone = Cardinality(was \ is)
  OBVIOUS
<1>2. gone \in Nat
  <2>1. IsFiniteSet(was \ is)
    BY FS_Subset
  <2> QED
    BY <1>1, <2>1, FS_CardinalityType
<1> DEFINE C == {t \in was : off <= Before(was, t) /\ Before(was, t) < off + gone}
           P == Passed(was, some, off)
           Q == Passed(is, rest, off)
<1>3. IsFiniteSet(C) /\ Cardinality(C) <= gone
  BY <1>2, Crossing
<1>4. IsFiniteSet(P) /\ IsFiniteSet(Q)
  <2>1. IsFiniteSet(some)
    BY FS_Subset
  <2>2. IsFiniteSet(rest)
    BY <2>1, FS_Subset
  <2> QED
    BY <2>1, <2>2, FS_Subset DEF Passed
<1>5. Q \in SUBSET (P \cup C)
  <2> SUFFICES ASSUME NEW t \in Q PROVE t \in P \cup C
    OBVIOUS
  <2>1. t \in rest /\ t \in some /\ t \in was /\ t \in Nat /\ Before(is, t) < off
    BY DEF Passed
  <2>2. /\ Before(was, t) \in Nat /\ Before(is, t) \in Nat
        /\ Before(is, t) + gone >= Before(was, t)
    BY <1>1, <2>1, BeforeLoses
  <2>3. Before(was, t) < off + gone
    BY <1>2, <2>1, <2>2
  <2>4. Before(was, t) < off \/ off <= Before(was, t)
    BY <2>2
  <2> QED
    BY <2>1, <2>3, <2>4 DEF Passed
<1> HIDE DEF C, P, Q
<1>6. /\ IsFiniteSet(P \cup C) /\ IsFiniteSet(P \cap C)
      /\ Cardinality(P \cup C) = Cardinality(P) + Cardinality(C) - Cardinality(P \cap C)
  BY <1>3, <1>4, FS_Union, FS_Intersection
<1>7. Cardinality(Q) <= Cardinality(P \cup C)
  BY <1>5, <1>6, FS_Subset
<1>8. /\ Cardinality(P) \in Nat /\ Cardinality(C) \in Nat /\ Cardinality(Q) \in Nat
      /\ Cardinality(P \cap C) \in Nat /\ Cardinality(P \cup C) \in Nat
  BY <1>3, <1>4, <1>6, FS_CardinalityType
<1>9. Cardinality(Q) <= Cardinality(P) + gone
  BY <1>2, <1>3, <1>6, <1>7, <1>8
<1> QED
  BY <1>1, <1>2, <1>8, <1>9 DEF P, Q

(* The tables. *)
LEMMA TableFacts ==
  ASSUME TypeOK
  PROVE  /\ tickets \in Seq(Row) /\ Len(tickets) \in Nat /\ Len(tickets) <= MaxTickets
         /\ DOMAIN tickets = 1..Len(tickets) /\ 1..Len(tickets) \subseteq Ids
         /\ \A t \in 1..Len(tickets) : tickets[t] \in Row
         /\ items \in Seq(Item) /\ Len(items) \in Nat /\ DOMAIN items = 1..Len(items)
         /\ \A i \in 1..Len(items) : items[i] \in Item
<1>1. tickets \in Seq(Row) /\ items \in Seq(Item) /\ Len(tickets) <= MaxTickets
  BY DEF TypeOK
<1>2. Len(tickets) \in Nat /\ DOMAIN tickets = 1..Len(tickets) /\ 1..Len(tickets) \subseteq Ids
  BY <1>1, LenProperties, DeskAssumption DEF Ids
<1>3. \A t \in 1..Len(tickets) : tickets[t] \in Row
  BY <1>1, ElementOfSeq
<1>4. Len(items) \in Nat /\ DOMAIN items = 1..Len(items)
  BY <1>1, LenProperties
<1>5. \A i \in 1..Len(items) : items[i] \in Item
  BY <1>1, ElementOfSeq
<1> QED
  BY <1>1, <1>2, <1>3, <1>4, <1>5

(* The two kinds of jobs. *)
LEMMA JobShapes ==
  ASSUME NEW j \in Job
  PROVE  /\ j.op = "request" => j \in RequestJob
         /\ j.op = "browse" => j \in BrowseJob
         /\ j.op \in {"request", "browse"}
         /\ j # Null
BY NullAssumption DEF Job, RequestJob, BrowseJob

(* A list is a finite set of tickets. *)
LEMMA SelectedFacts ==
  ASSUME NEW ts \in Seq(Row), Len(ts) <= MaxTickets, NEW u, NEW scope \in Scope, NEW filter
  PROVE  /\ Selected(ts, u, scope, filter) \subseteq 1..Len(ts)
         /\ Selected(ts, u, scope, filter) \subseteq Ids
         /\ IsFiniteSet(Selected(ts, u, scope, filter))
         /\ Selected(ts, u, scope, filter) \subseteq Nat
<1>1. Len(ts) \in Nat /\ DOMAIN ts = 1..Len(ts)
  BY LenProperties
<1>2. Filtered(ts, filter) \subseteq 1..Len(ts)
  BY <1>1 DEF Filtered
<1>3. Selected(ts, u, scope, filter) \subseteq Filtered(ts, filter)
  BY DEF Selected, Scope, FindByUser, FindByAgent, FindUnassigned
<1>4. IsFiniteSet(1..Len(ts)) /\ 1..Len(ts) \subseteq Nat /\ 1..Len(ts) \subseteq Ids
  <2>1. IsFiniteSet(1..Len(ts))
    BY <1>1, FS_Interval
  <2>2. 1..Len(ts) \subseteq Nat
    OBVIOUS
  <2>3. 1..Len(ts) \subseteq Ids
    BY <1>1, DeskAssumption DEF Ids
  <2> QED
    BY <2>1, <2>2, <2>3
<1> QED
  BY <1>2, <1>3, <1>4, FS_Subset

(* Staff are not customers. *)
LEMMA StaffFacts ==
  ASSUME NEW u \in Users
  PROVE  /\ Role(u) # "user" => u \notin Customers
         /\ Role(u) = "user" => u \in Customers
         /\ Role(u) = "admin" <=> u \in Admins
         /\ Role(u) \in {"admin", "agent", "user"}
         /\ Role(u) = "agent" => u \in Agents
BY DeskAssumption DEF Role, Users

----------------------------------------------------------------------------
(* No request ends. *)
Kept == \A w \in Workers : job[w] # Null => job'[w] # Null

(* The table changes under a request on a ticket. *)
LEMMA FollowRequest ==
  ASSUME TypeOK, NEW ts \in Seq(Row), Len(ts) <= MaxTickets, Len(tickets) <= Len(ts),
         \A t \in 1..Len(tickets) : ts[t].owner = tickets[t].owner,
         NEW j \in RequestJob, JobOK(j, tickets)
  PROVE  Follow(j, ts) \in RequestJob /\ JobOK(Follow(j, ts), ts)
<1>1. /\ j.op = "request" /\ j.by \in Users /\ j.ticket \in Ids
      /\ j.agent \in Assignees \cup {Null} /\ j.agents \in SUBSET (Assignees \cup {Null})
      /\ j = [op |-> j.op, by |-> j.by, ticket |-> j.ticket, agent |-> j.agent,
              agents |-> j.agents]
  BY DEF RequestJob
<1>2. /\ j.ticket \in 1..Len(tickets)
      /\ j.by \in Admins \cup j.agents \cup {tickets[j.ticket].owner}
      /\ j.agent \in j.agents
  BY <1>1 DEF JobOK
<1>3. j.ticket \in 1..Len(ts) /\ ts[j.ticket] \in Row
        /\ ts[j.ticket].owner = tickets[j.ticket].owner
  <2>1. Len(ts) \in Nat /\ Len(tickets) \in Nat
    BY LenProperties DEF TypeOK
  <2>2. j.ticket \in 1..Len(ts)
    BY <1>2, <2>1
  <2> QED
    BY <1>2, <2>2, ElementOfSeq
<1>4. PICK more : more = j.agents \cup {ts[j.ticket].agent}
  OBVIOUS
<1>5. more \in SUBSET (Assignees \cup {Null})
  BY <1>1, <1>3, <1>4 DEF Row
<1>6. j # Null
  BY JobShapes DEF Job, RequestJob
<1>7. Follow(j, ts) = [j EXCEPT !.agents = more]
  BY <1>1, <1>4, <1>6 DEF Follow
<1>8. PICK k : k = Follow(j, ts)
  OBVIOUS
<1>9. k = [op |-> j.op, by |-> j.by, ticket |-> j.ticket, agent |-> j.agent, agents |-> more]
  BY <1>1, <1>7, <1>8
<1>10. k \in RequestJob
  BY <1>1, <1>5, <1>9 DEF RequestJob
<1>11. /\ k.op = "request" /\ k.by = j.by /\ k.ticket = j.ticket /\ k.agent = j.agent
       /\ k.agents = more
  BY <1>1, <1>9
<1>12. JobOK(k, ts)
  BY <1>2, <1>3, <1>4, <1>11 DEF JobOK
<1> QED
  BY <1>8, <1>10, <1>12

(* The table changes under a caller who turns pages: a row he has not got  *)
(* comes forward by the rows that leave, which are counted.                *)
LEMMA FollowBrowse ==
  ASSUME TypeOK, NEW ts \in Seq(Row), Len(ts) <= MaxTickets,
         NEW j \in BrowseJob, JobOK(j, tickets)
  PROVE  Follow(j, ts) \in BrowseJob /\ JobOK(Follow(j, ts), ts)
<1>1. /\ j.op = "browse" /\ j.by \in Users /\ j.scope \in Scope /\ j.filter \in Filter
      /\ j.page \in Nat \ {0} /\ j.stay \in SUBSET Ids /\ j.got \in SUBSET Ids /\ j.left \in Nat
      /\ j = [op |-> j.op, by |-> j.by, scope |-> j.scope, filter |-> j.filter,
              page |-> j.page, stay |-> j.stay, got |-> j.got, left |-> j.left]
  BY DEF BrowseJob
<1>2. PICK was : was = ListOf(j, tickets)
  OBVIOUS
<1>3. PICK is : is = ListOf(j, ts)
  OBVIOUS
<1>4. /\ was \in SUBSET Nat /\ IsFiniteSet(was)
      /\ is \in SUBSET Nat /\ IsFiniteSet(is)
  <2>1. tickets \in Seq(Row) /\ Len(tickets) <= MaxTickets
    BY DEF TypeOK
  <2> QED
    BY <1>1, <1>2, <1>3, <2>1, SelectedFacts DEF ListOf
<1>5. PICK gone : gone = Cardinality(was \ is)
  OBVIOUS
<1>6. gone \in Nat
  <2>1. IsFiniteSet(was \ is)
    BY <1>4, FS_Subset
  <2> QED
    BY <1>5, <2>1, FS_CardinalityType
<1>7. j # Null
  BY JobShapes DEF Job, BrowseJob
<1>8. Follow(j, ts) = [j EXCEPT !.stay = @ \cap is, !.left = @ + gone]
  BY <1>1, <1>2, <1>3, <1>5, <1>7 DEF Follow
<1>9. PICK k : k = Follow(j, ts)
  OBVIOUS
<1>10. k = [op |-> j.op, by |-> j.by, scope |-> j.scope, filter |-> j.filter,
            page |-> j.page, stay |-> j.stay \cap is, got |-> j.got, left |-> j.left + gone]
  BY <1>1, <1>8, <1>9
<1>11. /\ k.op = "browse" /\ k.by = j.by /\ k.scope = j.scope /\ k.filter = j.filter
       /\ k.page = j.page /\ k.stay = j.stay \cap is /\ k.got = j.got
       /\ k.left = j.left + gone
  BY <1>1, <1>10
<1>12. k \in BrowseJob
  <2>1. j.left + gone \in Nat /\ j.stay \cap is \in SUBSET Ids
    BY <1>1, <1>6
  <2> QED
    BY <1>1, <1>10, <2>1 DEF BrowseJob
<1>13. ListOf(k, ts) = is
  BY <1>3, <1>11 DEF ListOf
<1>14. j.scope \in Scopes(j.by) /\ Unseen(j, tickets)
  BY <1>1 DEF JobOK
<1>15. PICK some : some = j.stay \ j.got
  OBVIOUS
<1>16. PICK rest : rest = k.stay \ k.got
  OBVIOUS
<1>17. PICK off : off = Offset(j.page)
  OBVIOUS
<1>18. off \in Nat /\ off = Offset(k.page)
  BY <1>1, <1>11, <1>17, DeskAssumption DEF Offset
<1>19. /\ some \in SUBSET was /\ rest \in SUBSET (some \cap is)
       /\ Cardinality(Passed(was, some, off)) <= j.left
  BY <1>2, <1>11, <1>14, <1>15, <1>16, <1>17 DEF Unseen
<1>20. Cardinality(Passed(is, rest, off)) <= j.left + gone
  <2>1. /\ Cardinality(Passed(is, rest, off)) \in Nat
        /\ Cardinality(Passed(was, some, off)) \in Nat
        /\ Cardinality(Passed(is, rest, off)) <= Cardinality(Passed(was, some, off)) + gone
    BY <1>4, <1>5, <1>18, <1>19, PassedGrows
  <2> QED
    BY <1>1, <1>6, <1>19, <2>1
<1>21. Unseen(k, ts)
  BY <1>11, <1>13, <1>16, <1>18, <1>19, <1>20 DEF Unseen
<1>22. JobOK(k, ts)
  BY <1>11, <1>14, <1>21 DEF JobOK
<1> QED
  BY <1>9, <1>12, <1>22

(* A change of the table that keeps the owners. *)
LEMMA UpdateIInv ==
  ASSUME IInv, NEW ts \in Seq(Row), Len(ts) <= MaxTickets, Len(tickets) <= Len(ts),
         \A t \in 1..Len(tickets) : ts[t].owner = tickets[t].owner,
         Update(ts), shown' \subseteq Somebody \X Item
  PROVE  IInv' /\ Kept
<1>1. /\ tickets' = ts /\ job' = [w \in Workers |-> Follow(job[w], ts)] /\ items' = items
  BY DEF Update
<1>2. ASSUME NEW w \in Workers
      PROVE  /\ job'[w] \in Job \cup {Null}
             /\ job'[w] # Null => JobOK(job'[w], ts)
             /\ job[w] # Null => job'[w] # Null
  <2>1. CASE job[w] = Null
    BY <1>1, <2>1 DEF Follow
  <2>2. CASE job[w] # Null
    <3>1. PICK j \in Job : j = job[w]
      BY <2>2 DEF IInv, TypeOK
    <3>2. JobOK(j, tickets) /\ job'[w] = Follow(j, ts)
      BY <1>1, <2>2, <3>1 DEF IInv
    <3>3. CASE j.op = "request"
      <4>1. Follow(j, ts) \in RequestJob /\ JobOK(Follow(j, ts), ts)
        BY <3>2, <3>3, JobShapes, FollowRequest DEF IInv
      <4> QED
        BY <3>2, <4>1, NullAssumption DEF Job, RequestJob
    <3>4. CASE j.op = "browse"
      <4>1. Follow(j, ts) \in BrowseJob /\ JobOK(Follow(j, ts), ts)
        BY <3>2, <3>4, JobShapes, FollowBrowse DEF IInv
      <4> QED
        BY <3>2, <4>1, NullAssumption DEF Job, BrowseJob
    <3> QED
      BY <3>3, <3>4, JobShapes
  <2> QED
    BY <2>1, <2>2
<1>3. TypeOK'
  <2>1. job' \in [Workers -> Job \cup {Null}]
    BY <1>1, <1>2
  <2> QED
    BY <1>1, <2>1 DEF IInv, TypeOK, Somebody
<1>4. NotesInv'
  BY <1>1 DEF IInv, NotesInv
<1>5. \A w \in Workers : job'[w] # Null => JobOK(job'[w], tickets')
  BY <1>1, <1>2
<1>6. Kept
  BY <1>2 DEF Kept
<1> QED
  BY <1>3, <1>4, <1>5, <1>6 DEF IInv

----------------------------------------------------------------------------
(* What an event shows, when it is not lost. *)
LEMMA NotifyFacts ==
  ASSUME NEW users \in SUBSET Somebody, NEW item \in Item, Notify(users, item)
  PROVE  /\ shown' \subseteq Somebody \X Item
         /\ \A u, i : <<u, i>> \in shown' => u \in users /\ i = item
BY DEF Notify, Told

LEMMA TicketItemFacts ==
  ASSUME NEW t \in Ids
  PROVE  /\ TicketItem(t) \in Item
         /\ TicketItem(t).kind = "ticket" /\ TicketItem(t).ticket = t
         /\ TicketItem(t).internal = FALSE
BY DEF TicketItem, Item

(* A ticket is opened, and all the staff told of it. *)
LEMMA CreateIInv ==
  ASSUME IInv, NEW u \in Owners, Create(u)
  PROVE  IInv' /\ ShownOK /\ Kept
<1>1. PICK row : row = [owner |-> u, agent |-> Null, done |-> FALSE, late |-> FALSE]
  OBVIOUS
<1>2. row \in Row /\ row.agent = Null
  BY <1>1, DeskAssumption DEF Row
<1>3. PICK ts : ts = Append(tickets, row)
  OBVIOUS
<1>4. PICK n : n = Len(tickets) + 1
  OBVIOUS
<1>5. /\ Len(tickets) < MaxTickets /\ Update(ts) /\ tickets' = ts
      /\ Notify(Admins \cup Agents, TicketItem(n))
  BY <1>1, <1>3, <1>4 DEF Create, Update
<1>6. /\ tickets \in Seq(Row) /\ Len(tickets) \in Nat /\ MaxTickets \in Nat
  BY TableFacts, DeskAssumption DEF IInv
<1>7. /\ ts \in Seq(Row) /\ Len(ts) = n /\ ts[n] = row
      /\ \A t \in 1..Len(tickets) : ts[t] = tickets[t]
  BY <1>2, <1>3, <1>4, <1>6, AppendProperties
<1>8. n \in Ids /\ Len(ts) <= MaxTickets /\ Len(tickets) <= Len(ts)
  BY <1>4, <1>5, <1>6, <1>7 DEF Ids
<1>9. /\ shown' \subseteq Somebody \X Item
      /\ \A v, i : <<v, i>> \in shown' => v \in Admins \cup Agents /\ i = TicketItem(n)
  <2>1. Admins \cup Agents \in SUBSET Somebody
    BY DEF Somebody, Users
  <2> QED
    BY <1>5, <1>8, <2>1, TicketItemFacts, NotifyFacts
<1>10. IInv' /\ Kept
  BY <1>5, <1>7, <1>8, <1>9, UpdateIInv
<1>11. ShownOK
  <2>1. \A v \in Agents : OnTheList(v, n)
    BY <1>2, <1>5, <1>7 DEF OnTheList
  <2>2. TicketItem(n).kind = "ticket" /\ TicketItem(n).ticket = n /\ ~TicketItem(n).internal
    BY <1>8, TicketItemFacts
  <2> QED
    BY <1>9, <2>1, <2>2 DEF ShownOK
<1> QED
  BY <1>10, <1>11

(* One row changes, not its owner. *)
LEMMA ExceptIInv ==
  ASSUME IInv, NEW t \in 1..Len(tickets), NEW row \in Row, row.owner = tickets[t].owner,
         NEW ts, ts = [tickets EXCEPT ![t] = row],
         Update(ts), shown' \subseteq Somebody \X Item
  PROVE  IInv' /\ Kept /\ tickets'[t] = row /\ t \in Ids
<1>1. tickets \in Seq(Row) /\ Len(tickets) \in Nat /\ Len(tickets) <= MaxTickets /\ t \in Ids
  BY TableFacts DEF IInv
<1>2. /\ ts \in Seq(Row) /\ Len(ts) = Len(tickets)
      /\ \A s \in 1..Len(tickets) : ts[s] = IF s = t THEN row ELSE tickets[s]
  BY <1>1, ExceptSeq
<1>3. \A s \in 1..Len(tickets) : ts[s].owner = tickets[s].owner
  BY <1>2
<1>4. Len(ts) <= MaxTickets /\ Len(tickets) <= Len(ts)
  BY <1>1, <1>2
<1>5. IInv' /\ Kept
  BY <1>2, <1>3, <1>4, UpdateIInv
<1> QED
  BY <1>1, <1>2, <1>5 DEF Update

(* Assignments, status changes and deadlines that pass. *)
LEMMA ChangeIInv ==
  ASSUME IInv, NEW t \in DOMAIN tickets, Change(t)
  PROVE  IInv' /\ ShownOK /\ Kept
<1>1. t \in 1..Len(tickets) /\ tickets[t] \in Row /\ t \in Ids
  BY TableFacts DEF IInv
<1>2. PICK old : old = tickets[t]
  OBVIOUS
<1>3. /\ old \in Row /\ old.owner \in Users
      /\ old = [owner |-> old.owner, agent |-> old.agent, done |-> old.done, late |-> old.late]
      /\ old.agent \in Assignees \cup {Null} /\ old.done \in BOOLEAN /\ old.late \in BOOLEAN
  BY <1>1, <1>2 DEF Row
<1>4. /\ TicketItem(t) \in Item /\ TicketItem(t).kind = "ticket" /\ TicketItem(t).ticket = t
      /\ TicketItem(t).internal = FALSE
  BY <1>1, TicketItemFacts
<1>5. ASSUME NEW a \in Assignees, Assign(t, a) PROVE IInv' /\ ShownOK /\ Kept
  <2>0. PICK no \in BOOLEAN : no = FALSE
    OBVIOUS
  <2>1. PICK row : row = [owner |-> old.owner, agent |-> a, done |-> no, late |-> old.late]
    OBVIOUS
  <2>2. row \in Row /\ row.owner = old.owner /\ row.agent = a
    BY <1>3, <2>1 DEF Row
  <2>3. [tickets EXCEPT ![t].agent = a, ![t].done = no] = [tickets EXCEPT ![t] = row]
    <3>1. row = [old EXCEPT !.agent = a, !.done = no]
      <4>1. PICK mid : mid = [owner |-> old.owner, agent |-> a, done |-> old.done,
                              late |-> old.late]
        OBVIOUS
      <4>2. mid = [old EXCEPT !.agent = a]
        BY <1>3, <4>1
      <4>3. row = [mid EXCEPT !.done = no]
        BY <1>3, <2>1, <4>1
      <4> QED
        BY <4>2, <4>3
    <3>2. tickets = [s \in 1..Len(tickets) |-> tickets[s]]
      BY TableFacts DEF IInv
    <3> QED
      BY <1>1, <1>2, <3>1, <3>2
  <2>4. Update([tickets EXCEPT ![t] = row]) /\ Notify({a}, TicketItem(t))
    BY <1>5, <2>0, <2>3, Zenon DEF Assign
  <2>5. /\ shown' \subseteq Somebody \X Item
        /\ \A v, i : <<v, i>> \in shown' => v \in {a} /\ i = TicketItem(t)
    <3>1. {a} \in SUBSET Somebody
      BY DEF Somebody
    <3> QED
      BY <1>4, <2>4, <3>1, NotifyFacts
  <2>6. IInv' /\ Kept /\ tickets'[t] = row
    BY <1>1, <1>2, <2>2, <2>4, <2>5, ExceptIInv
  <2>7. ShownOK
    BY <1>4, <2>2, <2>5, <2>6 DEF ShownOK, OnTheList
  <2> QED
    BY <2>6, <2>7
<1>6. ASSUME NEW done \in BOOLEAN, UpdateStatus(t, done) PROVE IInv' /\ ShownOK /\ Kept
  <2>1. PICK row : row = [owner |-> old.owner, agent |-> old.agent, done |-> done,
                          late |-> old.late]
    OBVIOUS
  <2>2. row \in Row /\ row.owner = old.owner
    BY <1>3, <2>1 DEF Row
  <2>3. [tickets EXCEPT ![t].done = done] = [tickets EXCEPT ![t] = row]
    <3>1. row = [old EXCEPT !.done = done]
      BY <1>3, <2>1
    <3> QED
      BY <1>1, <1>2, <3>1
  <2>4. Update([tickets EXCEPT ![t] = row]) /\ Notify({old.owner}, TicketItem(t))
    BY <1>2, <1>6, <2>3 DEF UpdateStatus
  <2>5. /\ shown' \subseteq Somebody \X Item
        /\ \A v, i : <<v, i>> \in shown' => v \in {old.owner} /\ i = TicketItem(t)
    <3>1. {old.owner} \in SUBSET Somebody
      BY <1>3 DEF Somebody
    <3> QED
      BY <1>4, <2>4, <3>1, NotifyFacts
  <2>6. IInv' /\ Kept /\ tickets'[t] = row
    BY <1>1, <1>2, <2>2, <2>4, <2>5, ExceptIInv
  <2>7. ShownOK
    BY <1>4, <2>2, <2>5, <2>6 DEF ShownOK
  <2> QED
    BY <2>6, <2>7
<1>7. CASE FallDue(t)
  <2>0. PICK yes \in BOOLEAN : yes = TRUE
    OBVIOUS
  <2>1. PICK row : row = [owner |-> old.owner, agent |-> old.agent, done |-> old.done,
                          late |-> yes]
    OBVIOUS
  <2>2. row \in Row /\ row.owner = old.owner
    BY <1>3, <2>1 DEF Row
  <2>3. [tickets EXCEPT ![t].late = yes] = [tickets EXCEPT ![t] = row]
    <3>1. row = [old EXCEPT !.late = yes]
      BY <1>3, <2>1
    <3> QED
      BY <1>1, <1>2, <3>1
  <2>4. Update([tickets EXCEPT ![t] = row]) /\ shown' = {}
    BY <1>7, <2>0, <2>3, Zenon DEF FallDue
  <2>5. IInv' /\ Kept
    BY <1>1, <1>2, <2>2, <2>4, ExceptIInv
  <2> QED
    BY <2>4, <2>5 DEF ShownOK
<1> QED
  BY <1>5, <1>6, <1>7 DEF Change

----------------------------------------------------------------------------
(* A step of one worker. *)
LEMMA WorkerIInv ==
  ASSUME IInv, NEW w \in Workers, UNCHANGED tickets,
         NEW j \in Job \cup {Null}, job' = [job EXCEPT ![w] = j], j # Null => JobOK(j, tickets),
         items' \in Seq(Item), Len(items') <= MaxItems, NotesInv',
         shown' \subseteq Somebody \X Item
  PROVE  IInv'
<1>1. TypeOK'
  <2>1. job' \in [Workers -> Job \cup {Null}]
    BY DEF IInv, TypeOK
  <2> QED
    BY <2>1 DEF IInv, TypeOK, Somebody
<1>2. ASSUME NEW v \in Workers, job'[v] # Null PROVE JobOK(job'[v], tickets')
  <2>1. CASE v = w
    BY <1>2, <2>1 DEF IInv, TypeOK
  <2>2. CASE v # w
    BY <1>2, <2>2 DEF IInv, TypeOK
  <2> QED
    BY <2>1, <2>2
<1> QED
  BY <1>1, <1>2 DEF IInv

(* The same when nothing is written and nobody is shown anything. *)
LEMMA QuietIInv ==
  ASSUME IInv, NEW w \in Workers, UNCHANGED <<tickets, items>>,
         NEW j \in Job \cup {Null}, job' = [job EXCEPT ![w] = j], j # Null => JobOK(j, tickets),
         shown' \subseteq Somebody \X Item
  PROVE  IInv'
<1>1. items' \in Seq(Item) /\ Len(items') <= MaxItems /\ NotesInv'
  BY DEF IInv, TypeOK, NotesInv
<1> QED
  BY <1>1, WorkerIInv

(* Whoever passes GetTicketByID's check is a party of the ticket. *)
LEMMA AuthorizeIInv ==
  ASSUME IInv, NEW w \in Workers, NEW u \in Users, NEW t \in DOMAIN tickets,
         Authorize(w, u, t)
  PROVE  IInv' /\ ShownOK
<1>1. t \in 1..Len(tickets) /\ t \in Ids /\ tickets[t] \in Row
  BY TableFacts DEF IInv
<1>2. PICK a : a = tickets[t].agent
  OBVIOUS
<1>3. PICK j : j = [op |-> "request", by |-> u, ticket |-> t, agent |-> a, agents |-> {a}]
  OBVIOUS
<1>4. a \in Assignees \cup {Null}
  BY <1>1, <1>2 DEF Row
<1>5. /\ j \in Job /\ j.op = "request" /\ j.by = u /\ j.ticket = t /\ j.agent = a
      /\ j.agents = {a}
  BY <1>1, <1>3, <1>4 DEF Job
<1>6. u \in Admins \cup {a} \cup {tickets[t].owner}
  <2>1. CASE Role(u) = "admin"
    BY <2>1, StaffFacts
  <2>2. CASE Role(u) = "agent"
    BY <1>2, <2>2 DEF Authorize, MaySee
  <2>3. CASE Role(u) = "user"
    BY <2>3 DEF Authorize, MaySee
  <2> QED
    BY <2>1, <2>2, <2>3, StaffFacts
<1>7. JobOK(j, tickets)
  BY <1>1, <1>5, <1>6 DEF JobOK
<1>8. job' = [job EXCEPT ![w] = j] /\ UNCHANGED <<tickets, items>> /\ shown' = {}
  BY <1>2, <1>3 DEF Authorize, Begin
<1>9. IInv'
  BY <1>5, <1>7, <1>8, QuietIInv
<1> QED
  BY <1>8, <1>9 DEF ShownOK

(* A worker in the middle of a request on a ticket. *)
LEMMA AtFacts ==
  ASSUME IInv, NEW w \in Workers, At(w, {"request"})
  PROVE  /\ job[w] \in RequestJob /\ job[w].by \in Users /\ job[w].ticket \in Ids
         /\ job[w].agents \subseteq Assignees \cup {Null}
         /\ job[w].ticket \in 1..Len(tickets)
         /\ job[w].by \in Admins \cup job[w].agents \cup {tickets[job[w].ticket].owner}
         /\ job[w].agent \in job[w].agents
<1>1. job[w] \in Job /\ job[w].op = "request" /\ job[w] # Null
  BY DEF IInv, TypeOK, At
<1>2. JobOK(job[w], tickets) /\ job[w] \in RequestJob
  BY <1>1, JobShapes DEF IInv
<1> QED
  BY <1>1, <1>2 DEF JobOK, RequestJob

(* What a request that ends may show of its ticket, and to whom. *)
LEMMA EndShows ==
  ASSUME IInv, NEW w \in Workers, At(w, {"request"}), job' = [job EXCEPT ![w] = Null],
         UNCHANGED tickets,
         \A u, i : <<u, i>> \in shown' =>
             /\ u \in Admins \cup job[w].agents \cup {tickets[job[w].ticket].owner}
             /\ i \in Item /\ i.ticket = job[w].ticket
             /\ i.internal => u \notin Customers
  PROVE  ShownOK
<1>1. job'[w] = Null
  BY DEF IInv, TypeOK
<1>2. \A u \in job[w].agents : HeldDuring(u, job[w].ticket)
  BY <1>1 DEF HeldDuring
<1> QED
  BY <1>2 DEF ShownOK

(* An answer shows things of the ticket, and notes to staff only. *)
LEMMA ShowIInv ==
  ASSUME IInv, NEW w \in Workers, At(w, {"request"}), NEW set, Show(w, set),
         set \subseteq Item,
         \A i \in set : /\ i.ticket = job[w].ticket
                        /\ i.internal => Role(job[w].by) # "user"
  PROVE  IInv' /\ ShownOK
<1>1. /\ job[w].by \in Users
      /\ job[w].by \in Admins \cup job[w].agents \cup {tickets[job[w].ticket].owner}
  BY AtFacts
<1>2. /\ \A u, i : <<u, i>> \in shown' => u = job[w].by /\ i \in set
      /\ job' = [job EXCEPT ![w] = Null]
      /\ shown' \subseteq Somebody \X Item
      /\ UNCHANGED <<tickets, items>>
  BY <1>1 DEF Show, Answer, Told, Somebody
<1>3. IInv'
  BY <1>2, QuietIInv
<1>4. ShownOK
  <2>1. \A u, i : <<u, i>> \in shown' =>
             /\ u \in Admins \cup job[w].agents \cup {tickets[job[w].ticket].owner}
             /\ i \in Item /\ i.ticket = job[w].ticket
             /\ i.internal => u \notin Customers
    BY <1>1, <1>2, StaffFacts
  <2> QED
    BY <1>2, <2>1, EndShows
<1> QED
  BY <1>3, <1>4

(* The requests that read. *)
LEMMA ReadIInv ==
  ASSUME IInv, NEW w \in Workers,
         \/ ListComments(w) \/ ListAttachments(w) \/ GetByID(w) \/ GetHistory(w)
         \/ \E i \in DOMAIN items : Download(w, i)
  PROVE  IInv' /\ ShownOK
<1>0. \A i \in Range(items) : i \in Item /\ (i.internal => i.kind = "comment")
  BY TableFacts DEF IInv, NotesInv, Range
<1>1. CASE ListComments(w)
  <2> DEFINE set == {c \in FindByTicket("comment", job[w].ticket) :
                        c.internal => Role(job[w].by) # "user"}
  <2>1. At(w, {"request"}) /\ Show(w, set)
    BY <1>1 DEF ListComments
  <2>2. /\ set \subseteq Item
        /\ \A i \in set : i.ticket = job[w].ticket /\ (i.internal => Role(job[w].by) # "user")
    BY <1>0 DEF FindByTicket
  <2> HIDE DEF set
  <2> QED
    BY <2>1, <2>2, ShowIInv
<1>2. CASE ListAttachments(w)
  <2> DEFINE set == FindByTicket("attachment", job[w].ticket)
  <2>1. At(w, {"request"}) /\ Show(w, set)
    BY <1>2 DEF ListAttachments
  <2>2. /\ set \subseteq Item
        /\ \A i \in set : i.ticket = job[w].ticket /\ (i.internal => Role(job[w].by) # "user")
    BY <1>0 DEF FindByTicket
  <2> HIDE DEF set
  <2> QED
    BY <2>1, <2>2, ShowIInv
<1>3. CASE GetByID(w) \/ GetHistory(w)
  <2>1. At(w, {"request"})
    BY <1>3 DEF GetByID, GetHistory
  <2>2. PICK kind \in {"ticket", "history"} :
           Show(w, {[kind |-> kind, ticket |-> job[w].ticket, internal |-> FALSE]})
    BY <1>3 DEF GetByID, GetHistory, TicketItem
  <2> DEFINE set == {[kind |-> kind, ticket |-> job[w].ticket, internal |-> FALSE]}
  <2>3. job[w].ticket \in Ids
    BY <2>1, AtFacts
  <2>4. /\ set \subseteq Item
        /\ \A k \in set : k.ticket = job[w].ticket /\ (k.internal => Role(job[w].by) # "user")
    BY <2>3 DEF Item
  <2>5. Show(w, set)
    BY <2>2
  <2> HIDE DEF set
  <2> QED
    BY <2>1, <2>4, <2>5, ShowIInv
<1>4. ASSUME NEW i \in DOMAIN items, Download(w, i) PROVE IInv' /\ ShownOK
  <2> DEFINE set == IF Belongs(items[i], job[w].ticket) THEN {items[i]} ELSE {}
  <2>1. At(w, {"request"}) /\ Show(w, set) /\ items[i].kind = "attachment"
    BY <1>4 DEF Download
  <2>2. items[i] \in Item /\ ~items[i].internal
    BY <2>1, TableFacts DEF IInv, NotesInv
  <2>3. /\ set \subseteq Item
        /\ \A k \in set : k.ticket = job[w].ticket /\ (k.internal => Role(job[w].by) # "user")
    BY <2>2 DEF Belongs
  <2> HIDE DEF set
  <2> QED
    BY <2>1, <2>3, ShowIInv
<1> QED
  BY <1>1, <1>2, <1>3, <1>4

(* Those who are notified of activity are parties of the ticket. *)
LEMMA TargetFacts ==
  ASSUME IInv, NEW w \in Workers, At(w, {"request"})
  PROVE  \A u \in ActivityTarget(job[w]) :
            /\ u \in Somebody
            /\ u \in Admins \cup job[w].agents \cup {tickets[job[w].ticket].owner}
<1>1. /\ job[w].ticket \in 1..Len(tickets) /\ job[w].agent \in job[w].agents
      /\ job[w].agents \subseteq Assignees \cup {Null}
  BY AtFacts
<1>2. tickets[job[w].ticket].owner \in Users
  BY <1>1, TableFacts DEF IInv, Row
<1> QED
  BY <1>1, <1>2 DEF ActivityTarget, Users, Somebody

(* A comment or an attachment is stored and its parties notified. *)
LEMMA InsertIInv ==
  ASSUME IInv, NEW w \in Workers, At(w, {"request"}), NEW item \in Item, NEW notified,
         Insert(w, item, notified),
         item.ticket = job[w].ticket,
         item.internal => item.kind = "comment" /\ Role(job[w].by) # "user" /\ notified = {},
         \A u \in notified :
            /\ u \in Somebody
            /\ u \in Admins \cup job[w].agents \cup {tickets[job[w].ticket].owner}
  PROVE  IInv' /\ ShownOK
<1>1. /\ job[w].by \in Users
      /\ job[w].by \in Admins \cup job[w].agents \cup {tickets[job[w].ticket].owner}
  BY AtFacts
<1>2. /\ items' = Append(items, item) /\ Len(items) < MaxItems
      /\ job' = [job EXCEPT ![w] = Null] /\ UNCHANGED tickets
  BY DEF Insert, Answer
<1>3. \A u, i : <<u, i>> \in shown' => i = item /\ (u = job[w].by \/ u \in notified)
  BY DEF Insert, Told
<1>4. shown' \subseteq Somebody \X Item
  BY <1>1 DEF Insert, Told, Somebody
<1>5. /\ items' \in Seq(Item) /\ Len(items') = Len(items) + 1
      /\ \A i \in 1..Len(items) : items'[i] = items[i]
      /\ items'[Len(items) + 1] = item
  BY <1>2, AppendProperties DEF IInv, TypeOK
<1>6. Len(items') <= MaxItems /\ Len(items) \in Nat
  BY <1>2, <1>5, TableFacts, DeskAssumption DEF IInv
<1>7. NotesInv'
  <2>1. ASSUME NEW i \in 1..Len(items') PROVE items'[i].internal => items'[i].kind = "comment"
    <3>1. i \in 1..Len(items) \/ i = Len(items) + 1
      BY <1>5, <1>6
    <3>2. CASE i \in 1..Len(items)
      BY <1>5, <3>2 DEF IInv, NotesInv
    <3>3. CASE i = Len(items) + 1
      BY <1>5, <3>3
    <3> QED
      BY <3>1, <3>2, <3>3
  <2> QED
    BY <2>1 DEF NotesInv
<1>8. IInv'
  BY <1>2, <1>4, <1>5, <1>6, <1>7, WorkerIInv
<1>9. ShownOK
  <2>1. ASSUME NEW u, NEW i, <<u, i>> \in shown'
        PROVE  /\ u \in Admins \cup job[w].agents \cup {tickets[job[w].ticket].owner}
               /\ i \in Item /\ i.ticket = job[w].ticket
               /\ i.internal => u \notin Customers
    <3>1. i = item /\ (u = job[w].by \/ u \in notified)
      BY <1>3, <2>1
    <3>2. ASSUME item.internal PROVE u \notin Customers
      <4>1. Role(job[w].by) # "user" /\ u = job[w].by
        BY <3>1, <3>2
      <4> QED
        BY <1>1, <4>1, StaffFacts
    <3> QED
      BY <1>1, <3>1, <3>2
  <2> QED
    BY <1>2, <2>1, EndShows
<1> QED
  BY <1>8, <1>9

(* The requests that write. *)
LEMMA WriteIInv ==
  ASSUME IInv, NEW w \in Workers,
         CreateAttachment(w) \/ \E isInternal \in BOOLEAN : CreateComment(w, isInternal)
  PROVE  IInv' /\ ShownOK
<1>1. At(w, {"request"})
  BY DEF CreateComment, CreateAttachment
<1>2. job[w].ticket \in Ids
  BY <1>1, AtFacts
<1>3. ASSUME NEW isInternal \in BOOLEAN, CreateComment(w, isInternal) PROVE IInv' /\ ShownOK
  <2>1. PICK c : c = NewComment(job[w], isInternal)
    OBVIOUS
  <2>2. /\ c \in Item /\ c.ticket = job[w].ticket /\ c.kind = "comment"
        /\ c.internal => Role(job[w].by) # "user"
    BY <1>2, <2>1, Zenon DEF NewComment, Item
  <2>3. PICK notified : notified = IF c.internal THEN {} ELSE ActivityTarget(job[w])
    OBVIOUS
  <2>4. Insert(w, c, notified)
    BY <1>3, <2>1, <2>3 DEF CreateComment
  <2>5. \A u \in notified :
            /\ u \in Somebody
            /\ u \in Admins \cup job[w].agents \cup {tickets[job[w].ticket].owner}
    BY <1>1, <2>3, TargetFacts
  <2> QED
    BY <1>1, <2>2, <2>3, <2>4, <2>5, InsertIInv
<1>4. CASE CreateAttachment(w)
  <2>1. PICK c : c = NewAttachment(job[w])
    OBVIOUS
  <2>2. c \in Item /\ c.ticket = job[w].ticket /\ ~c.internal
    BY <1>2, <2>1 DEF NewAttachment, Item
  <2>3. PICK notified : notified = ActivityTarget(job[w])
    OBVIOUS
  <2>4. Insert(w, c, notified)
    BY <1>4, <2>1, <2>3 DEF CreateAttachment
  <2>5. \A u \in notified :
            /\ u \in Somebody
            /\ u \in Admins \cup job[w].agents \cup {tickets[job[w].ticket].owner}
    BY <1>1, <2>3, TargetFacts
  <2> QED
    BY <1>1, <2>2, <2>4, <2>5, InsertIInv
<1> QED
  BY <1>3, <1>4

----------------------------------------------------------------------------
(* The first page is still to be asked for. *)
LEMMA BrowseIInv ==
  ASSUME IInv, NEW w \in Workers, NEW u \in Users, NEW scope \in Scope,
         NEW filter \in Filter, Browse(w, u, scope, filter)
  PROVE  IInv' /\ ShownOK
<1>1. PICK set : set = Selected(tickets, u, scope, filter)
  OBVIOUS
<1>2. set \in SUBSET Ids /\ set \in SUBSET Nat /\ IsFiniteSet(set)
  BY <1>1, TableFacts, SelectedFacts DEF IInv
<1>3. PICK j : j = [op |-> "browse", by |-> u, scope |-> scope, filter |-> filter, page |-> 1,
                    stay |-> set, got |-> {}, left |-> 0]
  OBVIOUS
<1>4. /\ j.op = "browse" /\ j.by = u /\ j.scope = scope /\ j.filter = filter /\ j.page = 1
      /\ j.stay = set /\ j.got = {} /\ j.left = 0
  BY <1>3
<1>5. j \in Job
  BY <1>2, <1>3 DEF Job
<1>6. Unseen(j, tickets)
  <2>1. Offset(1) = 0 /\ ListOf(j, tickets) = set
    BY <1>1, <1>4, DeskAssumption DEF Offset, ListOf
  <2>2. \A t \in set : Before(set, t) \in Nat
    BY <1>2, BeforeFacts
  <2>3. Passed(set, set, 0) = {}
    BY <2>2 DEF Passed
  <2>4. set \ {} = set /\ Cardinality(Passed(set, set, 0)) = 0
    BY <2>3, FS_EmptySet
  <2> QED
    BY <1>4, <2>1, <2>4 DEF Unseen
<1>7. JobOK(j, tickets)
  BY <1>4, <1>6 DEF JobOK, Browse
<1>8. job' = [job EXCEPT ![w] = j] /\ UNCHANGED <<tickets, items>> /\ shown' = {}
  BY <1>1, <1>3 DEF Browse, Begin
<1>9. IInv'
  BY <1>5, <1>7, <1>8, QuietIInv
<1> QED
  BY <1>8, <1>9 DEF ShownOK

(* A worker whose caller turns pages. *)
LEMMA BrowsingFacts ==
  ASSUME IInv, NEW w \in Workers, At(w, {"browse"})
  PROVE  /\ job[w] \in BrowseJob
         /\ JobOK(job[w], tickets)
         /\ ListOf(job[w], tickets) \subseteq Ids
         /\ ListOf(job[w], tickets) \subseteq Nat
         /\ IsFiniteSet(ListOf(job[w], tickets))
<1>1. job[w] \in Job /\ job[w].op = "browse" /\ job[w] # Null
  BY DEF IInv, TypeOK, At
<1>2. JobOK(job[w], tickets) /\ job[w] \in BrowseJob
  BY <1>1, JobShapes DEF IInv
<1>3. job[w].scope \in Scope
  BY <1>2 DEF BrowseJob
<1> QED
  BY <1>2, <1>3, TableFacts, SelectedFacts DEF IInv, ListOf

(* The job after a page that was not empty. *)
Turned(j, rows) == [j EXCEPT !.page = @ + 1, !.got = @ \cup rows]

LEMMA TurnFacts ==
  ASSUME NEW rows \in SUBSET Ids, NEW j \in BrowseJob, NEW k, k = Turned(j, rows)
  PROVE  /\ k \in BrowseJob /\ k \in Job /\ k # Null
         /\ k.op = "browse" /\ k.by = j.by /\ k.scope = j.scope /\ k.filter = j.filter
         /\ k.page = j.page + 1 /\ k.stay = j.stay /\ k.got = j.got \cup rows
         /\ k.left = j.left
<1>1. /\ j.op = "browse" /\ j.by \in Users /\ j.scope \in Scope /\ j.filter \in Filter
      /\ j.page \in Nat \ {0} /\ j.stay \in SUBSET Ids /\ j.got \in SUBSET Ids /\ j.left \in Nat
      /\ j = [op |-> j.op, by |-> j.by, scope |-> j.scope, filter |-> j.filter,
              page |-> j.page, stay |-> j.stay, got |-> j.got, left |-> j.left]
  BY DEF BrowseJob
<1>2. k = [op |-> j.op, by |-> j.by, scope |-> j.scope, filter |-> j.filter,
           page |-> j.page + 1, stay |-> j.stay, got |-> j.got \cup rows, left |-> j.left]
  BY <1>1 DEF Turned
<1>3. j.page + 1 \in Nat \ {0} /\ j.got \cup rows \in SUBSET Ids
  BY <1>1
<1>4. k \in BrowseJob
  BY <1>1, <1>2, <1>3 DEF BrowseJob
<1>5. k \in Job
  BY <1>4 DEF Job, BrowseJob
<1>6. k # Null
  BY <1>5, NullAssumption
<1>7. /\ k.op = j.op /\ k.by = j.by /\ k.scope = j.scope /\ k.filter = j.filter
      /\ k.page = j.page + 1 /\ k.stay = j.stay /\ k.got = j.got \cup rows
      /\ k.left = j.left
  BY <1>2
<1> QED
  BY <1>1, <1>4, <1>5, <1>6, <1>7

(* The caller is on the list's side of each row it shows him. *)
LEMMA PageShows ==
  ASSUME IInv, NEW w \in Workers, At(w, {"browse"}), UNCHANGED tickets,
         NEW rows \in SUBSET ListOf(job[w], tickets),
         shown' = Told({job[w].by}, {TicketItem(t) : t \in rows})
  PROVE  ShownOK /\ shown' \subseteq Somebody \X Item
<1>1. PICK j : j = job[w]
  OBVIOUS
<1>2. /\ j \in BrowseJob /\ j.by \in Users /\ j.scope \in Scopes(j.by) /\ rows \subseteq Ids
  BY <1>1, BrowsingFacts DEF JobOK, BrowseJob
<1>3. ASSUME NEW t \in rows
      PROVE  j.by \in Admins \cup {tickets[t].owner} \/ OnTheList(j.by, t)
  <2>0. t \in Selected(tickets, j.by, j.scope, j.filter)
    BY <1>1 DEF ListOf
  <2>1. CASE Role(j.by) = "admin"
    BY <1>2, <2>1, StaffFacts
  <2>2. CASE Role(j.by) = "agent"
    <3>1. j.scope \in {"mine", "queue"} /\ j.by \in Agents
      BY <1>2, <2>2, StaffFacts DEF Scopes
    <3>2. tickets[t].agent = j.by \/ tickets[t].agent = Null
      BY <2>0, <3>1 DEF Selected, FindByAgent, FindUnassigned
    <3> QED
      BY <3>1, <3>2 DEF OnTheList
  <2>3. CASE Role(j.by) = "user"
    <3>1. j.scope = "own"
      BY <1>2, <2>3 DEF Scopes
    <3>2. tickets[t].owner = j.by
      BY <2>0, <3>1 DEF Selected, FindByUser
    <3> QED
      BY <3>2
  <2> QED
    BY <1>2, <2>1, <2>2, <2>3, StaffFacts
<1>4. \A t \in rows : /\ TicketItem(t) \in Item /\ TicketItem(t).kind = "ticket"
                      /\ TicketItem(t).ticket = t /\ TicketItem(t).internal = FALSE
  BY <1>2, TicketItemFacts
<1>5. \A u, i : <<u, i>> \in shown' => u = j.by /\ \E t \in rows : i = TicketItem(t)
  BY <1>1 DEF Told
<1>6. ShownOK
  <2> SUFFICES ASSUME NEW u \in Users \cup Assignees, NEW item \in Item, <<u, item>> \in shown'
               PROVE  /\ \/ u \in Admins \cup {tickets'[item.ticket].owner}
                         \/ item.kind = "ticket" /\ OnTheList(u, item.ticket)
                      /\ item.internal => u \notin Customers
    BY DEF ShownOK
  <2>1. PICK t \in rows : item = TicketItem(t)
    BY <1>5
  <2>2. item.kind = "ticket" /\ item.ticket = t /\ ~item.internal /\ u = j.by
    BY <1>4, <1>5, <2>1
  <2> QED
    BY <1>3, <2>2
<1>7. shown' \subseteq Somebody \X Item
  BY <1>1, <1>2, <1>4 DEF Told, Somebody
<1> QED
  BY <1>6, <1>7

(* What the page does not show is on the pages after it, or was missed for *)
(* a row that left.                                                        *)
LEMMA NextPageIInv ==
  ASSUME IInv, NEW w \in Workers, NextPage(w)
  PROVE  IInv' /\ ShownOK
<1>0. At(w, {"browse"})
  BY DEF NextPage
<1>1. PICK j : j = job[w]
  OBVIOUS
<1>2. PICK set : set = ListOf(j, tickets)
  OBVIOUS
<1>3. /\ j \in BrowseJob /\ JobOK(j, tickets) /\ set \in SUBSET Ids /\ set \in SUBSET Nat
      /\ IsFiniteSet(set) /\ j.op = "browse" /\ j.page \in Nat \ {0} /\ j.left \in Nat
  BY <1>0, <1>1, <1>2, BrowsingFacts DEF BrowseJob
<1>4. PICK rows : rows = Page(set, j.page)
  OBVIOUS
<1>5. /\ rows \in SUBSET set /\ rows \in SUBSET Ids
      /\ \A t \in set \ rows :
            Before(set, t) >= Offset(j.page) => ~(Before(set, t) < Offset(j.page) + PageLimit)
  BY <1>3, <1>4 DEF Page, Before
<1>6. /\ rows = {} => job' = [job EXCEPT ![w] = Null]
      /\ rows # {} => job' = [job EXCEPT ![w] = Turned(j, rows)]
      /\ shown' = Told({j.by}, {TicketItem(t) : t \in rows})
      /\ UNCHANGED <<tickets, items>>
  BY <1>1, <1>2, <1>4 DEF NextPage, Answer, Begin, Turned
<1>7. ShownOK /\ shown' \subseteq Somebody \X Item
  BY <1>0, <1>1, <1>2, <1>5, <1>6, PageShows
<1>8. CASE rows = {}
  <2>1. IInv'
    BY <1>6, <1>7, <1>8, QuietIInv
  <2> QED
    BY <1>7, <2>1
<1>9. CASE rows # {}
  <2>1. PICK k : k = Turned(j, rows)
    OBVIOUS
  <2>2. /\ k \in BrowseJob /\ k \in Job /\ k # Null
        /\ k.op = "browse" /\ k.by = j.by /\ k.scope = j.scope /\ k.filter = j.filter
        /\ k.page = j.page + 1 /\ k.stay = j.stay /\ k.got = j.got \cup rows
        /\ k.left = j.left
    <3>1. j \in BrowseJob /\ rows \in SUBSET Ids
      BY <1>3, <1>5
    <3> QED
      BY <2>1, <3>1, TurnFacts
  <2>3. ListOf(k, tickets) = set
    BY <1>2, <2>2 DEF ListOf
  <2>4. Offset(j.page) \in Nat /\ Offset(k.page) = Offset(j.page) + PageLimit
        /\ PageLimit \in Nat
    BY <1>3, <2>2, DeskAssumption DEF Offset
  <2>5. j.scope \in Scopes(j.by) /\ Unseen(j, tickets)
    BY <1>3 DEF JobOK
  <2>6. Passed(set, k.stay \ k.got, Offset(k.page))
          \subseteq Passed(set, j.stay \ j.got, Offset(j.page))
    <3> SUFFICES ASSUME NEW t \in k.stay \ k.got, Before(set, t) < Offset(k.page)
                 PROVE  t \in j.stay \ j.got /\ Before(set, t) < Offset(j.page)
      BY DEF Passed
    <3>1. t \in j.stay \ j.got /\ t \notin rows
      BY <2>2
    <3>2. t \in set
      BY <1>2, <2>5, <3>1 DEF Unseen
    <3>3. Before(set, t) \in Nat
      BY <1>3, <3>2, BeforeFacts
    <3>4. ~(Before(set, t) >= Offset(j.page))
      BY <1>5, <2>4, <3>1, <3>2
    <3> QED
      BY <2>4, <3>1, <3>3, <3>4
  <2>7. JobOK(k, tickets)
    <3> DEFINE P == Passed(set, j.stay \ j.got, Offset(j.page))
               Q == Passed(set, k.stay \ k.got, Offset(k.page))
    <3>1. IsFiniteSet(P)
      <4>1. P \in SUBSET set
        BY <1>2, <2>5 DEF Unseen, Passed
      <4> QED
        BY <1>3, <4>1, FS_Subset
    <3>2. Q \in SUBSET P
      BY <2>6
    <3>3. Cardinality(P) <= j.left
      BY <1>2, <2>5 DEF Unseen
    <3> HIDE DEF P, Q
    <3>4. IsFiniteSet(Q) /\ Cardinality(Q) <= Cardinality(P)
      BY <3>1, <3>2, FS_Subset
    <3>5. Cardinality(P) \in Nat /\ Cardinality(Q) \in Nat
      BY <3>1, <3>4, FS_CardinalityType
    <3>6. Cardinality(Q) <= k.left
      BY <1>3, <2>2, <3>3, <3>4, <3>5
    <3>7. k.stay \ k.got \subseteq set
      BY <1>2, <2>2, <2>5 DEF Unseen
    <3>8. Unseen(k, tickets)
      BY <2>3, <3>6, <3>7 DEF Unseen, Q
    <3> QED
      BY <2>2, <2>5, <3>8 DEF JobOK
  <2>8. job' = [job EXCEPT ![w] = k]
    BY <1>6, <1>9, <2>1
  <2>9. IInv'
    BY <1>6, <1>7, <2>2, <2>7, <2>8, QuietIInv
  <2> QED
    BY <1>7, <2>9
<1> QED
  BY <1>8, <1>9

----------------------------------------------------------------------------
(* There are no tickets at first. *)
LEMMA InitIInv == Init => IInv
<1> SUFFICES ASSUME Init PROVE IInv
  OBVIOUS
<1>1. TypeOK
  BY DeskAssumption DEF Init, TypeOK
<1>2. NotesInv
  BY DEF Init, NotesInv
<1>3. \A w \in Workers : job[w] = Null
  BY DEF Init
<1> QED
  BY <1>1, <1>2, <1>3 DEF IInv

(* Every step preserves the invariant and shows what it may. *)
LEMMA NextIInv ==
  ASSUME IInv, Next
  PROVE  IInv' /\ ShownOK
<1>1. ASSUME NEW w \in Workers, Request(w) PROVE IInv' /\ ShownOK
  BY <1>1, AuthorizeIInv, WriteIInv, ReadIInv, BrowseIInv, NextPageIInv DEF Request
<1> QED
  BY <1>1, CreateIInv, ChangeIInv DEF Next

(* The inductive invariant holds in every reachable state. *)
LEMMA InvariantHolds == Spec => []IInv
<1>1. IInv /\ UNCHANGED vars => IInv'
  BY DEF IInv, vars, TypeOK, NotesInv
<1>2. IInv /\ [Next]_vars => IInv'
  BY <1>1, NextIInv
<1> QED
  BY <1>2, InitIInv, PTL DEF Spec

(* Type correctness of the tables and of the requests under way. *)
THEOREM TypeCorrect == Spec => []TypeOK
<1>1. IInv => TypeOK
  BY DEF IInv
<1> QED
  BY <1>1, InvariantHolds, PTL

(* A request is authorized against one row and answered from another, yet  *)
(* comments, attachments and histories are only shown to admins, the owner *)
(* and those the ticket was assigned to during that very request, ticket   *)
(* rows also to the assigned agent and, while nobody has the ticket, to    *)
(* the agents, and notes to no customer.                                   *)
THEOREM OnlyPartiesAreShown == Spec => ShownToParties
<1>1. IInv /\ [Next]_vars => [ShownOK]_vars
  BY NextIInv
<1>2. IInv /\ [Next]_vars =>
      [\A u \in Users \cup Assignees, item \in Item : <<u, item>> \in shown' =>
          /\ \/ u \in Admins \cup {tickets'[item.ticket].owner}
             \/ HeldDuring(u, item.ticket)
             \/ item.kind = "ticket" /\ OnTheList(u, item.ticket)
          /\ item.internal => u \notin Customers]_vars
  BY <1>1 DEF ShownOK
<1> QED
  BY <1>2, InvariantHolds, PTL DEF Spec, ShownToParties

(* A list ends with an empty page and in no other way. *)
LEMMA BrowseEnds ==
  ASSUME IInv, Next, NEW w \in Workers, At(w, {"browse"}), job'[w] = Null
  PROVE  Page(ListOf(job[w], tickets), job[w].page) = {}
<1>0. job[w] # Null /\ job[w].op = "browse"
  BY DEF At
<1>1. ASSUME NEW v \in Workers, Request(v) PROVE NextPage(w)
  <2>1. \A x \in Workers \ {v} : job'[x] = job[x]
    BY <1>1 DEF Request, Authorize, CreateComment, CreateAttachment, Insert, ListComments,
       ListAttachments, GetByID, GetHistory, Download, Show, Browse, NextPage,
       Answer, Begin, IInv, TypeOK
  <2>2. v = w
    BY <1>0, <2>1
  <2> QED
    BY <1>0, <1>1, <2>2 DEF Request, Authorize, CreateComment, CreateAttachment, ListComments,
       ListAttachments, GetByID, GetHistory, Download, Browse, At
<1>2. ~Kept
  BY <1>0 DEF Kept
<1>3. NextPage(w)
  BY <1>1, <1>2, CreateIInv, ChangeIInv DEF Next
<1>4. PICK j : j = job[w]
  OBVIOUS
<1>5. PICK rows : rows = Page(ListOf(j, tickets), j.page)
  OBVIOUS
<1>6. PICK k : k = Turned(j, rows)
  OBVIOUS
<1>7. k # Null
  <2>1. j \in BrowseJob /\ rows \in SUBSET Ids
    BY <1>4, <1>5, BrowsingFacts DEF Page
  <2> QED
    BY <1>6, <2>1, TurnFacts
<1>8. rows # {} => job'[w] = k
  BY <1>3, <1>4, <1>5, <1>6 DEF NextPage, Begin, Turned, IInv, TypeOK
<1> QED
  BY <1>4, <1>5, <1>7, <1>8

(* Turning the pages of any list, with any filter, to the end misses no    *)
(* more of the rows that stayed in it than rows left it meanwhile.         *)
THEOREM NoTicketMissed == Spec => PagesComplete
<1>1. ASSUME IInv, Next, NEW w \in Workers, At(w, {"browse"}), job'[w] = Null
      PROVE  Cardinality(job[w].stay \ job[w].got) <= job[w].left
  <2>1. PICK j : j = job[w]
    OBVIOUS
  <2>2. PICK set : set = ListOf(j, tickets)
    OBVIOUS
  <2>3. /\ j \in BrowseJob /\ JobOK(j, tickets) /\ j.op = "browse" /\ j.page \in Nat \ {0}
        /\ IsFiniteSet(set) /\ set \in SUBSET Nat
    BY <1>1, <2>1, <2>2, BrowsingFacts DEF BrowseJob
  <2>4. Page(set, j.page) = {}
    BY <1>1, <2>1, <2>2, BrowseEnds
  <2>5. \A t \in set : Before(set, t) < Offset(j.page)
    BY <2>3, <2>4, EmptyPage
  <2>6. Unseen(j, tickets)
    BY <2>3 DEF JobOK
  <2>7. Passed(set, j.stay \ j.got, Offset(j.page)) = j.stay \ j.got
    BY <2>2, <2>5, <2>6 DEF Unseen, Passed
  <2> QED
    BY <2>1, <2>2, <2>6, <2>7 DEF Unseen
<1>2. IInv /\ [Next]_vars =>
      [\A w \in Workers :
          At(w, {"browse"}) /\ job'[w] = Null =>
              Cardinality(job[w].stay \ job[w].got) <= job[w].left]_vars
  BY <1>1
<1> QED
  BY <1>2, InvariantHolds, PTL DEF Spec, PagesComplete
=============================================================================
