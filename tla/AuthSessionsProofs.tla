------------------------- MODULE AuthSessionsProofs -------------------------
(***************************************************************************)
(* TLAPS proofs about AuthSessions for any users, number of concurrent     *)
(* requests, session cap and mix of requests and faults.                   *)
(***************************************************************************)
EXTENDS AuthSessions, FiniteSetTheorems, WellFoundedInduction, TLAPS

(* A row deleted by an open transaction is still there and has one         *)
(* deleter: its lock keeps everyone else off until COMMIT or ROLLBACK.     *)
DelInv ==
    /\ \A w \in Workers : del[w] \subseteq rows
    /\ \A v, w \in Workers : v # w => del[v] \cap del[w] = {}

(* Rows inserted by an open transaction are nobody else's, and not yet     *)
(* committed.                                                              *)
InsInv ==
    /\ \A w \in Workers : ins[w] \cap issued = {}
    /\ \A v, w \in Workers : v # w => ins[v] \cap ins[w] = {}

(* A token was rotated from one that was committed before. *)
ParentInv == \A t \in issued : tok[t].parent \in issued \cup {0}

(* What a worker is about to insert or has inserted: a login's token has   *)
(* no parent, a rotation's parent is the row it has locked.                *)
JobInv(w) ==
    /\ pc[w] = "idle" => ins[w] = {} /\ del[w] = {}
    /\ pc[w] # "idle" => job[w].password <= pwSeq
    /\ pc[w] \in {"lock", "insert"} => job[w].token = 0
    /\ pc[w] = "replace" => job[w].token \in del[w]
    /\ pc[w] \in {"lock", "insert", "rotate", "save", "revoke"} => del[w] = {}
    /\ \A t \in ins[w] : tok[t].parent \in del[w] \cup {0}
    /\ \A s, t \in ins[w] : s = t

(* The inductive invariant. *)
IInv ==
    /\ TypeOK
    /\ RotatedOnce
    /\ ReplayRejected
    /\ DelInv
    /\ InsInv
    /\ ParentInv
    /\ \A w \in Workers : JobInv(w)

----------------------------------------------------------------------------
(* No session exists at first. *)
LEMMA InitIInv == Init => IInv
  BY NullAssumption
     DEF Init, IInv, TypeOK, PCs, Tokens, RotatedOnce, ReplayRejected, DelInv,
         InsInv, ParentInv, JobInv

(* The elements of a sequence over S are in S. *)
LEMMA SeqElement ==
  ASSUME NEW S, NEW s \in Seq(S), NEW i \in 1..Len(s) PROVE s[i] \in S
  OBVIOUS

(* Tokens and sets of tokens are numbers. *)
LEMMA TokenFacts ==
  ASSUME TypeOK
  PROVE  /\ Len(tok) \in Nat
         /\ rows \subseteq Nat /\ 0 \notin rows /\ issued \subseteq Nat
         /\ \A u \in Users : RowsOf(u) \subseteq Nat
         /\ \A w \in Workers : ins[w] \subseteq Nat /\ del[w] \subseteq Nat
<1>1. Len(tok) \in Nat
  BY DEF TypeOK
<1>2. Tokens \subseteq Nat /\ 0 \notin Tokens
  BY <1>1 DEF Tokens
<1> QED
  BY <1>1, <1>2 DEF TypeOK, RowsOf

(* A request is accepted: the tables and the open transactions stay. *)
LEMMA BeginIInv ==
  ASSUME IInv, NEW w \in Workers, NEW kind \in Kinds, NEW u \in Users,
         NEW t \in Nat, NEW l \in {"lock", "rotate", "delete", "save"},
         NEW S \in SUBSET Nat, Begin(w, kind, u, t, l, S),
         l = "lock" => t = 0,
         UNCHANGED <<pw, pwSeq, tok, rows, issued, expired, adv, ins, del>>
  PROVE  IInv'
<1> DEFINE j == [kind |-> kind, user |-> u, token |-> t, password |-> pw[u],
                 todo |-> S, seen |-> S]
<1> USE DEF IInv
<1>1. /\ j \in Job /\ pw[u] <= pwSeq /\ pc[w] = "idle"
      /\ pc' = [pc EXCEPT ![w] = l]
      /\ \A v \in Workers : job'[v] = IF v = w THEN j ELSE job[v]
      /\ job' \in [Workers -> Job \cup {Null}]
  BY DEF Begin, Goto, Job, TypeOK
<1>2. TypeOK'
  BY <1>1 DEF TypeOK, Tokens, PCs
<1>3. RotatedOnce' /\ ReplayRejected' /\ DelInv' /\ InsInv' /\ ParentInv'
  BY DEF RotatedOnce, ReplayRejected, DelInv, InsInv, ParentInv
<1>4. \A v \in Workers : JobInv(v)'
  BY <1>1 DEF JobInv, TypeOK
<1> QED
  BY <1>2, <1>3, <1>4

(* What the end of a transaction does to the workers. *)
LEMMA EndFacts ==
  ASSUME TypeOK, NEW w \in Workers, End(w)
  PROVE  /\ pc'[w] = "idle" /\ job'[w] = Null /\ ins'[w] = {} /\ del'[w] = {}
         /\ \A v \in Workers \ {w} : /\ pc'[v] = pc[v] /\ job'[v] = job[v]
                                     /\ ins'[v] = ins[v] /\ del'[v] = del[v]
         /\ adv' \in [Users -> Workers \cup {Null}]
         /\ pc' \in [Workers -> PCs]
         /\ job' \in [Workers -> Job \cup {Null}]
         /\ ins' \in [Workers -> SUBSET Tokens]
         /\ del' \in [Workers -> SUBSET Tokens]
<1>1. pc'[w] = "idle" /\ job'[w] = Null /\ ins'[w] = {} /\ del'[w] = {}
  BY DEF End, Goto, TypeOK
<1>2. \A v \in Workers \ {w} : /\ pc'[v] = pc[v] /\ job'[v] = job[v]
                               /\ ins'[v] = ins[v] /\ del'[v] = del[v]
  BY DEF End, Goto, TypeOK
<1>3. adv' \in [Users -> Workers \cup {Null}]
  BY DEF End, TypeOK
<1>4. pc' \in [Workers -> PCs]
  BY DEF End, Goto, TypeOK, PCs
<1>5. job' \in [Workers -> Job \cup {Null}]
  BY DEF End, TypeOK
<1>6. ins' \in [Workers -> SUBSET Tokens] /\ del' \in [Workers -> SUBSET Tokens]
  BY DEF End, TypeOK
<1> QED
  BY <1>1, <1>2, <1>3, <1>4, <1>5, <1>6

(* A transaction ends without having changed refresh_tokens. *)
LEMMA EndIInv ==
  ASSUME IInv, NEW w \in Workers, End(w), pw' \in [Users -> 0..pwSeq],
         UNCHANGED <<pwSeq, tok, rows, issued, expired>>
  PROVE  IInv'
<1> USE DEF IInv
<1>1. TypeOK'
  BY EndFacts DEF TypeOK, Tokens
<1>2. RotatedOnce' /\ ReplayRejected' /\ ParentInv'
  BY DEF RotatedOnce, ReplayRejected, ParentInv
<1>3. DelInv' /\ InsInv'
  BY EndFacts DEF DelInv, InsInv
<1>4. ASSUME NEW v \in Workers PROVE JobInv(v)'
  <2>1. CASE v = w
    BY <2>1, EndFacts DEF JobInv
  <2>2. CASE v # w
    BY <2>2, EndFacts DEF JobInv
  <2> QED
    BY <2>1, <2>2
<1> QED
  BY <1>1, <1>2, <1>3, <1>4

(* A step of a statement that inserts nothing: pc, job and the rows locked *)
(* by this worker change, and it may delete a row it has inserted.         *)
LEMMA StatementIInv ==
  ASSUME IInv, NEW w \in Workers, NEW l \in PCs \ {"idle", "lock"},
         NEW j \in Job, NEW D \in SUBSET rows,
         pc[w] # "idle", del[w] \subseteq D,
         pc' = [pc EXCEPT ![w] = l], job' = [job EXCEPT ![w] = j],
         del' = [del EXCEPT ![w] = D],
         \A v \in Workers : v # w => del[v] \cap D = {},
         j.password = job[w].password,
         l = "insert" => j.token = 0, l = "replace" => j.token \in D,
         l \in {"insert", "rotate", "save", "revoke"} => D = {},
         pw' \in [Users -> 0..pwSeq'], pwSeq' \in Nat, pwSeq <= pwSeq',
         adv' \in [Users -> Workers \cup {Null}],
         ins' \in [Workers -> SUBSET Tokens],
         \A v \in Workers : ins'[v] \subseteq ins[v],
         UNCHANGED <<tok, rows, issued, expired>>
  PROVE  IInv'
<1> USE DEF IInv
<1>1. /\ pc'[w] = l /\ job'[w] = j /\ del'[w] = D
      /\ \A v \in Workers \ {w} : /\ pc'[v] = pc[v] /\ job'[v] = job[v]
                                  /\ del'[v] = del[v]
  BY DEF TypeOK
<1>2. TypeOK'
  <2>1. D \in SUBSET Tokens /\ Tokens' = Tokens
    BY DEF TypeOK, Tokens
  <2>2. del' \in [Workers -> SUBSET Tokens]
    BY <2>1 DEF TypeOK
  <2>3. pc' \in [Workers -> PCs] /\ job' \in [Workers -> Job \cup {Null}]
    BY DEF TypeOK
  <2> QED
    BY <1>1, <2>1, <2>2, <2>3 DEF TypeOK
<1>3. RotatedOnce' /\ ReplayRejected' /\ InsInv' /\ ParentInv'
  BY DEF RotatedOnce, ReplayRejected, InsInv, ParentInv
<1>4. DelInv'
  BY <1>1 DEF DelInv
<1>5. ASSUME NEW v \in Workers PROVE JobInv(v)'
  <2>1. CASE v = w
    <3>1. job[w].password \in Nat /\ job[w].password <= pwSeq
      BY DEF TypeOK, Job, JobInv
    <3>2. \A t \in ins[w] : tok[t].parent \in D \cup {0}
      BY DEF JobInv
    <3> QED
      BY <1>1, <2>1, <3>1, <3>2 DEF JobInv, TypeOK
  <2>2. CASE v # w
    <3>1. pc[v] # "idle" => job[v].password \in Nat
      BY DEF TypeOK, Job
    <3> QED
      BY <1>1, <2>2, <3>1 DEF JobInv, TypeOK
  <2> QED
    BY <2>1, <2>2
<1> QED
  BY <1>2, <1>3, <1>4, <1>5

(* The INSERT of a session: the row gets a new id, nobody sees it yet. *)
LEMMA NewTokenIInv ==
  ASSUME IInv, NEW w \in Workers, NEW l \in {"expire", "commit"},
         NEW j \in Job, NEW p \in Nat, pc[w] # "idle", NewToken(w, p),
         pc' = [pc EXCEPT ![w] = l], job' = [job EXCEPT ![w] = j],
         job[w].token \in del[w] \cup {0}, j.password = job[w].password,
         UNCHANGED <<pw, pwSeq, rows, issued, expired, adv, del>>
  PROVE  IInv'
<1> DEFINE n == Len(tok) + 1
           e == [user |-> job[w].user, password |-> p, parent |-> job[w].token]
<1> USE DEF IInv
<1>1. /\ Len(tok) \in Nat /\ n \notin issued /\ n \notin Tokens
      /\ Tokens' = Tokens \cup {n}
      /\ tok' \in Seq([user : Users, password : Nat, parent : Nat])
      /\ tok'[n] = e /\ \A t \in Tokens : tok'[t] = tok[t]
  <2>1. e \in [user : Users, password : Nat, parent : Nat]
    BY DEF TypeOK, Job
  <2>2. /\ Len(tok) \in Nat /\ Len(tok') = n /\ tok' = Append(tok, e)
        /\ tok' \in Seq([user : Users, password : Nat, parent : Nat])
    BY <2>1 DEF NewToken, TypeOK
  <2>3. tok'[n] = e /\ \A t \in 1..Len(tok) : tok'[t] = tok[t]
    BY <2>1, <2>2 DEF TypeOK
  <2>4. 1..n = 1..Len(tok) \cup {n} /\ n \notin 1..Len(tok)
    BY <2>2
  <2> QED
    BY <2>2, <2>3, <2>4 DEF Tokens, TypeOK
<1>2. /\ pc'[w] = l /\ job'[w] = j /\ ins'[w] = {n}
      /\ \A v \in Workers \ {w} : /\ pc'[v] = pc[v] /\ job'[v] = job[v]
                                  /\ ins'[v] = ins[v]
  BY DEF NewToken, TypeOK
<1>3. TypeOK'
  <2>1. ins' \in [Workers -> SUBSET Tokens'] /\ del' \in [Workers -> SUBSET Tokens']
    BY <1>1, <1>2 DEF NewToken, TypeOK
  <2>2. pc' \in [Workers -> PCs] /\ job' \in [Workers -> Job \cup {Null}]
    BY DEF TypeOK, PCs
  <2> QED
    BY <1>1, <1>2, <2>1, <2>2 DEF TypeOK
<1>4. RotatedOnce' /\ ReplayRejected' /\ ParentInv'
  <2>1. \A t \in issued : tok'[t] = tok[t]
    BY <1>1 DEF TypeOK
  <2> QED
    BY <2>1 DEF RotatedOnce, ReplayRejected, ParentInv
<1>5. DelInv'
  BY DEF DelInv
<1>6. InsInv'
  <2>1. \A v \in Workers : n \notin ins[v]
    BY <1>1 DEF TypeOK
  <2>2. \A v \in Workers \ {w} : ins'[v] \cap ins'[w] = {}
    BY <1>2, <2>1
  <2>3. \A v \in Workers : ins'[v] \cap issued = {}
    BY <1>1, <1>2, SMTT(30) DEF InsInv
  <2> QED
    BY <1>2, <2>2, <2>3 DEF InsInv
<1>7. ASSUME NEW v \in Workers PROVE JobInv(v)'
  <2>1. CASE v = w
    BY <1>1, <1>2, <2>1, SMTT(30) DEF JobInv
  <2>2. CASE v # w
    <3>1. \A t \in ins[v] : tok'[t] = tok[t]
      BY <1>1 DEF TypeOK
    <3> QED
      BY <1>2, <2>2, <3>1 DEF JobInv
  <2> QED
    BY <2>1, <2>2
<1> QED
  BY <1>3, <1>4, <1>5, <1>6, <1>7

(* COMMIT: the locked rows go, the inserted row appears. *)
LEMMA CommitIInv == ASSUME IInv, NEW w \in Workers, Commit(w) PROVE IInv'
<1> USE DEF IInv
<1>1. /\ End(w) /\ UNCHANGED <<pw, pwSeq, tok, expired>>
      /\ rows' = (rows \ del[w]) \cup ins[w]
      /\ issued' = issued \cup ins[w]
  BY DEF Commit
<1>2. /\ rows \subseteq issued /\ del[w] \subseteq rows
      /\ ins[w] \cap issued = {} /\ 0 \notin rows /\ 0 \notin ins[w]
      /\ \A t \in ins[w] : tok[t].parent \in del[w] \cup {0}
      /\ \A s, t \in ins[w] : s = t
  <2>1. 0 \notin rows /\ 0 \notin ins[w]
    BY TokenFacts DEF TypeOK, Tokens
  <2> QED
    BY <2>1 DEF TypeOK, DelInv, InsInv, JobInv
<1>3. TypeOK'
  BY <1>1, EndFacts DEF TypeOK, Tokens
<1>4. RotatedOnce'
  <2> SUFFICES ASSUME NEW s \in issued', NEW t \in issued',
                      tok[s].parent # 0, tok[s].parent = tok[t].parent
               PROVE  s = t
    BY <1>1 DEF RotatedOnce
  <2>1. CASE s \in issued /\ t \in issued
    BY <2>1 DEF RotatedOnce
  <2>2. CASE s \in ins[w] /\ t \in issued
    BY <2>2, <1>2 DEF ReplayRejected
  <2>3. CASE s \in issued /\ t \in ins[w]
    BY <2>3, <1>2 DEF ReplayRejected
  <2>4. CASE s \in ins[w] /\ t \in ins[w]
    BY <2>4, <1>2
  <2> QED
    BY <1>1, <2>1, <2>2, <2>3, <2>4
<1>5. ReplayRejected' /\ ParentInv'
  BY <1>1, <1>2 DEF ReplayRejected, ParentInv
<1>6. DelInv' /\ InsInv'
  BY <1>1, EndFacts DEF DelInv, InsInv
<1>7. ASSUME NEW v \in Workers PROVE JobInv(v)'
  <2>1. CASE v = w
    BY <2>1, <1>1, EndFacts DEF JobInv
  <2>2. CASE v # w
    BY <2>2, <1>1, EndFacts DEF JobInv
  <2> QED
    BY <2>1, <2>2
<1> QED
  BY <1>3, <1>4, <1>5, <1>6, <1>7

(* Every step of an accepted request preserves the invariant. *)
LEMMA ProgressIInv == ASSUME IInv, NEW w \in Workers, Progress(w) PROVE IInv'
<1> USE DEF Goto
<1>1. /\ TypeOK /\ (pc[w] # "idle" => job[w] \in Job) /\ JobInv(w)
      /\ del[w] \in SUBSET rows
      /\ \A v \in Workers : v # w => del[v] \cap del[w] = {}
  BY DEF IInv, TypeOK, DelInv
<1>2. pw \in [Users -> 0..pwSeq] /\ pwSeq \in Nat /\ pwSeq <= pwSeq
      /\ adv \in [Users -> Workers \cup {Null}]
      /\ ins \in [Workers -> SUBSET Tokens]
      /\ \A v \in Workers : ins[v] \subseteq ins[v]
  BY <1>1 DEF TypeOK
<1>3. CASE AdvisoryLock(w)
  <2>1. /\ job[w] \in Job /\ job' = [job EXCEPT ![w] = job[w]]
        /\ del' = [del EXCEPT ![w] = del[w]]
    BY <1>1, <1>3 DEF AdvisoryLock, TypeOK
  <2>2. adv' \in [Users -> Workers \cup {Null}]
    BY <1>1, <1>3 DEF AdvisoryLock, TypeOK
  <2>3. job[w].token = 0 /\ del[w] = {}
    BY <1>1, <1>3 DEF AdvisoryLock, JobInv
  <2>4. /\ pc[w] # "idle" /\ pc' = [pc EXCEPT ![w] = "insert"]
        /\ "insert" \in PCs \ {"idle", "lock"} /\ "insert" # "replace"
    BY <1>3 DEF AdvisoryLock, PCs
  <2>5. UNCHANGED <<pw, pwSeq, tok, rows, issued, expired, ins>>
    BY <1>3 DEF AdvisoryLock
  <2> QED
    BY <1>1, <1>2, <2>1, <2>2, <2>3, <2>4, <2>5, StatementIInv
<1>4. CASE Insert(w)
  <2> DEFINE j == [job[w] EXCEPT !.todo = RowsOf(job[w].user) \cap expired]
  <2>1. j \in Job /\ j.password = job[w].password /\ job[w].password \in Nat
    BY <1>1, <1>4, TokenFacts DEF Insert, Job
  <2>2. job' = [job EXCEPT ![w] = j]
    BY <1>4 DEF Insert
  <2>3. job[w].token \in del[w] \cup {0}
    BY <1>1, <1>4 DEF Insert, JobInv
  <2> QED
    BY <1>4, <2>1, <2>2, <2>3, NewTokenIInv DEF Insert
<1>5. CASE Evict(w)
  <2> DEFINE j == [job[w] EXCEPT !.todo = Surplus(w), !.seen = Live(w)]
  <2>1. Surplus(w) \in SUBSET Nat /\ Live(w) \in SUBSET Nat
    BY <1>1, <1>5, TokenFacts DEF Evict, Surplus, Live, Job
  <2>2. j \in Job /\ j.password = job[w].password
    BY <1>1, <1>5, <2>1 DEF Evict, Job
  <2>3. job' = [job EXCEPT ![w] = j] /\ del' = [del EXCEPT ![w] = del[w]]
    BY <1>1, <1>5 DEF Evict, TypeOK
  <2>4. /\ pc[w] # "idle" /\ pc' = [pc EXCEPT ![w] = "evict"]
        /\ "evict" \in PCs \ {"idle", "lock"}
        /\ "evict" \notin {"insert", "replace", "rotate", "save", "revoke"}
    BY <1>5 DEF Evict, PCs
  <2>5. UNCHANGED <<pw, pwSeq, tok, rows, issued, expired, adv, ins>>
    BY <1>5 DEF Evict
  <2> HIDE DEF j
  <2> QED
    BY <1>1, <1>2, <2>2, <2>3, <2>4, <2>5, StatementIInv
<1>6. CASE DeleteRow(w)
  <2> DEFINE t == Lowest(job[w].todo)
             j == [job[w] EXCEPT !.todo = @ \ {t}]
             D == IF t \in rows THEN del[w] \cup {t} ELSE del[w]
             l == pc[w]
  <2>1. /\ l \in {"expire", "evict", "delete"} /\ pc' = [pc EXCEPT ![w] = l]
    BY <1>1, <1>6 DEF DeleteRow, TypeOK
  <2>2. j \in Job /\ j.password = job[w].password
    BY <1>1, <2>1 DEF Job
  <2>3. job' = [job EXCEPT ![w] = j] /\ del' = [del EXCEPT ![w] = D]
    BY <1>1, <1>6 DEF DeleteRow, TypeOK
  <2>4. D \in SUBSET rows /\ del[w] \subseteq D
    BY <1>1
  <2>5. \A v \in Workers : v # w => del[v] \cap D = {}
    BY <1>1, <1>6 DEF DeleteRow, LockedByOther
  <2>6. /\ l # "idle" /\ l \in PCs \ {"idle", "lock"}
        /\ l \notin {"insert", "replace", "rotate", "save", "revoke"}
    BY <2>1 DEF PCs
  <2>7. UNCHANGED <<pw, pwSeq, tok, rows, issued, expired, adv>>
    BY <1>6 DEF DeleteRow
  <2>8. /\ ins' \in [Workers -> SUBSET Tokens]
        /\ \A v \in Workers : ins'[v] \subseteq ins[v]
    BY <1>1, <1>6 DEF DeleteRow, TypeOK
  <2> HIDE DEF j, D
  <2> QED
    BY <1>2, <2>1, <2>2, <2>3, <2>4, <2>5, <2>6, <2>7, <2>8, StatementIInv
<1>7. CASE Commit(w)
  BY <1>7, CommitIInv
<1>8. CASE Rotate(w)
  <2> DEFINE t == job[w].token
             D == {t}
  <2>1. job[w] \in Job /\ job' = [job EXCEPT ![w] = job[w]]
    BY <1>1, <1>8 DEF Rotate, TypeOK
  <2>2. D \in SUBSET rows /\ \A v \in Workers : v # w => del[v] \cap D = {}
    BY <1>8 DEF Rotate, LockedByOther
  <2>3. del[w] \subseteq D /\ job[w].token \in D
    BY <1>1, <1>8 DEF Rotate, JobInv
  <2>4. /\ pc[w] # "idle" /\ pc' = [pc EXCEPT ![w] = "replace"]
        /\ "replace" \in PCs \ {"idle", "lock"}
        /\ "replace" \notin {"insert", "rotate", "save", "revoke"}
    BY <1>8 DEF Rotate, PCs
  <2>5. /\ del' = [del EXCEPT ![w] = D]
        /\ UNCHANGED <<pw, pwSeq, tok, rows, issued, expired, adv, ins>>
    BY <1>8 DEF Rotate
  <2> HIDE DEF D
  <2> QED
    BY <1>2, <2>1, <2>2, <2>3, <2>4, <2>5, StatementIInv
<1>9. CASE RotateFails(w)
  BY <1>1, <1>9, EndIInv DEF RotateFails, TypeOK
<1>10. CASE Replace(w)
  <2>1. job[w] \in Job /\ job' = [job EXCEPT ![w] = job[w]]
    BY <1>1, <1>10 DEF Replace, TypeOK
  <2>2. job[w].token \in del[w]
    BY <1>1, <1>10 DEF Replace, JobInv
  <2>3. job[w].token \in 1..Len(tok)
    BY <1>1, <2>2 DEF TypeOK, Tokens
  <2>4. tok[job[w].token] \in [user : Users, password : Nat, parent : Nat]
    BY <1>1, <2>3, SeqElement DEF TypeOK
  <2>5. tok[job[w].token].password \in Nat
    BY <2>4
  <2> QED
    BY <1>10, <2>1, <2>2, <2>5, NewTokenIInv DEF Replace
<1>11. CASE SavePassword(w)
  <2>1. /\ job[w] \in Job /\ job' = [job EXCEPT ![w] = job[w]]
        /\ del' = [del EXCEPT ![w] = del[w]]
    BY <1>1, <1>11 DEF SavePassword, TypeOK
  <2>2. pwSeq' \in Nat /\ pwSeq <= pwSeq'
    BY <1>2, <1>11 DEF SavePassword
  <2>3. 0..pwSeq \subseteq 0..pwSeq' /\ pwSeq' \in 0..pwSeq'
    BY <1>2, <1>11 DEF SavePassword
  <2>4. pw' = [pw EXCEPT ![job[w].user] = pwSeq'] /\ pw \in [Users -> 0..pwSeq']
    BY <1>2, <1>11, <2>3 DEF SavePassword
  <2>5. pw' \in [Users -> 0..pwSeq']
    BY <2>3, <2>4
  <2>6. del[w] = {}
    BY <1>1, <1>11 DEF SavePassword, JobInv
  <2>7. /\ pc[w] # "idle" /\ pc' = [pc EXCEPT ![w] = "revoke"]
        /\ "revoke" \in PCs \ {"idle", "lock"}
        /\ "revoke" \notin {"insert", "replace"}
    BY <1>11 DEF SavePassword, PCs
  <2>8. UNCHANGED <<tok, rows, issued, expired, adv, ins>>
    BY <1>11 DEF SavePassword
  <2> QED
    BY <1>1, <1>2, <2>1, <2>2, <2>5, <2>6, <2>7, <2>8, StatementIInv
<1>12. CASE SaveProfile(w)
  <2>1. pw' \in [Users -> 0..pwSeq]
    BY <1>1, <1>12 DEF SaveProfile, TypeOK, Job, JobInv
  <2> QED
    BY <1>12, <2>1, EndIInv DEF SaveProfile
<1>13. CASE Revoke(w)
  <2> DEFINE j == [job[w] EXCEPT !.todo = RowsOf(job[w].user),
                           !.seen = RowsOf(job[w].user)]
  <2>1. RowsOf(job[w].user) \in SUBSET Nat
    BY <1>1, <1>13, TokenFacts DEF Revoke, Job
  <2>2. j \in Job /\ j.password = job[w].password
    BY <1>1, <1>13, <2>1 DEF Revoke, Job
  <2>3. job' = [job EXCEPT ![w] = j] /\ del' = [del EXCEPT ![w] = del[w]]
    BY <1>1, <1>13 DEF Revoke, TypeOK
  <2>4. /\ pc[w] # "idle" /\ pc' = [pc EXCEPT ![w] = "delete"]
        /\ "delete" \in PCs \ {"idle", "lock"}
        /\ "delete" \notin {"insert", "replace", "rotate", "save", "revoke"}
    BY <1>13 DEF Revoke, PCs
  <2>5. UNCHANGED <<pw, pwSeq, tok, rows, issued, expired, adv, ins>>
    BY <1>13 DEF Revoke
  <2> HIDE DEF j
  <2> QED
    BY <1>1, <1>2, <2>2, <2>3, <2>4, <2>5, StatementIInv
<1> QED
  BY <1>3, <1>4, <1>5, <1>6, <1>7, <1>8, <1>9, <1>10, <1>11, <1>12, <1>13
     DEF Progress

(* Every step of the service preserves the invariant. *)
LEMMA NextIInv == IInv /\ [Next]_vars => IInv'
<1> SUFFICES ASSUME IInv, [Next]_vars PROVE IInv'
  OBVIOUS
<1>1. TypeOK
  BY DEF IInv
<1>2. ASSUME NEW w \in Workers, NEW u \in Users, Login(w, u) PROVE IInv'
  BY <1>2, BeginIInv DEF Login, Kinds
<1>3. ASSUME NEW w \in Workers, NEW u \in Users, LogoutAll(w, u) PROVE IInv'
  BY <1>1, <1>3, BeginIInv, TokenFacts DEF LogoutAll, Kinds
<1>4. ASSUME NEW w \in Workers, NEW u \in Users, ChangePassword(w, u)
      PROVE  IInv'
  BY <1>4, BeginIInv DEF ChangePassword, Kinds
<1>5. ASSUME NEW w \in Workers, NEW u \in Users, UpdateProfile(w, u)
      PROVE  IInv'
  BY <1>5, BeginIInv DEF UpdateProfile, Kinds
<1>6. ASSUME NEW w \in Workers, NEW u \in Users, NEW t \in issued,
             Logout(w, u, t)
      PROVE  IInv'
  <2>1. OwnRow(u, t) \in SUBSET Nat
    BY <1>1, TokenFacts DEF OwnRow
  <2> QED
    BY <1>6, <2>1, BeginIInv DEF Logout, Kinds
<1>7. ASSUME NEW w \in Workers, NEW t \in issued, Refresh(w, t) PROVE IInv'
  <2>1. t \in Nat /\ t \in 1..Len(tok)
    BY <1>1, TokenFacts DEF TypeOK, Tokens
  <2>2. tok[t] \in [user : Users, password : Nat, parent : Nat]
    BY <1>1, <2>1, SeqElement DEF TypeOK
  <2>3. tok[t].user \in Users
    BY <2>2
  <2> QED
    BY <1>7, <2>1, <2>3, BeginIInv DEF Refresh, Kinds
<1>8. ASSUME NEW w \in Workers, Abandon(w) PROVE IInv'
  BY <1>1, <1>8, EndIInv DEF Abandon, TypeOK
<1>9. ASSUME NEW t \in rows, Expire(t) PROVE IInv'
  <2>1. TypeOK'
    BY <1>1, <1>9 DEF Expire, TypeOK, Tokens
  <2>2. RotatedOnce' /\ ReplayRejected' /\ ParentInv'
    BY <1>9 DEF Expire, IInv, RotatedOnce, ReplayRejected, ParentInv
  <2>3. DelInv' /\ InsInv' /\ \A w \in Workers : JobInv(w)'
    BY <1>9 DEF Expire, IInv, DelInv, InsInv, JobInv
  <2> QED
    BY <2>1, <2>2, <2>3 DEF IInv
<1>10. CASE UNCHANGED vars
  <2>1. TypeOK'
    BY <1>1, <1>10 DEF vars, TypeOK, Tokens
  <2>2. RotatedOnce' /\ ReplayRejected' /\ ParentInv'
    BY <1>10 DEF vars, IInv, RotatedOnce, ReplayRejected, ParentInv
  <2>3. DelInv' /\ InsInv' /\ \A w \in Workers : JobInv(w)'
    BY <1>10 DEF vars, IInv, DelInv, InsInv, JobInv
  <2> QED
    BY <2>1, <2>2, <2>3 DEF IInv
<1>11. ASSUME NEW w \in Workers, NEW t, Reject(w, t) PROVE IInv'
  BY <1>10, <1>11 DEF Reject
<1>12. ASSUME NEW w \in Workers, Progress(w) PROVE IInv'
  BY <1>12, ProgressIInv
<1> QED
  BY <1>2, <1>3, <1>4, <1>5, <1>6, <1>7, <1>8, <1>9, <1>10, <1>11, <1>12
     DEF Next

(* The invariant holds in every reachable state. *)
THEOREM Invariance == Spec => []IInv
  BY InitIInv, NextIInv, PTL DEF Spec

(* The state keeps its types: in particular every row of refresh_tokens is *)
(* a committed token and a running request always has its job.             *)
THEOREM TypeCorrect == Spec => []TypeOK
<1>1. IInv => TypeOK
  BY DEF IInv
<1> QED
  BY <1>1, Invariance, PTL

(* Rotate's promise: however many requests present a refresh token, at     *)
(* most one ever gets a successor for it.                                  *)
THEOREM RotatesAtMostOnce == Spec => []RotatedOnce
<1>1. IInv => RotatedOnce
  BY DEF IInv
<1> QED
  BY <1>1, Invariance, PTL

(* Refresh's promise: a token that was exchanged is never accepted again.  *)
THEOREM UsedTokensStayDead == Spec => []ReplayRejected
<1>1. IInv => ReplayRejected
  BY DEF IInv
<1> QED
  BY <1>1, Invariance, PTL
----------------------------------------------------------------------------
(* Whose rows a running request touches: everything it has locked, still   *)
(* means to delete or has inserted is of its own user, and a refresh locks *)
(* nothing but the token it presented.                                     *)
OwnInv(w) ==
    pc[w] # "idle" =>
        /\ job[w].kind \in Happens
        /\ job[w].kind = "refresh" <=> pc[w] \in {"rotate", "replace", "commit"}
        /\ \A t \in job[w].todo \cup del[w] \cup ins[w] :
              t \in Tokens /\ tok[t].user = job[w].user
        /\ pc[w] = "rotate" => /\ job[w].token \in Tokens
                               /\ tok[job[w].token].user = job[w].user
        /\ job[w].kind = "refresh" => del[w] \subseteq {job[w].token}

(* What a revocation has seen and is still there is locked or to come: a   *)
(* deleted row never comes back, since a COMMIT adds only new ones.        *)
SeenInv(w) ==
    /\ pc[w] \notin {"expire", "evict", "commit"} => ins[w] = {}
    /\ pc[w] = "delete" =>
          /\ job[w].seen \subseteq issued
          /\ job[w].seen \cap rows \subseteq job[w].todo \cup del[w]

RevokeInv == \A w \in Workers : OwnInv(w) /\ SeenInv(w)

(* A login holds its user's advisory lock from the INSERT on. *)
LockInv == \A w \in Workers :
    pc[w] \in {"insert", "expire", "evict"} => adv[job[w].user] = w

(* The rows that count for a login and would be left if its eviction were  *)
(* over: those it has seen, and those of other logins.                     *)
Counted(w) ==
    {t \in Live(w) \ job[w].todo : t \in job[w].seen \/ tok[t].parent = 0}

(* They are no more than the cap: the lock keeps other logins from adding  *)
(* one, and what a refresh adds was not seen and has a parent.             *)
LoginInv(w) ==
    pc[w] = "evict" =>
        /\ Cardinality(Counted(w)) <= MaxSessions
        /\ job[w].seen \subseteq Tokens
        /\ \A v \in Workers \ {w} : job[w].seen \cap ins[v] = {}

CapInv == \A w \in Workers :
    /\ LoginInv(w)
    /\ pc[w] = "commit" => \A t \in ins[w] : tok[t].parent # 0

----------------------------------------------------------------------------
(* A step of somebody else, as a request sees it. *)
Same(v) == /\ pc'[v] = pc[v] /\ job'[v] = job[v]
           /\ ins'[v] = ins[v] /\ del'[v] = del[v]

(* What no step undoes: a token keeps its content, and a committed row     *)
(* that is gone stays gone.                                                *)
TablesGrow == /\ \A t \in Tokens : t \in Tokens' /\ tok'[t] = tok[t]
              /\ issued \subseteq issued'
              /\ rows' \cap issued \subseteq rows

(* Every non-empty set of naturals has a smallest element. *)
LEMMA Smallest ==
  ASSUME NEW S \in SUBSET Nat, S # {}
  PROVE  \E x \in S : \A y \in S : x <= y
<1> DEFINE R == {p \in Nat \X Nat : p[1] < p[2]}
<1>1. IsWellFoundedOn(R, Nat)
  BY NatLessThanWellFounded DEF OpToRel
<1> HIDE DEF R
<1>2. PICK x \in S : \A y \in S : ~ (<<y, x>> \in R)
  BY <1>1, WFMin
<1>3. \A y \in S : <<y, x>> \in R <=> y < x
  BY DEF R
<1>4. \A y \in S : x \in Nat /\ y \in Nat /\ ~(y < x)
  BY <1>2, <1>3
<1>5. \A y \in S : x <= y
  BY <1>4
<1> QED
  BY <1>5

(* Lowest picks an element. *)
LEMMA LowestIn ==
  ASSUME NEW S \in SUBSET Nat, S # {} PROVE Lowest(S) \in S
  BY Smallest DEF Lowest

(* A request is not disturbed by the steps of the others. *)
LEMMA SameKeeps ==
  ASSUME IInv, RevokeInv, NEW v \in Workers, Same(v), TablesGrow
  PROVE  OwnInv(v)' /\ SeenInv(v)'
<1>1. OwnInv(v) /\ SeenInv(v)
  BY DEF RevokeInv
<1>2. OwnInv(v)'
  BY <1>1 DEF OwnInv, Same, TablesGrow
<1>3. SeenInv(v)'
  BY <1>1 DEF SeenInv, Same, TablesGrow
<1> QED
  BY <1>2, <1>3

(* The tables of a step that does not insert or commit. *)
LEMMA TablesSame ==
  ASSUME UNCHANGED <<tok, rows, issued>> PROVE TablesGrow
  BY DEF TablesGrow, Tokens

(* A request is accepted. *)
LEMMA BeginRevoke ==
  ASSUME IInv, RevokeInv, NEW w \in Workers, NEW kind \in Kinds,
         NEW u \in Users, NEW t \in Nat, NEW S \in SUBSET RowsOf(u),
         NEW l \in {"lock", "rotate", "delete", "save"},
         Begin(w, kind, u, t, l, S), kind = "refresh" <=> l = "rotate",
         l = "rotate" => t \in Tokens /\ tok[t].user = u,
         UNCHANGED <<pw, pwSeq, tok, rows, issued, expired, adv, ins, del>>
  PROVE  RevokeInv'
<1> DEFINE j == [kind |-> kind, user |-> u, token |-> t, password |-> pw[u],
                 todo |-> S, seen |-> S]
<1>1. /\ kind \in Happens /\ pc[w] = "idle" /\ pc'[w] = l /\ job'[w] = j
      /\ \A v \in Workers \ {w} : Same(v)
  BY DEF Begin, Goto, IInv, TypeOK, Same
<1>2. ins[w] = {} /\ del[w] = {}
  BY <1>1 DEF IInv, JobInv
<1>3. S \subseteq rows /\ S \subseteq issued /\ S \subseteq Tokens
      /\ \A s \in S : tok[s].user = u
  BY DEF RowsOf, IInv, TypeOK
<1>4. /\ j.kind = kind /\ j.user = u /\ j.token = t /\ j.todo = S /\ j.seen = S
  OBVIOUS
<1> HIDE DEF j
<1>5. OwnInv(w)'
  BY <1>1, <1>2, <1>3, <1>4 DEF OwnInv, Tokens
<1>6. SeenInv(w)'
  BY <1>1, <1>2, <1>3, <1>4 DEF SeenInv
<1>7. \A v \in Workers \ {w} : OwnInv(v)' /\ SeenInv(v)'
  BY <1>1, TablesSame, SameKeeps
<1> QED
  BY <1>5, <1>6, <1>7 DEF RevokeInv

(* A transaction ends. *)
LEMMA EndRevoke ==
  ASSUME IInv, RevokeInv, NEW w \in Workers, End(w), TablesGrow
  PROVE  RevokeInv'
<1>1. /\ pc'[w] = "idle" /\ ins'[w] = {}
      /\ \A v \in Workers \ {w} : Same(v)
  BY EndFacts DEF IInv, Same
<1>2. OwnInv(w)' /\ SeenInv(w)'
  BY <1>1 DEF OwnInv, SeenInv
<1> QED
  BY <1>1, <1>2, SameKeeps DEF RevokeInv

(* COMMIT brings back no row. *)
LEMMA CommitTables ==
  ASSUME IInv, NEW w \in Workers, Commit(w) PROVE TablesGrow
<1>1. ins[w] \cap issued = {} /\ rows \subseteq issued
  BY DEF IInv, InsInv, TypeOK
<1> QED
  BY <1>1 DEF Commit, TablesGrow, Tokens

(* The INSERT leaves the tokens there are. *)
LEMMA NewTokenTables ==
  ASSUME IInv, NEW w \in Workers, NEW p \in Nat, NewToken(w, p),
         job[w] \in Job, UNCHANGED <<rows, issued>>
  PROVE  /\ TablesGrow
         /\ LET n == Len(tok) + 1
            IN  /\ n \in Tokens' /\ n \notin Tokens
                /\ tok'[n].user = job[w].user /\ tok'[n].parent = job[w].token
                /\ ins'[w] = {n} /\ \A t \in rows : t < n
<1> DEFINE n == Len(tok) + 1
           e == [user |-> job[w].user, password |-> p, parent |-> job[w].token]
<1>1. e \in [user : Users, password : Nat, parent : Nat]
  BY DEF Job
<1>2. /\ Len(tok) \in Nat /\ Len(tok') = n /\ tok' = Append(tok, e)
  BY <1>1 DEF NewToken, IInv, TypeOK
<1>3. tok'[n] = e /\ \A t \in 1..Len(tok) : tok'[t] = tok[t]
  BY <1>1, <1>2 DEF IInv, TypeOK
<1>4. 1..Len(tok) \subseteq 1..n /\ n \in 1..n /\ n \notin 1..Len(tok) /\ \A t \in 1..Len(tok) : t < n
  BY <1>2
<1>5. ins'[w] = {n}
  BY DEF NewToken, IInv, TypeOK
<1>6. TablesGrow
  BY <1>2, <1>3, <1>4 DEF TablesGrow, Tokens
<1>7. \A t \in rows : t < n
  BY <1>4 DEF IInv, TypeOK, Tokens
<1> QED
  BY <1>2, <1>3, <1>4, <1>5, <1>6, <1>7 DEF Tokens

(* Every step of an accepted request touches its own user's rows only. *)
LEMMA ProgressRevoke ==
  ASSUME IInv, RevokeInv, NEW w \in Workers, Progress(w) PROVE RevokeInv'
<1>1. /\ TypeOK /\ JobInv(w) /\ OwnInv(w) /\ SeenInv(w)
      /\ pc[w] # "idle" => job[w] \in Job
  BY DEF IInv, TypeOK, RevokeInv
<1>2. rows \subseteq issued /\ rows \subseteq Tokens
  BY <1>1 DEF TypeOK
<1>3. ASSUME \A v \in Workers \ {w} : Same(v), TablesGrow,
             OwnInv(w)', SeenInv(w)'
      PROVE  RevokeInv'
  BY <1>3, SameKeeps DEF RevokeInv
<1>4. CASE AdvisoryLock(w)
  <2>1. /\ pc[w] = "lock" /\ pc'[w] = "insert"
        /\ \A v \in Workers \ {w} : Same(v)
        /\ UNCHANGED <<tok, rows, issued, job, ins, del>>
    BY <1>1, <1>4 DEF AdvisoryLock, Goto, TypeOK, Same
  <2>2. OwnInv(w)' /\ SeenInv(w)'
    BY <1>1, <2>1 DEF OwnInv, SeenInv, Tokens
  <2> QED
    BY <1>3, <2>1, <2>2, TablesSame
<1>5. CASE Insert(w)
  <2> DEFINE n == Len(tok) + 1
             j == [job[w] EXCEPT !.todo = RowsOf(job[w].user) \cap expired]
  <2>1. /\ pc[w] = "insert" /\ pc'[w] = "expire" /\ job'[w] = j
        /\ \A v \in Workers \ {w} : Same(v)
        /\ UNCHANGED <<rows, issued, del>>
    BY <1>1, <1>5 DEF Insert, NewToken, Goto, TypeOK, Same
  <2>2. job[w] \in Job /\ job[w].password \in Nat
    BY <1>1, <2>1 DEF Job
  <2>3. /\ j.kind = job[w].kind /\ j.user = job[w].user
        /\ j.todo = RowsOf(job[w].user) \cap expired
    BY <2>2 DEF Job
  <2> HIDE DEF j
  <2>4. /\ TablesGrow /\ n \in Tokens' /\ tok'[n].user = job[w].user
        /\ ins'[w] = {n}
    BY <1>5, <2>1, <2>2, NewTokenTables DEF Insert
  <2>5. \A t \in j.todo : t \in Tokens' /\ tok'[t].user = j.user
    BY <1>2, <2>3, <2>4 DEF TablesGrow, RowsOf
  <2>6. del[w] = {}
    BY <1>1, <2>1 DEF JobInv
  <2>7. OwnInv(w)'
    BY <1>1, <2>1, <2>3, <2>4, <2>5, <2>6 DEF OwnInv
  <2>8. SeenInv(w)'
    BY <2>1 DEF SeenInv
  <2> QED
    BY <1>3, <2>1, <2>4, <2>7, <2>8
<1>6. CASE Evict(w)
  <2> DEFINE j == [job[w] EXCEPT !.todo = Surplus(w), !.seen = Live(w)]
  <2>1. /\ pc[w] = "expire" /\ pc'[w] = "evict" /\ job'[w] = j
        /\ \A v \in Workers \ {w} : Same(v)
        /\ UNCHANGED <<tok, rows, issued, ins, del>>
    BY <1>1, <1>6 DEF Evict, Goto, TypeOK, Same
  <2>2. /\ j.kind = job[w].kind /\ j.user = job[w].user
        /\ j.todo = Surplus(w)
    BY <1>1, <2>1 DEF Job
  <2> HIDE DEF j
  <2>3. \A t \in Surplus(w) : t \in Tokens /\ tok[t].user = job[w].user
    BY <1>1, <1>2, <2>1 DEF Surplus, Live, RowsOf, OwnInv
  <2>4. OwnInv(w)'
    BY <1>1, <2>1, <2>2, <2>3 DEF OwnInv, Tokens
  <2>5. SeenInv(w)'
    BY <2>1 DEF SeenInv
  <2> QED
    BY <1>3, <2>1, <2>4, <2>5, TablesSame
<1>7. CASE DeleteRow(w)
  <2> DEFINE t == Lowest(job[w].todo)
             j == [job[w] EXCEPT !.todo = @ \ {t}]
             D == IF t \in rows THEN del[w] \cup {t} ELSE del[w]
  <2>1. /\ pc[w] \in {"expire", "evict", "delete"} /\ pc'[w] = pc[w]
        /\ job'[w] = j /\ del'[w] = D /\ ins'[w] = ins[w] \ {t}
        /\ \A v \in Workers \ {w} : Same(v)
        /\ UNCHANGED <<tok, rows, issued>>
    BY <1>1, <1>7 DEF DeleteRow, TypeOK, Same
  <2>2. /\ j.kind = job[w].kind /\ j.user = job[w].user
        /\ j.todo = job[w].todo \ {t} /\ j.seen = job[w].seen
        /\ job[w].todo \in SUBSET Nat
    BY <1>1, <2>1 DEF Job
  <2>3. t \in job[w].todo
    BY <1>7, <2>2, LowestIn DEF DeleteRow
  <2>4. D \subseteq del[w] \cup job[w].todo
    BY <2>3
  <2>5. job[w].seen \cap rows \subseteq job[w].todo \cup del[w] =>
           job[w].seen \cap rows \subseteq (job[w].todo \ {t}) \cup D
    OBVIOUS
  <2> HIDE DEF j, D, t
  <2>6. OwnInv(w)'
    BY <1>1, <2>1, <2>2, <2>4 DEF OwnInv, Tokens
  <2>7. SeenInv(w)'
    BY <1>1, <2>1, <2>2, <2>5 DEF SeenInv
  <2> QED
    BY <1>3, <2>1, <2>6, <2>7, TablesSame
<1>8. CASE Commit(w)
  BY <1>8, CommitTables, EndRevoke DEF Commit
<1>9. CASE Rotate(w)
  <2>1. /\ pc[w] = "rotate" /\ pc'[w] = "replace"
        /\ del'[w] = {job[w].token} /\ job[w].token \in rows
        /\ \A v \in Workers \ {w} : Same(v)
        /\ UNCHANGED <<tok, rows, issued, job, ins>>
    BY <1>1, <1>9 DEF Rotate, Goto, TypeOK, Same
  <2>2. OwnInv(w)' /\ SeenInv(w)'
    BY <1>1, <2>1 DEF OwnInv, SeenInv, Tokens
  <2> QED
    BY <1>3, <2>1, <2>2, TablesSame
<1>10. CASE RotateFails(w)
  BY <1>10, TablesSame, EndRevoke DEF RotateFails
<1>11. CASE Replace(w)
  <2> DEFINE n == Len(tok) + 1
             k == job[w].token
  <2>1. /\ pc[w] = "replace" /\ pc'[w] = "commit"
        /\ \A v \in Workers \ {w} : Same(v)
        /\ UNCHANGED <<rows, issued, job, del>>
    BY <1>1, <1>11 DEF Replace, NewToken, Goto, TypeOK, Same
  <2>2. k \in 1..Len(tok)
    BY <1>1, <2>1 DEF JobInv, TypeOK, Tokens
  <2>3. tok[k] \in [user : Users, password : Nat, parent : Nat]
    BY <1>1, <2>2, SeqElement DEF TypeOK
  <2>4. tok[k].password \in Nat
    BY <2>3
  <2>5. /\ TablesGrow /\ n \in Tokens' /\ tok'[n].user = job[w].user
        /\ ins'[w] = {n}
    BY <1>1, <1>11, <2>1, <2>4, NewTokenTables DEF Replace
  <2>6. \A t \in job[w].todo \cup del[w] :
           t \in Tokens' /\ tok'[t].user = job[w].user
    BY <1>1, <2>1, <2>5 DEF OwnInv, TablesGrow
  <2>7. OwnInv(w)'
    BY <1>1, <2>1, <2>5, <2>6 DEF OwnInv
  <2>8. SeenInv(w)'
    BY <2>1 DEF SeenInv
  <2> QED
    BY <1>3, <2>1, <2>5, <2>7, <2>8
<1>12. CASE SavePassword(w)
  <2>1. /\ pc[w] = "save" /\ pc'[w] = "revoke"
        /\ \A v \in Workers \ {w} : Same(v)
        /\ UNCHANGED <<tok, rows, issued, job, ins, del>>
    BY <1>1, <1>12 DEF SavePassword, Goto, TypeOK, Same
  <2>2. OwnInv(w)' /\ SeenInv(w)'
    BY <1>1, <2>1 DEF OwnInv, SeenInv, Tokens
  <2> QED
    BY <1>3, <2>1, <2>2, TablesSame
<1>13. CASE SaveProfile(w)
  BY <1>13, TablesSame, EndRevoke DEF SaveProfile
<1>14. CASE Revoke(w)
  <2> DEFINE S == RowsOf(job[w].user)
             j == [job[w] EXCEPT !.todo = S, !.seen = S]
  <2>1. /\ pc[w] = "revoke" /\ pc'[w] = "delete" /\ job'[w] = j
        /\ \A v \in Workers \ {w} : Same(v)
        /\ UNCHANGED <<tok, rows, issued, ins, del>>
    BY <1>1, <1>14 DEF Revoke, Goto, TypeOK, Same
  <2>2. /\ j.kind = job[w].kind /\ j.user = job[w].user
        /\ j.todo = S /\ j.seen = S
    BY <1>1, <2>1 DEF Job
  <2>3. S \subseteq issued /\ \A t \in S : t \in Tokens /\ tok[t].user = job[w].user
    BY <1>2 DEF RowsOf
  <2>4. ins[w] = {} /\ del[w] = {}
    BY <1>1, <2>1 DEF SeenInv, JobInv
  <2> HIDE DEF j, S
  <2>5. OwnInv(w)'
    BY <1>1, <2>1, <2>2, <2>3, <2>4 DEF OwnInv, Tokens
  <2>6. SeenInv(w)'
    BY <2>1, <2>2, <2>3, <2>4 DEF SeenInv
  <2> QED
    BY <1>3, <2>1, <2>5, <2>6, TablesSame
<1> QED
  BY <1>4, <1>5, <1>6, <1>7, <1>8, <1>9, <1>10, <1>11, <1>12, <1>13, <1>14
     DEF Progress

(* Every step of the service preserves RevokeInv. *)
LEMMA NextRevoke == IInv /\ RevokeInv /\ [Next]_vars => RevokeInv'
<1> SUFFICES ASSUME IInv, RevokeInv, [Next]_vars PROVE RevokeInv'
  OBVIOUS
<1>1. TypeOK /\ 0 \in Nat /\ \A u \in Users : RowsOf(u) \in SUBSET RowsOf(u)
  BY DEF IInv
<1>2. ASSUME NEW w \in Workers, NEW u \in Users, Login(w, u) PROVE RevokeInv'
  BY <1>2, BeginRevoke DEF Login, Kinds
<1>3. ASSUME NEW w \in Workers, NEW u \in Users, LogoutAll(w, u)
      PROVE  RevokeInv'
  BY <1>1, <1>3, BeginRevoke DEF LogoutAll, Kinds
<1>4. ASSUME NEW w \in Workers, NEW u \in Users, ChangePassword(w, u)
      PROVE  RevokeInv'
  BY <1>4, BeginRevoke DEF ChangePassword, Kinds
<1>5. ASSUME NEW w \in Workers, NEW u \in Users, UpdateProfile(w, u)
      PROVE  RevokeInv'
  BY <1>5, BeginRevoke DEF UpdateProfile, Kinds
<1>6. ASSUME NEW w \in Workers, NEW u \in Users, NEW t \in issued,
             Logout(w, u, t)
      PROVE  RevokeInv'
  <2>1. OwnRow(u, t) \in SUBSET RowsOf(u)
    BY DEF OwnRow
  <2> QED
    BY <1>1, <1>6, <2>1, BeginRevoke DEF Logout, Kinds
<1>7. ASSUME NEW w \in Workers, NEW t \in issued, Refresh(w, t)
      PROVE  RevokeInv'
  <2>1. t \in Nat /\ t \in 1..Len(tok) /\ t \in Tokens
    BY <1>1, TokenFacts DEF TypeOK, Tokens
  <2>2. tok[t] \in [user : Users, password : Nat, parent : Nat]
    BY <1>1, <2>1, SeqElement DEF TypeOK
  <2>3. tok[t].user \in Users
    BY <2>2
  <2> QED
    BY <1>7, <2>1, <2>3, BeginRevoke DEF Refresh, Kinds
<1>8. ASSUME NEW w \in Workers, Abandon(w) PROVE RevokeInv'
  BY <1>8, TablesSame, EndRevoke DEF Abandon
<1>9. ASSUME UNCHANGED <<tok, rows, issued, pc, job, ins, del>>
      PROVE  RevokeInv'
  <2>1. \A v \in Workers : Same(v)
    BY <1>9 DEF Same
  <2> QED
    BY <1>9, <2>1, TablesSame, SameKeeps DEF RevokeInv
<1>10. ASSUME NEW t \in rows, Expire(t) PROVE RevokeInv'
  BY <1>9, <1>10 DEF Expire
<1>11. CASE UNCHANGED vars
  BY <1>9, <1>11 DEF vars
<1>12. ASSUME NEW w \in Workers, NEW t, Reject(w, t) PROVE RevokeInv'
  BY <1>11, <1>12 DEF Reject
<1>13. ASSUME NEW w \in Workers, Progress(w) PROVE RevokeInv'
  BY <1>13, ProgressRevoke
<1> QED
  BY <1>2, <1>3, <1>4, <1>5, <1>6, <1>7, <1>8, <1>10, <1>11, <1>12, <1>13
     DEF Next

(* Requests touch their own user's rows only, and revocations lose none. *)
LEMMA RevokeInvariance == Spec => [](IInv /\ RevokeInv)
<1>1. Init => RevokeInv
  BY DEF Init, RevokeInv, OwnInv, SeenInv
<1> QED
  BY <1>1, InitIInv, NextIInv, NextRevoke, PTL DEF Spec

(* Rows leave refresh_tokens by a COMMIT only. *)
LEMMA OnlyCommitRemoves ==
  ASSUME [Next]_vars, \A w \in Workers : ~Commit(w) PROVE rows' = rows
  BY DEF Next, Progress, vars, Login, LogoutAll, ChangePassword, UpdateProfile,
         Logout, Refresh, Reject, Abandon, Expire, AdvisoryLock, Insert, Evict,
         DeleteRow, Rotate, RotateFails, Replace, SavePassword, SaveProfile,
         Revoke

(* DeleteByUser's and DeleteSession's promise: when the DELETE is through, *)
(* none of the sessions it saw is left, whoever had locked them.           *)
THEOREM RevocationIsComplete == Spec => SeenAreRevoked
<1> DEFINE A == \A w \in Workers :
                   Commit(w) /\ pc[w] = "delete" => job[w].seen \cap rows' = {}
<1>1. IInv /\ RevokeInv /\ [Next]_vars => A
  <2> SUFFICES ASSUME IInv, RevokeInv, NEW w \in Workers, Commit(w),
                      pc[w] = "delete"
               PROVE  job[w].seen \cap rows' = {}
    OBVIOUS
  <2>1. ins[w] = {} /\ job[w].seen \cap rows \subseteq job[w].todo \cup del[w]
    BY DEF RevokeInv, SeenInv
  <2>2. rows' = (rows \ del[w]) \cup ins[w] /\ job[w].todo = {}
    BY DEF Commit
  <2> QED
    BY <2>1, <2>2
<1>2. [][A]_vars => SeenAreRevoked
  BY DEF SeenAreRevoked
<1> HIDE DEF A
<1> QED
  BY <1>1, <1>2, RevokeInvariance, PTL DEF Spec

(* DeleteSession's and Rotate's promise: a session ends by a request of    *)
(* its own user, and a refresh ends no session but the one presented.      *)
THEOREM NobodyElseRevokes == Spec => OthersUntouched
<1> DEFINE A == \A t \in rows \ rows' : \E w \in Workers :
                   /\ pc[w] # "idle" /\ pc'[w] = "idle"
                   /\ job[w].user = tok[t].user
                   /\ job[w].kind = "refresh" => t = job[w].token
<1>1. IInv /\ RevokeInv /\ [Next]_vars => A
  <2> SUFFICES ASSUME IInv, RevokeInv, [Next]_vars, NEW t \in rows \ rows'
               PROVE  \E w \in Workers :
                         /\ pc[w] # "idle" /\ pc'[w] = "idle"
                         /\ job[w].user = tok[t].user
                         /\ job[w].kind = "refresh" => t = job[w].token
    OBVIOUS
  <2>1. PICK w \in Workers : Commit(w)
    BY OnlyCommitRemoves
  <2>2. pc[w] # "idle" /\ pc'[w] = "idle" /\ t \in del[w]
    BY <2>1, EndFacts DEF Commit, IInv
  <2>3. /\ job[w].user = tok[t].user
        /\ job[w].kind = "refresh" => t = job[w].token
    BY <2>2 DEF RevokeInv, OwnInv
  <2> QED
    BY <2>2, <2>3
<1>2. [][A]_vars => OthersUntouched
  BY DEF OthersUntouched
<1> HIDE DEF A
<1> QED
  BY <1>1, <1>2, RevokeInvariance, PTL DEF Spec

----------------------------------------------------------------------------
(* LIMIT n leaves at most n rows: the oldest of those kept has fewer than  *)
(* n newer ones.                                                           *)
LEMMA NewestBound ==
  ASSUME NEW S \in SUBSET Nat, IsFiniteSet(S), NEW n \in Nat
  PROVE  /\ IsFiniteSet(Newest(S, n)) /\ Newest(S, n) \subseteq S
         /\ Cardinality(Newest(S, n)) \in Nat
         /\ Cardinality(Newest(S, n)) <= n
<1> DEFINE N == Newest(S, n)
<1>1. N \subseteq S /\ \A x \in N : Cardinality({y \in S : y > x}) < n
  BY DEF Newest
<1> HIDE DEF N
<1>2. IsFiniteSet(N) /\ Cardinality(N) \in Nat
  BY <1>1, FS_Subset, FS_CardinalityType
<1>3. Cardinality(N) <= n
  <2>1. CASE N = {}
    BY <2>1, FS_EmptySet
  <2>2. CASE N # {}
    <3>1. PICK m \in N : \A y \in N : m <= y
      BY <1>1, <2>2, Smallest
    <3> DEFINE Above == {y \in S : y > m}
    <3>2. N \ {m} \in SUBSET Above
      BY <1>1, <3>1
    <3>3. IsFiniteSet(Above) /\ Cardinality(Above) \in Nat
      BY FS_Subset, FS_CardinalityType
    <3>4. Cardinality(N \ {m}) <= Cardinality(Above)
      BY <3>2, <3>3, FS_Subset
    <3>5. Cardinality(N \ {m}) = Cardinality(N) - 1
      BY <1>2, FS_RemoveElement
    <3>6. Cardinality(Above) < n
      BY <1>1, <3>1
    <3> QED
      BY <1>2, <3>3, <3>4, <3>5, <3>6
  <2> QED
    BY <2>1, <2>2
<1> QED
  BY <1>1, <1>2, <1>3 DEF N

(* The tables are finite. *)
LEMMA FiniteFacts ==
  ASSUME TypeOK
  PROVE  /\ IsFiniteSet(Tokens)
         /\ \A S \in SUBSET Tokens : IsFiniteSet(S) /\ Cardinality(S) \in Nat
<1>1. Len(tok) \in Nat
  BY DEF TypeOK
<1>2. IsFiniteSet(Tokens)
  BY <1>1, FS_Interval DEF Tokens
<1> QED
  BY <1>2, FS_Subset, FS_CardinalityType

(* Fewer rows are no more than the cap. *)
LEMMA FewerRows ==
  ASSUME NEW T, IsFiniteSet(T), Cardinality(T) <= MaxSessions,
         NEW S \in SUBSET T
  PROVE  Cardinality(S) <= MaxSessions
<1>1. Cardinality(S) <= Cardinality(T) /\ IsFiniteSet(S)
  BY FS_Subset
<1>2. Cardinality(S) \in Nat /\ Cardinality(T) \in Nat
  BY <1>1, FS_CardinalityType
<1> QED
  BY <1>1, <1>2, CapAssumption

(* The advisory lock is held until the transaction ends. *)
LEMMA NextLock == IInv /\ LockInv /\ [Next]_vars => LockInv'
<1> SUFFICES ASSUME IInv, LockInv, [Next]_vars, NEW v \in Workers,
                    pc'[v] \in {"insert", "expire", "evict"}
             PROVE  adv'[job'[v].user] = v
  BY DEF LockInv
<1> DEFINE P == {"insert", "expire", "evict"}
<1>1. TypeOK /\ (pc[v] # "idle" => job[v] \in Job)
  BY DEF IInv, TypeOK
<1>2. ASSUME Same(v), \A u \in Users : adv[u] = v => adv'[u] = v
      PROVE  adv'[job'[v].user] = v
  BY <1>1, <1>2 DEF Same, LockInv, Job
<1>3. ASSUME NEW w \in Workers, End(w) PROVE adv'[job'[v].user] = v
  <2>1. v # w /\ Same(v)
    BY <1>1, <1>3, EndFacts DEF Same
  <2>2. \A u \in Users : adv[u] = v => adv'[u] = v
    BY <1>3, <2>1 DEF End
  <2> QED
    BY <1>2, <2>1, <2>2
<1>4. ASSUME NEW w \in Workers, NEW k, NEW u, NEW t, NEW S,
             NEW l \in {"lock", "rotate", "delete", "save"},
             Begin(w, k, u, t, l, S), UNCHANGED <<adv, ins, del>>
      PROVE  adv'[job'[v].user] = v
  <2>1. v # w /\ Same(v)
    BY <1>1, <1>4 DEF Begin, Goto, TypeOK, Same
  <2> QED
    BY <1>2, <1>4, <2>1
<1>5. ASSUME NEW w \in Workers, AdvisoryLock(w) PROVE adv'[job'[v].user] = v
  <2>1. job[w] \in Job
    BY <1>1, <1>5 DEF AdvisoryLock, TypeOK
  <2>2. job[w].user \in Users /\ adv[job[w].user] = Null
    BY <1>5, <2>1 DEF AdvisoryLock, LockFree, Job
  <2>3. CASE v = w
    BY <1>1, <1>5, <2>2, <2>3 DEF AdvisoryLock, TypeOK
  <2>4. CASE v # w
    <3>1. Same(v)
      BY <1>1, <1>5, <2>4 DEF AdvisoryLock, Goto, TypeOK, Same
    <3>2. \A u \in Users : adv[u] = v => adv'[u] = v
      BY <1>1, <1>5, <2>2, NullAssumption DEF AdvisoryLock, TypeOK
    <3> QED
      BY <1>2, <3>1, <3>2
  <2> QED
    BY <2>3, <2>4
<1>6. ASSUME NEW w \in Workers, Insert(w) \/ Evict(w) \/ DeleteRow(w)
                                \/ Rotate(w) \/ Replace(w) \/ Revoke(w)
                                \/ SavePassword(w)
      PROVE  adv'[job'[v].user] = v
  <2>1. adv' = adv
    BY <1>6 DEF Insert, Evict, DeleteRow, Rotate, Replace, Revoke, SavePassword
  <2>2. CASE v # w
    <3>1. Same(v)
      BY <1>1, <1>6, <2>2
         DEF Insert, NewToken, Evict, DeleteRow, Rotate, Replace, Revoke,
             SavePassword, Goto, TypeOK, Same
    <3> QED
      BY <1>2, <2>1, <3>1
  <2>3. CASE v = w
    <3>1. pc[v] \in P /\ pc[v] # "idle"
      BY <1>1, <1>6, <2>3
         DEF Insert, Evict, DeleteRow, Rotate, Replace, Revoke, SavePassword,
             Goto, TypeOK
    <3>2. job'[v].user = job[v].user
      <4>1. job[v] \in Job
        BY <1>1, <3>1
      <4>2. CASE Insert(w)
        BY <1>1, <2>3, <4>1, <4>2 DEF Insert, TypeOK, Job
      <4>3. CASE Evict(w)
        BY <1>1, <2>3, <4>1, <4>3 DEF Evict, TypeOK, Job
      <4>4. CASE DeleteRow(w)
        BY <1>1, <2>3, <4>1, <4>4 DEF DeleteRow, TypeOK, Job
      <4>5. CASE Revoke(w)
        BY <1>1, <2>3, <4>1, <4>5 DEF Revoke, TypeOK, Job
      <4>6. CASE Rotate(w) \/ Replace(w) \/ SavePassword(w)
        BY <4>6 DEF Rotate, Replace, SavePassword
      <4> QED
        BY <1>6, <4>2, <4>3, <4>4, <4>5, <4>6
    <3> QED
      BY <2>1, <3>1, <3>2 DEF LockInv
  <2> QED
    BY <2>2, <2>3
<1>7. ASSUME NEW w \in Workers, Progress(w) PROVE adv'[job'[v].user] = v
  BY <1>3, <1>5, <1>6, <1>7 DEF Progress, Commit, RotateFails, SaveProfile
<1>8. ASSUME UNCHANGED <<adv, pc, job, ins, del>> PROVE adv'[job'[v].user] = v
  BY <1>2, <1>8 DEF Same
<1>9. ASSUME NEW w \in Workers, NEW u \in Users,
             \/ Login(w, u) \/ LogoutAll(w, u)
             \/ ChangePassword(w, u) \/ UpdateProfile(w, u)
             \/ \E t \in issued : Logout(w, u, t)
      PROVE  adv'[job'[v].user] = v
  BY <1>4, <1>9 DEF Login, LogoutAll, ChangePassword, UpdateProfile, Logout
<1>10. ASSUME NEW w \in Workers, NEW t \in issued, Refresh(w, t)
       PROVE  adv'[job'[v].user] = v
  BY <1>4, <1>10 DEF Refresh
<1> QED
  BY <1>3, <1>7, <1>8, <1>9, <1>10 DEF Next, Abandon, Expire, Reject, vars

(* What a running login can still leave behind is finite. *)
LEMMA CountedFinite ==
  ASSUME IInv, NEW w \in Workers
  PROVE  /\ IsFiniteSet(Counted(w)) /\ IsFiniteSet(Live(w))
         /\ Live(w) \in SUBSET Tokens
<1>1. TypeOK /\ RowsOf(job[w].user) \subseteq Tokens /\ ins[w] \subseteq Tokens
  BY DEF IInv, TypeOK, RowsOf
<1>2. Counted(w) \in SUBSET Tokens /\ Live(w) \in SUBSET Tokens
  BY <1>1 DEF Counted, Live
<1> QED
  BY <1>1, <1>2, FiniteFacts

(* A login that takes no step is not disturbed by a step that adds no row  *)
(* of its user but the successors of refreshed ones, which it has not      *)
(* seen.                                                                   *)
LEMMA SameCap ==
  ASSUME IInv, CapInv, TablesGrow, NEW v \in Workers, Same(v),
         \A w \in Workers \ {v} : ins'[w] \subseteq ins[w] \/ ins'[w] \cap Tokens = {},
         pc[v] = "evict" =>
            \A t \in rows' \ rows :
                /\ t \in Tokens
                /\ tok[t].user = job[v].user =>
                      t \notin job[v].seen /\ tok[t].parent # 0
  PROVE  /\ LoginInv(v)'
         /\ pc'[v] = "commit" => \A t \in ins'[v] : tok'[t].parent # 0
<1>1. rows \subseteq Tokens /\ ins[v] \subseteq Tokens
  BY DEF IInv, TypeOK
<1>2. LoginInv(v) /\ (pc[v] = "commit" => \A t \in ins[v] : tok[t].parent # 0)
  BY DEF CapInv
<1>3. ASSUME pc[v] = "evict" PROVE LoginInv(v)'
  <2>1. Counted(v)' \in SUBSET Counted(v)
    <3> SUFFICES ASSUME NEW t \in Counted(v)' PROVE t \in Counted(v)
      OBVIOUS
    <3>1. /\ t \in rows' \/ t \in ins[v]
          /\ t \in rows' /\ t \notin ins[v] =>
                tok'[t].user = job[v].user /\ t \notin del[v]
          /\ t \notin job[v].todo /\ (t \in job[v].seen \/ tok'[t].parent = 0)
      BY DEF Counted, Live, RowsOf, Same
    <3>2. CASE t \in ins[v]
      <4>1. tok'[t] = tok[t]
        BY <1>1, <3>2 DEF TablesGrow
      <4> QED
        BY <3>1, <3>2, <4>1 DEF Counted, Live
    <3>3. CASE t \in rows /\ t \notin ins[v]
      <4>1. tok'[t] = tok[t]
        BY <1>1, <3>3 DEF TablesGrow
      <4> QED
        BY <3>1, <3>3, <4>1 DEF Counted, Live, RowsOf
    <3>4. CASE t \in rows' \ rows /\ t \notin ins[v]
      <4>1. t \in Tokens /\ tok'[t] = tok[t]
        BY <1>3, <3>4 DEF TablesGrow
      <4> QED
        BY <1>3, <3>1, <3>4, <4>1
    <3> QED
      BY <3>1, <3>2, <3>3, <3>4
  <2>2. Cardinality(Counted(v)') <= MaxSessions
    BY <1>2, <1>3, <2>1, CountedFinite, FewerRows DEF LoginInv
  <2>3. job'[v].seen \subseteq Tokens'
    BY <1>2, <1>3 DEF LoginInv, Same, TablesGrow
  <2>4. \A w \in Workers \ {v} : job'[v].seen \cap ins'[w] = {}
    BY <1>2, <1>3 DEF LoginInv, Same
  <2> QED
    BY <2>2, <2>3, <2>4 DEF LoginInv
<1>4. pc[v] # "evict" => LoginInv(v)'
  BY DEF LoginInv, Same
<1>5. pc'[v] = "commit" => \A t \in ins'[v] : tok'[t].parent # 0
  BY <1>1, <1>2 DEF Same, TablesGrow
<1> QED
  BY <1>3, <1>4, <1>5

(* COMMIT: a login commits only under its user's lock, a revocation adds   *)
(* no row, and a refresh adds a successor.                                 *)
LEMMA CommitCap ==
  ASSUME IInv, RevokeInv, LockInv, CapInv, NEW w \in Workers, Commit(w)
  PROVE  CapInv'
<1>1. /\ pc[w] \in {"commit", "evict", "delete"} /\ pc[w] # "idle"
      /\ End(w) /\ tok' = tok /\ rows' = (rows \ del[w]) \cup ins[w]
  BY DEF Commit
<1>2. /\ \A t \in ins[w] : t \in Tokens /\ tok[t].user = job[w].user
      /\ pc[w] = "delete" => ins[w] = {}
      /\ pc[w] = "commit" => \A t \in ins[w] : tok[t].parent # 0
  BY <1>1 DEF RevokeInv, OwnInv, SeenInv, CapInv
<1>3. /\ pc'[w] = "idle" /\ ins'[w] = {}
      /\ \A v \in Workers \ {w} : Same(v)
  BY <1>1, EndFacts DEF IInv, Same
<1>4. TablesGrow
  BY CommitTables
<1>5. ASSUME NEW v \in Workers \ {w}, pc[v] = "evict", NEW t \in rows' \ rows
      PROVE  /\ t \in Tokens
             /\ tok[t].user = job[v].user =>
                   t \notin job[v].seen /\ tok[t].parent # 0
  <2>1. t \in ins[w]
    BY <1>1
  <2>2. t \notin job[v].seen
    BY <1>5, <2>1 DEF CapInv, LoginInv
  <2>3. adv[job[v].user] = v /\ (pc[w] = "evict" => adv[job[w].user] = w)
    BY <1>5 DEF LockInv
  <2>4. pc[w] = "evict" => job[v].user # job[w].user
    BY <2>3
  <2> QED
    BY <1>1, <1>2, <2>1, <2>2, <2>4
<1>6. ASSUME NEW v \in Workers \ {w}
      PROVE  /\ LoginInv(v)'
             /\ pc'[v] = "commit" => \A t \in ins'[v] : tok'[t].parent # 0
  <2>1. \A x \in Workers \ {v} : ins'[x] \subseteq ins[x]
    BY <1>3 DEF Same
  <2> QED
    BY <1>3, <1>4, <1>5, <2>1, SameCap
<1>7. LoginInv(w)' /\ pc'[w] # "commit"
  BY <1>3 DEF LoginInv
<1> QED
  BY <1>6, <1>7 DEF CapInv

(* The eviction leaves the newest rows only. *)
LEMMA EvictCap ==
  ASSUME IInv, RevokeInv, LockInv, CapInv, NEW w \in Workers, Evict(w)
  PROVE  CapInv'
<1> DEFINE live == Live(w)
           j == [job[w] EXCEPT !.todo = Surplus(w), !.seen = Live(w)]
<1>1. /\ pc[w] = "expire" /\ pc'[w] = "evict" /\ job[w] \in Job
      /\ UNCHANGED <<tok, rows, issued, ins, del>>
  BY DEF Evict, IInv, TypeOK, Goto
<1>2. job'[w] = j /\ \A v \in Workers \ {w} : Same(v)
  BY DEF Evict, IInv, TypeOK, Goto, Same
<1>3. j.user = job[w].user /\ j.todo = Surplus(w) /\ j.seen = live
  BY <1>1 DEF Job
<1> HIDE DEF j
<1>4. TablesGrow
  BY <1>1, TablesSame
<1>5. IsFiniteSet(live) /\ live \in SUBSET Tokens /\ live \in SUBSET Nat
  <2>1. IsFiniteSet(live) /\ live \in SUBSET Tokens
    BY CountedFinite
  <2>2. Tokens \subseteq Nat
    BY DEF Tokens
  <2> QED
    BY <2>1, <2>2
<1>6. live \ Surplus(w) = Newest(live, MaxSessions)
  BY DEF Surplus, Newest
<1>7. Counted(w)' \in SUBSET (live \ Surplus(w))
  BY <1>1, <1>2, <1>3 DEF Counted, Live, RowsOf
<1>8. \A v \in Workers \ {w} : live \cap ins'[v] = {}
  <2>1. \A v \in Workers \ {w} : ins[w] \cap ins[v] = {} /\ issued \cap ins[v] = {}
    BY DEF IInv, InsInv
  <2>2. live \in SUBSET (issued \cup ins[w])
    BY DEF Live, RowsOf, IInv, TypeOK
  <2> QED
    BY <1>1, <2>1, <2>2
<1>9. live \subseteq Tokens'
  BY <1>1, <1>5 DEF Tokens
<1> HIDE DEF live
<1>10. Cardinality(Newest(live, MaxSessions)) <= MaxSessions
       /\ IsFiniteSet(Newest(live, MaxSessions))
  BY <1>5, NewestBound, CapAssumption
<1>11. Cardinality(Counted(w)') <= MaxSessions
  BY <1>6, <1>7, <1>10, FewerRows
<1>12. LoginInv(w)' /\ pc'[w] # "commit"
  BY <1>1, <1>2, <1>3, <1>8, <1>9, <1>11 DEF LoginInv
<1>13. \A v \in Workers \ {w} :
          /\ LoginInv(v)'
          /\ pc'[v] = "commit" => \A t \in ins'[v] : tok'[t].parent # 0
  BY <1>1, <1>2, <1>4, SameCap
<1> QED
  BY <1>12, <1>13 DEF CapInv

(* A row is deleted, or was gone: no row is left that was to go. *)
LEMMA DeleteRowCap ==
  ASSUME IInv, RevokeInv, LockInv, CapInv, NEW w \in Workers, DeleteRow(w)
  PROVE  CapInv'
<1> DEFINE t == Lowest(job[w].todo)
           j == [job[w] EXCEPT !.todo = @ \ {t}]
           D == IF t \in rows THEN del[w] \cup {t} ELSE del[w]
<1>1. /\ pc[w] \in {"expire", "evict", "delete"} /\ pc'[w] = pc[w]
      /\ UNCHANGED <<tok, rows, issued>>
  BY DEF DeleteRow, IInv, TypeOK
<1>2. /\ job'[w] = j /\ ins'[w] = ins[w] \ {t} /\ del'[w] = D
      /\ \A v \in Workers \ {w} : Same(v)
  BY DEF DeleteRow, IInv, TypeOK, Same
<1>3. job[w] \in Job
  BY <1>1 DEF IInv, TypeOK
<1>4. j.user = job[w].user /\ j.todo = job[w].todo \ {t} /\ j.seen = job[w].seen
  BY <1>3 DEF Job
<1> HIDE DEF j
<1>5. RowsOf(job[w].user)' = RowsOf(job[w].user) /\ RowsOf(job[w].user) \subseteq rows
  BY <1>1, <1>2, <1>4 DEF RowsOf
<1>6. Counted(w)' \in SUBSET Counted(w)
  <2>1. Live(w)' \ job'[w].todo \in SUBSET (Live(w) \ job[w].todo)
    BY <1>2, <1>4, <1>5 DEF Live
  <2> QED
    BY <1>1, <1>2, <1>4, <2>1 DEF Counted
<1>7. LoginInv(w)'
  <2> SUFFICES ASSUME pc[w] = "evict" PROVE LoginInv(w)'
    BY <1>1 DEF LoginInv
  <2>1. /\ Cardinality(Counted(w)) <= MaxSessions
        /\ job[w].seen \subseteq Tokens
        /\ \A v \in Workers \ {w} : job[w].seen \cap ins[v] = {}
    BY DEF CapInv, LoginInv
  <2>2. Cardinality(Counted(w)') <= MaxSessions
    BY <1>6, <2>1, CountedFinite, FewerRows
  <2>3. job'[w].seen \subseteq Tokens' /\ \A v \in Workers \ {w} : ins'[v] = ins[v]
    BY <1>1, <1>2, <1>4, <2>1 DEF Tokens, Same
  <2> QED
    BY <1>2, <1>4, <2>1, <2>2, <2>3 DEF LoginInv
<1>8. \A x \in Workers : ins'[x] \subseteq ins[x]
  BY <1>2 DEF Same
<1>9. \A v \in Workers \ {w} :
          /\ LoginInv(v)'
          /\ pc'[v] = "commit" => \A s \in ins'[v] : tok'[s].parent # 0
  BY <1>1, <1>2, <1>8, TablesSame, SameCap
<1> QED
  BY <1>1, <1>7, <1>9 DEF CapInv

(* Every step of the service preserves CapInv. *)
LEMMA NextCap ==
  ASSUME IInv, RevokeInv, LockInv, CapInv, [Next]_vars
  PROVE  CapInv'
<1>1. TypeOK
  BY DEF IInv
<1>2. ASSUME NEW w \in Workers, \A v \in Workers \ {w} : Same(v), TablesGrow,
             rows' = rows, pc'[w] # "evict",
             ins'[w] \subseteq ins[w] \/ ins'[w] \cap Tokens = {},
             pc'[w] = "commit" => \A t \in ins'[w] : tok'[t].parent # 0
      PROVE  CapInv'
  <2>1. LoginInv(w)'
    BY <1>2 DEF LoginInv
  <2>2. ASSUME NEW v \in Workers \ {w}
        PROVE  /\ LoginInv(v)'
               /\ pc'[v] = "commit" => \A t \in ins'[v] : tok'[t].parent # 0
    <3>1. \A x \in Workers \ {v} : ins'[x] \subseteq ins[x] \/ ins'[x] \cap Tokens = {}
      BY <1>2 DEF Same
    <3> QED
      BY <1>2, <3>1, SameCap
  <2> QED
    BY <1>2, <2>1, <2>2 DEF CapInv
<1>3. ASSUME NEW w \in Workers, End(w), UNCHANGED <<tok, rows, issued>>
      PROVE  CapInv'
  <2>1. pc'[w] = "idle" /\ ins'[w] = {} /\ \A v \in Workers \ {w} : Same(v)
    BY <1>1, <1>3, EndFacts DEF Same
  <2> QED
    BY <1>2, <1>3, <2>1, TablesSame
<1>4. ASSUME NEW w \in Workers, NEW k, NEW u, NEW t, NEW S,
             NEW l \in {"lock", "rotate", "delete", "save"},
             Begin(w, k, u, t, l, S), UNCHANGED <<tok, rows, issued, ins, del>>
      PROVE  CapInv'
  <2>1. pc'[w] = l /\ \A v \in Workers \ {w} : Same(v)
    BY <1>1, <1>4 DEF Begin, Goto, TypeOK, Same
  <2> QED
    BY <1>2, <1>4, <2>1, TablesSame
<1>5. ASSUME NEW w \in Workers, NEW l \in PCs \ {"evict", "commit"}, Goto(w, l),
             \A v \in Workers \ {w} : job'[v] = job[v],
             UNCHANGED <<tok, rows, issued, ins>>,
             \A v \in Workers \ {w} : del'[v] = del[v]
      PROVE  CapInv'
  <2>1. pc'[w] = l /\ \A v \in Workers \ {w} : Same(v)
    BY <1>1, <1>5 DEF Goto, TypeOK, Same
  <2> QED
    BY <1>2, <1>5, <2>1, TablesSame
<1>6. ASSUME NEW w \in Workers, AdvisoryLock(w) PROVE CapInv'
  BY <1>5, <1>6 DEF AdvisoryLock, PCs
<1>7. ASSUME NEW w \in Workers, Insert(w) PROVE CapInv'
  <2>1. job[w] \in Job /\ job[w].password \in Nat
    BY <1>1, <1>7 DEF Insert, TypeOK, Job
  <2>2. pc'[w] = "expire" /\ \A v \in Workers \ {w} : Same(v)
    BY <1>1, <1>7 DEF Insert, NewToken, Goto, TypeOK, Same
  <2>3. TablesGrow /\ rows' = rows /\ ins'[w] \cap Tokens = {}
    BY <1>7, <2>1, NewTokenTables DEF Insert
  <2> QED
    BY <1>2, <2>2, <2>3
<1>8. ASSUME NEW w \in Workers, Rotate(w) PROVE CapInv'
  <2>1. \A v \in Workers \ {w} : del'[v] = del[v]
    BY <1>1, <1>8 DEF Rotate, TypeOK
  <2> QED
    BY <1>5, <1>8, <2>1 DEF Rotate, PCs
<1>9. ASSUME NEW w \in Workers, Replace(w) PROVE CapInv'
  <2> DEFINE k == job[w].token
             n == Len(tok) + 1
  <2>1. job[w] \in Job /\ k \in Tokens /\ k # 0
    <3>1. job[w] \in Job /\ k \in del[w] /\ del[w] \subseteq Tokens
      BY <1>1, <1>9 DEF Replace, TypeOK, IInv, JobInv
    <3> QED
      BY <3>1 DEF Tokens
  <2>2. tok[k].password \in Nat
    <3>1. tok[k] \in [user : Users, password : Nat, parent : Nat]
      BY <1>1, <2>1, SeqElement DEF TypeOK, Tokens
    <3> QED
      BY <3>1
  <2>3. pc'[w] = "commit" /\ \A v \in Workers \ {w} : Same(v)
    BY <1>1, <1>9 DEF Replace, NewToken, Goto, TypeOK, Same
  <2>4. /\ TablesGrow /\ rows' = rows /\ n \notin Tokens
        /\ ins'[w] = {n} /\ tok'[n].parent = k
    BY <1>9, <2>1, <2>2, NewTokenTables DEF Replace
  <2> QED
    BY <1>2, <2>1, <2>3, <2>4
<1>10. ASSUME NEW w \in Workers, SavePassword(w) PROVE CapInv'
  BY <1>5, <1>10 DEF SavePassword, PCs
<1>11. ASSUME NEW w \in Workers, Revoke(w) PROVE CapInv'
  <2>1. \A v \in Workers \ {w} : job'[v] = job[v]
    BY <1>1, <1>11 DEF Revoke, TypeOK
  <2> QED
    BY <1>5, <1>11, <2>1 DEF Revoke, PCs
<1>12. ASSUME NEW w \in Workers, Progress(w) PROVE CapInv'
  BY <1>3, <1>6, <1>7, <1>8, <1>9, <1>10, <1>11, <1>12, CommitCap, EvictCap,
     DeleteRowCap
     DEF Progress, SaveProfile, RotateFails
<1>13. ASSUME NEW w \in Workers, NEW u \in Users,
              \/ Login(w, u) \/ LogoutAll(w, u)
              \/ ChangePassword(w, u) \/ UpdateProfile(w, u)
              \/ \E t \in issued : Logout(w, u, t)
       PROVE  CapInv'
  BY <1>4, <1>13 DEF Login, LogoutAll, ChangePassword, UpdateProfile, Logout
<1>14. ASSUME NEW w \in Workers, NEW t \in issued, Refresh(w, t) PROVE CapInv'
  BY <1>4, <1>14 DEF Refresh
<1>15. ASSUME UNCHANGED <<tok, rows, issued, pc, job, ins, del>> PROVE CapInv'
  <2>1. \A v \in Workers : Same(v)
    BY <1>15 DEF Same
  <2>2. TablesGrow
    BY <1>15, TablesSame
  <2> QED
    BY <1>15, <2>1, <2>2, SameCap DEF CapInv
<1> QED
  BY <1>3, <1>12, <1>13, <1>14, <1>15 DEF Next, Abandon, Expire, Reject, vars

(* Create's promise: however many logins of a user overlap, with           *)
(* refreshes, logouts, password changes, expiry and failures in between, a *)
(* login leaves at most MaxSessions of the sessions that logins have       *)
(* started or that it has seen.  CapInv is the strengthening: the promise  *)
(* is about what the DELETE has still to do.                               *)
THEOREM LoginsKeepCap == Spec => CapKeptByLogins
<1> DEFINE A == \A w \in Workers :
                   Commit(w) /\ pc[w] = "evict" =>
                       Cardinality({t \in rows' :
                                      /\ tok[t].user = job[w].user
                                      /\ (t \in job[w].seen \/ tok[t].parent = 0)})
                           <= MaxSessions
<1>1. Init => LockInv /\ CapInv
  BY DEF Init, LockInv, CapInv, LoginInv
<1>2. /\ IInv /\ RevokeInv /\ LockInv /\ CapInv /\ [Next]_vars
      => LockInv' /\ CapInv'
  BY NextLock, NextCap
<1>3. ASSUME IInv, CapInv, NEW w \in Workers, Commit(w), pc[w] = "evict"
      PROVE  Cardinality({t \in rows' : /\ tok[t].user = job[w].user
                                        /\ (t \in job[w].seen \/ tok[t].parent = 0)})
                <= MaxSessions
  <2> DEFINE left == {t \in rows' : /\ tok[t].user = job[w].user
                                    /\ (t \in job[w].seen \/ tok[t].parent = 0)}
  <2>1. job[w].todo = {} /\ rows' = (rows \ del[w]) \cup ins[w]
    BY <1>3 DEF Commit
  <2>2. left \in SUBSET Counted(w)
    BY <2>1 DEF Counted, Live, RowsOf
  <2>3. Cardinality(Counted(w)) <= MaxSessions
    BY <1>3 DEF CapInv, LoginInv
  <2> HIDE DEF left
  <2>4. Cardinality(left) <= MaxSessions
    BY <1>3, <2>2, <2>3, CountedFinite, FewerRows
  <2> QED
    BY <2>4 DEF left
<1>4. IInv /\ CapInv => A
  BY <1>3
<1>5. [][A]_vars => CapKeptByLogins
  BY DEF CapKeptByLogins
<1> HIDE DEF A
<1> QED
  BY <1>1, <1>2, <1>4, <1>5, RevokeInvariance, PTL DEF Spec
=============================================================================
