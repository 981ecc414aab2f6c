---------------------------- MODULE AuthSessions ----------------------------
(***************************************************************************)
(* The auth-service's sessions: POST /login, /refresh, /logout,            *)
(* /change-password and the profile updates, down to the statements they   *)
(* send to PostgreSQL (handler.go, auth_usecase.go, user_repository.go,    *)
(* refresh_token_repository.go).                                           *)
(*                                                                         *)
(* refresh_tokens has one row per session.  Statements run at READ         *)
(* COMMITTED: a DELETE picks its rows from what is committed when it       *)
(* starts, then locks them one by one in table order, waiting for a row    *)
(* that another transaction has locked and skipping one that is gone.      *)
(* Rows are numbered by their id; created_at and expires_at, seven days    *)
(* later, follow the ids.  A refresh token is named by its row, its signed *)
(* content is looked up in `tok'.                                          *)
(***************************************************************************)
EXTENDS Naturals, Sequences, FiniteSets

CONSTANTS
    Users,
    Workers,        \* handler goroutines, of all replicas
    Null,           \* a free lock, no job
    MaxSessions,    \* MAX_SESSIONS_PER_USER, after sessionCap()
    Happens,        \* the requests and faults that occur
    MaxIssued       \* bound: no more rows and passwords once there are so many

ASSUME CapAssumption == MaxSessions \in Nat \ {0}
ASSUME BoundsAssumption == MaxIssued \in Nat
ASSUME NullAssumption == Null \notin Workers

VARIABLES
    pw,      \* users.password: the number of the password
    pwSeq,   \* passwords chosen so far
    tok,     \* the content of every token: its user, the password its login
             \* was checked against, the token it was rotated from (0: none)
    rows,    \* refresh_tokens, the committed rows
    issued,  \* the tokens ever committed: clients may present any of them
    expired, \* the tokens past their seven days
    adv,     \* the per-user advisory lock
    pc, job, \* the workers
    ins, del \* rows inserted and deleted by the worker's open transaction

vars == <<pw, pwSeq, tok, rows, issued, expired, adv, pc, job, ins, del>>

Kinds == {"login", "refresh", "logout", "logoutAll", "changePassword",
          "profile"}

ASSUME HappensAssumption == Happens \subseteq Kinds \cup {"expiry", "dbError"}

PCs == {"idle", "lock", "insert", "expire", "evict", "rotate", "replace",
        "commit", "delete", "save", "revoke"}

Tokens == 1..Len(tok)
RowsOf(u) == {t \in rows : tok[t].user = u}

Job == [kind : Kinds, user : Users, token : Nat, password : Nat,
        todo : SUBSET Nat, seen : SUBSET Nat]

TypeOK ==
    /\ pw \in [Users -> 0..pwSeq]
    /\ pwSeq \in Nat
    /\ tok \in Seq([user : Users, password : Nat, parent : Nat])
    /\ issued \subseteq Tokens
    /\ rows \subseteq issued
    /\ expired \subseteq issued
    /\ adv \in [Users -> Workers \cup {Null}]
    /\ pc \in [Workers -> PCs]
    /\ job \in [Workers -> Job \cup {Null}]
    /\ \A w \in Workers : pc[w] # "idle" => job[w] \in Job
    /\ ins \in [Workers -> SUBSET Tokens]
    /\ del \in [Workers -> SUBSET Tokens]

Init ==
    /\ pw = [u \in Users |-> 0]
    /\ pwSeq = 0
    /\ tok = <<>>
    /\ rows = {}
    /\ issued = {}
    /\ expired = {}
    /\ adv = [u \in Users |-> Null]
    /\ pc = [w \in Workers |-> "idle"]
    /\ job = [w \in Workers |-> Null]
    /\ ins = [w \in Workers |-> {}]
    /\ del = [w \in Workers |-> {}]

----------------------------------------------------------------------------
Goto(w, l) == pc' = [pc EXCEPT ![w] = l]

Begin(w, kind, u, t, l, targets) ==
    /\ pc[w] = "idle"
    /\ kind \in Happens
    /\ job' = [job EXCEPT ![w] =
                  [kind |-> kind, user |-> u, token |-> t, password |-> pw[u],
                   todo |-> targets, seen |-> targets]]
    /\ Goto(w, l)

(* Mutant: the advisory lock belongs to the connection and is kept. *)
EndKeepsLock(w) ==
    /\ ins' = [ins EXCEPT ![w] = {}]
    /\ del' = [del EXCEPT ![w] = {}]
    /\ job' = [job EXCEPT ![w] = Null]
    /\ Goto(w, "idle")
    /\ UNCHANGED adv

(* The worker's transaction is over: its locks are released. *)
End(w) ==
    /\ adv' = [u \in Users |-> IF adv[u] = w THEN Null ELSE adv[u]]
    /\ ins' = [ins EXCEPT ![w] = {}]
    /\ del' = [del EXCEPT ![w] = {}]
    /\ job' = [job EXCEPT ![w] = Null]
    /\ Goto(w, "idle")

LockedByOther(w, t) == \E v \in Workers \ {w} : t \in del[v]

Lowest(S) == CHOOSE x \in S : \A y \in S : x <= y

(* ORDER BY created_at DESC, id DESC LIMIT n *)
Newest(S, n) == {x \in S : Cardinality({y \in S : y > x}) < n}

----------------------------------------------------------------------------
(* POST /login: the password was right; signTokens, then Create. *)
Login(w, u) ==
    /\ Len(tok) + pwSeq < MaxIssued
    /\ Begin(w, "login", u, 0, "lock", {})
    /\ UNCHANGED <<pw, pwSeq, tok, rows, issued, expired, adv, ins, del>>

(* Mutant: logins are not serialized. *)
FreeLock(u) == TRUE

LockFree(u) == adv[u] = Null

(* Create: pg_advisory_xact_lock. *)
AdvisoryLock(w) ==
    /\ pc[w] = "lock"
    /\ LockFree(job[w].user)
    /\ adv' = [adv EXCEPT ![job[w].user] = w]
    /\ Goto(w, "insert")
    /\ UNCHANGED <<pw, pwSeq, tok, rows, issued, expired, job, ins, del>>

(* Mutant: the row is stored without its user. *)
NewTokenNoUser(w, password) ==
    /\ tok' = Append(tok, [user |-> Null, password |-> password,
                           parent |-> job[w].token])
    /\ ins' = [ins EXCEPT ![w] = {Len(tok) + 1}]

NewToken(w, password) ==
    /\ tok' = Append(tok, [user |-> job[w].user, password |-> password,
                           parent |-> job[w].token])
    /\ ins' = [ins EXCEPT ![w] = {Len(tok) + 1}]

(* Create: the INSERT; the DELETE of the user's expired rows starts. *)
Insert(w) ==
    /\ pc[w] = "insert"
    /\ NewToken(w, job[w].password)
    /\ job' = [job EXCEPT ![w].todo = RowsOf(job[w].user) \cap expired]
    /\ Goto(w, "expire")
    /\ UNCHANGED <<pw, pwSeq, rows, issued, expired, adv, del>>

(* The user's rows as this transaction sees them. *)
Live(w) == (RowsOf(job[w].user) \ del[w]) \cup ins[w]

(* ... and those beyond the newest MaxSessions. *)
Surplus(w) == Live(w) \ Newest(Live(w), MaxSessions)

(* Create: the DELETE of the oldest rows starts. *)
Evict(w) ==
    /\ pc[w] = "expire"
    /\ job[w].todo = {}
    /\ job' = [job EXCEPT ![w].todo = Surplus(w), ![w].seen = Live(w)]
    /\ Goto(w, "evict")
    /\ UNCHANGED <<pw, pwSeq, tok, rows, issued, expired, adv, ins, del>>

(* Mutant: rows locked by somebody else are skipped. *)
DeleteRowSkipLocked(w) ==
    LET t == Lowest(job[w].todo) IN
    /\ pc[w] \in {"expire", "evict", "delete"}
    /\ job[w].todo # {}
    /\ del' = [del EXCEPT ![w] = IF t \in rows /\ ~LockedByOther(w, t)
                                 THEN @ \cup {t} ELSE @]
    /\ ins' = [ins EXCEPT ![w] = @ \ {t}]
    /\ job' = [job EXCEPT ![w].todo = @ \ {t}]
    /\ UNCHANGED <<pw, pwSeq, tok, rows, issued, expired, adv, pc>>

(* A running DELETE locks its next row, or skips it when it is gone.  The  *)
(* row may be the one this transaction has inserted: a refresh that        *)
(* committed after the INSERT has a newer one.                             *)
DeleteRow(w) ==
    LET t == Lowest(job[w].todo) IN
    /\ pc[w] \in {"expire", "evict", "delete"}
    /\ job[w].todo # {}
    /\ ~LockedByOther(w, t)
    /\ del' = [del EXCEPT ![w] = IF t \in rows THEN @ \cup {t} ELSE @]
    /\ ins' = [ins EXCEPT ![w] = @ \ {t}]
    /\ job' = [job EXCEPT ![w].todo = @ \ {t}]
    /\ UNCHANGED <<pw, pwSeq, tok, rows, issued, expired, adv, pc>>

Commit(w) ==
    /\ \/ pc[w] = "commit"
       \/ pc[w] \in {"evict", "delete"} /\ job[w].todo = {}
    /\ rows' = (rows \ del[w]) \cup ins[w]
    /\ issued' = issued \cup ins[w]
    /\ End(w)
    /\ UNCHANGED <<pw, pwSeq, tok, expired>>

----------------------------------------------------------------------------
(* POST /refresh: Find, the signature, the expiry and the owner are right. *)
Refresh(w, t) ==
    /\ Len(tok) + pwSeq < MaxIssued
    /\ t \in rows \ expired
    /\ Begin(w, "refresh", tok[t].user, t, "rotate", {})
    /\ UNCHANGED <<pw, pwSeq, tok, rows, issued, expired, adv, ins, del>>

(* Mutant: RowsAffected is not looked at. *)
RotateUnchecked(w) ==
    LET t == job[w].token IN
    /\ pc[w] = "rotate"
    /\ ~LockedByOther(w, t)
    /\ del' = [del EXCEPT ![w] = {t} \cap rows]
    /\ Goto(w, "replace")
    /\ UNCHANGED <<pw, pwSeq, tok, rows, issued, expired, adv, job, ins>>

(* Mutant: the presented token is looked up, not deleted. *)
RotateKeeping(w) ==
    /\ pc[w] = "rotate"
    /\ job[w].token \in rows
    /\ ~LockedByOther(w, job[w].token)
    /\ Goto(w, "replace")
    /\ UNCHANGED <<pw, pwSeq, tok, rows, issued, expired, adv, job, ins, del>>

(* Rotate: the DELETE of the presented token. *)
Rotate(w) ==
    LET t == job[w].token IN
    /\ pc[w] = "rotate"
    /\ t \in rows
    /\ ~LockedByOther(w, t)
    /\ del' = [del EXCEPT ![w] = {t}]
    /\ Goto(w, "replace")
    /\ UNCHANGED <<pw, pwSeq, tok, rows, issued, expired, adv, job, ins>>

(* ErrTokenNotFound: the token was rotated or revoked meanwhile. *)
RotateFails(w) ==
    /\ pc[w] = "rotate"
    /\ job[w].token \notin rows
    /\ End(w)
    /\ UNCHANGED <<pw, pwSeq, tok, rows, issued, expired>>

(* Rotate: the INSERT of its successor. *)
Replace(w) ==
    /\ pc[w] = "replace"
    /\ NewToken(w, tok[job[w].token].password)
    /\ Goto(w, "commit")
    /\ UNCHANGED <<pw, pwSeq, rows, issued, expired, adv, job, del>>

----------------------------------------------------------------------------
(* Mutant: DeleteSession does not check the user. *)
AnyRow(u, t) == {t} \cap rows

OwnRow(u, t) == {t} \cap RowsOf(u)

(* POST /logout with a refresh token: DeleteSession. *)
Logout(w, u, t) ==
    /\ Begin(w, "logout", u, 0, "delete", OwnRow(u, t))
    /\ UNCHANGED <<pw, pwSeq, tok, rows, issued, expired, adv, ins, del>>

(* POST /logout without one: DeleteByUser. *)
LogoutAll(w, u) ==
    /\ Begin(w, "logoutAll", u, 0, "delete", RowsOf(u))
    /\ UNCHANGED <<pw, pwSeq, tok, rows, issued, expired, adv, ins, del>>

----------------------------------------------------------------------------
(* POST /change-password: FindByID, and the old password was right. *)
ChangePassword(w, u) ==
    /\ Len(tok) + pwSeq < MaxIssued
    /\ Begin(w, "changePassword", u, 0, "save", {})
    /\ UNCHANGED <<pw, pwSeq, tok, rows, issued, expired, adv, ins, del>>

(* PATCH /me, /me/availability: FindByID. *)
UpdateProfile(w, u) ==
    /\ Begin(w, "profile", u, 0, "save", {})
    /\ UNCHANGED <<pw, pwSeq, tok, rows, issued, expired, adv, ins, del>>

(* Update: Save writes every column of the row that was read. *)
SavePassword(w) ==
    /\ pc[w] = "save"
    /\ job[w].kind = "changePassword"
    /\ pwSeq' = pwSeq + 1
    /\ pw' = [pw EXCEPT ![job[w].user] = pwSeq + 1]
    /\ Goto(w, "revoke")
    /\ UNCHANGED <<tok, rows, issued, expired, adv, job, ins, del>>

SaveProfile(w) ==
    /\ pc[w] = "save"
    /\ job[w].kind = "profile"
    /\ pw' = [pw EXCEPT ![job[w].user] = job[w].password]
    /\ End(w)
    /\ UNCHANGED <<pwSeq, tok, rows, issued, expired>>

(* After the password was saved: DeleteByUser starts. *)
Revoke(w) ==
    /\ pc[w] = "revoke"
    /\ job' = [job EXCEPT ![w].todo = RowsOf(job[w].user),
                              ![w].seen = RowsOf(job[w].user)]
    /\ Goto(w, "delete")
    /\ UNCHANGED <<pw, pwSeq, tok, rows, issued, expired, adv, ins, del>>

----------------------------------------------------------------------------
(* A refresh token that is unknown, expired or revoked, a wrong password:  *)
(* the request is answered with 401.                                       *)
Reject(w, t) ==
    /\ pc[w] = "idle"
    /\ t \notin rows \ expired
    /\ UNCHANGED vars

(* Seven days after it was issued; older tokens first. *)
Expire(t) ==
    /\ "expiry" \in Happens
    /\ t \in rows \ expired
    /\ \A s \in rows \cup UNION {ins[w] : w \in Workers} : s < t => s \in expired
    /\ expired' = expired \cup {t}
    /\ UNCHANGED <<pw, pwSeq, tok, rows, issued, adv, pc, job, ins, del>>

(* A statement fails, or the replica dies: the transaction is rolled back. *)
(* After a password was saved, that leaves the sessions unrevoked.         *)
Abandon(w) ==
    /\ "dbError" \in Happens
    /\ pc[w] # "idle"
    /\ End(w)
    /\ UNCHANGED <<pw, pwSeq, tok, rows, issued, expired>>

Progress(w) ==
    \/ AdvisoryLock(w) \/ Insert(w) \/ Evict(w) \/ DeleteRow(w) \/ Commit(w)
    \/ Rotate(w) \/ RotateFails(w) \/ Replace(w)
    \/ SavePassword(w) \/ SaveProfile(w) \/ Revoke(w)

Next ==
    \/ \E w \in Workers, u \in Users :
          \/ Login(w, u) \/ LogoutAll(w, u)
          \/ ChangePassword(w, u) \/ UpdateProfile(w, u)
          \/ \E t \in issued : Logout(w, u, t)
    \/ \E w \in Workers, t \in issued : Refresh(w, t)
    \/ \E w \in Workers, t \in issued \cup {0} : Reject(w, t)
    \/ \E w \in Workers : Progress(w) \/ Abandon(w)
    \/ \E t \in rows : Expire(t)

Spec == Init /\ [][Next]_vars

----------------------------------------------------------------------------
(* A refresh token is exchanged at most once: of all the requests that     *)
(* ever present it, concurrently or later, one gets a successor ("exactly  *)
(* one succeeds; the rest get ErrTokenNotFound").                          *)
RotatedOnce ==
    \A s, t \in issued :
        tok[s].parent # 0 /\ tok[s].parent = tok[t].parent => s = t

(* Rotation replaces a session, it never adds one: a token that has a      *)
(* successor is no longer accepted.                                        *)
ReplayRejected == \A t \in issued : tok[t].parent \notin rows

(* DeleteByUser and DeleteSession revoke every row they saw when they      *)
(* started, also the ones another transaction had locked.                  *)
SeenAreRevoked ==
    [][\A w \in Workers :
          Commit(w) /\ pc[w] = "delete" => job[w].seen \cap rows' = {}]_vars

(* A session only ends by a request of its own user, and a refresh ends no *)
(* session but the one presented ("one user can't revoke another's         *)
(* session", "Other sessions are untouched").                              *)
OthersUntouched ==
    [][\A t \in rows \ rows' : \E w \in Workers :
          /\ pc[w] # "idle" /\ pc'[w] = "idle"
          /\ job[w].user = tok[t].user
          /\ job[w].kind = "refresh" => t = job[w].token]_vars

(* "Serialize session creation per user so concurrent logins can't each    *)
(* see `under the cap' and together overshoot it": a login leaves at most  *)
(* MaxSessions of the sessions that logins have started or that its        *)
(* eviction could see, whatever logouts, expiry and refreshes do           *)
(* meanwhile.  Only the successor of a session that was refreshed while    *)
(* the login was evicting can come on top: Rotate does not take the        *)
(* advisory lock.                                                          *)
CapKeptByLogins ==
    [][\A w \in Workers :
          Commit(w) /\ pc[w] = "evict" =>
              Cardinality({t \in rows' : /\ tok[t].user = job[w].user
                                         /\ (t \in job[w].seen \/ tok[t].parent = 0)})
                  <= MaxSessions]_vars

(* Worker w waits for a lock of worker v. *)
WaitsFor(w, v) ==
    \/ pc[w] = "lock" /\ adv[job[w].user] = v
    \/ /\ pc[w] \in {"expire", "evict", "delete"}
       /\ job[w].todo # {}
       /\ v # w /\ Lowest(job[w].todo) \in del[v]
    \/ pc[w] = "rotate" /\ v # w /\ job[w].token \in del[v]

(* The advisory lock and the row locks never block each other for good:    *)
(* among any workers that all wait, one waits for a worker outside, which  *)
(* is running.  So nobody waits in a circle (a login holds the advisory    *)
(* lock while it waits for rows), or for a request that has ended.         *)
LocksUntangle ==
    \A S \in SUBSET Workers \ {{}} :
        (\A w \in S : \E v \in Workers : WaitsFor(w, v)) =>
            \E w \in S, v \in Workers \ S : WaitsFor(w, v) /\ pc[v] # "idle"

(* "a session on a lost or stolen device must not survive the password     *)
(* change": once no change is running, every session was started with the  *)
(* current password.                                                       *)
Changing(u) == \E w \in Workers : /\ pc[w] # "idle"
                                  /\ job[w].kind = "changePassword"
                                  /\ job[w].user = u
NoneSurvives ==
    \A u \in Users :
        ~Changing(u) => \A t \in RowsOf(u) : tok[t].password = pw[u]

(* UpdateProfile "sets the caller's own display name/department": the      *)
(* password is only changed by ChangePassword.                             *)
PasswordKept ==
    [][\A u \in Users : pw'[u] # pw[u] =>
          \E w \in Workers : /\ pc[w] = "save"
                             /\ job[w].kind = "changePassword"
                             /\ pc'[w] = "revoke"]_vars
=============================================================================
