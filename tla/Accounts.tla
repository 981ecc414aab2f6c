------------------------------ MODULE Accounts ------------------------------
(***************************************************************************)
(* How replicas of the auth-service start and how accounts come about      *)
(* (cmd/main.go, cmd/bootstrap.go, migrations/migrate.go, and Register and *)
(* CreateStaff of handler.go and auth_usecase.go).                         *)
(*                                                                         *)
(* A replica migrates the schema, seeds the first administrator and only   *)
(* then serves; what fails before ends the process, and Kubernetes starts  *)
(* it again.  golang-migrate takes an advisory lock for Force and for Up,  *)
(* not for Version; around each migration it records the version as dirty. *)
(* The other services migrate in the same way, with one migration each.    *)
(***************************************************************************)
EXTENDS Naturals

CONSTANTS
    Replicas,
    Emails,
    BootstrapEmail,  \* BOOTSTRAP_ADMIN_EMAIL, or Null when it is not set
    Latest,          \* the number of migrations, 2
    Null

ASSUME LatestAssumption == Latest \in Nat \ {0}
ASSUME BootstrapAssumption == BootstrapEmail \in Emails \cup {Null}
ASSUME NullAssumption ==
    Null \notin Replicas \cup [v : Nat, dirty : BOOLEAN]
                        \cup [email : Emails, role : {"user", "agent", "admin"}]

VARIABLES
    schema,    \* migrations whose tables and columns exist
    version,   \* the row of schema_migrations, or Null
    lock,      \* the replica that holds the advisory lock
    pc,        \* where main is; "down" when there is no process
    users,     \* the table users
    job,       \* the account each replica's handler is about to insert
    (* history *)
    unseeded,  \* replicas whose bootstrapAdmin ran into a database error
    torn,      \* a replica died while it was applying a migration
    rewound    \* Force set back a version recorded by another replica

migrateVars == <<schema, version, lock, torn, rewound>>
accountVars == <<users, job, unseeded>>
vars == <<migrateVars, pc, accountVars>>

Roles == {"user", "agent", "admin"}
Account == [email : Emails, role : Roles]

TypeOK ==
    /\ schema \in 0..Latest
    /\ version \in [v : 1..Latest, dirty : BOOLEAN] \cup {Null}
    /\ lock \in Replicas \cup {Null}
    /\ pc \in [Replicas -> {"down", "version", "table", "force", "up", "begin", "run",
                            "finish", "bootstrap", "seed", "serving"}]
    /\ users \subseteq Account
    /\ job \in [Replicas -> Account \cup {Null}]
    /\ unseeded \subseteq Replicas
    /\ torn \in BOOLEAN /\ rewound \in BOOLEAN

(* A new database, or one whose tables AutoMigrate has created and which   *)
(* may hold accounts, one for an e-mail.                                   *)
Init ==
    /\ schema \in {0, 1}
    /\ users \in {S \in SUBSET Account :
                     /\ schema = 0 => S = {}
                     /\ \A a, b \in S : a.email = b.email => a = b}
    /\ version = Null
    /\ lock = Null
    /\ pc = [r \in Replicas |-> "down"]
    /\ job = [r \in Replicas |-> Null]
    /\ unseeded = {}
    /\ torn = FALSE /\ rewound = FALSE

Goto(r, to) == pc' = [pc EXCEPT ![r] = to]

-----------------------------------------------------------------------------
(* main, once NewPostgresDB has a connection. *)
Start(r) ==
    /\ pc[r] = "down"
    /\ Goto(r, "version")
    /\ UNCHANGED <<migrateVars, accountVars>>

(* Run asks for the version, without the lock: a dirty one is fatal. *)
ReadVersion(r) ==
    /\ pc[r] = "version"
    /\ Goto(r, IF version = Null THEN "table"
               ELSE IF version.dirty THEN "down" ELSE "up")
    /\ UNCHANGED <<migrateVars, accountVars>>

(* The table users is there. *)
TableExists == schema >= 1

CheckTable(r) ==
    /\ pc[r] = "table"
    /\ Goto(r, IF TableExists THEN "force" ELSE "up")
    /\ UNCHANGED <<migrateVars, accountVars>>

Adopted == 1

ForceVersion(r) ==
    /\ pc[r] = "force"
    /\ lock = Null
    /\ version' = [v |-> Adopted, dirty |-> FALSE]
    /\ rewound' = (rewound \/ (version # Null /\ version.v > Adopted))
    /\ Goto(r, "up")
    /\ UNCHANGED <<schema, lock, torn, accountVars>>

(* Up: ErrDirty, ErrNoChange, or there is something to do. *)
Up(r) ==
    /\ pc[r] = "up"
    /\ lock = Null
    /\ IF version = Null THEN lock' = r /\ Goto(r, "begin")
       ELSE IF version.dirty THEN UNCHANGED lock /\ Goto(r, "down")
       ELSE IF version.v = Latest THEN UNCHANGED lock /\ Goto(r, "bootstrap")
       ELSE lock' = r /\ Goto(r, "begin")
    /\ UNCHANGED <<schema, version, torn, rewound, accountVars>>

BeginMigration(r) ==
    /\ pc[r] = "begin"
    /\ version' = [v |-> IF version = Null THEN 1 ELSE version.v + 1, dirty |-> TRUE]
    /\ Goto(r, "run")
    /\ UNCHANGED <<schema, lock, torn, rewound, accountVars>>

(* The SQL of a migration is one transaction, and fails where its tables   *)
(* or columns exist: Up returns and the process ends.                      *)
RunMigration(r) ==
    /\ pc[r] = "run"
    /\ IF schema = version.v - 1
       THEN schema' = version.v /\ UNCHANGED lock /\ Goto(r, "finish")
       ELSE lock' = Null /\ UNCHANGED schema /\ Goto(r, "down")
    /\ UNCHANGED <<version, torn, rewound, accountVars>>

FinishMigration(r) ==
    /\ pc[r] = "finish"
    /\ version' = [version EXCEPT !.dirty = FALSE]
    /\ IF version.v = Latest THEN lock' = Null /\ Goto(r, "bootstrap")
       ELSE UNCHANGED lock /\ Goto(r, "begin")
    /\ UNCHANGED <<schema, torn, rewound, accountVars>>

-----------------------------------------------------------------------------
Admins == {u \in users : u.role = "admin"}
Taken(email) == \E u \in users : u.email = email

(* Mutant: any account counts. *)
AlreadySeededByAny == users # {}

AlreadySeeded == Admins # {}

(* bootstrapAdmin looks for an administrator ...; main only logs an error. *)
FindAdmins(r) ==
    /\ pc[r] = "bootstrap"
    /\ \/ /\ Goto(r, IF BootstrapEmail = Null \/ AlreadySeeded THEN "serving" ELSE "seed")
          /\ UNCHANGED unseeded
       \/ /\ Goto(r, "serving")
          /\ unseeded' = unseeded \cup {r}
    /\ UNCHANGED <<migrateVars, users, job>>

(* The INSERT violates the UNIQUE of email or succeeds. *)
Inserted(a) == IF Taken(a.email) THEN users ELSE users \cup {a}

(* ... and inserts one. *)
SeedAdmin(r) ==
    /\ pc[r] = "seed"
    /\ Goto(r, "serving")
    /\ \/ /\ users' = Inserted([email |-> BootstrapEmail, role |-> "admin"])
          /\ UNCHANGED unseeded
       \/ /\ unseeded' = unseeded \cup {r}
          /\ UNCHANGED users
    /\ UNCHANGED <<migrateVars, job>>

(* AuthUsecase.Register looks the e-mail up; an error of the lookup is     *)
(* taken for an e-mail that is free.                                       *)
Lookup(r, email, role) ==
    /\ pc[r] = "serving"
    /\ job[r] = Null
    /\ \E found \in {Taken(email), FALSE} : ~found
    /\ job' = [job EXCEPT ![r] = [email |-> email, role |-> role]]
    /\ UNCHANGED <<migrateVars, pc, users, unseeded>>

(* POST /register *)
Register(r, email) == Lookup(r, email, "user")

(* POST /admin/staff, for a caller whose token says admin. *)
CreateStaff(r, email, role) ==
    /\ Admins # {}
    /\ role # "user"
    /\ Lookup(r, email, role)

CreateUser(r) ==
    /\ job[r] # Null
    /\ users' \in {users, Inserted(job[r])}
    /\ job' = [job EXCEPT ![r] = Null]
    /\ UNCHANGED <<migrateVars, pc, unseeded>>

-----------------------------------------------------------------------------
(* The process dies or is told to stop: its advisory lock goes with its    *)
(* database session.                                                       *)
Stop(r) ==
    /\ pc[r] # "down"
    /\ Goto(r, "down")
    /\ lock' = IF lock = r THEN Null ELSE lock
    /\ torn' = (torn \/ pc[r] \in {"run", "finish"})
    /\ job' = [job EXCEPT ![r] = Null]
    /\ unseeded' = unseeded \ {r}
    /\ UNCHANGED <<schema, version, rewound, users>>

Migrate(r) ==
    \/ ReadVersion(r) \/ CheckTable(r) \/ ForceVersion(r)
    \/ Up(r) \/ BeginMigration(r) \/ RunMigration(r) \/ FinishMigration(r)

Request(r) ==
    \/ \E email \in Emails : Register(r, email)
    \/ \E email \in Emails, role \in Roles : CreateStaff(r, email, role)
    \/ CreateUser(r)

Next ==
    \E r \in Replicas :
        \/ Start(r)
        \/ Migrate(r)
        \/ FindAdmins(r) \/ SeedAdmin(r)
        \/ Request(r)
        \/ Stop(r)

Spec == Init /\ [][Next]_vars

-----------------------------------------------------------------------------
(* A replica that serves has the whole schema and, unless bootstrapAdmin   *)
(* failed in it, an administrator to log in with or a plain account under  *)
(* the administrator's e-mail, whatever the other replicas were doing      *)
(* while it started.                                                       *)
ReadyToServe ==
    \A r \in Replicas : pc[r] = "serving" =>
        /\ schema = Latest
        /\ BootstrapEmail # Null /\ r \notin unseeded =>
              Admins # {} \/ Taken(BootstrapEmail)

(* "Safe to call on every startup - migrate tracks the applied version":   *)
(* unless a process died while it was applying a migration, no dirty       *)
(* version is left when nobody is migrating, so that the next start can    *)
(* succeed.                                                                *)
SafeOnEveryStartup ==
    version # Null /\ lock = Null /\ ~torn => ~version.dirty

(* The dirty version that keeps every later start from succeeding is left  *)
(* by two things only: a process that died while applying a migration, and *)
(* a start that had read "no version" and, when another replica had gone   *)
(* through all migrations, forced the version back to 1 and ran the others *)
(* again.  Starts one after the other never leave one.                     *)
DirtyExplained ==
    version # Null /\ lock = Null => (version.dirty => torn \/ rewound)
=============================================================================
