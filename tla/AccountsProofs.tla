--------------------------- MODULE AccountsProofs ---------------------------
(***************************************************************************)
(* TLAPS proofs about Accounts for any number of replicas and migrations.  *)
(***************************************************************************)
EXTENDS Accounts, TLAPS

Migrating == {"begin", "run", "finish"}

PCs == {"down", "version", "table", "force", "up", "begin", "run", "finish",
        "bootstrap", "seed", "serving"}

(* The advisory lock is held by the replica that applies migrations. *)
LockInv == \A r \in Replicas : lock = r <=> pc[r] \in Migrating

(* What the recorded version says of the schema: a clean version is        *)
(* applied, a dirty one at least up to the migration before it; and more   *)
(* is applied than recorded only after one of the two accidents.           *)
VersionInv ==
    /\ version = Null => schema <= 1
    /\ version # Null /\ ~version.dirty => schema >= version.v
    /\ version # Null /\ version.dirty => schema >= version.v - 1
    /\ version # Null /\ ~version.dirty /\ schema > version.v => torn \/ rewound

(* What a replica knows where it is. *)
PhaseInv(r) ==
    /\ pc[r] = "force" => schema >= 1
    /\ pc[r] \in {"up", "begin"} /\ version = Null => schema = 0
    /\ pc[r] = "begin" /\ version # Null => ~version.dirty /\ version.v < Latest
    /\ pc[r] \in {"run", "finish"} => version # Null /\ version.dirty
    /\ pc[r] = "run" /\ schema # version.v - 1 => torn \/ rewound
    /\ pc[r] = "finish" => schema = version.v
    /\ pc[r] \in {"bootstrap", "seed", "serving"} => schema = Latest
    /\ pc[r] = "seed" => BootstrapEmail # Null
    /\ job[r] # Null => pc[r] = "serving"

SeededInv ==
    \A r \in Replicas :
        pc[r] = "serving" /\ BootstrapEmail # Null /\ r \notin unseeded =>
            Admins # {} \/ Taken(BootstrapEmail)

(* The inductive invariant. *)
IInv ==
    /\ TypeOK
    /\ LockInv
    /\ VersionInv
    /\ \A r \in Replicas : PhaseInv(r)
    /\ SeededInv
    /\ DirtyExplained

----------------------------------------------------------------------------
(* No process runs at first and no version is recorded. *)
LEMMA InitIInv == Init => IInv
<1> SUFFICES ASSUME Init PROVE IInv
  OBVIOUS
<1>1. TypeOK
  <2>1. torn \in BOOLEAN /\ rewound \in BOOLEAN
    BY Zenon DEF Init
  <2> QED
    BY <2>1, LatestAssumption DEF Init, TypeOK
<1>2. LockInv
  BY NullAssumption DEF Init, LockInv, Migrating
<1>3. VersionInv /\ SeededInv /\ DirtyExplained
  BY DEF Init, VersionInv, SeededInv, DirtyExplained
<1>4. \A r \in Replicas : PhaseInv(r)
  BY DEF Init, PhaseInv
<1> QED
  BY <1>1, <1>2, <1>3, <1>4 DEF IInv

(* Types of the values the steps compute with. *)
LEMMA VersionFacts ==
  ASSUME TypeOK
  PROVE  /\ schema \in Nat /\ schema <= Latest /\ Latest \in Nat /\ Latest >= 1
         /\ version # Null => /\ version.v \in Nat /\ version.v >= 1
                              /\ version.v <= Latest
                              /\ version.dirty \in BOOLEAN
                              /\ version = [v |-> version.v, dirty |-> version.dirty]
         /\ Null \notin Replicas
  BY LatestAssumption, NullAssumption DEF TypeOK

(* A recorded version is not Null. *)
LEMMA RecordedNotNull ==
  ASSUME NEW n \in Nat, NEW b \in BOOLEAN PROVE [v |-> n, dirty |-> b] # Null
  BY NullAssumption

(* Steps that leave the migrations and the accounts alone. *)
LEMMA GotoIInv ==
  ASSUME IInv, NEW r \in Replicas, UNCHANGED <<migrateVars, accountVars>>,
         NEW to \in {"down", "version", "table", "force", "up"}, Goto(r, to),
         pc[r] \notin Migrating \cup {"serving"},
         to = "force" => schema >= 1,
         to = "up" /\ version = Null => schema = 0
  PROVE  IInv'
<1> USE DEF IInv, Goto, migrateVars, accountVars
<1>1. /\ pc' \in [Replicas -> PCs]
      /\ pc'[r] = to /\ \A s \in Replicas \ {r} : pc'[s] = pc[s]
  BY DEF TypeOK, PCs
<1>2. TypeOK'
  BY <1>1 DEF TypeOK, PCs
<1>3. LockInv'
  BY <1>1 DEF LockInv, Migrating
<1>4. VersionInv' /\ DirtyExplained'
  BY DEF VersionInv, DirtyExplained
<1>5. ASSUME NEW s \in Replicas PROVE PhaseInv(s)'
  BY <1>1 DEF PhaseInv
<1>6. SeededInv'
  BY <1>1 DEF SeededInv, Admins, Taken
<1> QED
  BY <1>2, <1>3, <1>4, <1>5, <1>6

(* Force: the version goes to 1 while nobody migrates. *)
LEMMA ForceIInv ==
  ASSUME IInv, NEW r \in Replicas, ForceVersion(r) PROVE IInv'
<1>1. /\ rewound' \in BOOLEAN /\ version'.dirty = FALSE
      /\ rewound \/ (version # Null /\ version.v > 1) => rewound'
  BY Zenon DEF ForceVersion, Adopted
<1>2. version' # Null
  BY Zenon, RecordedNotNull, 1 \in Nat, FALSE \in BOOLEAN DEF ForceVersion, Adopted
<1> USE DEF IInv, ForceVersion, Goto, Adopted
<1>3. /\ pc' \in [Replicas -> PCs]
      /\ pc'[r] = "up" /\ \A s \in Replicas \ {r} : pc'[s] = pc[s]
      /\ version'.v = 1 /\ schema >= 1 /\ schema' = schema
  BY DEF TypeOK, PCs, PhaseInv
<1>4. TypeOK'
  BY <1>1, <1>3, LatestAssumption DEF TypeOK, PCs, accountVars
<1>5. \A s \in Replicas : pc[s] \notin Migrating
  BY VersionFacts DEF LockInv
<1>6. LockInv'
  BY <1>3, <1>5 DEF LockInv, Migrating
<1>7. VersionInv' /\ DirtyExplained'
  BY <1>1, <1>2, <1>3, VersionFacts DEF VersionInv, DirtyExplained
<1>8. ASSUME NEW s \in Replicas PROVE PhaseInv(s)'
  BY <1>1, <1>2, <1>3, <1>5 DEF PhaseInv, Migrating, accountVars
<1>9. SeededInv'
  BY <1>3 DEF SeededInv, Admins, Taken, accountVars
<1> QED
  BY <1>4, <1>6, <1>7, <1>8, <1>9

(* Up: refuses a dirty version, finds nothing to do, or takes the lock. *)
LEMMA UpIInv ==
  ASSUME IInv, NEW r \in Replicas, Up(r) PROVE IInv'
<1> USE DEF IInv, Goto
<1>1. CASE Goto(r, "down") /\ UNCHANGED lock
  <2>1. UNCHANGED <<migrateVars, accountVars>> /\ pc[r] \notin Migrating \cup {"serving"}
    BY <1>1 DEF Up, migrateVars, Migrating
  <2> QED
    BY <1>1, <2>1, GotoIInv
<1>2. CASE Goto(r, "bootstrap") /\ UNCHANGED lock
  <2>1. /\ UNCHANGED <<migrateVars, accountVars>> /\ pc[r] = "up"
        /\ pc' \in [Replicas -> PCs]
        /\ pc'[r] = "bootstrap" /\ \A s \in Replicas \ {r} : pc'[s] = pc[s]
    BY <1>2 DEF Up, migrateVars, Migrating, TypeOK, PCs
  <2>2. schema = Latest
    BY <1>2, VersionFacts DEF Up, VersionInv, TypeOK
  <2>3. TypeOK'
    BY <2>1 DEF TypeOK, PCs, migrateVars, accountVars
  <2>4. LockInv'
    BY <2>1 DEF LockInv, Migrating, migrateVars
  <2>5. VersionInv' /\ DirtyExplained'
    BY <2>1 DEF VersionInv, DirtyExplained, migrateVars
  <2>6. ASSUME NEW s \in Replicas PROVE PhaseInv(s)'
    BY <2>1, <2>2 DEF PhaseInv, migrateVars, accountVars
  <2>7. SeededInv'
    BY <2>1 DEF SeededInv, Admins, Taken, accountVars
  <2> QED
    BY <2>3, <2>4, <2>5, <2>6, <2>7
<1>3. CASE lock' = r /\ Goto(r, "begin")
  <2>1. /\ UNCHANGED <<schema, version, torn, rewound, accountVars>>
        /\ pc[r] = "up" /\ lock = Null
        /\ version # Null => ~version.dirty /\ version.v # Latest
        /\ pc' \in [Replicas -> PCs]
        /\ pc'[r] = "begin" /\ \A s \in Replicas \ {r} : pc'[s] = pc[s]
    BY <1>3 DEF Up, TypeOK, PCs
  <2>2. \A s \in Replicas : pc[s] \notin Migrating
    BY <2>1, VersionFacts DEF LockInv
  <2>3. TypeOK'
    BY <1>3, <2>1 DEF TypeOK, PCs, accountVars
  <2>4. LockInv'
    BY <1>3, <2>1, <2>2 DEF LockInv, Migrating
  <2>5. VersionInv' /\ DirtyExplained'
    BY <1>3, <2>1, VersionFacts DEF VersionInv, DirtyExplained
  <2>6. ASSUME NEW s \in Replicas PROVE PhaseInv(s)'
    BY <2>1, VersionFacts DEF PhaseInv, accountVars
  <2>7. SeededInv'
    BY <2>1 DEF SeededInv, Admins, Taken, accountVars
  <2> QED
    BY <2>3, <2>4, <2>5, <2>6, <2>7
<1> QED
  BY <1>1, <1>2, <1>3 DEF Up

(* The next version is recorded as dirty. *)
LEMMA BeginIInv ==
  ASSUME IInv, NEW r \in Replicas, BeginMigration(r) PROVE IInv'
<1> DEFINE n == IF version = Null THEN 1 ELSE version.v + 1
<1>1. n \in Nat /\ n \in 1..Latest /\ pc[r] = "begin" /\ lock = r
  BY VersionFacts DEF IInv, BeginMigration, PhaseInv, LockInv, Migrating
<1>2. version' = [v |-> n, dirty |-> TRUE] /\ version'.dirty = TRUE
  BY Zenon DEF BeginMigration
<1>3. version' # Null
  BY Zenon, <1>1, <1>2, RecordedNotNull, TRUE \in BOOLEAN
<1>4. version'.v = n
  BY <1>2
<1> HIDE DEF n
<1> USE DEF IInv, BeginMigration, Goto
<1>5. /\ UNCHANGED <<schema, lock, torn, rewound, accountVars>>
      /\ pc' \in [Replicas -> PCs]
      /\ pc'[r] = "run" /\ \A s \in Replicas \ {r} : pc'[s] = pc[s]
  BY DEF TypeOK, PCs
<1>6. \A s \in Replicas \ {r} : pc[s] \notin Migrating
  BY <1>1 DEF LockInv
<1>7. TypeOK'
  BY <1>1, <1>2, <1>5 DEF TypeOK, PCs, accountVars
<1>8. LockInv'
  BY <1>1, <1>5, <1>6 DEF LockInv, Migrating
<1>9. schema >= n - 1 /\ (schema # n - 1 => torn \/ rewound)
  BY <1>1, VersionFacts DEF n, VersionInv, PhaseInv
<1>10. VersionInv' /\ DirtyExplained'
  BY <1>1, <1>2, <1>3, <1>4, <1>5, <1>9, VersionFacts DEF VersionInv, DirtyExplained
<1>11. ASSUME NEW s \in Replicas PROVE PhaseInv(s)'
  BY <1>2, <1>3, <1>4, <1>5, <1>6, <1>9 DEF PhaseInv, Migrating, accountVars
<1>12. SeededInv'
  BY <1>5 DEF SeededInv, Admins, Taken, accountVars
<1> QED
  BY <1>7, <1>8, <1>10, <1>11, <1>12

(* The migration's transaction is committed, or fails on what exists. *)
LEMMA RunIInv ==
  ASSUME IInv, NEW r \in Replicas, RunMigration(r) PROVE IInv'
<1> USE DEF IInv, Goto
<1>1. /\ UNCHANGED <<version, torn, rewound, accountVars>>
      /\ pc[r] = "run" /\ lock = r /\ version # Null /\ version.dirty
      /\ \A s \in Replicas \ {r} : pc[s] \notin Migrating
  BY DEF RunMigration, LockInv, PhaseInv, Migrating
<1>2. CASE schema = version.v - 1
  <2>1. /\ schema' = version.v /\ UNCHANGED lock
        /\ pc' \in [Replicas -> PCs]
        /\ pc'[r] = "finish" /\ \A s \in Replicas \ {r} : pc'[s] = pc[s]
    BY <1>2 DEF RunMigration, TypeOK, PCs
  <2>2. TypeOK'
    BY <1>1, <2>1, VersionFacts DEF TypeOK, PCs, accountVars
  <2>3. LockInv'
    BY <1>1, <2>1 DEF LockInv, Migrating
  <2>4. VersionInv' /\ DirtyExplained'
    BY <1>1, <2>1, VersionFacts DEF VersionInv, DirtyExplained
  <2>5. ASSUME NEW s \in Replicas PROVE PhaseInv(s)'
    BY <1>1, <1>2, <2>1, VersionFacts DEF PhaseInv, Migrating, accountVars
  <2>6. SeededInv'
    BY <1>1, <2>1 DEF SeededInv, Admins, Taken, accountVars
  <2> QED
    BY <2>2, <2>3, <2>4, <2>5, <2>6
<1>3. CASE schema # version.v - 1
  <2>1. /\ lock' = Null /\ UNCHANGED schema
        /\ pc' \in [Replicas -> PCs]
        /\ pc'[r] = "down" /\ \A s \in Replicas \ {r} : pc'[s] = pc[s]
    BY <1>3 DEF RunMigration, TypeOK, PCs
  <2>2. TypeOK'
    BY <1>1, <2>1 DEF TypeOK, PCs, accountVars
  <2>3. LockInv'
    BY <1>1, <2>1, VersionFacts DEF LockInv, Migrating
  <2>4. VersionInv' /\ DirtyExplained'
    BY <1>1, <1>3, <2>1 DEF VersionInv, DirtyExplained, PhaseInv
  <2>5. ASSUME NEW s \in Replicas PROVE PhaseInv(s)'
    BY <1>1, <2>1 DEF PhaseInv, accountVars
  <2>6. SeededInv'
    BY <1>1, <2>1 DEF SeededInv, Admins, Taken, accountVars
  <2> QED
    BY <2>2, <2>3, <2>4, <2>5, <2>6
<1> QED
  BY <1>2, <1>3

(* The version is clean again; more migrations follow, or main goes on. *)
LEMMA FinishIInv ==
  ASSUME IInv, NEW r \in Replicas, FinishMigration(r) PROVE IInv'
<1>1. /\ UNCHANGED <<schema, torn, rewound, accountVars>>
      /\ pc[r] = "finish" /\ lock = r /\ version # Null /\ schema = version.v
      /\ \A s \in Replicas \ {r} : pc[s] \notin Migrating
  BY DEF FinishMigration, LockInv, PhaseInv, Migrating, IInv
<1>2. version' = [v |-> version.v, dirty |-> FALSE]
  <2>1. version = [v |-> version.v, dirty |-> version.dirty]
    BY <1>1, VersionFacts DEF IInv
  <2>2. version' = [version EXCEPT !.dirty = FALSE]
    BY DEF FinishMigration
  <2> QED
    BY <2>1, <2>2
<1>3. version'.v = version.v /\ version.v \in 1..Latest /\ version.v \in Nat
  BY <1>1, <1>2, VersionFacts DEF IInv
<1>4. version'.dirty = FALSE
  BY Zenon, <1>2
<1>5. version' # Null
  BY Zenon, <1>2, <1>3, RecordedNotNull, FALSE \in BOOLEAN
<1> USE DEF IInv, Goto
<1>6. /\ pc' \in [Replicas -> PCs]
      /\ \A s \in Replicas \ {r} : pc'[s] = pc[s]
      /\ \/ pc'[r] = "bootstrap" /\ lock' = Null /\ version.v = Latest
         \/ pc'[r] = "begin" /\ lock' = lock /\ version.v # Latest
  BY DEF FinishMigration, TypeOK, PCs
<1>7. TypeOK'
  BY <1>1, <1>2, <1>3, <1>6 DEF TypeOK, PCs, accountVars
<1>8. LockInv'
  BY <1>1, <1>6, VersionFacts DEF LockInv, Migrating
<1>9. VersionInv' /\ DirtyExplained'
  BY <1>1, <1>3, <1>4, <1>5 DEF VersionInv, DirtyExplained
<1>10. ASSUME NEW s \in Replicas PROVE PhaseInv(s)'
  BY <1>1, <1>3, <1>4, <1>5, <1>6, VersionFacts DEF PhaseInv, Migrating, accountVars
<1>11. SeededInv'
  BY <1>1, <1>6 DEF SeededInv, Admins, Taken, accountVars
<1> QED
  BY <1>7, <1>8, <1>9, <1>10, <1>11

(* Steps of a replica whose migrations are done, and of its handlers: they *)
(* only add accounts.                                                      *)
LEMMA AccountIInv ==
  ASSUME IInv, NEW r \in Replicas, UNCHANGED migrateVars,
         pc[r] \in {"bootstrap", "seed", "serving"}, Goto(r, pc'[r]),
         pc'[r] \in {"seed", "serving"},
         pc'[r] = "seed" => BootstrapEmail # Null,
         users \subseteq users', users' \subseteq Account,
         job' \in [Replicas -> Account \cup {Null}],
         \A s \in Replicas : job'[s] # Null => pc'[s] = "serving",
         unseeded \subseteq unseeded', unseeded' \subseteq unseeded \cup {r},
         pc[r] # "serving" /\ pc'[r] = "serving" /\ BootstrapEmail # Null
            /\ r \notin unseeded' => Admins' # {} \/ Taken(BootstrapEmail)'
  PROVE  IInv'
<1> USE DEF IInv, Goto, migrateVars
<1>1. /\ pc' \in [Replicas -> PCs]
      /\ \A s \in Replicas \ {r} : pc'[s] = pc[s]
  BY DEF TypeOK, PCs
<1>2. TypeOK'
  BY <1>1 DEF TypeOK, PCs
<1>3. LockInv'
  BY <1>1 DEF LockInv, Migrating
<1>4. VersionInv' /\ DirtyExplained'
  BY DEF VersionInv, DirtyExplained
<1>5. ASSUME NEW s \in Replicas PROVE PhaseInv(s)'
  BY <1>1 DEF PhaseInv
<1>6. SeededInv'
  <2>1. Admins \subseteq Admins' /\ (Taken(BootstrapEmail) => Taken(BootstrapEmail)')
    BY DEF Admins, Taken
  <2> QED
    BY <1>1, <2>1 DEF SeededInv
<1> QED
  BY <1>2, <1>3, <1>4, <1>5, <1>6

(* An INSERT adds the account or leaves the table as it was; the e-mail is *)
(* taken in both cases.                                                    *)
LEMMA InsertedFacts ==
  ASSUME NEW a \in Account, users \subseteq Account
  PROVE  /\ users \subseteq Inserted(a) /\ Inserted(a) \subseteq Account
         /\ \E u \in Inserted(a) : u.email = a.email
  BY DEF Inserted, Taken, Account

(* bootstrapAdmin. *)
LEMMA BootstrapIInv ==
  ASSUME IInv, NEW r \in Replicas, FindAdmins(r) \/ SeedAdmin(r) PROVE IInv'
<1>1. CASE FindAdmins(r)
  <2>1. /\ UNCHANGED <<migrateVars, users, job>> /\ pc[r] = "bootstrap"
        /\ Goto(r, pc'[r]) /\ pc'[r] \in {"seed", "serving"}
        /\ unseeded \subseteq unseeded' /\ unseeded' \subseteq unseeded \cup {r}
        /\ pc'[r] = "seed" => BootstrapEmail # Null
        /\ pc'[r] = "serving" /\ BootstrapEmail # Null /\ r \notin unseeded' => Admins # {}
    BY <1>1 DEF FindAdmins, AlreadySeeded, Goto, IInv, TypeOK
  <2>2. /\ users' \subseteq Account /\ job' \in [Replicas -> Account \cup {Null}]
        /\ \A s \in Replicas : job'[s] # Null => pc'[s] = "serving"
    BY <2>1 DEF IInv, TypeOK, PhaseInv, Goto
  <2>3. Admins' = Admins
    BY <2>1 DEF Admins
  <2> QED
    BY <2>1, <2>2, <2>3, AccountIInv
<1>2. CASE SeedAdmin(r)
  <2> DEFINE a == [email |-> BootstrapEmail, role |-> "admin"]
  <2>1. /\ UNCHANGED <<migrateVars, job>> /\ pc[r] = "seed"
        /\ Goto(r, pc'[r]) /\ pc'[r] = "serving"
        /\ unseeded \subseteq unseeded' /\ unseeded' \subseteq unseeded \cup {r}
        /\ \/ users' = Inserted(a)
           \/ users' = users /\ r \in unseeded'
        /\ users \subseteq Account /\ job \in [Replicas -> Account \cup {Null}]
        /\ \A s \in Replicas : job'[s] # Null => pc'[s] = "serving"
    BY <1>2 DEF SeedAdmin, Goto, IInv, TypeOK, PhaseInv
  <2>2. BootstrapEmail # Null
    BY <2>1 DEF IInv, PhaseInv
  <2>3. a \in Account
    BY <2>2, BootstrapAssumption DEF Account, Roles
  <2>4. /\ users \subseteq users' /\ users' \subseteq Account
        /\ r \notin unseeded' => Taken(BootstrapEmail)'
    BY <2>1, <2>3, InsertedFacts DEF Taken
  <2> QED
    BY <2>1, <2>2, <2>4, AccountIInv
<1> QED
  BY <1>1, <1>2

(* The handlers of Register and CreateStaff. *)
LEMMA RequestIInv ==
  ASSUME IInv, NEW r \in Replicas, Request(r) PROVE IInv'
<1>1. /\ UNCHANGED <<migrateVars, pc, unseeded>> /\ pc[r] = "serving"
      /\ \A s \in Replicas \ {r} : job'[s] = job[s]
      /\ users \subseteq users' /\ users' \subseteq Account
      /\ job' \in [Replicas -> Account \cup {Null}]
  <2>1. ASSUME NEW email \in Emails, NEW role \in Roles, Lookup(r, email, role)
        PROVE  <1>1!:
    BY <2>1 DEF Lookup, IInv, TypeOK, Account
  <2>2. CASE CreateUser(r)
    <3>1. job[r] \in Account /\ users \subseteq Account
      BY <2>2 DEF CreateUser, IInv, TypeOK
    <3> QED
      BY <2>2, <3>1, InsertedFacts DEF CreateUser, IInv, TypeOK, PhaseInv
  <2>3. "user" \in Roles
    BY DEF Roles
  <2> QED
    BY <2>1, <2>2, <2>3 DEF Request, Register, CreateStaff
<1>2. /\ Goto(r, pc'[r]) /\ pc'[r] = "serving"
      /\ \A s \in Replicas : job'[s] # Null => pc'[s] = "serving"
  BY <1>1 DEF Goto, IInv, TypeOK, PhaseInv
<1> QED
  BY <1>1, <1>2, AccountIInv

(* A process that dies gives the lock back and leaves the version as it    *)
(* is.                                                                     *)
LEMMA StopIInv ==
  ASSUME IInv, NEW r \in Replicas, Stop(r) PROVE IInv'
<1>1. torn' \in BOOLEAN /\ (torn \/ pc[r] \in {"run", "finish"} => torn')
  BY Zenon DEF Stop
<1> USE DEF IInv, Stop, Goto
<1>2. /\ pc' \in [Replicas -> PCs] /\ UNCHANGED <<schema, version, rewound, users>>
      /\ pc'[r] = "down" /\ \A s \in Replicas \ {r} : pc'[s] = pc[s]
      /\ lock' = IF lock = r THEN Null ELSE lock
      /\ unseeded' = unseeded \ {r}
      /\ job'[r] = Null /\ \A s \in Replicas \ {r} : job'[s] = job[s]
  BY DEF TypeOK, PCs
<1>3. TypeOK'
  BY <1>1, <1>2 DEF TypeOK, PCs
<1>4. LockInv'
  BY <1>2, VersionFacts DEF LockInv, Migrating
<1>5. VersionInv'
  BY <1>1, <1>2 DEF VersionInv
<1>6. DirtyExplained'
  BY <1>1, <1>2, VersionFacts DEF DirtyExplained, LockInv, PhaseInv, Migrating
<1>7. ASSUME NEW s \in Replicas PROVE PhaseInv(s)'
  BY <1>1, <1>2 DEF PhaseInv
<1>8. SeededInv'
  BY <1>2 DEF SeededInv, Admins, Taken
<1> QED
  BY <1>3, <1>4, <1>5, <1>6, <1>7, <1>8

(* Every step preserves the invariant. *)
LEMMA NextIInv == IInv /\ [Next]_vars => IInv'
<1> SUFFICES ASSUME IInv, [Next]_vars PROVE IInv'
  OBVIOUS
<1>1. ASSUME NEW r \in Replicas, Start(r) \/ ReadVersion(r) \/ CheckTable(r) PROVE IInv'
  <2>1. /\ UNCHANGED <<migrateVars, accountVars>>
        /\ pc[r] \notin Migrating \cup {"serving"}
        /\ \E to \in {"down", "version", "table", "force", "up"} :
              /\ Goto(r, to)
              /\ to = "force" => schema >= 1
              /\ to = "up" /\ version = Null => schema = 0
    BY <1>1, VersionFacts
       DEF Start, ReadVersion, CheckTable, TableExists, Migrating, IInv
  <2> QED
    BY <2>1, GotoIInv
<1>2. CASE UNCHANGED vars
  BY <1>2 DEF vars, migrateVars, accountVars, IInv, TypeOK, LockInv, VersionInv, PhaseInv,
              SeededInv, DirtyExplained, Admins, Taken
<1> QED
  BY <1>1, <1>2, ForceIInv, UpIInv, BeginIInv, RunIInv, FinishIInv, BootstrapIInv,
     RequestIInv, StopIInv DEF Next, Migrate

(* The inductive invariant holds in every reachable state. *)
LEMMA InvariantHolds == Spec => []IInv
  BY InitIInv, NextIInv, PTL DEF Spec

(* Start-up keeps to the types of its state. *)
THEOREM TypeCorrect == Spec => []TypeOK
<1>1. IInv => TypeOK
  BY DEF IInv
<1> QED
  BY <1>1, InvariantHolds, PTL

(* However many replicas start, stop and crash together, one that serves   *)
(* has the whole schema and, unless its bootstrapAdmin failed, an          *)
(* administrator or an account under the administrator's e-mail.           *)
THEOREM ServingReplicasAreReady == Spec => []ReadyToServe
<1>1. IInv => ReadyToServe
  BY DEF IInv, ReadyToServe, PhaseInv, SeededInv
<1> QED
  BY <1>1, InvariantHolds, PTL

(* A dirty version nobody is working on comes from a replica that died in  *)
(* a migration or from one that forced back a version it had not seen.     *)
THEOREM DirtyVersionsExplained == Spec => []DirtyExplained
<1>1. IInv => DirtyExplained
  BY DEF IInv
<1> QED
  BY <1>1, InvariantHolds, PTL
=============================================================================
