-------------------------- MODULE SchemaMigration --------------------------
(***************************************************************************)
(* internal/storage/postgres/migrations.go as cmd/migrate and cmd/server   *)
(* run it: processes built from different revisions share one database.    *)
(* cmd/migrate calls Migrate and then VerifySchema; cmd/server calls       *)
(* VerifySchema and then serves.  Each call works under a session advisory *)
(* lock on a connection of the process's pool.                             *)
(*                                                                         *)
(* A process and its PostgreSQL session fail separately.  A session whose  *)
(* process crashed, gave up or destroyed the connection is an orphan: it   *)
(* keeps the advisory lock, may be granted it late, and may still commit,  *)
(* until PostgreSQL ends it.                                               *)
(*                                                                         *)
(* PostgreSQL is not in the repository.  What is assumed of it: DDL is     *)
(* transactional, a session advisory lock is exclusive and lives until it  *)
(* is released or the session ends, and a dead client is noticed.          *)
(***************************************************************************)
EXTENDS Integers, FiniteSets

CONSTANTS
    Servers,       \* processes running cmd/server
    Migrators,     \* processes running cmd/migrate
    File,          \* migration files, records [version, text]
    Embedded,      \* [Procs -> SUBSET File]: what each binary carries
    Sessions,      \* PostgreSQL sessions that may exist at the same time
    NoSession, NoFile,   \* model values
    MaxRuns        \* bound: how often a process is started

Procs == Servers \cup Migrators

ASSUME ProcAssumption == Servers \cap Migrators = {}

ASSUME FileAssumption ==
    /\ \A f \in File : f.version \in Nat \ {0}
    /\ NoFile \notin File

(* readMigrations refuses an empty set and two files of one version. *)
ASSUME EmbeddedAssumption ==
    /\ Embedded \in [Procs -> (SUBSET File) \ {{}}]
    /\ \A p \in Procs : \A f, g \in Embedded[p] : f.version = g.version => f = g

ASSUME SessionAssumption == NoSession \notin Sessions /\ MaxRuns \in Nat

VARIABLES
    hasLedger,     \* BOOLEAN: table a2a_schema_migrations exists
    ledger,        \* SUBSET File: its committed rows, DDL included
    lock,          \* Sessions or NoSession: holder of the advisory lock
    sess,          \* [Sessions -> SessState]
    pending,       \* [Sessions -> File or NoFile]: migration being committed
    session,       \* [Procs -> Sessions or NoSession]: connection in use
    pc,            \* [Procs -> Place]
    stage,         \* [Procs -> {"migrate", "verify"}]: which call is running
    applied,       \* [Procs -> SUBSET File]: what loadAppliedMigrations read
    todo,          \* [Procs -> SUBSET File]: what the loop has yet to apply
    failed,        \* [Procs -> BOOLEAN]: resultErr # nil
    runs           \* [Procs -> 0..MaxRuns]: how often it was started

db == <<hasLedger, ledger, lock, sess, pending>>
proc == <<session, pc, stage, applied, todo, failed, runs>>
vars == <<hasLedger, ledger, lock, sess, pending,
          session, pc, stage, applied, todo, failed, runs>>

(* none: no backend; queued: waiting in pg_advisory_lock; tx: COMMIT sent. *)
SessState == {"none", "idle", "queued", "tx"}

Place == {"out", "lock", "ledger", "load", "apply", "commit", "unlock", "serve"}

(* A migration is in flight exactly in an open transaction. *)
TypeOK ==
    /\ hasLedger \in BOOLEAN
    /\ ledger \in SUBSET File
    /\ lock \in Sessions \cup {NoSession}
    /\ sess \in [Sessions -> SessState]
    /\ pending \in [Sessions -> File \cup {NoFile}]
    /\ \A s \in Sessions : (pending[s] # NoFile) <=> (sess[s] = "tx")
    /\ session \in [Procs -> Sessions \cup {NoSession}]
    /\ pc \in [Procs -> Place]
    /\ stage \in [Procs -> {"migrate", "verify"}]
    /\ applied \in [Procs -> SUBSET File]
    /\ todo \in [Procs -> SUBSET File]
    /\ failed \in [Procs -> BOOLEAN]
    /\ runs \in [Procs -> 0..MaxRuns]

Init ==
    /\ hasLedger = FALSE /\ ledger = {}
    /\ lock = NoSession
    /\ sess = [s \in Sessions |-> "none"]
    /\ pending = [s \in Sessions |-> NoFile]
    /\ session = [p \in Procs |-> NoSession]
    /\ pc = [p \in Procs |-> "out"]
    /\ stage = [p \in Procs |-> "verify"]
    /\ applied = [p \in Procs |-> {}]
    /\ todo = [p \in Procs |-> {}]
    /\ failed = [p \in Procs |-> FALSE]
    /\ runs = [p \in Procs |-> 0]

-----------------------------------------------------------------------------
(* verifyMigrationSet, as a predicate on two sets of files. *)

VersionsOf(files) == {f.version : f \in files}

(* Mutant: recorded names and checksums are not compared. *)
SameVersionsOnly(embedded, recorded) == VersionsOf(recorded) \subseteq VersionsOf(embedded)

(* No recorded migration is unknown, renamed or edited. *)
Recognised(embedded, recorded) == recorded \subseteq embedded

(* Mutant: the gap check is dropped. *)
NoGapCheck(embedded, recorded) == FALSE

(* An embedded migration is missing below one that is recorded. *)
Gap(embedded, recorded) ==
    \E f \in embedded, g \in recorded :
       f.version \notin VersionsOf(recorded) /\ f.version <= g.version

Unapplied(embedded, recorded) ==
    {f \in embedded : f.version \notin VersionsOf(recorded)}

(* Mutant: VerifySchema tolerates pending migrations too. *)
VerifiedLoosely(embedded, recorded, allowPending) ==
    Recognised(embedded, recorded) /\ ~Gap(embedded, recorded)

Verified(embedded, recorded, allowPending) ==
    /\ Recognised(embedded, recorded)
    /\ ~Gap(embedded, recorded)
    /\ allowPending \/ Unapplied(embedded, recorded) = {}

(* Mutant: the files are applied in the order they are found in. *)
IsAny(f, files) == f \in files

(* readMigrations sorts by version: the loop meets the least one first. *)
IsLeast(f, files) == f \in files /\ \A g \in files : f.version <= g.version

-----------------------------------------------------------------------------
(* Sessions. *)

Orphan(s) == sess[s] # "none" /\ \A p \in Procs : session[p] # s

(* The process lets go of its connection: Hijack and Close, or a dead link. *)
Detach(p) == session' = [session EXCEPT ![p] = NoSession]

(* The session ends: its transaction is rolled back and its lock is freed. *)
End(s) ==
    /\ sess' = [sess EXCEPT ![s] = "none"]
    /\ pending' = [pending EXCEPT ![s] = NoFile]
    /\ lock' = IF lock = s THEN NoSession ELSE lock

(* Mutant: pg_advisory_lock_shared. *)
GrantShared(s) ==
    /\ sess[s] = "queued"
    /\ lock' = s
    /\ sess' = [sess EXCEPT ![s] = "idle"]
    /\ UNCHANGED <<hasLedger, ledger, pending, proc>>

(* pg_advisory_lock returns in the backend, whoever still listens. *)
Grant(s) ==
    /\ sess[s] = "queued"
    /\ lock = NoSession
    /\ lock' = s
    /\ sess' = [sess EXCEPT ![s] = "idle"]
    /\ UNCHANGED <<hasLedger, ledger, pending, proc>>

(* PostgreSQL notices that the client of a session is gone. *)
EndOrphan(s) ==
    /\ Orphan(s)
    /\ End(s)
    /\ UNCHANGED <<hasLedger, ledger, proc>>

-----------------------------------------------------------------------------
(* The processes. *)

(* A process is started; its pool opens a session and asks for the lock. *)
Start(p, s) ==
    /\ pc[p] = "out"
    /\ runs[p] < MaxRuns
    /\ sess[s] = "none"
    /\ sess' = [sess EXCEPT ![s] = "queued"]
    /\ session' = [session EXCEPT ![p] = s]
    /\ pc' = [pc EXCEPT ![p] = "lock"]
    /\ stage' = [stage EXCEPT ![p] = IF p \in Migrators THEN "migrate" ELSE "verify"]
    /\ failed' = [failed EXCEPT ![p] = FALSE]
    /\ runs' = [runs EXCEPT ![p] = @ + 1]
    /\ UNCHANGED <<hasLedger, ledger, lock, pending, applied, todo>>

(* Exec("SELECT pg_advisory_lock") returns without error. *)
Enter(p) ==
    /\ pc[p] = "lock"
    /\ session[p] = lock
    /\ pc' = [pc EXCEPT ![p] = "ledger"]
    /\ UNCHANGED <<db, session, stage, applied, todo, failed, runs>>

(* It returns an error instead, perhaps after the lock was granted: the    *)
(* connection is destroyed and the process exits.                          *)
CancelLock(p) ==
    /\ pc[p] = "lock"
    /\ Detach(p)
    /\ pc' = [pc EXCEPT ![p] = "out"]
    /\ failed' = [failed EXCEPT ![p] = TRUE]
    /\ UNCHANGED <<db, stage, applied, todo, runs>>

(* A return with an error runs the deferred releaseMigrationLock. *)
Fail(p) ==
    /\ pc' = [pc EXCEPT ![p] = "unlock"]
    /\ failed' = [failed EXCEPT ![p] = TRUE]

(* Migrate creates the ledger; VerifySchema only looks for it. *)
OpenLedger(p) ==
    /\ pc[p] = "ledger"
    /\ session[p] # NoSession
    /\ IF stage[p] = "migrate" \/ hasLedger
       THEN pc' = [pc EXCEPT ![p] = "load"] /\ UNCHANGED failed
       ELSE Fail(p)
    /\ hasLedger' = (hasLedger \/ stage[p] = "migrate")
    /\ UNCHANGED <<ledger, lock, sess, pending, session, stage, applied, todo, runs>>

(* loadAppliedMigrations and verifyMigrationSet; Migrate goes on to what   *)
(* is pending, VerifySchema is done.                                       *)
Load(p) ==
    /\ pc[p] = "load"
    /\ session[p] # NoSession
    /\ applied' = [applied EXCEPT ![p] = ledger]
    /\ IF Verified(Embedded[p], ledger, stage[p] = "migrate")
       THEN /\ todo' = [todo EXCEPT ![p] = Unapplied(Embedded[p], ledger)]
            /\ pc' = [pc EXCEPT ![p] = IF stage[p] = "migrate" THEN "apply" ELSE "unlock"]
            /\ UNCHANGED failed
       ELSE Fail(p) /\ UNCHANGED todo
    /\ UNCHANGED <<db, session, stage, runs>>

(* applyMigration: the DDL, the ledger row, and COMMIT is sent.  A version *)
(* the schema already has makes the DDL or the INSERT fail.                *)
Apply(p) ==
    /\ pc[p] = "apply"
    /\ session[p] # NoSession
    /\ \E f \in todo[p] :
          /\ IsLeast(f, todo[p])
          /\ IF f.version \in VersionsOf(ledger)
             THEN Fail(p) /\ UNCHANGED <<sess, pending>>
             ELSE /\ pc' = [pc EXCEPT ![p] = "commit"]
                  /\ sess' = [sess EXCEPT ![session[p]] = "tx"]
                  /\ pending' = [pending EXCEPT ![session[p]] = f]
                  /\ UNCHANGED failed
    /\ UNCHANGED <<hasLedger, ledger, lock, session, stage, applied, todo, runs>>

(* The loop is over. *)
Finish(p) ==
    /\ pc[p] = "apply"
    /\ todo[p] = {}
    /\ pc' = [pc EXCEPT ![p] = "unlock"]
    /\ UNCHANGED <<db, session, stage, applied, todo, failed, runs>>

(* COMMIT becomes durable, whoever still listens. *)
Commit(s) ==
    /\ sess[s] = "tx"
    /\ ledger' = ledger \cup {pending[s]}
    /\ sess' = [sess EXCEPT ![s] = "idle"]
    /\ pending' = [pending EXCEPT ![s] = NoFile]
    /\ todo' = [p \in Procs |-> IF session[p] = s THEN todo[p] \ {pending[s]} ELSE todo[p]]
    /\ pc' = [p \in Procs |-> IF session[p] = s THEN "apply" ELSE pc[p]]
    /\ UNCHANGED <<hasLedger, lock, session, stage, applied, failed, runs>>

Critical == {"ledger", "load", "apply", "commit"}

(* Mutant: a failed migration is not rolled back before the return. *)
StatementFailsInTransaction(p) ==
    /\ pc[p] \in Critical
    /\ session[p] # NoSession
    /\ Fail(p)
    /\ sess' = [sess EXCEPT ![session[p]] = "idle"]
    /\ UNCHANGED <<hasLedger, ledger, lock, pending, session, stage, applied, todo, runs>>

(* A statement fails on a connection that stays usable; the transaction,   *)
(* if any, is rolled back.                                                 *)
StatementFails(p) ==
    /\ pc[p] \in Critical
    /\ session[p] # NoSession
    /\ Fail(p)
    /\ sess' = [sess EXCEPT ![session[p]] = "idle"]
    /\ pending' = [pending EXCEPT ![session[p]] = NoFile]
    /\ UNCHANGED <<hasLedger, ledger, lock, session, stage, applied, todo, runs>>

(* The context is cancelled or the link breaks: the session is orphaned in *)
(* the middle of whatever it was doing.                                    *)
ConnectionBreaks(p) ==
    /\ pc[p] \in Critical
    /\ session[p] # NoSession
    /\ Detach(p)
    /\ Fail(p)
    /\ UNCHANGED <<db, stage, applied, todo, runs>>

(* What a process does after its lock is released: cmd/migrate goes on to  *)
(* VerifySchema on the same pooled connection, the server serves, and a    *)
(* process that failed or is done closes its pool and exits.               *)
Unlock(p) ==
    /\ pc[p] = "unlock"
    /\ session[p] # NoSession
    /\ \/ /\ ~failed[p] /\ stage[p] = "migrate"
          /\ lock' = NoSession
          /\ sess' = [sess EXCEPT ![session[p]] = "queued"]
          /\ pc' = [pc EXCEPT ![p] = "lock"]
          /\ stage' = [stage EXCEPT ![p] = "verify"]
          /\ UNCHANGED <<pending, session>>
       \/ /\ ~failed[p] /\ stage[p] = "verify" /\ p \in Servers
          /\ lock' = NoSession
          /\ pc' = [pc EXCEPT ![p] = "serve"]
          /\ UNCHANGED <<sess, pending, stage, session>>
       \/ /\ failed[p] \/ (stage[p] = "verify" /\ p \in Migrators)
          /\ End(session[p])
          /\ Detach(p)
          /\ pc' = [pc EXCEPT ![p] = "out"]
          /\ UNCHANGED stage
    /\ UNCHANGED <<hasLedger, ledger, applied, todo, failed, runs>>

(* Mutant: when unlocking fails the connection goes back to the pool and   *)
(* the error is only logged.                                               *)
UnlockFailsQuietly(p) ==
    /\ pc[p] = "unlock"
    /\ IF failed[p] \/ session[p] = NoSession \/ p \in Migrators
       THEN Detach(p) /\ pc' = [pc EXCEPT ![p] = "out"]
       ELSE UNCHANGED session /\ pc' = [pc EXCEPT ![p] = "serve"]
    /\ failed' = [failed EXCEPT ![p] = TRUE]
    /\ UNCHANGED <<db, stage, applied, todo, runs>>

(* pg_advisory_unlock fails or times out, always so on a broken connection: *)
(* the connection is destroyed, and the call fails even if its work is done. *)
UnlockFails(p) ==
    /\ pc[p] = "unlock"
    /\ Detach(p)
    /\ pc' = [pc EXCEPT ![p] = "out"]
    /\ failed' = [failed EXCEPT ![p] = TRUE]
    /\ UNCHANGED <<db, stage, applied, todo, runs>>

(* A server is stopped: its pool closes the connection. *)
Stop(p) ==
    /\ pc[p] = "serve"
    /\ End(session[p])
    /\ Detach(p)
    /\ pc' = [pc EXCEPT ![p] = "out"]
    /\ UNCHANGED <<hasLedger, ledger, stage, applied, todo, failed, runs>>

(* A process dies anywhere. *)
Crash(p) ==
    /\ pc[p] # "out"
    /\ Detach(p)
    /\ pc' = [pc EXCEPT ![p] = "out"]
    /\ failed' = [failed EXCEPT ![p] = TRUE]
    /\ UNCHANGED <<db, stage, applied, todo, runs>>

-----------------------------------------------------------------------------
(* What a running process is obliged to do next. *)
Work(p) ==
    Enter(p) \/ OpenLedger(p) \/ Load(p) \/ Apply(p) \/ Finish(p) \/ Unlock(p) \/ UnlockFails(p)

Next ==
    \/ \E p \in Procs, s \in Sessions : Start(p, s)
    \/ \E p \in Procs :
          Work(p) \/ CancelLock(p) \/ StatementFails(p) \/ ConnectionBreaks(p)
                  \/ Stop(p) \/ Crash(p)
    \/ \E s \in Sessions : Grant(s) \/ Commit(s) \/ EndOrphan(s)

Spec == Init /\ [][Next]_vars

(* Processes run, PostgreSQL answers what it was sent, serves its lock     *)
(* queue in order and ends the sessions of dead clients.  No process is    *)
(* obliged to start, and nothing is obliged to fail.                       *)
Fairness ==
    /\ \A p \in Procs : WF_vars(Work(p))
    /\ \A s \in Sessions : SF_vars(Grant(s)) /\ WF_vars(Commit(s)) /\ WF_vars(EndOrphan(s))

FairSpec == Spec /\ Fairness

-----------------------------------------------------------------------------
(* The ledger a process read under the lock never goes stale in its hands: *)
(* what it is about to apply is not there yet, whoever crashed before with *)
(* a COMMIT in flight (migrations.go 86-101).                              *)
ApplyNeverConflicts ==
    \A p \in Procs :
       (pc[p] \in {"apply", "commit"} /\ session[p] # NoSession)
          => \A f \in todo[p] : f.version \notin VersionsOf(ledger)

(* Migrations are applied forward only: each commit adds a version above   *)
(* all that are recorded, across processes, revisions and crashes          *)
(* (migrations.go 94-101, 235-241).                                        *)
ForwardOnly ==
    [][\A f \in ledger' \ ledger : \A g \in ledger : g.version < f.version]_vars

(* When Migrate or VerifySchema succeeds, the schema is exactly the one    *)
(* the binary embeds, and it still is when the lock is given back, not     *)
(* merely when the ledger was read or its last migration was committed     *)
(* (migrations.go 94-142).                                                 *)
ApprovedIsExact ==
    \A p \in Procs :
       pc[p] = "unlock" /\ session[p] # NoSession /\ ~failed[p] => ledger = Embedded[p]

(* A server never serves on a schema that lacks one of its migrations or   *)
(* was built from another text of it (main.go 74-76).                      *)
ServesOnItsSchema == \A p \in Servers : pc[p] = "serve" => Embedded[p] \subseteq ledger

(* No process walks away with the lock: its holder is in the middle of     *)
(* Migrate or VerifySchema, or is a dead session about to end.  A server   *)
(* that serves never blocks the next migration (migrations.go 66-74,       *)
(* 268-289).                                                               *)
NoLockLeak ==
    \A p \in Procs :
       (session[p] # NoSession /\ session[p] = lock) => pc[p] \notin {"out", "serve"}

(* What a process has achieved, seen from outside. *)
Achieved ==
    [p \in Procs |->
        IF pc[p] = "serve" THEN "serving"
        ELSE IF p \in Migrators /\ pc[p] # "out" /\ stage[p] = "verify" THEN "migrated"
        ELSE IF p \in Migrators /\ pc[p] = "out" /\ ~failed[p] /\ runs[p] > 0 THEN "done"
        ELSE "none"]

Promise == INSTANCE SchemaLedger WITH
    Processes <- Procs, recorded <- ledger, outcome <- Achieved

(* Processes of any revisions, with crashes, broken connections and late   *)
(* commits, keep the promise: the COMMIT records the next migration of one *)
(* revision, orphan or not, and releasing the lock is where a call         *)
(* succeeds, on the very schema its binary embeds (migrations.go 53-142,   *)
(* cmd/migrate/main.go 25-46, cmd/server/main.go 73-76).                   *)
ImplementsLedger == Promise!Spec

(* Every start of a process comes to an end: it serves or it exits. *)
NobodyHangs ==
    \A p \in Procs : pc[p] \notin {"out", "serve"} ~> pc[p] \in {"out", "serve"}

=============================================================================
