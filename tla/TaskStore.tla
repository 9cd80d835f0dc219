----------------------------- MODULE TaskStore -----------------------------
(***************************************************************************)
(* internal/storage/postgres/store.go: Create, Update and Get of the       *)
(* PostgreSQL task store, run by concurrent goroutines over a bounded      *)
(* connection pool.                                                        *)
(*                                                                         *)
(* A client is a goroutine inside one store call; a connection is a pool   *)
(* slot together with its PostgreSQL backend.  The two sides of a          *)
(* connection are separate because they fail separately: when the context  *)
(* is cancelled or the link breaks, the goroutine returns an error at once *)
(* while the backend may still hold the row lock and may still commit.     *)
(* Such a connection is an orphan (attached = FALSE) and keeps its slot    *)
(* until the backend has finished (pgxpool destroys it in the background). *)
(*                                                                         *)
(* PostgreSQL itself is not in the repository.  What is assumed of it:     *)
(* a single INSERT is atomic; SELECT ... FOR UPDATE waits for the row lock *)
(* and then reads the newest committed row; UPDATE needs the row lock;     *)
(* other sessions see a row only as last committed.                        *)
(***************************************************************************)
EXTENDS TaskApi

CONSTANTS
    Conns,        \* connections of the pool (MaxConns of them)
    NoConn,       \* model value: nobody holds the row lock
    NoRow         \* model value: the table has no such row

VARIABLES
    rows,         \* [Tasks -> row or NoRow]: a2a_tasks as committed
    rowLock,      \* [Tasks -> Conns or NoConn]: the row-level lock
    call,         \* [Clients -> Request or NoRequest]: the call in progress
    reply,        \* [Clients -> Reply]: what the last call returned, until the next
    phase,        \* [Conns -> Phase]: how far the statement or transaction is
    attached,     \* [Conns -> BOOLEAN]: a goroutine still waits for it
    job,          \* [Conns -> Request or NoRequest]: what it works on
    stored,       \* [Conns -> Nat]: storedVersion, as read under the lock
    history       \* ghost, [Tasks -> Seq(Request)]: the committed writes

client == <<call, reply>>
backend == <<phase, attached, job, stored>>
table == <<rows, rowLock, history>>
vars == <<rows, rowLock, call, reply, phase, attached, job, stored, history>>

Phase == {"free", "begun", "locked", "committing"}

Row == [owner : Identities, content : Contents, version : Nat]

ASSUME StoreAssumption == NoConn \notin Conns /\ NoRow \notin Row

TypeOK ==
    /\ rows \in [Tasks -> Row \cup {NoRow}]
    /\ rowLock \in [Tasks -> Conns \cup {NoConn}]
    /\ call \in [Clients -> Request \cup {NoRequest}]
    /\ reply \in [Clients -> Reply]
    /\ phase \in [Conns -> Phase]
    /\ attached \in [Conns -> BOOLEAN]
    /\ job \in [Conns -> Request \cup {NoRequest}]
    /\ stored \in [Conns -> Nat]
    /\ history \in [Tasks -> Seq(Request)]

Init ==
    /\ rows = [t \in Tasks |-> NoRow]
    /\ rowLock = [t \in Tasks |-> NoConn]
    /\ call = [c \in Clients |-> NoRequest]
    /\ reply = [c \in Clients |-> NoReply]
    /\ phase = [k \in Conns |-> "free"]
    /\ attached = [k \in Conns |-> FALSE]
    /\ job = [k \in Conns |-> NoRequest]
    /\ stored = [k \in Conns |-> 0]
    /\ history = [t \in Tasks |-> <<>>]

-----------------------------------------------------------------------------
(* The goroutine side. *)

Served(c) == \E k \in Conns : attached[k] /\ job[k].client = c

(* A goroutine with an admissible request that still has no connection. *)
Waiting(c) == call[c] # NoRequest /\ Admissible(call[c]) /\ ~Served(c)

Return(c, answer) ==
    /\ call' = [call EXCEPT ![c] = NoRequest]
    /\ reply' = [reply EXCEPT ![c] = answer]

(* A caller enters Create, Update or Get with any request. *)
Call(c) ==
    /\ call[c] = NoRequest
    /\ \E r \in Requests :
          /\ r.client = c
          /\ (r.kind = "update" /\ r.task # NoTask)
                => Len(history[r.task]) < MaxVersion
          /\ call' = [call EXCEPT ![c] = r]
    /\ reply' = [reply EXCEPT ![c] = NoReply]
    /\ UNCHANGED <<table, backend>>

(* The early returns before any statement is sent. *)
Refuse(c) ==
    /\ call[c] # NoRequest
    /\ ~Admissible(call[c])
    /\ Return(c, Failure(call[c], Refusal(call[c])))
    /\ UNCHANGED <<table, backend>>

(* The document does not encode, or the context ends before the pool hands *)
(* out a connection: nothing reached the database.                         *)
FailEarly(c) ==
    /\ Waiting(c)
    /\ Return(c, Failure(call[c], "error"))
    /\ UNCHANGED <<table, backend>>

(* The pool hands a free connection to the goroutine, which sends its      *)
(* statement, or BEGIN and the first statement of its transaction.         *)
Acquire(c, k) ==
    /\ Waiting(c)
    /\ phase[k] = "free"
    /\ phase' = [phase EXCEPT ![k] = "begun"]
    /\ attached' = [attached EXCEPT ![k] = TRUE]
    /\ job' = [job EXCEPT ![k] = call[c]]
    /\ UNCHANGED <<table, client, stored>>

-----------------------------------------------------------------------------
(* The backend side. *)

(* Mutant: the issuer is left out of the WHERE clause. *)
InScopeOfTenant(row, id) ==
    row.owner.tenant = id.tenant /\ row.owner.subject = id.subject

(* The WHERE clause every statement on an existing task carries. *)
InScope(row, id) ==
    /\ row.owner.tenant = id.tenant
    /\ row.owner.issuer = id.issuer
    /\ row.owner.subject = id.subject

Visible(r) == rows[r.task] # NoRow /\ InScope(rows[r.task], r.as)

(* The backend is done with its statement or transaction: its row lock is  *)
(* gone and the slot is free again.                                        *)
Release(k) ==
    /\ phase' = [phase EXCEPT ![k] = "free"]
    /\ attached' = [attached EXCEPT ![k] = FALSE]
    /\ job' = [job EXCEPT ![k] = NoRequest]
    /\ stored' = [stored EXCEPT ![k] = 0]
    /\ rowLock' = [t \in Tasks |-> IF rowLock[t] = k THEN NoConn ELSE rowLock[t]]

(* ... and the goroutine, if it still listens, returns the answer. *)
Finish(k, answer) ==
    /\ Release(k)
    /\ IF attached[k] THEN Return(job[k].client, answer) ELSE UNCHANGED client

(* INSERT ... ON CONFLICT DO NOTHING RETURNING version, one autocommitted  *)
(* statement.  An orphaned one may still run to its end.                   *)
Insert(k) ==
    LET r == job[k] IN
    /\ phase[k] = "begun"
    /\ r.kind = "create"
    /\ IF rows[r.task] = NoRow
       THEN /\ rows' = [rows EXCEPT ![r.task] =
                          [owner |-> r.as, content |-> r.content, version |-> 1]]
            /\ history' = [history EXCEPT ![r.task] = Append(@, r)]
            /\ Finish(k, Success(r, 1, r.content))
       ELSE /\ UNCHANGED <<rows, history>>
            /\ Finish(k, Failure(r, "exists"))

(* SELECT task_json, version, scoped to the caller. *)
Select(k) ==
    LET r == job[k] IN
    /\ phase[k] = "begun"
    /\ r.kind = "get"
    /\ Finish(k, IF Visible(r)
                 THEN Success(r, rows[r.task].version, rows[r.task].content)
                 ELSE Failure(r, "notFound"))
    /\ UNCHANGED <<rows, history>>

(* SELECT version ... FOR UPDATE finds no row in scope: ErrTaskNotFound,   *)
(* and the transaction is rolled back.                                     *)
MissRow(k) ==
    LET r == job[k] IN
    /\ phase[k] = "begun"
    /\ r.kind = "update"
    /\ ~Visible(r)
    /\ Finish(k, Failure(r, "notFound"))
    /\ UNCHANGED <<rows, history>>

(* Mutant: SELECT version without FOR UPDATE. *)
LockRowReadOnly(k) ==
    LET r == job[k] IN
    /\ phase[k] = "begun" /\ r.kind = "update" /\ Visible(r)
    /\ stored' = [stored EXCEPT ![k] = rows[r.task].version]
    /\ phase' = [phase EXCEPT ![k] = "locked"]
    /\ UNCHANGED <<table, client, attached, job>>

(* SELECT version ... FOR UPDATE gets the row lock, after waiting for it.  *)
LockRow(k) ==
    LET r == job[k] IN
    /\ phase[k] = "begun"
    /\ r.kind = "update"
    /\ Visible(r)
    /\ rowLock[r.task] = NoConn
    /\ rowLock' = [rowLock EXCEPT ![r.task] = k]
    /\ stored' = [stored EXCEPT ![k] = rows[r.task].version]
    /\ phase' = [phase EXCEPT ![k] = "locked"]
    /\ UNCHANGED <<rows, history, client, attached, job>>

(* Mutant: the version is compared only when the row has never changed. *)
StaleOnceOnly(k) == stored[k] = 1 /\ job[k].prev \notin {TaskVersionMissing, 1}

(* The optimistic check, in the goroutine, between the two statements. *)
Stale(k) == job[k].prev # TaskVersionMissing /\ job[k].prev # stored[k]

(* Mutant: the early return leaves the transaction open. *)
RejectStaleInTransaction(k) ==
    /\ phase[k] = "locked" /\ attached[k] /\ Stale(k)
    /\ attached' = [attached EXCEPT ![k] = FALSE]
    /\ phase' = [phase EXCEPT ![k] = "free"]
    /\ Return(job[k].client, Failure(job[k], "conflict"))
    /\ UNCHANGED <<table, job, stored>>

(* ErrConcurrentModification; BeginTxFunc rolls back, which frees the row. *)
RejectStale(k) ==
    /\ phase[k] = "locked"
    /\ attached[k]
    /\ Stale(k)
    /\ Finish(k, Failure(job[k], "conflict"))
    /\ UNCHANGED <<rows, history>>

(* UPDATE ... SET version = version + 1 is executed and COMMIT is sent.    *)
(* UPDATE takes the row lock if the transaction does not hold it yet.  The *)
(* new row stays invisible to the other sessions.                          *)
WriteRow(k) ==
    LET r == job[k] IN
    /\ phase[k] = "locked"
    /\ attached[k]
    /\ ~Stale(k)
    /\ rowLock[r.task] \in {k, NoConn}
    /\ rowLock' = [rowLock EXCEPT ![r.task] = k]
    /\ phase' = [phase EXCEPT ![k] = "committing"]
    /\ UNCHANGED <<rows, history, client, attached, job, stored>>

(* version = version + 1, computed by PostgreSQL on the row it locked. *)
NextVersion(k) == rows[job[k].task].version + 1

(* The commit becomes durable, whether or not anybody still listens. *)
Commit(k) ==
    LET r == job[k] IN
    /\ phase[k] = "committing"
    /\ rows' = [rows EXCEPT ![r.task] =
                  [@ EXCEPT !.content = r.content, !.version = NextVersion(k)]]
    /\ history' = [history EXCEPT ![r.task] = Append(@, r)]
    /\ Finish(k, Success(r, NextVersion(k), r.content))

(* Mutant: the error of COMMIT is dropped and the call reports success. *)
AbandonQuietly(k) ==
    /\ attached[k]
    /\ attached' = [attached EXCEPT ![k] = FALSE]
    /\ Return(job[k].client,
              IF phase[k] = "committing"
              THEN Success(job[k], stored[k] + 1, job[k].content)
              ELSE Failure(job[k], "error"))
    /\ UNCHANGED <<table, phase, job, stored>>

(* Context cancelled, link broken or statement failed: the goroutine       *)
(* returns an error and does not know what the backend will do.            *)
Abandon(k) ==
    /\ attached[k]
    /\ attached' = [attached EXCEPT ![k] = FALSE]
    /\ Return(job[k].client, Failure(job[k], "error"))
    /\ UNCHANGED <<table, phase, job, stored>>

(* An orphaned backend notices, rolls back and ends. *)
Discard(k) ==
    /\ phase[k] # "free"
    /\ ~attached[k]
    /\ Release(k)
    /\ UNCHANGED <<rows, history, client>>

-----------------------------------------------------------------------------
Statement(k) ==
    \/ Insert(k) \/ Select(k) \/ MissRow(k) \/ LockRow(k)
    \/ RejectStale(k) \/ WriteRow(k) \/ Commit(k)

Next ==
    \/ \E c \in Clients : Call(c) \/ Refuse(c) \/ FailEarly(c)
    \/ \E c \in Clients, k \in Conns : Acquire(c, k)
    \/ \E k \in Conns : Statement(k) \/ Abandon(k) \/ Discard(k)

Spec == Init /\ [][Next]_vars

(* A goroutine runs; PostgreSQL executes what it was sent; it notices a    *)
(* dead client; pgxpool and the row-lock queue serve waiters in order, so  *)
(* nobody is overtaken for ever.  Failures are never owed.                 *)
Fairness ==
    /\ \A c \in Clients : WF_vars(Refuse(c))
    /\ \A c \in Clients : SF_vars(\E k \in Conns : Acquire(c, k))
    /\ \A k \in Conns : WF_vars(Statement(k)) /\ SF_vars(LockRow(k)) /\ WF_vars(Discard(k))

FairSpec == Spec /\ Fairness

-----------------------------------------------------------------------------
(* The committed row is exactly the last accepted write and its version    *)
(* counts them: `version = version + 1` is never applied to a row another  *)
(* transaction has replaced meanwhile (store.go 107-117).                  *)
VersionCountsCommits ==
    \A t \in Tasks :
       IF rows[t] = NoRow
       THEN Len(history[t]) = 0
       ELSE /\ Len(history[t]) > 0
            /\ rows[t].version = Len(history[t])
            /\ rows[t].content = history[t][Len(history[t])].content
            /\ rows[t].owner = history[t][1].as

(* No committed update is overwritten by a caller that had not seen it: a  *)
(* write that names a version directly follows that version, and the first *)
(* write, and only it, is the creation (store.go 55-68, 90-105).           *)
NoLostUpdate ==
    \A t \in Tasks : \A i \in 1..Len(history[t]) :
       LET r == history[t][i] IN
       /\ r.prev \in {TaskVersionMissing, i - 1}
       /\ r.kind = (IF i = 1 THEN "create" ELSE "update")

(* Whatever a caller was told succeeded is in the log at the version it    *)
(* was told, for ever, even when orphaned commits land in between.         *)
AcknowledgedIsDurable ==
    \A c \in Clients :
       reply[c].status = "ok" =>
          /\ reply[c].version \in 1..Len(history[reply[c].task])
          /\ history[reply[c].task][reply[c].version].content = reply[c].content
          /\ history[reply[c].task][reply[c].version].as = reply[c].as

(* While a transaction is between SELECT ... FOR UPDATE and its end, alive *)
(* or orphaned, the row does not move under it: the version it compared is *)
(* still the version of the row when its commit lands (store.go 90-126).   *)
LockedRowIsPinned ==
    \A k \in Conns :
       phase[k] \in {"locked", "committing"} =>
          /\ job[k].kind = "update"
          /\ rowLock[job[k].task] = k
          /\ Visible(job[k])
          /\ rows[job[k].task].version = stored[k]
          /\ phase[k] = "committing" => ~Stale(k)

(* Only the identity that created a task ever reads it, writes it, or      *)
(* learns that its version moved: any difference in issuer, tenant or      *)
(* subject is answered as if the task did not exist (store.go 92-99,       *)
(* 116, 145-151).                                                          *)
OwnerOnly ==
    /\ \A t \in Tasks : \A i \in 1..Len(history[t]) :
          history[t][i].as = history[t][1].as
    /\ \A c \in Clients :
          reply[c].status \in {"ok", "conflict"} =>
             /\ Len(history[reply[c].task]) > 0
             /\ history[reply[c].task][1].as = reply[c].as

(* Every call returns, although updates of a task queue on its row lock    *)
(* and every call queues on the pool: no transaction ever needs a second   *)
(* connection while it holds a row, and every way out frees the row.       *)
CallsReturn == \A c \in Clients : call[c] # NoRequest ~> call[c] = NoRequest

-----------------------------------------------------------------------------
(* The store implements its promise: the commit (or the failing check) is  *)
(* the instant at which a call takes effect, and an orphan is a call given *)
(* up whose effect is undecided.                                           *)
Orphan == [k \in Conns |->
             IF phase[k] # "free" /\ ~attached[k] THEN job[k] ELSE NoRequest]

Promise == INSTANCE TaskLog WITH
    Slots <- Conns, log <- history, op <- call, result <- reply, late <- Orphan

ImplementsTaskLog == Promise!Spec

=============================================================================
