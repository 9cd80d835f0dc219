------------------------ MODULE TaskStoreRefinement ------------------------
(***************************************************************************)
(* TaskStore implements TaskLog, for every value of the constants: each    *)
(* step of the PostgreSQL store is a step of the promise or changes        *)
(* nothing the promise speaks of.                                          *)
(*                                                                         *)
(* The commit is where an update takes effect, and the lock is why: the    *)
(* version compared under it (LockedRowIsPinned) is the length of the log  *)
(* when the commit lands (VersionCountsCommits).                           *)
(***************************************************************************)
EXTENDS TaskStoreProofs

(* The promise speaks of the same requests and answers. *)
LEMMA SameWords ==
    /\ Promise!NoReply = NoReply
    /\ Promise!TaskVersionMissing = TaskVersionMissing
    /\ \A r : Promise!Refusal(r) = Refusal(r)
    /\ \A r : Promise!Admissible(r) <=> Admissible(r)
    /\ \A r, s : Promise!Failure(r, s) = Failure(r, s)
    /\ \A r, v, x : Promise!Success(r, v, x) = Success(r, v, x)
    BY DEF Promise!NoReply, NoReply, Promise!TaskVersionMissing, TaskVersionMissing,
           Promise!Refusal, Refusal, Promise!Admissible, Admissible,
           Promise!Failure, Failure, Promise!Success, Success

(* The log seen through the row: existence and ownership agree. *)
LEMMA RowReflectsLog ==
    ASSUME IInv, NEW r \in Request, Admissible(r)
    PROVE  /\ Promise!Exists(r) <=> rows[r.task] # NoRow
           /\ Promise!Owned(r) <=> Visible(r)
           /\ Visible(r) =>
                 /\ Len(history[r.task]) \in Nat
                 /\ rows[r.task].version = Len(history[r.task])
                 /\ rows[r.task].content = history[r.task][Len(history[r.task])].content
<1>0. TypeOK /\ VersionCountsCommits
  BY DEF IInv
<1>1. r.task \in Tasks /\ r.as \in Identities
  BY AdmissibleFields
<1>2. history[r.task] \in Seq(Request) /\ Len(history[r.task]) \in Nat
  BY <1>0, <1>1 DEF TypeOK
<1>3. (history[r.task] # <<>>) <=> (Len(history[r.task]) > 0)
  BY <1>2
<1>4. Promise!Exists(r) <=> rows[r.task] # NoRow
  BY <1>0, <1>1, <1>2, <1>3 DEF Promise!Exists, VersionCountsCommits
<1>5. Promise!Owned(r) => Visible(r)
  BY <1>0, <1>1, <1>4 DEF Promise!Owned, VersionCountsCommits, Visible, InScope
<1>6. Visible(r) => Promise!Owned(r)
  BY <1>0, <1>1, <1>4, VisibleTypes DEF Promise!Owned, VersionCountsCommits, Visible
<1> QED BY <1>0, <1>1, <1>2, <1>4, <1>5, <1>6 DEF VersionCountsCommits, Visible

(* The step that ends a statement or transaction does to the log, and      *)
(* answers, exactly what the promise says.                                 *)
Keeps(k) ==
    /\ job[k] \in Request
    /\ history' = Promise!Effect(job[k])
    /\ phase[k] # "free"
    /\ Finish(k, Promise!Answer(job[k]))

LEMMA EndKeepsPromise ==
    ASSUME IInv, NEW k \in Conns, Statement(k)
    PROVE  LockRow(k) \/ WriteRow(k) \/ Keeps(k)
<1>0. TypeOK /\ JobsAreAdmissible /\ LockedRowIsPinned /\ VersionCountsCommits
  BY DEF IInv, JobMatchesCall
<1> DEFINE r == job[k]
<1>a. ASSUME phase[k] # "free"
      PROVE  r \in Request /\ Admissible(r) /\ r.task \in Tasks
  BY <1>a, <1>0, AdmissibleFields DEF JobsAreAdmissible
<1>1. CASE Insert(k)
  <2>1. r \in Request /\ Admissible(r) /\ r.kind = "create" /\ phase[k] # "free"
    BY <1>1, <1>a DEF Insert
  <2>2. CASE rows[r.task] = NoRow
    <3>1. Promise!Accepts(r) /\ Len(history[r.task]) = 0
      BY <1>0, <1>a, <2>1, <2>2, RowReflectsLog, SameWords DEF Promise!Accepts, VersionCountsCommits
    <3>2. Promise!Answer(r) = Success(r, 1, r.content)
      BY <2>1, <3>1, SameWords DEF Promise!Answer
    <3> QED BY <1>1, <2>1, <2>2, <3>1, <3>2 DEF Keeps, Insert, Promise!Effect
  <2>3. CASE rows[r.task] # NoRow
    <3>1. ~Promise!Accepts(r)
      BY <2>1, <2>3, RowReflectsLog, SameWords DEF Promise!Accepts
    <3>2. Promise!Answer(r) = Failure(r, "exists")
      BY <2>1, <3>1, SameWords DEF Promise!Answer
    <3> QED BY <1>1, <2>1, <2>3, <3>1, <3>2 DEF Keeps, Insert, Promise!Effect
  <2> QED BY <2>2, <2>3
<1>2. CASE Select(k)
  <2>1. r \in Request /\ Admissible(r) /\ r.kind = "get" /\ phase[k] # "free"
    BY <1>2, <1>a DEF Select
  <2>2. ~Promise!Accepts(r)
    BY <2>1, SameWords DEF Promise!Accepts
  <2>3. Promise!Answer(r) =
           IF Visible(r) THEN Success(r, rows[r.task].version, rows[r.task].content)
           ELSE Failure(r, "notFound")
    BY <2>1, <2>2, RowReflectsLog, SameWords DEF Promise!Answer
  <2> QED BY <1>2, <2>1, <2>2, <2>3 DEF Keeps, Select, Promise!Effect
<1>3. CASE MissRow(k)
  <2>1. r \in Request /\ Admissible(r) /\ r.kind = "update" /\ phase[k] # "free" /\ ~Visible(r)
    BY <1>3, <1>a DEF MissRow
  <2>2. ~Promise!Accepts(r) /\ ~Promise!Owned(r)
    BY <2>1, RowReflectsLog, SameWords DEF Promise!Accepts
  <2>3. Promise!Answer(r) = Failure(r, "notFound")
    BY <2>1, <2>2, SameWords DEF Promise!Answer
  <2> QED BY <1>3, <2>1, <2>2, <2>3 DEF Keeps, MissRow, Promise!Effect
<1>4. CASE RejectStale(k)
  <2>1. /\ r \in Request /\ Admissible(r) /\ r.kind = "update" /\ phase[k] # "free"
        /\ Visible(r) /\ rows[r.task].version = stored[k]
    BY <1>0, <1>4, <1>a DEF RejectStale, LockedRowIsPinned
  <2>2. ~Promise!Accepts(r) /\ Promise!Owned(r)
    BY <1>4, <2>1, RowReflectsLog, SameWords DEF Promise!Accepts, RejectStale, Stale
  <2>3. Promise!Answer(r) = Failure(r, "conflict")
    BY <2>1, <2>2, SameWords DEF Promise!Answer
  <2> QED BY <1>4, <2>1, <2>2, <2>3 DEF Keeps, RejectStale, Promise!Effect
<1>5. CASE Commit(k)
  <2>1. /\ r \in Request /\ Admissible(r) /\ r.kind = "update" /\ phase[k] # "free"
        /\ Visible(r) /\ rows[r.task].version = stored[k] /\ ~Stale(k)
    BY <1>0, <1>5, <1>a DEF Commit, LockedRowIsPinned
  <2>2. Promise!Accepts(r)
    BY <2>1, RowReflectsLog, SameWords DEF Promise!Accepts, Stale
  <2>3. Promise!Answer(r) = Success(r, NextVersion(k), r.content)
    BY <2>1, <2>2, RowReflectsLog, SameWords DEF Promise!Answer, NextVersion
  <2> QED BY <1>5, <2>1, <2>2, <2>3 DEF Keeps, Commit, Promise!Effect
<1> QED BY <1>1, <1>2, <1>3, <1>4, <1>5 DEF Statement

-----------------------------------------------------------------------------
LEMMA InitMaps == Init => Promise!Init
BY SameWords DEF Init, Promise!Init, Orphan

(* A step that ends a transaction answers a goroutine or settles an orphan. *)
LEMMA KeepsMaps ==
    ASSUME IInv, NEW k \in Conns, Keeps(k)
    PROVE  Promise!Next
<1>0. TypeOK /\ ListenersMatch /\ Release(k)
  BY DEF IInv, JobMatchesCall, Keeps, Finish
<1>1. job[k].client \in Clients
  BY RequestFields DEF Keeps
<1>2. CASE attached[k]
  <2>1. call[job[k].client] = job[k] /\ job[k] # NoRequest
    BY <1>0, <1>2, RequestAssumption DEF ListenersMatch, Keeps
  <2>2. Orphan' = Orphan
    <3>1. phase'[k] = "free" /\ attached[k]
      BY <1>0, <1>2, ReleaseFrame
    <3>2. \A j \in Conns \ {k} :
             phase'[j] = phase[j] /\ attached'[j] = attached[j] /\ job'[j] = job[j]
      BY <1>0, ReleaseFrame
    <3> QED BY <3>1, <3>2 DEF Orphan
  <2>3. Promise!Respond(job[k].client)
    BY <1>2, <2>1, <2>2 DEF Promise!Respond, Keeps, Finish, Return
  <2> QED BY <1>1, <2>3 DEF Promise!Next
<1>3. CASE ~attached[k]
  <2>1. Orphan[k] = job[k] /\ job[k] # NoRequest
    BY <1>3, RequestAssumption DEF Orphan, Keeps
  <2>2. Orphan' = [Orphan EXCEPT ![k] = NoRequest]
    BY <1>0, ReleaseFrame DEF Orphan
  <2>3. Promise!Settle(k)
    BY <1>3, <2>1, <2>2 DEF Promise!Settle, Keeps, Finish, client
  <2> QED BY <2>3 DEF Promise!Next
<1> QED BY <1>2, <1>3

LEMMA StepMaps == IInv /\ [Next]_vars => [Promise!Next]_Promise!vars
<1> SUFFICES ASSUME IInv, [Next]_vars
             PROVE  Promise!Next \/ UNCHANGED Promise!vars
  OBVIOUS
<1>0. TypeOK /\ ListenersMatch /\ JobsAreAdmissible
  BY DEF IInv, JobMatchesCall
<1>1. ASSUME NEW c \in Clients, Call(c) PROVE Promise!Next
  <2>1. Orphan' = Orphan
    BY <1>1 DEF Call, backend, Orphan
  <2>2. Promise!Invoke(c)
    BY <1>1, <2>1, SameWords DEF Call, table, Promise!Invoke
  <2> QED BY <2>2 DEF Promise!Next
<1>2. ASSUME NEW c \in Clients, Refuse(c) PROVE Promise!Next
  <2>1. Orphan' = Orphan /\ history' = history
    BY <1>2 DEF Refuse, backend, table, Orphan
  <2>2. ~Promise!Accepts(call[c])
    BY <1>2, SameWords DEF Refuse, Promise!Accepts
  <2>3. Promise!Respond(c)
    BY <1>2, <2>1, <2>2, SameWords
    DEF Refuse, Return, Promise!Respond, Promise!Effect, Promise!Answer
  <2> QED BY <2>3 DEF Promise!Next
<1>3. ASSUME NEW c \in Clients, FailEarly(c) PROVE Promise!Next
  <2>1. Orphan' = Orphan /\ history' = history
    BY <1>3 DEF FailEarly, backend, table, Orphan
  <2>2. Promise!GiveUp(c)
    BY <1>3, <2>1, SameWords DEF FailEarly, Waiting, Return, Promise!GiveUp
  <2> QED BY <2>2 DEF Promise!Next
<1>4. ASSUME NEW c \in Clients, NEW k \in Conns, Acquire(c, k)
      PROVE  UNCHANGED Promise!vars
  <2>1. \A j \in Conns : Orphan'[j] = Orphan[j]
    BY <1>0, <1>4 DEF Acquire, TypeOK, Orphan
  <2>2. Orphan' = Orphan
    BY <2>1 DEF Orphan
  <2> QED BY <1>4, <2>2 DEF Acquire, client, table, Promise!vars
<1>5. ASSUME NEW k \in Conns, Statement(k) PROVE Promise!Next \/ UNCHANGED Promise!vars
  <2>1. CASE LockRow(k) \/ WriteRow(k)
    <3>1. \A j \in Conns : Orphan'[j] = Orphan[j]
      BY <1>0, <2>1 DEF LockRow, WriteRow, TypeOK, Orphan
    <3>2. Orphan' = Orphan
      BY <3>1 DEF Orphan
    <3> QED BY <2>1, <3>2 DEF LockRow, WriteRow, client, Promise!vars
  <2>2. CASE Keeps(k)
    BY <2>2, KeepsMaps
  <2> QED BY <1>5, <2>1, <2>2, EndKeepsPromise
<1>6. ASSUME NEW k \in Conns, Abandon(k) PROVE Promise!Next
  <2>1. /\ call[job[k].client] = job[k] /\ job[k] # NoRequest /\ phase[k] # "free"
        /\ job[k].client \in Clients
    BY <1>0, <1>6, RequestFields, RequestAssumption
    DEF Abandon, ListenersMatch, JobsAreAdmissible
  <2>2. Orphan[k] = NoRequest
    BY <1>6 DEF Abandon, Orphan
  <2>3. Orphan' = [Orphan EXCEPT ![k] = job[k]]
    BY <1>0, <1>6, <2>1 DEF Abandon, TypeOK, Orphan
  <2>4. Promise!GiveUp(job[k].client)
    BY <1>6, <2>1, <2>2, <2>3, SameWords DEF Abandon, Return, table, Promise!GiveUp
  <2> QED BY <2>1, <2>4 DEF Promise!Next
<1>7. ASSUME NEW k \in Conns, Discard(k) PROVE Promise!Next
  <2>1. Orphan[k] = job[k] /\ job[k] # NoRequest
    BY <1>0, <1>7, RequestAssumption DEF Discard, Orphan, JobsAreAdmissible
  <2>2. Orphan' = [Orphan EXCEPT ![k] = NoRequest]
    BY <1>0, <1>7, ReleaseFrame DEF Discard, Orphan
  <2>3. Promise!Settle(k)
    BY <1>7, <2>1, <2>2 DEF Discard, client, Promise!Settle
  <2> QED BY <2>3 DEF Promise!Next
<1>8. CASE UNCHANGED vars
  BY <1>8 DEF vars, Promise!vars, Orphan
<1> QED BY <1>1, <1>2, <1>3, <1>4, <1>5, <1>6, <1>7, <1>8 DEF Next

(* The store keeps its promise: every behaviour of TaskStore, seen through *)
(* the log of commits and the requests of orphaned backends, is a behaviour *)
(* of TaskLog.                                                             *)
THEOREM StoreImplementsLog == Spec => ImplementsTaskLog
BY InitMaps, StepMaps, StoreInvariant, PTL DEF Spec, ImplementsTaskLog, Promise!Spec

=============================================================================
