-------------------------- MODULE TaskStoreProofs --------------------------
(***************************************************************************)
(* TaskStore for any number of goroutines, connections, tasks, identities  *)
(* and documents: the safety invariants hold in every reachable state.     *)
(*                                                                         *)
(* The inductive invariant IInv adds to the checked invariants what ties   *)
(* the two sides of a connection together: a backend that is not free      *)
(* works on an admissible request, and while a goroutine still listens the *)
(* request is the one that goroutine is waiting for, on no other           *)
(* connection.  At the end, how the rows change that a listing reads, and  *)
(* why calls do not wait for each other in a circle.                       *)
(***************************************************************************)
EXTENDS TaskStore, TLAPS

CallsAreOwn == \A c \in Clients : call[c] # NoRequest => call[c].client = c

JobsAreAdmissible ==
    \A k \in Conns : phase[k] # "free" => job[k] \in Request /\ Admissible(job[k])

ListenersMatch ==
    /\ \A k \in Conns : attached[k] => phase[k] # "free" /\ call[job[k].client] = job[k]
    /\ \A j, k \in Conns :
          attached[j] /\ attached[k] /\ job[j].client = job[k].client => j = k

JobMatchesCall == CallsAreOwn /\ JobsAreAdmissible /\ ListenersMatch

(* An answer that says something about a task names one. *)
AnswersNameTasks ==
    \A c \in Clients : reply[c].status \in {"ok", "conflict"} => reply[c].task \in Tasks

IInv ==
    /\ TypeOK
    /\ JobMatchesCall
    /\ LockedRowIsPinned
    /\ VersionCountsCommits
    /\ NoLostUpdate
    /\ AcknowledgedIsDurable
    /\ OwnerOnly
    /\ AnswersNameTasks

-----------------------------------------------------------------------------
(* What the fields of a request are. *)
LEMMA RequestFields ==
    ASSUME NEW r \in Request
    PROVE  /\ r.client \in Clients
           /\ r.task \in Tasks \cup {NoTask}
           /\ r.as \in Identities \cup {NoIdentity}
           /\ r.kind \in {"create", "update", "get"}
           /\ r.prev \in Nat
           /\ r.content \in Contents \cup {NoContent}
           /\ r.kind # "get" => r.content \in Contents
           /\ r.kind = "create" => r.prev = 0
    BY MaxVersionAssumption
    DEF Request, CreateRequest, UpdateRequest, GetRequest, TaskVersionMissing

(* An admissible request names a task and an identity. *)
LEMMA AdmissibleFields ==
    ASSUME NEW r \in Request, Admissible(r)
    PROVE  r.task \in Tasks /\ r.as \in Identities
    BY RequestFields, AbsenceAssumption, IdentityAssumption
    DEF Admissible, Refusal

(* Both kinds of answers are replies. *)
LEMMA AnswersAreReplies ==
    ASSUME NEW r \in Request
    PROVE  /\ \A s \in Status : Failure(r, s) \in Reply
           /\ \A v \in Nat, x \in Contents \cup {NoContent} : Success(r, v, x) \in Reply
    BY RequestFields DEF Failure, Success, Reply, Status, TaskVersionMissing

(* What an answer says. *)
LEMMA AnswerFields ==
    /\ \A r, s : /\ Failure(r, s).status = s
                 /\ Failure(r, s).task = r.task /\ Failure(r, s).as = r.as
    /\ \A r, v, x : /\ Success(r, v, x).status = "ok"
                    /\ Success(r, v, x).task = r.task /\ Success(r, v, x).as = r.as
                    /\ Success(r, v, x).version = v /\ Success(r, v, x).content = x
    BY DEF Failure, Success

(* Identities that agree on the three columns are equal. *)
LEMMA ScopeIsIdentity ==
    ASSUME NEW row \in Row, NEW id \in Identities, InScope(row, id)
    PROVE  row.owner = id
    BY IdentityAssumption DEF Row, InScope

-----------------------------------------------------------------------------
(* Returning an answer leaves the goroutine idle and keeps the types. *)
LEMMA ReturnTypes ==
    ASSUME TypeOK, NEW c \in Clients, NEW answer \in Reply, Return(c, answer)
    PROVE  /\ call' \in [Clients -> Request \cup {NoRequest}]
           /\ reply' \in [Clients -> Reply]
    BY DEF TypeOK, Return

(* Ending a transaction keeps the types of the backend variables. *)
LEMMA ReleaseTypes ==
    ASSUME TypeOK, NEW k \in Conns, Release(k)
    PROVE  /\ rowLock' \in [Tasks -> Conns \cup {NoConn}]
           /\ phase' \in [Conns -> Phase]
           /\ attached' \in [Conns -> BOOLEAN]
           /\ job' \in [Conns -> Request \cup {NoRequest}]
           /\ stored' \in [Conns -> Nat]
    BY DEF TypeOK, Release, Phase

LEMMA FinishTypes ==
    ASSUME TypeOK, JobMatchesCall, NEW k \in Conns, NEW answer \in Reply,
           phase[k] # "free", Finish(k, answer)
    PROVE  /\ rowLock' \in [Tasks -> Conns \cup {NoConn}]
           /\ phase' \in [Conns -> Phase]
           /\ attached' \in [Conns -> BOOLEAN]
           /\ job' \in [Conns -> Request \cup {NoRequest}]
           /\ stored' \in [Conns -> Nat]
           /\ call' \in [Clients -> Request \cup {NoRequest}]
           /\ reply' \in [Clients -> Reply]
<1>1. job[k].client \in Clients
  BY RequestFields DEF JobMatchesCall, JobsAreAdmissible, ListenersMatch
<1>2. CASE attached[k]
  BY <1>1, <1>2, ReturnTypes, ReleaseTypes DEF Finish
<1>3. CASE ~attached[k]
  BY <1>3, ReleaseTypes DEF Finish, client, TypeOK
<1> QED BY <1>2, <1>3

(* Ending a transaction touches no other connection: it frees only the     *)
(* locks of its own backend.                                               *)
LEMMA ReleaseFrame ==
    ASSUME TypeOK, NEW k \in Conns, Release(k)
    PROVE  /\ phase'[k] = "free" /\ attached'[k] = FALSE
           /\ \A j \in Conns \ {k} :
                 /\ phase'[j] = phase[j] /\ attached'[j] = attached[j]
                 /\ job'[j] = job[j] /\ stored'[j] = stored[j]
           /\ \A j \in Conns \ {k}, t \in Tasks : rowLock[t] = j => rowLock'[t] = j
    BY DEF TypeOK, Release

(* What the steps that end a transaction answer; the answer is a reply. *)
EndsWith(k, answer) ==
    /\ answer \in Reply
    /\ phase[k] # "free"
    /\ Finish(k, answer)

LEMMA ListenersShrink ==
    ASSUME TypeOK, NEW k \in Conns, Release(k)
    PROVE  \A j \in Conns : attached'[j] =>
              j # k /\ attached[j] /\ job'[j] = job[j] /\ phase'[j] = phase[j]
    BY ReleaseFrame

LEMMA VisibleTypes ==
    ASSUME TypeOK, NEW r \in Request, Admissible(r), Visible(r)
    PROVE  /\ rows[r.task] \in Row
           /\ rows[r.task].version \in Nat
           /\ rows[r.task].content \in Contents
           /\ rows[r.task].owner = r.as
<1>1. rows[r.task] \in Row
  BY AdmissibleFields DEF TypeOK, Visible
<1> QED BY <1>1, AdmissibleFields, ScopeIsIdentity DEF Row, Visible

(* Every statement locks the row, writes it, or ends the transaction. *)
LEMMA StatementEnds ==
    ASSUME IInv, NEW k \in Conns, Statement(k)
    PROVE  LockRow(k) \/ WriteRow(k) \/ \E answer : EndsWith(k, answer)
<1> USE DEF EndsWith
<1>0. TypeOK /\ JobMatchesCall /\ LockedRowIsPinned
  BY DEF IInv
<1>1. CASE Insert(k)
  <2>1. job[k] \in Request /\ Admissible(job[k])
    BY <1>0, <1>1 DEF Insert, JobMatchesCall, JobsAreAdmissible, ListenersMatch
  <2>2. job[k].content \in Contents
    BY <2>1, <1>1, RequestFields DEF Insert
  <2>3. Success(job[k], 1, job[k].content) \in Reply /\ Failure(job[k], "exists") \in Reply
    BY <2>1, <2>2, AnswersAreReplies DEF Status
  <2> QED BY <1>1, <2>3 DEF Insert
<1>2. CASE Select(k)
  <2>1. job[k] \in Request /\ Admissible(job[k])
    BY <1>0, <1>2 DEF Select, JobMatchesCall, JobsAreAdmissible, ListenersMatch
  <2>2. Failure(job[k], "notFound") \in Reply
    BY <2>1, AnswersAreReplies DEF Status
  <2>3. CASE Visible(job[k])
    <3>1. Success(job[k], rows[job[k].task].version, rows[job[k].task].content) \in Reply
      BY <1>0, <2>1, <2>3, VisibleTypes, AnswersAreReplies
    <3> QED BY <1>2, <2>3, <3>1 DEF Select
  <2>4. CASE ~Visible(job[k])
    BY <1>2, <2>2, <2>4 DEF Select
  <2> QED BY <2>3, <2>4
<1>3. CASE MissRow(k)
  <2>1. job[k] \in Request
    BY <1>0, <1>3 DEF MissRow, JobMatchesCall, JobsAreAdmissible, ListenersMatch
  <2>2. Failure(job[k], "notFound") \in Reply
    BY <2>1, AnswersAreReplies DEF Status
  <2> QED BY <1>3, <2>2 DEF MissRow
<1>4. CASE RejectStale(k)
  <2>1. job[k] \in Request
    BY <1>0, <1>4 DEF RejectStale, JobMatchesCall, JobsAreAdmissible, ListenersMatch
  <2>2. Failure(job[k], "conflict") \in Reply
    BY <2>1, AnswersAreReplies DEF Status
  <2> QED BY <1>4, <2>2 DEF RejectStale
<1>5. CASE Commit(k)
  <2>1. job[k] \in Request /\ Admissible(job[k]) /\ Visible(job[k]) /\ job[k].kind = "update"
    BY <1>0, <1>5 DEF Commit, JobMatchesCall, JobsAreAdmissible, LockedRowIsPinned
  <2>2. NextVersion(k) \in Nat /\ job[k].content \in Contents
    BY <1>0, <2>1, VisibleTypes, RequestFields DEF NextVersion
  <2>3. Success(job[k], NextVersion(k), job[k].content) \in Reply
    BY <2>1, <2>2, AnswersAreReplies
  <2> QED BY <1>5, <2>3 DEF Commit
<1> QED BY <1>1, <1>2, <1>3, <1>4, <1>5 DEF Statement

-----------------------------------------------------------------------------
(* The stored rows and the log change in Insert and Commit alone. *)
LEMMA TableTypes ==
    ASSUME IInv, NEW k \in Conns, Statement(k)
    PROVE  rows' \in [Tasks -> Row \cup {NoRow}] /\ history' \in [Tasks -> Seq(Request)]
<1>0. TypeOK /\ JobMatchesCall /\ LockedRowIsPinned
  BY DEF IInv
<1>1. CASE Insert(k)
  <2>1. /\ job[k] \in Request /\ job[k].content \in Contents
        /\ job[k].task \in Tasks /\ job[k].as \in Identities
    BY <1>0, <1>1, RequestFields, AdmissibleFields DEF Insert, JobMatchesCall, JobsAreAdmissible, ListenersMatch
  <2>2. [owner |-> job[k].as, content |-> job[k].content, version |-> 1] \in Row
    BY <2>1 DEF Row
  <2>3. Append(history[job[k].task], job[k]) \in Seq(Request)
    BY <1>0, <2>1 DEF TypeOK
  <2> QED BY <1>0, <1>1, <2>1, <2>2, <2>3 DEF Insert, TypeOK
<1>2. CASE Commit(k)
  <2>1. /\ job[k] \in Request /\ job[k].content \in Contents
        /\ job[k].task \in Tasks /\ Admissible(job[k]) /\ Visible(job[k])
    BY <1>0, <1>2, RequestFields, AdmissibleFields
    DEF Commit, JobMatchesCall, JobsAreAdmissible, LockedRowIsPinned
  <2>2. rows[job[k].task] \in Row /\ NextVersion(k) \in Nat
    BY <1>0, <2>1, VisibleTypes DEF NextVersion
  <2>3. [rows[job[k].task] EXCEPT !.content = job[k].content,
                                  !.version = NextVersion(k)] \in Row
    BY <2>1, <2>2 DEF Row
  <2>4. Append(history[job[k].task], job[k]) \in Seq(Request)
    BY <1>0, <2>1 DEF TypeOK
  <2> QED BY <1>0, <1>2, <2>1, <2>3, <2>4 DEF Commit, TypeOK
<1>3. CASE Select(k) \/ MissRow(k) \/ LockRow(k) \/ RejectStale(k) \/ WriteRow(k)
  BY <1>0, <1>3 DEF TypeOK, Select, MissRow, LockRow, RejectStale, WriteRow
<1> QED BY <1>1, <1>2, <1>3 DEF Statement

LEMMA TypeStep == IInv /\ [Next]_vars => TypeOK'
<1> SUFFICES ASSUME IInv, [Next]_vars PROVE TypeOK'
  OBVIOUS
<1>0. TypeOK /\ JobMatchesCall /\ LockedRowIsPinned
  BY DEF IInv
<1>1. ASSUME NEW c \in Clients, Call(c) PROVE TypeOK'
  <2>1. NoReply \in Reply
    BY DEF NoReply, Reply, Status
  <2> QED BY <1>0, <1>1, <2>1, RequestAssumption DEF TypeOK, Call, table, backend
<1>2. ASSUME NEW c \in Clients, Refuse(c) \/ FailEarly(c) PROVE TypeOK'
  <2>1. call[c] \in Request /\ Refusal(call[c]) \in Status /\ "error" \in Status
    BY <1>0, <1>2 DEF TypeOK, Refuse, FailEarly, Waiting, Refusal, Status
  <2>2. /\ Failure(call[c], Refusal(call[c])) \in Reply
        /\ Failure(call[c], "error") \in Reply
    BY <2>1, AnswersAreReplies
  <2>3. /\ call' \in [Clients -> Request \cup {NoRequest}]
        /\ reply' \in [Clients -> Reply]
    BY <1>0, <1>2, <2>2, ReturnTypes DEF Refuse, FailEarly
  <2> QED BY <1>0, <1>2, <2>3 DEF TypeOK, Refuse, FailEarly, table, backend
<1>3. ASSUME NEW c \in Clients, NEW k \in Conns, Acquire(c, k) PROVE TypeOK'
  BY <1>0, <1>3 DEF TypeOK, Acquire, Waiting, table, client, Phase
<1>4. ASSUME NEW k \in Conns, Statement(k) PROVE TypeOK'
  <2>1. CASE LockRow(k)
    <3>1. job[k] \in Request /\ job[k].task \in Tasks /\ Admissible(job[k])
      BY <1>0, <2>1, AdmissibleFields DEF LockRow, JobMatchesCall, JobsAreAdmissible, ListenersMatch
    <3>2. rows[job[k].task].version \in Nat
      BY <1>0, <2>1, <3>1, VisibleTypes DEF LockRow
    <3> QED BY <1>0, <2>1, <3>1, <3>2 DEF LockRow, TypeOK, client, Phase
  <2>2. CASE WriteRow(k)
    <3>1. job[k].task \in Tasks
      BY <1>0, <2>2, AdmissibleFields DEF WriteRow, JobMatchesCall, JobsAreAdmissible, ListenersMatch
    <3> QED BY <1>0, <2>2, <3>1 DEF WriteRow, TypeOK, client, Phase
  <2>3. ASSUME NEW answer, EndsWith(k, answer) PROVE TypeOK'
    BY <1>0, <1>4, <2>3, TableTypes, FinishTypes DEF EndsWith, TypeOK
  <2> QED BY <1>4, <2>1, <2>2, <2>3, StatementEnds
<1>5. ASSUME NEW k \in Conns, Abandon(k) PROVE TypeOK'
  <2>1. job[k] \in Request
    BY <1>0, <1>5 DEF Abandon, JobMatchesCall, JobsAreAdmissible, ListenersMatch
  <2>2. job[k].client \in Clients /\ Failure(job[k], "error") \in Reply
    BY <2>1, RequestFields, AnswersAreReplies DEF Status
  <2>3. /\ call' \in [Clients -> Request \cup {NoRequest}]
        /\ reply' \in [Clients -> Reply]
    BY <1>0, <1>5, <2>2, ReturnTypes DEF Abandon
  <2> QED BY <1>0, <1>5, <2>3 DEF TypeOK, Abandon, table
<1>6. ASSUME NEW k \in Conns, Discard(k) PROVE TypeOK'
  BY <1>0, <1>6, ReleaseTypes DEF TypeOK, Discard, client
<1>7. CASE UNCHANGED vars
  BY <1>0, <1>7 DEF TypeOK, vars
<1> QED BY <1>1, <1>2, <1>3, <1>4, <1>5, <1>6, <1>7 DEF Next

-----------------------------------------------------------------------------
(* The two sides of a connection agree. *)
LEMMA JobStep == IInv /\ [Next]_vars => JobMatchesCall'
<1> SUFFICES ASSUME IInv, [Next]_vars PROVE JobMatchesCall'
  OBVIOUS
<1> USE DEF JobMatchesCall, CallsAreOwn, JobsAreAdmissible, ListenersMatch
<1>0. TypeOK /\ JobMatchesCall /\ TypeOK'
  BY TypeStep DEF IInv
<1>1. \A k \in Conns : phase[k] # "free" => job[k] \in Request /\ job[k].client \in Clients
  BY <1>0, RequestFields
<1>2. ASSUME NEW c \in Clients, Call(c) PROVE JobMatchesCall'
  <2>1. \A k \in Conns : attached[k] => job[k].client # c
    BY <1>0, <1>2, RequestAssumption DEF Call
  <2> QED BY <1>0, <1>1, <1>2, <2>1 DEF Call, TypeOK, backend
<1>3. ASSUME NEW c \in Clients, Refuse(c) \/ FailEarly(c) PROVE JobMatchesCall'
  <2>1. \A k \in Conns : attached[k] => job[k].client # c
    BY <1>0, <1>3 DEF Refuse, FailEarly, Waiting, Served
  <2>2. call' = [call EXCEPT ![c] = NoRequest] /\ UNCHANGED backend
    BY <1>3 DEF Refuse, FailEarly, Return
  <2>3. CallsAreOwn'
    BY <1>0, <2>2 DEF TypeOK
  <2>4. JobsAreAdmissible'
    BY <1>0, <2>2 DEF backend
  <2>5. ListenersMatch'
    BY <1>0, <1>1, <2>1, <2>2 DEF TypeOK, backend
  <2> QED BY <2>3, <2>4, <2>5
<1>4. ASSUME NEW c \in Clients, NEW k \in Conns, Acquire(c, k) PROVE JobMatchesCall'
  <2>1. call[c] \in Request /\ Admissible(call[c]) /\ call[c].client = c
    BY <1>0, <1>4 DEF Acquire, Waiting, TypeOK
  <2>2. \A j \in Conns : attached[j] => job[j].client # c
    BY <1>4 DEF Acquire, Waiting, Served
  <2> QED BY <1>0, <1>4, <2>1, <2>2 DEF Acquire, TypeOK, client
<1>5. ASSUME NEW k \in Conns, Statement(k) PROVE JobMatchesCall'
  <2>1. CASE LockRow(k) \/ WriteRow(k)
    BY <1>0, <2>1 DEF LockRow, WriteRow, TypeOK, client
  <2>2. ASSUME NEW answer, EndsWith(k, answer) PROVE JobMatchesCall'
    <3>1. Release(k) /\ phase[k] # "free"
      BY <2>2 DEF EndsWith, Finish
    <3>2. \A c \in Clients :
             \/ call'[c] = call[c]
             \/ attached[k] /\ c = job[k].client /\ call'[c] = NoRequest
      BY <1>0, <2>2 DEF EndsWith, Finish, Return, client, TypeOK
    <3>3. CallsAreOwn'
      BY <1>0, <3>2
    <3>4. JobsAreAdmissible'
      BY <1>0, <3>1, ReleaseFrame
    <3>5. \A j \in Conns \ {k} : attached[j] => call'[job[j].client] = job[j]
      BY <1>0, <1>1, <3>1, <3>2
    <3>6. ListenersMatch'
      BY <1>0, <3>1, <3>5, ListenersShrink
    <3> QED BY <3>3, <3>4, <3>6
  <2> QED BY <1>5, <2>1, <2>2, StatementEnds
<1>6. ASSUME NEW k \in Conns, Abandon(k) PROVE JobMatchesCall'
  BY <1>0, <1>1, <1>6 DEF Abandon, Return, TypeOK, table
<1>7. ASSUME NEW k \in Conns, Discard(k) PROVE JobMatchesCall'
  <2>1. CallsAreOwn' /\ JobsAreAdmissible'
    BY <1>0, <1>7, ReleaseFrame DEF Discard, client
  <2>2. ListenersMatch'
    BY <1>0, <1>7, ListenersShrink DEF Discard, client
  <2> QED BY <2>1, <2>2
<1>8. CASE UNCHANGED vars
  BY <1>0, <1>8 DEF vars
<1> QED BY <1>2, <1>3, <1>4, <1>5, <1>6, <1>7, <1>8 DEF Next

-----------------------------------------------------------------------------
(* A statement changes no row but the one its job names, and the row it    *)
(* may change is locked by nobody else.                                    *)
LEMMA OthersKeepTheirRows ==
    ASSUME IInv, NEW k \in Conns, Statement(k), NEW j \in Conns \ {k},
           phase[j] \in {"locked", "committing"}
    PROVE  rows'[job[j].task] = rows[job[j].task]
<1>0. TypeOK /\ JobMatchesCall /\ LockedRowIsPinned
  BY DEF IInv
<1>1. job[j].task \in Tasks /\ rowLock[job[j].task] = j /\ rows[job[j].task] # NoRow
  BY <1>0, AdmissibleFields DEF LockedRowIsPinned, JobMatchesCall, JobsAreAdmissible, Visible
<1>2. CASE Insert(k)
  BY <1>0, <1>1, <1>2 DEF Insert, TypeOK
<1>3. CASE Commit(k)
  <2>1. rowLock[job[k].task] = k
    BY <1>0, <1>3 DEF Commit, LockedRowIsPinned
  <2> QED BY <1>0, <1>1, <1>3, <2>1 DEF Commit, TypeOK
<1>4. CASE Select(k) \/ MissRow(k) \/ LockRow(k) \/ RejectStale(k) \/ WriteRow(k)
  BY <1>4 DEF Select, MissRow, LockRow, RejectStale, WriteRow
<1> QED BY <1>2, <1>3, <1>4 DEF Statement

(* A locked row stays pinned until the transaction ends. *)
LEMMA PinStep == IInv /\ [Next]_vars => LockedRowIsPinned'
<1> DEFINE Pinned(i) == /\ job[i].kind = "update"
                        /\ rowLock[job[i].task] = i
                        /\ Visible(job[i])
                        /\ rows[job[i].task].version = stored[i]
                        /\ phase[i] = "committing" => ~Stale(i)
<1> SUFFICES ASSUME IInv, [Next]_vars,
                    NEW j \in Conns, phase'[j] \in {"locked", "committing"}
             PROVE  Pinned(j)'
  BY DEF LockedRowIsPinned
<1>0. TypeOK /\ JobMatchesCall /\ LockedRowIsPinned
  BY DEF IInv
<1>1. phase[j] # "free" => job[j].task \in Tasks
  BY <1>0, AdmissibleFields DEF JobMatchesCall, JobsAreAdmissible, ListenersMatch
<1>2. phase[j] \in {"locked", "committing"} => Pinned(j)
  BY <1>0 DEF LockedRowIsPinned
<1>3. CASE \E c \in Clients : Call(c) \/ Refuse(c) \/ FailEarly(c)
  BY <1>2, <1>3 DEF Call, Refuse, FailEarly, table, backend, Visible, Stale
<1>4. ASSUME NEW c \in Clients, NEW k \in Conns, Acquire(c, k)
      PROVE  Pinned(j)'
  BY <1>0, <1>2, <1>4 DEF Acquire, TypeOK, table, Visible, Stale
<1>5. ASSUME NEW k \in Conns, Statement(k) PROVE Pinned(j)'
  <2>1. CASE j = k
    <3>1. CASE LockRow(k)
      BY <1>0, <1>1, <2>1, <3>1 DEF LockRow, TypeOK, Visible, Stale
    <3>2. CASE WriteRow(k)
      BY <1>0, <1>1, <1>2, <2>1, <3>2 DEF WriteRow, TypeOK, Visible, Stale
    <3>3. ASSUME NEW answer, EndsWith(k, answer) PROVE FALSE
      BY <1>0, <2>1, <3>3, ReleaseFrame DEF EndsWith, Finish
    <3> QED BY <1>5, <3>1, <3>2, <3>3, StatementEnds
  <2>2. CASE j # k
    <3>1. /\ phase'[j] = phase[j] /\ job'[j] = job[j] /\ stored'[j] = stored[j]
          /\ \A t \in Tasks : rowLock[t] = j => rowLock'[t] = j
      <4>1. CASE LockRow(k) \/ WriteRow(k)
        BY <1>0, <2>2, <4>1, StoreAssumption DEF LockRow, WriteRow, TypeOK
      <4>2. ASSUME NEW answer, EndsWith(k, answer) PROVE <3>1
        BY <1>0, <2>2, <4>2, ReleaseFrame DEF EndsWith, Finish
      <4> QED BY <1>5, <4>1, <4>2, StatementEnds
    <3>2. rows'[job[j].task] = rows[job[j].task]
      BY <1>5, <2>2, <3>1, OthersKeepTheirRows
    <3> QED BY <1>1, <1>2, <3>1, <3>2 DEF Visible, Stale
  <2> QED BY <2>1, <2>2
<1>6. ASSUME NEW k \in Conns, Abandon(k) PROVE Pinned(j)'
  BY <1>2, <1>6 DEF Abandon, table, Visible, Stale
<1>7. ASSUME NEW k \in Conns, Discard(k) PROVE Pinned(j)'
  <2>1. j # k /\ Release(k) /\ rows' = rows
    BY <1>0, <1>7, ReleaseFrame DEF Discard
  <2>2. /\ phase'[j] = phase[j] /\ job'[j] = job[j] /\ stored'[j] = stored[j]
        /\ \A t \in Tasks : rowLock[t] = j => rowLock'[t] = j
    BY <1>0, <2>1, ReleaseFrame
  <2> QED BY <1>1, <1>2, <2>1, <2>2 DEF Visible, Stale
<1>8. CASE UNCHANGED vars
  BY <1>2, <1>8 DEF vars, Visible, Stale
<1> QED BY <1>3, <1>4, <1>5, <1>6, <1>7, <1>8 DEF Next

-----------------------------------------------------------------------------
(* What an accepted write does to the table and to the log. *)
Appends(k) ==
    LET r == job[k]
        n == Len(history[r.task])
    IN /\ r \in Request /\ r.task \in Tasks /\ r.as \in Identities
       /\ history' = [history EXCEPT ![r.task] = Append(@, r)]
       /\ \A t \in Tasks \ {r.task} : rows'[t] = rows[t]
       /\ rows'[r.task] # NoRow
       /\ rows'[r.task].version = n + 1
       /\ rows'[r.task].content = r.content
       /\ rows'[r.task].owner = r.as
       /\ r.kind = (IF n = 0 THEN "create" ELSE "update")
       /\ r.prev \in {TaskVersionMissing, n}
       /\ n > 0 => history[r.task][1].as = r.as
       /\ Finish(k, Success(r, n + 1, r.content))

LEMMA InsertAppends ==
    ASSUME IInv, NEW k \in Conns, Insert(k)
    PROVE  UNCHANGED <<rows, history>> \/ Appends(k)
<1>0. TypeOK /\ VersionCountsCommits /\ JobsAreAdmissible
  BY DEF IInv, JobMatchesCall
<1>1. /\ job[k] \in Request /\ job[k].task \in Tasks /\ job[k].as \in Identities
      /\ job[k].prev = 0 /\ job[k].content \in Contents
  BY <1>0, RequestFields, AdmissibleFields DEF Insert, JobsAreAdmissible
<1>2. CASE rows[job[k].task] = NoRow
  <2>1. Len(history[job[k].task]) = 0
    BY <1>0, <1>1, <1>2 DEF VersionCountsCommits
  <2>2. rows'[job[k].task] =
           [owner |-> job[k].as, content |-> job[k].content, version |-> 1]
    BY <1>0, <1>1, <1>2 DEF Insert, TypeOK
  <2>3. rows'[job[k].task] \in Row
    BY <1>1, <2>2 DEF Row
  <2> QED BY <1>0, <1>1, <1>2, <2>1, <2>2, <2>3, StoreAssumption
          DEF Insert, Appends, TypeOK, TaskVersionMissing
<1>3. CASE rows[job[k].task] # NoRow
  BY <1>3 DEF Insert
<1> QED BY <1>2, <1>3

LEMMA CommitAppends ==
    ASSUME IInv, NEW k \in Conns, Commit(k)
    PROVE  Appends(k)
<1>0. /\ TypeOK /\ VersionCountsCommits /\ JobsAreAdmissible
      /\ LockedRowIsPinned /\ OwnerOnly
  BY DEF IInv, JobMatchesCall
<1>1. /\ job[k] \in Request /\ Admissible(job[k]) /\ Visible(job[k])
      /\ job[k].task \in Tasks /\ job[k].as \in Identities
      /\ job[k].kind = "update" /\ job[k].content \in Contents
      /\ rows[job[k].task].version = stored[k] /\ ~Stale(k)
  BY <1>0, RequestFields, AdmissibleFields DEF Commit, JobsAreAdmissible, LockedRowIsPinned
<1>2. /\ rows[job[k].task] \in Row /\ rows[job[k].task].owner = job[k].as
      /\ rows[job[k].task] # NoRow
  BY <1>0, <1>1, VisibleTypes DEF Visible
<1>3. /\ Len(history[job[k].task]) > 0
      /\ rows[job[k].task].version = Len(history[job[k].task])
      /\ history[job[k].task][1].as = job[k].as
  BY <1>0, <1>1, <1>2 DEF VersionCountsCommits
<1>4. rows'[job[k].task] =
         [rows[job[k].task] EXCEPT !.content = job[k].content,
                                   !.version = NextVersion(k)]
  BY <1>0, <1>1 DEF Commit, TypeOK
<1>5. NextVersion(k) = Len(history[job[k].task]) + 1
  BY <1>3 DEF NextVersion
<1>6. /\ rows'[job[k].task].content = job[k].content
      /\ rows'[job[k].task].version = NextVersion(k)
      /\ rows'[job[k].task].owner = job[k].as
      /\ rows'[job[k].task] \in Row
  <2>1. NextVersion(k) \in Nat
    BY <1>2, <1>3 DEF NextVersion, Row
  <2> QED BY <1>1, <1>2, <1>4, <2>1 DEF Row
<1>7. job[k].prev \in {TaskVersionMissing, Len(history[job[k].task])}
  BY <1>1, <1>3 DEF Stale
<1> QED BY <1>0, <1>1, <1>3, <1>5, <1>6, <1>7, StoreAssumption
        DEF Commit, Appends, TypeOK

(* No other step writes. *)
LEMMA WritesAppend ==
    ASSUME IInv, [Next]_vars
    PROVE  UNCHANGED <<rows, history>> \/ \E k \in Conns : Appends(k)
<1>1. ASSUME NEW k \in Conns, Statement(k)
      PROVE  UNCHANGED <<rows, history>> \/ Appends(k)
  BY <1>1, InsertAppends, CommitAppends
  DEF Statement, Select, MissRow, LockRow, RejectStale, WriteRow
<1>2. (\E k \in Conns : Statement(k)) \/ UNCHANGED <<rows, history>>
  BY DEF Next, vars, Call, Refuse, FailEarly, Acquire, Abandon, Discard, table
<1> QED BY <1>1, <1>2

(* The log only grows, at its end. *)
LEMMA LogGrows ==
    ASSUME TypeOK, NEW k \in Conns, Appends(k), NEW t \in Tasks
    PROVE  /\ history[t] \in Seq(Request) /\ Len(history[t]) \in Nat
           /\ t # job[k].task => history'[t] = history[t]
           /\ t = job[k].task =>
                 /\ Len(history'[t]) = Len(history[t]) + 1
                 /\ history'[t][Len(history[t]) + 1] = job[k]
           /\ \A i \in 1..Len(history[t]) : history'[t][i] = history[t][i]
<1>1. history[t] \in Seq(Request) /\ Len(history[t]) \in Nat
  BY DEF TypeOK
<1>2. CASE t = job[k].task
  <2>1. history'[t] = Append(history[t], job[k]) /\ job[k] \in Request
    BY <1>2 DEF Appends, TypeOK
  <2> QED BY <1>1, <1>2, <2>1
<1>3. CASE t # job[k].task
  BY <1>1, <1>3 DEF Appends, TypeOK
<1> QED BY <1>1, <1>2, <1>3

-----------------------------------------------------------------------------
(* The row stays the last entry of its log. *)
LEMMA VersionStep == IInv /\ [Next]_vars => VersionCountsCommits'
<1> SUFFICES ASSUME IInv, [Next]_vars PROVE VersionCountsCommits'
  OBVIOUS
<1>0. TypeOK /\ VersionCountsCommits /\ OwnerOnly
  BY DEF IInv
<1>1. CASE UNCHANGED <<rows, history>>
  BY <1>0, <1>1 DEF VersionCountsCommits
<1>2. ASSUME NEW k \in Conns, Appends(k), NEW t \in Tasks
      PROVE  IF rows'[t] = NoRow
             THEN Len(history'[t]) = 0
             ELSE /\ Len(history'[t]) > 0
                  /\ rows'[t].version = Len(history'[t])
                  /\ rows'[t].content = history'[t][Len(history'[t])].content
                  /\ rows'[t].owner = history'[t][1].as
  <2>1. CASE t # job[k].task
    <3>1. history'[t] = history[t]
      BY <1>0, <1>2, <2>1, LogGrows
    <3>2. rows'[t] = rows[t]
      BY <1>2, <2>1 DEF Appends
    <3> QED BY <1>0, <3>1, <3>2 DEF VersionCountsCommits
  <2>2. CASE t = job[k].task
    <3>1. /\ Len(history'[t]) = Len(history[t]) + 1 /\ Len(history[t]) \in Nat
          /\ history'[t][Len(history'[t])] = job[k]
      BY <1>0, <1>2, <2>2, LogGrows
    <3>3. /\ rows'[t] # NoRow /\ rows'[t].version = Len(history'[t])
          /\ rows'[t].content = job[k].content /\ rows'[t].owner = job[k].as
      BY <1>2, <2>2, <3>1 DEF Appends
    <3>2. history'[t][1].as = job[k].as
      <4>1. CASE Len(history[t]) = 0
        BY <3>1, <4>1
      <4>2. CASE Len(history[t]) > 0
        <5>1. history'[t][1] = history[t][1]
          BY <1>0, <1>2, <2>2, <4>2, LogGrows
        <5> QED BY <1>2, <2>2, <4>2, <5>1 DEF Appends
      <4> QED BY <3>1, <4>1, <4>2
    <3> QED BY <3>1, <3>2, <3>3
  <2> QED BY <2>1, <2>2
<1> QED BY <1>1, <1>2, WritesAppend DEF VersionCountsCommits

(* An appended write names the version it follows, or none. *)
LEMMA LostUpdateStep == IInv /\ [Next]_vars => NoLostUpdate'
<1> SUFFICES ASSUME IInv, [Next]_vars PROVE NoLostUpdate'
  OBVIOUS
<1>0. TypeOK /\ NoLostUpdate
  BY DEF IInv
<1>1. CASE UNCHANGED <<rows, history>>
  BY <1>0, <1>1 DEF NoLostUpdate
<1>2. ASSUME NEW k \in Conns, Appends(k),
             NEW t \in Tasks, NEW i \in 1..Len(history'[t])
      PROVE  /\ history'[t][i].prev \in {TaskVersionMissing, i - 1}
             /\ history'[t][i].kind = (IF i = 1 THEN "create" ELSE "update")
  <2>1. CASE i \in 1..Len(history[t])
    <3>1. history'[t][i] = history[t][i]
      BY <1>0, <1>2, <2>1, LogGrows
    <3> QED BY <1>0, <2>1, <3>1 DEF NoLostUpdate
  <2>2. CASE i \notin 1..Len(history[t])
    <3>1. t = job[k].task /\ i = Len(history[t]) + 1 /\ Len(history[t]) \in Nat
      BY <1>0, <1>2, <2>2, LogGrows
    <3>2. history'[t][i] = job[k]
      BY <1>0, <1>2, <3>1, LogGrows
    <3>3. /\ job[k].prev \in {TaskVersionMissing, Len(history[t])}
          /\ job[k].kind = (IF Len(history[t]) = 0 THEN "create" ELSE "update")
      BY <1>2, <3>1 DEF Appends
    <3> QED BY <3>1, <3>2, <3>3
  <2> QED BY <2>1, <2>2
<1> QED BY <1>1, <1>2, WritesAppend DEF NoLostUpdate

-----------------------------------------------------------------------------
(* Where an answer that says something about a task may come from. *)
Answered(c) ==
    \/ reply'[c] = reply[c]
    \/ reply'[c].status \notin {"ok", "conflict"}
    \/ \E k \in Conns :
          /\ UNCHANGED <<rows, history>> /\ job[k] \in Request
          /\ Admissible(job[k]) /\ Visible(job[k])
          /\ \/ reply'[c] = Failure(job[k], "conflict")
             \/ reply'[c] = Success(job[k], rows[job[k].task].version,
                                            rows[job[k].task].content)
    \/ \E k \in Conns :
          /\ Appends(k)
          /\ reply'[c] = Success(job[k], Len(history[job[k].task]) + 1, job[k].content)

(* Finishing with an answer changes at most the reply of one goroutine. *)
LEMMA FinishAnswers ==
    ASSUME TypeOK, NEW k \in Conns, NEW answer, Finish(k, answer), NEW c \in Clients
    PROVE  reply'[c] = reply[c] \/ reply'[c] = answer
    BY DEF Finish, Return, client, TypeOK

LEMMA AppendAnswers ==
    ASSUME TypeOK, NEW k \in Conns, Appends(k), NEW c \in Clients
    PROVE  Answered(c)
<1>1. Finish(k, Success(job[k], Len(history[job[k].task]) + 1, job[k].content))
  BY DEF Appends
<1>2. \/ reply'[c] = reply[c]
      \/ reply'[c] = Success(job[k], Len(history[job[k].task]) + 1, job[k].content)
  BY <1>1, FinishAnswers
<1> QED BY <1>2 DEF Answered

LEMMA AnswerSources ==
    ASSUME IInv, [Next]_vars, NEW c \in Clients
    PROVE  Answered(c)
<1>0. TypeOK /\ JobsAreAdmissible /\ LockedRowIsPinned
  BY DEF IInv, JobMatchesCall
<1>1. ASSUME NEW d \in Clients, Call(d) \/ Refuse(d) \/ FailEarly(d) PROVE Answered(c)
  BY <1>0, <1>1
  DEF Call, Refuse, FailEarly, Return, Refusal, Failure, NoReply, TypeOK, Answered, Admissible
<1>2. CASE \E d \in Clients, k \in Conns : Acquire(d, k)
  BY <1>2 DEF Acquire, client, Answered
<1>3. ASSUME NEW k \in Conns, Statement(k) PROVE Answered(c)
  <2>1. CASE Insert(k)
    <3>1. CASE Appends(k)
      BY <1>0, <3>1, AppendAnswers
    <3>2. CASE UNCHANGED <<rows, history>> /\ ~Appends(k)
      <4>1. rows[job[k].task] # NoRow
        <5>1. SUFFICES ASSUME rows[job[k].task] = NoRow PROVE FALSE
          OBVIOUS
        <5>2. job[k].task \in Tasks
          BY <1>0, <2>1, AdmissibleFields DEF Insert, JobsAreAdmissible
        <5>3. history'[job[k].task] = Append(history[job[k].task], job[k])
          BY <1>0, <2>1, <5>1, <5>2 DEF Insert, TypeOK
        <5>4. history[job[k].task] \in Seq(Request)
          BY <1>0, <5>2 DEF TypeOK
        <5>5. Len(history'[job[k].task]) = Len(history[job[k].task]) + 1
          BY <5>3, <5>4
        <5> QED BY <3>2, <5>4, <5>5
      <4>2. Finish(k, Failure(job[k], "exists"))
        BY <2>1, <4>1 DEF Insert
      <4> QED BY <1>0, <4>2, FinishAnswers DEF Answered, Failure
    <3> QED BY <2>1, <3>1, <3>2, InsertAppends
  <2>2. CASE Select(k)
    <3>1. job[k] \in Request /\ Admissible(job[k])
      BY <1>0, <2>2 DEF Select, JobsAreAdmissible
    <3>2. CASE Visible(job[k])
      BY <1>0, <2>2, <3>1, <3>2, FinishAnswers DEF Select, Answered
    <3>3. CASE ~Visible(job[k])
      BY <1>0, <2>2, <3>3, FinishAnswers DEF Select, Answered, Failure
    <3> QED BY <3>2, <3>3
  <2>3. CASE MissRow(k)
    BY <1>0, <2>3, FinishAnswers DEF MissRow, Answered, Failure
  <2>4. CASE LockRow(k) \/ WriteRow(k)
    BY <2>4 DEF LockRow, WriteRow, client, Answered
  <2>5. CASE RejectStale(k)
    BY <1>0, <2>5, FinishAnswers
    DEF RejectStale, Answered, JobsAreAdmissible, LockedRowIsPinned
  <2>6. CASE Commit(k)
    <3>1. Appends(k)
      BY <2>6, CommitAppends
    <3> QED BY <1>0, <3>1, AppendAnswers
  <2> QED BY <1>3, <2>1, <2>2, <2>3, <2>4, <2>5, <2>6 DEF Statement
<1>4. ASSUME NEW k \in Conns, Abandon(k) PROVE Answered(c)
  BY <1>0, <1>4 DEF Abandon, Return, Failure, TypeOK, Answered
<1>5. CASE \E k \in Conns : Discard(k)
  BY <1>5 DEF Discard, client, Answered
<1>6. CASE UNCHANGED vars
  BY <1>6 DEF vars, Answered
<1> QED BY <1>1, <1>2, <1>3, <1>4, <1>5, <1>6 DEF Next

(* An answered write stays in the log. *)
LEMMA DurableStep == IInv /\ [Next]_vars => AcknowledgedIsDurable'
<1> SUFFICES ASSUME IInv, [Next]_vars, NEW c \in Clients, reply'[c].status = "ok"
             PROVE  /\ reply'[c].version \in 1..Len(history'[reply'[c].task])
                    /\ history'[reply'[c].task][reply'[c].version].content = reply'[c].content
                    /\ history'[reply'[c].task][reply'[c].version].as = reply'[c].as
  BY DEF AcknowledgedIsDurable
<1> DEFINE InLog(t, v, x, id) == /\ v \in 1..Len(history[t])
                                 /\ history[t][v].content = x
                                 /\ history[t][v].as = id
<1>0. /\ TypeOK /\ AcknowledgedIsDurable /\ VersionCountsCommits
      /\ OwnerOnly /\ AnswersNameTasks
  BY DEF IInv
(* What is in the log of a task stays there. *)
<1>1. ASSUME NEW t \in Tasks, NEW v, NEW x, NEW id, InLog(t, v, x, id)
      PROVE  InLog(t, v, x, id)'
  <2>1. CASE UNCHANGED <<rows, history>>
    BY <1>1, <2>1
  <2>2. ASSUME NEW k \in Conns, Appends(k) PROVE InLog(t, v, x, id)'
    <3>1. Len(history'[t]) >= Len(history[t]) /\ history'[t][v] = history[t][v]
      BY <1>0, <1>1, <2>2, LogGrows
    <3>2. Len(history[t]) \in Nat /\ Len(history'[t]) \in Nat
      BY <1>0, <2>2, LogGrows
    <3> QED BY <1>1, <3>1, <3>2
  <2> QED BY <2>1, <2>2, WritesAppend
<1>2. CASE reply'[c] = reply[c]
  <2>1. InLog(reply[c].task, reply[c].version, reply[c].content, reply[c].as)
    BY <1>0, <1>2 DEF AcknowledgedIsDurable
  <2>2. reply[c].task \in Tasks
    BY <1>0, <1>2 DEF AnswersNameTasks
  <2> QED BY <1>1, <1>2, <2>1, <2>2
<1>3. ASSUME NEW k \in Conns, UNCHANGED <<rows, history>>, job[k] \in Request,
             Admissible(job[k]), Visible(job[k]),
             reply'[c] = Success(job[k], rows[job[k].task].version,
                                         rows[job[k].task].content)
      PROVE  InLog(reply[c].task, reply[c].version, reply[c].content, reply[c].as)'
  <2>1. /\ job[k].task \in Tasks /\ rows[job[k].task] # NoRow
        /\ rows[job[k].task].owner = job[k].as
    BY <1>0, <1>3, AdmissibleFields, VisibleTypes DEF Visible
  <2>2. InLog(job[k].task, rows[job[k].task].version, rows[job[k].task].content, job[k].as)
    <3>1. Len(history[job[k].task]) \in Nat
      BY <1>0, <2>1 DEF TypeOK
    <3> QED BY <1>0, <2>1, <3>1 DEF VersionCountsCommits, OwnerOnly
  <2> QED BY <1>3, <2>2 DEF Success
<1>4. ASSUME NEW k \in Conns, Appends(k),
             reply'[c] = Success(job[k], Len(history[job[k].task]) + 1, job[k].content)
      PROVE  InLog(reply[c].task, reply[c].version, reply[c].content, reply[c].as)'
  <2>1. job[k].task \in Tasks
    BY <1>4 DEF Appends
  <2>2. /\ Len(history[job[k].task]) \in Nat
        /\ Len(history'[job[k].task]) = Len(history[job[k].task]) + 1
        /\ history'[job[k].task][Len(history[job[k].task]) + 1] = job[k]
    BY <1>0, <1>4, <2>1, LogGrows
  <2>3. /\ reply'[c].task = job[k].task /\ reply'[c].as = job[k].as
        /\ reply'[c].content = job[k].content
        /\ reply'[c].version = Len(history[job[k].task]) + 1
    BY <1>4 DEF Success
  <2>4. Len(history[job[k].task]) + 1 \in 1..Len(history'[job[k].task])
    BY <2>2
  <2> QED BY <2>2, <2>3, <2>4
<1>5. Answered(c)
  BY AnswerSources
<1>6. CASE \E k \in Conns :
              /\ UNCHANGED <<rows, history>> /\ job[k] \in Request
              /\ Admissible(job[k]) /\ Visible(job[k])
              /\ reply'[c] = Success(job[k], rows[job[k].task].version,
                                             rows[job[k].task].content)
  BY <1>3, <1>6
<1>7. CASE \E k \in Conns :
              /\ Appends(k)
              /\ reply'[c] = Success(job[k], Len(history[job[k].task]) + 1, job[k].content)
  BY <1>4, <1>7
<1>8. \A k \in Conns : reply'[c] # Failure(job[k], "conflict")
  BY AnswerFields
<1> QED BY <1>2, <1>5, <1>6, <1>7, <1>8 DEF Answered

(* Only the creator writes, and only the creator is told anything. *)
LEMMA OwnerStep == IInv /\ [Next]_vars => OwnerOnly' /\ AnswersNameTasks'
<1> SUFFICES ASSUME IInv, [Next]_vars PROVE OwnerOnly' /\ AnswersNameTasks'
  OBVIOUS
<1>0. TypeOK /\ OwnerOnly /\ VersionCountsCommits /\ AnswersNameTasks
  BY DEF IInv
<1>1. ASSUME NEW t \in Tasks, NEW i \in 1..Len(history'[t])
      PROVE  history'[t][i].as = history'[t][1].as
  <2>1. CASE UNCHANGED <<rows, history>>
    BY <1>0, <1>1, <2>1 DEF OwnerOnly
  <2>2. ASSUME NEW k \in Conns, Appends(k) PROVE history'[t][i].as = history'[t][1].as
    <3>1. Len(history[t]) \in Nat /\ Len(history'[t]) \in {Len(history[t]), Len(history[t]) + 1}
      BY <1>0, <2>2, LogGrows
    <3>2. CASE i \in 1..Len(history[t])
      <4>1. history'[t][i] = history[t][i] /\ history'[t][1] = history[t][1]
        BY <1>0, <2>2, <3>1, <3>2, LogGrows
      <4> QED BY <1>0, <3>2, <4>1 DEF OwnerOnly
    <3>3. CASE i = Len(history[t]) + 1
      <4>1. t = job[k].task /\ history'[t][i] = job[k]
        BY <1>0, <1>1, <2>2, <3>1, <3>3, LogGrows
      <4>2. CASE Len(history[t]) = 0
        BY <3>3, <4>2
      <4>3. CASE Len(history[t]) > 0
        <5>1. history'[t][1] = history[t][1]
          BY <1>0, <2>2, <3>1, <4>3, LogGrows
        <5>2. history[t][1].as = job[k].as
          BY <2>2, <4>1, <4>3 DEF Appends
        <5> QED BY <4>1, <5>1, <5>2
      <4> QED BY <3>1, <4>2, <4>3
    <3> QED BY <1>1, <3>1, <3>2, <3>3
  <2> QED BY <2>1, <2>2, WritesAppend
<1> DEFINE Owns(t, id) == t \in Tasks /\ Len(history[t]) > 0 /\ history[t][1].as = id
<1>2. ASSUME NEW c \in Clients, reply'[c].status \in {"ok", "conflict"}
      PROVE  Owns(reply[c].task, reply[c].as)'
  <2>1. ASSUME NEW t, NEW id, Owns(t, id) PROVE Owns(t, id)'
    <3>1. CASE UNCHANGED <<rows, history>>
      BY <2>1, <3>1
    <3>2. ASSUME NEW k \in Conns, Appends(k) PROVE Owns(t, id)'
      <4>1. Len(history[t]) \in Nat /\ Len(history'[t]) \in {Len(history[t]), Len(history[t]) + 1}
        BY <1>0, <2>1, <3>2, LogGrows
      <4>2. history'[t][1] = history[t][1]
        BY <1>0, <2>1, <3>2, <4>1, LogGrows
      <4> QED BY <2>1, <4>1, <4>2
    <3> QED BY <3>1, <3>2, WritesAppend
  <2>2. CASE reply'[c] = reply[c]
    <3>1. Owns(reply[c].task, reply[c].as)
      BY <1>0, <1>2, <2>2 DEF OwnerOnly, AnswersNameTasks
    <3> QED BY <2>1, <2>2, <3>1
  <2>3. ASSUME NEW k \in Conns, job[k] \in Request, Admissible(job[k]), Visible(job[k]),
               reply'[c].task = job[k].task, reply'[c].as = job[k].as
        PROVE  Owns(reply[c].task, reply[c].as)'
    <3>1. Owns(job[k].task, job[k].as)
      BY <1>0, <2>3, AdmissibleFields, VisibleTypes DEF Visible, VersionCountsCommits
    <3> QED BY <2>1, <2>3, <3>1
  <2>4. ASSUME NEW k \in Conns, Appends(k),
               reply'[c].task = job[k].task, reply'[c].as = job[k].as
        PROVE  Owns(reply[c].task, reply[c].as)'
    <3>1. job[k].task \in Tasks
      BY <2>4 DEF Appends
    <3>2. CASE Len(history[job[k].task]) = 0
      BY <1>0, <2>4, <3>1, <3>2, LogGrows
    <3>3. CASE Len(history[job[k].task]) > 0
      <4>1. Owns(job[k].task, job[k].as)
        BY <2>4, <3>1, <3>3 DEF Appends
      <4> QED BY <2>1, <2>4, <4>1
    <3>4. Len(history[job[k].task]) \in Nat
      BY <1>0, <3>1 DEF TypeOK
    <3> QED BY <3>2, <3>3, <3>4
  <2>5. \/ reply'[c] = reply[c]
        \/ \E k \in Conns :
              /\ reply'[c].task = job[k].task /\ reply'[c].as = job[k].as
              /\ \/ job[k] \in Request /\ Admissible(job[k]) /\ Visible(job[k])
                 \/ Appends(k)
    BY <1>2, AnswerSources, AnswerFields DEF Answered
  <2> QED BY <2>2, <2>3, <2>4, <2>5
<1> QED BY <1>1, <1>2 DEF OwnerOnly, AnswersNameTasks

-----------------------------------------------------------------------------
LEMMA InitInv == Init => IInv
<1> SUFFICES ASSUME Init PROVE IInv
  OBVIOUS
<1>1. NoReply \in Reply /\ NoReply.status = "none"
  BY DEF NoReply, Reply, Status
<1>2. TypeOK
  BY <1>1 DEF Init, TypeOK, Phase
<1>3. JobMatchesCall
  BY DEF Init, JobMatchesCall, CallsAreOwn, JobsAreAdmissible, ListenersMatch
<1>4. LockedRowIsPinned /\ VersionCountsCommits /\ NoLostUpdate
  BY DEF Init, LockedRowIsPinned, VersionCountsCommits, NoLostUpdate
<1>5. AcknowledgedIsDurable /\ OwnerOnly /\ AnswersNameTasks
  BY <1>1 DEF Init, AcknowledgedIsDurable, OwnerOnly, AnswersNameTasks
<1> QED BY <1>2, <1>3, <1>4, <1>5 DEF IInv

LEMMA StepInv == IInv /\ [Next]_vars => IInv'
BY TypeStep, JobStep, PinStep, VersionStep, LostUpdateStep, DurableStep, OwnerStep DEF IInv

(* The inductive invariant holds in every reachable state, whatever the    *)
(* number of goroutines, connections and tasks.                            *)
THEOREM StoreInvariant == Spec => []IInv
BY InitInv, StepInv, PTL DEF Spec

(* Every variable keeps its type. *)
THEOREM StoreTypes == Spec => []TypeOK
<1>1. IInv => TypeOK
  BY DEF IInv
<1> QED BY <1>1, StoreInvariant, PTL

(* A transaction that read a version under the lock commits on that version. *)
THEOREM StorePinsLockedRows == Spec => []LockedRowIsPinned
<1>1. IInv => LockedRowIsPinned
  BY DEF IInv
<1> QED BY <1>1, StoreInvariant, PTL

(* The version of a row is the number of writes committed to it. *)
THEOREM StoreCountsCommits == Spec => []VersionCountsCommits
<1>1. IInv => VersionCountsCommits
  BY DEF IInv
<1> QED BY <1>1, StoreInvariant, PTL

(* No committed update is lost, with orphaned transactions or without. *)
THEOREM StoreLosesNoUpdate == Spec => []NoLostUpdate
<1>1. IInv => NoLostUpdate
  BY DEF IInv
<1> QED BY <1>1, StoreInvariant, PTL

(* What was acknowledged stays readable at the version acknowledged. *)
THEOREM StoreIsDurable == Spec => []AcknowledgedIsDurable
<1>1. IInv => AcknowledgedIsDurable
  BY DEF IInv
<1> QED BY <1>1, StoreInvariant, PTL

(* Only the creator of a task ever reads it, changes it, or is told that   *)
(* its version moved.                                                      *)
THEOREM StoreIsolatesOwners == Spec => []OwnerOnly
<1>1. IInv => OwnerOnly
  BY DEF IInv
<1> QED BY <1>1, StoreInvariant, PTL

-----------------------------------------------------------------------------
(* What TaskListing takes from here: how the rows change that a listing    *)
(* reads.                                                                  *)

Open(k, t) == phase[k] \in {"locked", "committing"} /\ job[k].task = t

(* A row is open in one transaction at a time, orphaned ones included      *)
(* (store.go 90-117).                                                      *)
OneWriterPerRow == \A t \in Tasks, j, k \in Conns : Open(j, t) /\ Open(k, t) => j = k

(* A row that was created stays, with its owner; it changes by one version *)
(* at a time, and only when the transaction that has it open ends, so that *)
(* nobody works on a row that has changed under it (store.go 55-68,        *)
(* 90-126).                                                                *)
RowChangesInTurn ==
    \A t \in Tasks : rows'[t] # rows[t] =>
       /\ rows'[t] # NoRow
       /\ rows[t] # NoRow =>
             /\ rows'[t].owner = rows[t].owner
             /\ rows'[t].version = rows[t].version + 1
             /\ \E k \in Conns : Open(k, t) /\ phase'[k] = "free"

(* So the rows change as TaskListing has them change: one writer, who      *)
(* keeps the owner (store.go 90-126).                                      *)
THEOREM StoreWritesInTurn == Spec => []OneWriterPerRow /\ [][RowChangesInTurn]_vars
<1>1. IInv => OneWriterPerRow
  BY DEF IInv, LockedRowIsPinned, OneWriterPerRow, Open
<1>2. ASSUME IInv, [Next]_vars PROVE RowChangesInTurn
  <2>0. TypeOK /\ LockedRowIsPinned /\ JobsAreAdmissible
    BY <1>2 DEF IInv, JobMatchesCall
  <2>1. UNCHANGED rows \/ \E k \in Conns : Insert(k) \/ Commit(k)
    BY <1>2 DEF Next, vars, Call, Refuse, FailEarly, Acquire, Abandon, Discard, table,
                Statement, Select, MissRow, LockRow, RejectStale, WriteRow
  <2>2. ASSUME NEW k \in Conns, Insert(k) PROVE RowChangesInTurn
    <3>1. UNCHANGED <<rows, history>> \/ Appends(k)
      BY <1>2, <2>2, InsertAppends
    <3>2. \A t \in Tasks : rows'[t] # rows[t] => rows[t] = NoRow
      BY <2>0, <2>2 DEF Insert, TypeOK
    <3> QED BY <2>0, <3>1, <3>2 DEF Appends, RowChangesInTurn, TypeOK
  <2>3. ASSUME NEW k \in Conns, Commit(k) PROVE RowChangesInTurn
    <3>1. /\ Open(k, job[k].task) /\ phase'[k] = "free" /\ job[k].task \in Tasks
          /\ rows[job[k].task] \in Row
      BY <2>0, <2>3, ReleaseFrame, AdmissibleFields, VisibleTypes
      DEF Commit, Finish, Open, LockedRowIsPinned, JobsAreAdmissible
    <3>2. rows' = [rows EXCEPT ![job[k].task] =
                     [@ EXCEPT !.content = job[k].content, !.version = NextVersion(k)]]
      BY <2>3 DEF Commit
    <3>3. \A t \in Tasks : rows'[t] # rows[t] => t = job[k].task
      BY <2>0, <3>2 DEF TypeOK
    <3>4. /\ rows'[job[k].task].owner = rows[job[k].task].owner
          /\ rows'[job[k].task].version = rows[job[k].task].version + 1
      BY <2>0, <3>1, <3>2 DEF TypeOK, Row, NextVersion
    <3>5. rows'[job[k].task] # NoRow
      BY <1>2, <2>3, CommitAppends DEF Appends
    <3> QED BY <3>1, <3>3, <3>4, <3>5 DEF RowChangesInTurn
  <2>4. CASE UNCHANGED rows
    BY <2>4 DEF RowChangesInTurn
  <2> QED BY <2>1, <2>2, <2>3, <2>4
<1> QED BY <1>1, <1>2, StoreInvariant, PTL DEF Spec

-----------------------------------------------------------------------------
(* Nobody waits for somebody who waits. *)

(* A row lock belongs to a transaction that works on that row. *)
LocksAreInUse == \A t \in Tasks : rowLock[t] # NoConn => Open(rowLock[t], t)

LEMMA LocksStayInUse == IInv /\ LocksAreInUse /\ [Next]_vars => LocksAreInUse'
<1> SUFFICES ASSUME IInv, LocksAreInUse, [Next]_vars,
                    NEW t \in Tasks, rowLock'[t] # NoConn
             PROVE  phase'[rowLock'[t]] \in {"locked", "committing"} /\ job'[rowLock'[t]].task = t
  BY DEF LocksAreInUse, Open
<1> DEFINE Goal == phase'[rowLock'[t]] \in {"locked", "committing"} /\ job'[rowLock'[t]].task = t
<1>0. TypeOK /\ LockedRowIsPinned /\ JobsAreAdmissible
  BY DEF IInv, JobMatchesCall
<1>1. ASSUME NEW k \in Conns, Release(k) PROVE Goal
  <2>1. rowLock'[t] = rowLock[t] /\ rowLock[t] \in Conns \ {k} /\ Open(rowLock[t], t)
    BY <1>0, <1>1 DEF Release, TypeOK, LocksAreInUse
  <2>2. phase'[rowLock[t]] = phase[rowLock[t]] /\ job'[rowLock[t]] = job[rowLock[t]]
    BY <1>0, <1>1, <2>1, ReleaseFrame
  <2> QED BY <2>1, <2>2 DEF Open
<1>2. ASSUME NEW k \in Conns, LockRow(k) PROVE Goal
  <2>1. phase[k] = "begun" /\ job' = job /\ phase' = [phase EXCEPT ![k] = "locked"]
        /\ rowLock' = [rowLock EXCEPT ![job[k].task] = k]
    BY <1>2 DEF LockRow
  <2>2. CASE t = job[k].task
    BY <1>0, <2>1, <2>2 DEF Open, TypeOK
  <2>3. CASE t # job[k].task
    <3>1. rowLock'[t] = rowLock[t] /\ Open(rowLock[t], t) /\ rowLock[t] \in Conns
      BY <1>0, <2>1, <2>3 DEF LocksAreInUse, TypeOK
    <3>2. rowLock[t] # k
      BY <2>1, <3>1 DEF Open
    <3> QED BY <1>0, <2>1, <3>1, <3>2 DEF Open, TypeOK
  <2> QED BY <2>2, <2>3
<1>3. ASSUME NEW k \in Conns, WriteRow(k) PROVE Goal
  <2>1. rowLock[job[k].task] = k /\ job[k].task \in Tasks
    BY <1>0, <1>3, AdmissibleFields DEF WriteRow, LockedRowIsPinned, JobsAreAdmissible
  <2>2. rowLock' = rowLock /\ job' = job /\ phase' = [phase EXCEPT ![k] = "committing"]
    BY <1>0, <1>3, <2>1 DEF WriteRow, TypeOK
  <2>3. Open(rowLock[t], t) /\ rowLock[t] \in Conns
    BY <1>0, <2>2 DEF LocksAreInUse, TypeOK
  <2> QED BY <1>0, <2>2, <2>3 DEF Open, TypeOK
<1>4. ASSUME NEW c \in Clients, NEW k \in Conns, Acquire(c, k) PROVE Goal
  <2>1. rowLock' = rowLock /\ phase[k] = "free" /\ phase' = [phase EXCEPT ![k] = "begun"]
        /\ job' = [job EXCEPT ![k] = call[c]]
    BY <1>4 DEF Acquire, table
  <2>2. Open(rowLock[t], t) /\ rowLock[t] \in Conns \ {k}
    BY <1>0, <2>1 DEF LocksAreInUse, Open, TypeOK
  <2> QED BY <1>0, <2>1, <2>2 DEF Open, TypeOK
<1>5. CASE UNCHANGED <<rowLock, phase, job>>
  BY <1>5 DEF LocksAreInUse, Open
<1> QED BY <1>1, <1>2, <1>3, <1>4, <1>5
        DEF Next, vars, Call, Refuse, FailEarly, Abandon, Discard, table, backend,
            Statement, Insert, Select, MissRow, RejectStale, Commit, Finish

(* PostgreSQL or the goroutine can take the next step of a connection: the *)
(* guards of Insert, Select, MissRow, LockRow, RejectStale, WriteRow,      *)
(* Commit and Discard.                                                     *)
Movable(k) ==
    /\ phase[k] # "free"
    /\ \/ ~attached[k]
       \/ phase[k] = "committing"
       \/ phase[k] = "locked" /\ (Stale(k) \/ rowLock[job[k].task] \in {k, NoConn})
       \/ /\ phase[k] = "begun"
          /\ job[k].kind = "update" /\ Visible(job[k]) => rowLock[job[k].task] = NoConn

(* A connection that is in use can move, or it waits for a row and the one *)
(* that has this row can: calls never wait for each other in a circle, and *)
(* the pool is never full of calls that all wait (store.go 78-126, 145).   *)
NobodyWaitsForAWaiter ==
    \A k \in Conns : phase[k] # "free" =>
       Movable(k) \/ \E j \in Conns \ {k} : rowLock[job[k].task] = j /\ Movable(j)

(* The store never jams, with orphans or without (store.go 78-126, 145).   *)
THEOREM StoreNeverJams == Spec => []NobodyWaitsForAWaiter
<1>1. Init => LocksAreInUse
  BY DEF Init, LocksAreInUse
<1>2. ASSUME IInv, LocksAreInUse PROVE NobodyWaitsForAWaiter
  <2>0. TypeOK /\ LockedRowIsPinned /\ JobsAreAdmissible
    BY <1>2 DEF IInv, JobMatchesCall
  <2>1. \A j \in Conns : phase[j] \in {"locked", "committing"} => Movable(j)
    BY <2>0 DEF LockedRowIsPinned, Movable
  <2>2. ASSUME NEW k \in Conns, phase[k] = "begun", ~Movable(k)
        PROVE  \E j \in Conns \ {k} : rowLock[job[k].task] = j /\ Movable(j)
    <3>1. rowLock[job[k].task] # NoConn /\ job[k].task \in Tasks
      BY <2>0, <2>2, AdmissibleFields DEF Movable, JobsAreAdmissible
    <3>2. rowLock[job[k].task] \in Conns /\ Open(rowLock[job[k].task], job[k].task)
      BY <1>2, <2>0, <3>1 DEF TypeOK, LocksAreInUse
    <3> QED BY <2>1, <2>2, <3>2 DEF Open
  <2> QED BY <2>0, <2>1, <2>2 DEF NobodyWaitsForAWaiter, TypeOK, Phase
<1> QED BY <1>1, <1>2, LocksStayInUse, StoreInvariant, PTL DEF Spec

=============================================================================
