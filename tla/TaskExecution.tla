---------------------------- MODULE TaskExecution ----------------------------
(***************************************************************************)
(* internal/orchestrator/executor.go over the task store: executions and   *)
(* cancellations of one task, by any replicas of the server at once.       *)
(*                                                                         *)
(* Execute turns what a dispatcher puts out into a stream of events.  The  *)
(* SDK reads the stream behind it, applies event after event to its copy   *)
(* of the task and saves the copy under the version it last saw.  It stops *)
(* when a save is refused, fails, or its process goes down, and a later    *)
(* message executes the task again, with the artifacts of the first        *)
(* attempt already stored.  Replicas share nothing but the store.          *)
(*                                                                         *)
(* The store is TaskLog, the promise TaskStore keeps: a save that ends in  *)
(* an error may still land later.                                          *)
(*                                                                         *)
(* External, as executor.go and store.go are used by them: the dispatcher  *)
(* (any outputs, then an end or an error) and the SDK (an artifact event   *)
(* without Append replaces the artifact, one with Append adds to it; a     *)
(* task in a final state is neither executed nor canceled; a cancellation  *)
(* that meets a conflict loads the task again).                            *)
(***************************************************************************)
EXTENDS Integers, Sequences

CONSTANTS
    Executions,   \* calls of Execute
    Cancels,      \* calls of Cancel
    Names,        \* artifact identifiers a dispatcher may choose
    Outputs,      \* what a dispatcher may put out, a subset of Output
    MaxOutputs,   \* bound: outputs with parts of one execution
    Buffer,       \* events the SDK takes from a stream ahead of its saves
    Slots,        \* saves that failed and may still land
    NoName,       \* model value: the choice of a name is left to the executor
    NoId,         \* model value: no such artifact yet
    NoTask, NoIdentity, NoContent, NoRequest   \* model values of TaskApi

Processes == Executions \cup Cancels

Output == [name : Names \cup {NoName}, parts : BOOLEAN]

ASSUME ExecutionAssumption ==
    /\ Executions \cap (Cancels \cup Names) = {}
    /\ NoName \notin Names /\ NoId \notin Names \cup Executions
    /\ Outputs \subseteq Output /\ MaxOutputs \in Nat /\ Buffer \in Nat \ {0}

(* Identifiers: the dispatcher's, and one that is generated per execution. *)
Ids == Names \cup Executions

(* A piece of an artifact is known by the output that carried it. *)
Chunk == Executions \X (1..MaxOutputs)

States == {"none", "submitted", "working", "completed", "failed", "canceled"}

Final == {"completed", "failed", "canceled"}

Document == [state : States, pieces : [Ids -> Seq(Chunk)]]

NoDocument == [state |-> "none", pieces |-> [i \in Ids |-> <<>>]]

Status(state) == [kind |-> state]

ArtifactEvent(id, append, chunk) ==
    [kind |-> "artifact", id |-> id, append |-> append, chunk |-> chunk]

Event ==
    [kind : (States \ {"none"}) \cup {"error"}]
        \cup [kind : {"artifact"}, id : Ids, append : BOOLEAN, chunk : Chunk]

VARIABLES
    log, late,    \* the task store
    phase,        \* [Processes -> Phase]: what the SDK does for the call
    copy,         \* [Processes -> [doc, version]]: the task as it last saw it
    taken,        \* [Executions -> Nat]: the events it has saved
    pc,           \* [Executions -> where Execute is]
    stored,       \* [Executions -> BOOLEAN]: execCtx.StoredTask # nil
    artifacts,    \* [Executions -> [Names \cup {NoName} -> Ids or NoId]]: the local map
    sent,         \* [Executions -> Seq(Names \cup {NoName})]: the pieces the dispatcher put out
    events,       \* [Executions -> Seq(Event)]: what Execute has yielded
    broken        \* [Executions -> Nat]: the event whose yield returned false

store == <<log, late>>
sdk == <<phase, copy, taken>>
stream == <<pc, stored, artifacts, sent, events, broken>>
vars == <<log, late, phase, copy, taken, pc, stored, artifacts, sent, events, broken>>

TheTask == "task"
TheOwner == [issuer |-> "issuer", tenant |-> "tenant", subject |-> "subject"]

NoAnswer ==
    [task |-> NoTask, as |-> NoIdentity, status |-> "none", version |-> 0, content |-> NoContent]

(* A call of the store and its answer are one step here: it decides at one *)
(* instant, and until then its caller waits.  So no call is ever pending.  *)
Store == INSTANCE TaskLog WITH
    op <- [p \in Processes |-> NoRequest], result <- [p \in Processes |-> NoAnswer],
    Clients <- Processes, Tasks <- {TheTask}, Identities <- {TheOwner},
    Contents <- Document, MaxVersion <- 0, Requests <- {}

(* The task as stored. *)
Latest ==
    LET writes == log[TheTask]
    IN  IF writes = <<>> THEN NoDocument ELSE writes[Len(writes)].content

NoCopy == [doc |-> NoDocument, version |-> Store!TaskVersionMissing]

Phase == {"idle", "ready", "stopped"}

TypeOK ==
    /\ phase \in [Processes -> Phase]
    /\ copy \in [Processes -> [doc : Document, version : Nat]]
    /\ taken \in [Executions -> Nat]
    /\ pc \in [Executions -> {"out", "enter", "announce", "dispatch"}]
    /\ stored \in [Executions -> BOOLEAN]
    /\ artifacts \in [Executions -> [Names \cup {NoName} -> Ids \cup {NoId}]]
    /\ sent \in [Executions -> Seq(Names \cup {NoName})]
    /\ events \in [Executions -> Seq(Event)]
    /\ broken \in [Executions -> Nat]
    /\ \A w \in Executions : Len(sent[w]) <= MaxOutputs /\ taken[w] <= Len(events[w])
    /\ \A i \in 1..Len(log[TheTask]) : log[TheTask][i].content \in Document

Init ==
    /\ Store!Init
    /\ phase = [p \in Processes |-> "idle"]
    /\ copy = [p \in Processes |-> NoCopy]
    /\ taken = [w \in Executions |-> 0]
    /\ pc = [w \in Executions |-> "out"]
    /\ stored = [w \in Executions |-> FALSE]
    /\ artifacts = [w \in Executions |-> [n \in Names \cup {NoName} |-> NoId]]
    /\ sent = [w \in Executions |-> <<>>]
    /\ events = [w \in Executions |-> <<>>]
    /\ broken = [w \in Executions |-> 0]

-----------------------------------------------------------------------------
(* Execute. *)

Set(f, w, value) == [f EXCEPT ![w] = value]

(* Mutant: the result of yield is ignored. *)
YieldAnyway(w, e, next) ==
    /\ phase[w] # "stopped" => Len(events[w]) < taken[w] + Buffer
    /\ events' = Set(events, w, Append(events[w], e))
    /\ pc' = Set(pc, w, next)
    /\ broken' \in {broken, Set(broken, w, Len(events[w]) + 1)}

(* yield(e) returns true; or it returns false, as it does when the SDK has *)
(* stopped, and Execute returns.                                           *)
Yield(w, e, next) ==
    /\ phase[w] # "stopped" => Len(events[w]) < taken[w] + Buffer
    /\ events' = Set(events, w, Append(events[w], e))
    /\ \/ phase[w] # "stopped" /\ pc' = Set(pc, w, next) /\ UNCHANGED broken
       \/ pc' = Set(pc, w, "out") /\ broken' = Set(broken, w, Len(events[w]) + 1)

(* A call without a message yields an error and nothing else. *)
RefuseNoMessage(w) ==
    /\ pc[w] = "enter"
    /\ Yield(w, Status("error"), "out")
    /\ UNCHANGED <<store, sdk, stored, artifacts, sent>>

(* A new task is announced as submitted, a stored one is not. *)
Submit(w) ==
    /\ pc[w] = "enter"
    /\ IF stored[w]
       THEN pc' = Set(pc, w, "announce") /\ UNCHANGED <<events, broken>>
       ELSE Yield(w, Status("submitted"), "announce")
    /\ UNCHANGED <<store, sdk, stored, artifacts, sent>>

Work(w) ==
    /\ pc[w] = "announce"
    /\ Yield(w, Status("working"), "dispatch")
    /\ UNCHANGED <<store, sdk, stored, artifacts, sent>>

(* Mutant: every output appends to its artifact. *)
AlwaysAppends(w, o) == TRUE

(* The first output of an artifact in this execution starts it afresh. *)
Appends(w, o) == artifacts[w][o.name] # NoId

(* Mutant: the empty identifier is used as it is. *)
IdAsGiven(w, o) == o.name

(* A nameless artifact gets a fresh identifier. *)
IdOf(w, o) == IF o.name = NoName THEN w ELSE o.name

(* The dispatcher puts out o; an output without parts is passed over. *)
Receive(w, o) ==
    /\ pc[w] = "dispatch"
    /\ IF o.parts
       THEN /\ Len(sent[w]) < MaxOutputs
            /\ sent' = Set(sent, w, Append(sent[w], o.name))
            /\ Yield(w, ArtifactEvent(IdOf(w, o), Appends(w, o), <<w, Len(sent[w]) + 1>>), "dispatch")
            /\ artifacts' = [artifacts EXCEPT ![w][o.name] = IdOf(w, o)]
       ELSE UNCHANGED <<pc, events, broken, artifacts, sent>>
    /\ UNCHANGED <<store, sdk, stored>>

DispatchFails(w) ==
    /\ pc[w] = "dispatch"
    /\ Yield(w, Status("failed"), "out")
    /\ UNCHANGED <<store, sdk, stored, artifacts, sent>>

DispatchEnds(w) ==
    /\ pc[w] = "dispatch"
    /\ Yield(w, Status("completed"), "out")
    /\ UNCHANGED <<store, sdk, stored, artifacts, sent>>

-----------------------------------------------------------------------------
(* The SDK. *)

Request(p, kind, prev, content) ==
    [client |-> p, kind |-> kind, task |-> TheTask, as |-> TheOwner,
     prev |-> prev, content |-> content]

Stop(p) == phase' = Set(phase, p, "stopped") /\ copy' = Set(copy, p, NoCopy)

Reached(p, doc, version) ==
    /\ phase' = Set(phase, p, "ready")
    /\ copy' = Set(copy, p, [doc |-> doc, version |-> version])

(* A task that is not final is handed to Execute or to Cancel, a new one   *)
(* to Execute only.                                                        *)
Load(p) ==
    /\ phase[p] = "idle"
    /\ LET r == Store!Answer(Request(p, "get", Store!TaskVersionMissing, NoContent))
           found == r.status = "ok" /\ r.content.state \notin Final
           new == r.status = "notFound" /\ p \in Executions
       IN  /\ IF found THEN Reached(p, r.content, r.version)
              ELSE IF new THEN Reached(p, NoDocument, Store!TaskVersionMissing)
              ELSE Stop(p)
           /\ pc' = IF p \in Executions /\ (found \/ new) THEN Set(pc, p, "enter") ELSE pc
           /\ stored' = IF p \in Executions THEN Set(stored, p, found) ELSE stored
    /\ UNCHANGED <<store, taken, artifacts, sent, events, broken>>

Applied(doc, e) ==
    CASE e.kind = "error" -> [doc EXCEPT !.state = "failed"]
      [] e.kind = "artifact" ->
            [doc EXCEPT !.pieces[e.id] = IF e.append THEN Append(@, e.chunk) ELSE <<e.chunk>>]
      [] OTHER -> [doc EXCEPT !.state = e.kind]

Saving(p, doc) ==
    IF copy[p].version = Store!TaskVersionMissing
    THEN Request(p, "create", Store!TaskVersionMissing, doc)
    ELSE Request(p, "update", copy[p].version, doc)

(* The next event is applied and saved.  An error may be saved as a        *)
(* failure, and is not if there is no task yet.                            *)
NextSave(w) ==
    LET e == events[w][taken[w] + 1]
    IN  IF e.kind = "error" /\ copy[w].version = Store!TaskVersionMissing
        THEN {} ELSE {Saving(w, Applied(copy[w].doc, e))}

Take(w) ==
    /\ phase[w] = "ready" /\ taken[w] < Len(events[w])
    /\ \E r \in NextSave(w) :
          LET answer == Store!Answer(r)
          IN  /\ log' = Store!Effect(r)
              /\ IF answer.status = "ok"
                 THEN Reached(w, answer.content, answer.version) /\ taken' = Set(taken, w, taken[w] + 1)
                 ELSE Stop(w) /\ UNCHANGED taken
    /\ UNCHANGED <<late, stream>>

CancelSave(c) == Saving(c, Applied(copy[c].doc, Status("canceled")))

(* Cancel asks the dispatcher to stop and yields canceled if it agrees.  A *)
(* save that meets a conflict is done over.                                *)
Cancel(c) ==
    /\ phase[c] = "ready"
    /\ log' = Store!Effect(CancelSave(c))
    /\ IF Store!Answer(CancelSave(c)).status = "conflict"
       THEN phase' = Set(phase, c, "idle") /\ copy' = Set(copy, c, NoCopy)
       ELSE Stop(c)
    /\ UNCHANGED <<late, taken, stream>>

(* The dispatcher does not agree: Cancel yields an error. *)
CancelFails(c) ==
    /\ phase[c] = "ready"
    /\ Stop(c)
    /\ UNCHANGED <<store, taken, stream>>

(* The call of the store fails, and nobody knows its effect. *)
SaveFails(p) ==
    /\ phase[p] = "ready"
    /\ \E r \in IF p \in Cancels THEN {CancelSave(p)}
                ELSE IF taken[p] < Len(events[p]) THEN NextSave(p) ELSE {} :
          \E s \in Slots : late[s] = NoRequest /\ late' = Set(late, s, r)
    /\ Stop(p)
    /\ UNCHANGED <<log, taken, stream>>

(* The SDK stops: a save that fails without effect, an error of its own, a *)
(* panic, or the process goes down.                                        *)
BreakOff(w) ==
    /\ phase[w] = "ready"
    /\ Stop(w)
    /\ UNCHANGED <<store, taken, stream>>

(* A save that failed lands, or never will. *)
Land(s) == Store!Settle(s) /\ UNCHANGED <<sdk, stream>>

-----------------------------------------------------------------------------
Executor(w) ==
    \/ RefuseNoMessage(w) \/ Submit(w) \/ Work(w)
    \/ \E o \in Outputs : Receive(w, o)
    \/ DispatchFails(w) \/ DispatchEnds(w)

Next ==
    \/ \E w \in Executions : Executor(w) \/ Take(w) \/ BreakOff(w)
    \/ \E c \in Cancels : Cancel(c) \/ CancelFails(c)
    \/ \E p \in Processes : Load(p) \/ SaveFails(p)
    \/ \E s \in Slots : Land(s)

Spec == Init /\ [][Next]_vars

-----------------------------------------------------------------------------
(* The stream of a call is a sentence: it starts with submitted exactly    *)
(* for a new task, working precedes the artifacts, nothing follows a final *)
(* status or an error, and nothing an event whose consumer broke off, for  *)
(* Go panics when an iterator goes on then (executor.go 61-110).           *)
StreamWellFormed ==
    \A w \in Executions : \A i \in 1..Len(events[w]) :
       LET kind(j) == events[w][j].kind IN
       /\ kind(i) \in Final \cup {"error"} \/ i = broken[w] => i = Len(events[w])
       /\ kind(i) = "submitted" => i = 1 /\ ~stored[w]
       /\ kind(i) = "artifact" => \E j \in 1..(i - 1) : kind(j) = "working"
       /\ kind(i) = "working" /\ ~stored[w] => kind(1) = "submitted"

(* What the dispatcher put out under a name, by its place in the output.   *)
Mine(w, name) == {i \in 1..Len(sent[w]) : sent[w][i] = name}

(* These pieces of an execution and no others, in their order. *)
Lists(pieces, w, indexes) ==
    /\ {pieces[k] : k \in 1..Len(pieces)} = {<<w, i>> : i \in indexes}
    /\ \A j, k \in 1..Len(pieces) : j < k => pieces[j][2] < pieces[k][2]

ShowsOutputOf(w, doc) ==
    /\ \A n \in Names : Mine(w, n) # {} => Lists(doc.pieces[n], w, Mine(w, n))
    /\ Lists(doc.pieces[w], w, Mine(w, NoName))

(* The pieces an execution put out first under a name, none left out. *)
Begins(pieces, w, name) ==
    \E m \in 0..Len(sent[w]) : Lists(pieces, w, {i \in Mine(w, name) : i <= m})

Unmixed(doc) ==
    /\ \A n \in Names : doc.pieces[n] = <<>> \/ \E w \in Executions : Begins(doc.pieces[n], w, n)
    /\ \A w \in Executions : Begins(doc.pieces[w], w, NoName)

(* No artifact of the stored task mixes the pieces of two executions, or   *)
(* has a gap or two pieces in the wrong order, at any time; and a task     *)
(* that is completed was completed by one execution and holds all pieces   *)
(* of every artifact of it.  That is so whether another execution was      *)
(* broken off before, ran at the same time or left a save behind that      *)
(* landed late.  What such an execution stored under an identifier of its  *)
(* own, or a name the last one does not use, stays in the task beside it:  *)
(* executor.go replaces artifacts and removes none (82-110, store.go       *)
(* 103-105).                                                               *)
TaskShowsWholeOutput ==
    /\ Unmixed(Latest)
    /\ Latest.state = "completed" =>
          LET w == log[TheTask][Len(log[TheTask])].client
          IN  w \in Executions /\ ShowsOutputOf(w, Latest)

(* The states of a task, from one write to the next. *)
Protocol ==
    ({"none"} \X {"submitted"})
        \cup ({"submitted"} \X {"working", "failed", "canceled"})
        \cup ({"working"} \X {"working", "completed", "failed", "canceled"})

(* The stored task goes through its states in their order, whoever writes  *)
(* it: it is submitted once, works before it completes, and nothing is     *)
(* written after a final state, although an execution may go on after the  *)
(* task was canceled, another may have completed it meanwhile, and their   *)
(* saves may land late (executor.go 65-70, 84-88, 110, 127, store.go       *)
(* 103-105).                                                               *)
TaskFollowsProtocol ==
    [][UNCHANGED log \/ <<Latest.state, Latest'.state>> \in Protocol]_vars

=============================================================================
