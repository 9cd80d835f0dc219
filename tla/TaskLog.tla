------------------------------ MODULE TaskLog ------------------------------
(***************************************************************************)
(* What a task store promises (a2asrv/taskstore.Store as this repository   *)
(* uses it): every task is a log of accepted writes, its version is the    *)
(* length of the log, and every answered call takes effect at one instant  *)
(* between its invocation and its answer.  A call that ends in "error" has *)
(* an unknown effect: what it asked for may still be accepted, once, later.*)
(***************************************************************************)
EXTENDS TaskApi

CONSTANT Slots      \* how many given-up calls may still be undecided

VARIABLES
    log,            \* [Tasks -> Seq(Request)], the accepted writes
    op,             \* [Clients -> Request or NoRequest], the pending call
    result,         \* [Clients -> Reply], the answer, until the next call
    late            \* [Slots -> Request or NoRequest], given up, undecided

vars == <<log, op, result, late>>

Init ==
    /\ log = [t \in Tasks |-> <<>>]
    /\ op = [c \in Clients |-> NoRequest]
    /\ result = [c \in Clients |-> NoReply]
    /\ late = [s \in Slots |-> NoRequest]

Exists(r) == log[r.task] # <<>>

(* The creator owns the task for ever. *)
Owned(r) == Exists(r) /\ log[r.task][1].as = r.as

(* Mutant: an update is written whatever its version says. *)
AcceptsAnyVersion(r) ==
    /\ Admissible(r)
    /\ \/ r.kind = "create" /\ ~Exists(r)
       \/ r.kind = "update" /\ Owned(r)

Accepts(r) ==
    /\ Admissible(r)
    /\ \/ r.kind = "create" /\ ~Exists(r)
       \/ /\ r.kind = "update"
          /\ Owned(r)
          /\ r.prev \in {TaskVersionMissing, Len(log[r.task])}

Effect(r) ==
    IF Accepts(r) THEN [log EXCEPT ![r.task] = Append(@, r)] ELSE log

Answer(r) ==
    IF ~Admissible(r) THEN Failure(r, Refusal(r))
    ELSE IF Accepts(r) THEN Success(r, Len(log[r.task]) + 1, r.content)
    ELSE IF r.kind = "create" THEN Failure(r, "exists")
    ELSE IF ~Owned(r) THEN Failure(r, "notFound")
    ELSE IF r.kind = "update" THEN Failure(r, "conflict")
    ELSE Success(r, Len(log[r.task]), log[r.task][Len(log[r.task])].content)

-----------------------------------------------------------------------------
Invoke(c) ==
    /\ op[c] = NoRequest
    /\ \E r \in Requests : r.client = c /\ op' = [op EXCEPT ![c] = r]
    /\ result' = [result EXCEPT ![c] = NoReply]
    /\ UNCHANGED <<log, late>>

Respond(c) ==
    /\ op[c] # NoRequest
    /\ log' = Effect(op[c])
    /\ result' = [result EXCEPT ![c] = Answer(op[c])]
    /\ op' = [op EXCEPT ![c] = NoRequest]
    /\ UNCHANGED late

GiveUp(c) ==
    /\ op[c] # NoRequest
    /\ result' = [result EXCEPT ![c] = Failure(op[c], "error")]
    /\ op' = [op EXCEPT ![c] = NoRequest]
    /\ \/ UNCHANGED late
       \/ \E s \in Slots : late[s] = NoRequest /\ late' = [late EXCEPT ![s] = op[c]]
    /\ UNCHANGED log

Settle(s) ==
    /\ late[s] # NoRequest
    /\ log' \in {log, Effect(late[s])}
    /\ late' = [late EXCEPT ![s] = NoRequest]
    /\ UNCHANGED <<op, result>>

Next ==
    \/ \E c \in Clients : Invoke(c) \/ Respond(c) \/ GiveUp(c)
    \/ \E s \in Slots : Settle(s)

Spec == Init /\ [][Next]_vars

=============================================================================
