------------------------------ MODULE TaskApi ------------------------------
(***************************************************************************)
(* The vocabulary of the task store: what a caller may ask for and what it *)
(* may be answered.  It is shared by the promise (TaskLog) and by the      *)
(* PostgreSQL implementation (TaskStore), so that the two talk about the   *)
(* same requests and replies.                                              *)
(*                                                                         *)
(* A task document is an opaque member of Contents; its identifier is a    *)
(* member of Tasks, or NoTask for a nil task or an empty identifier.       *)
(* Version 0 is taskstore.TaskVersionMissing: "no version stated".         *)
(***************************************************************************)
EXTENDS Integers, Sequences

CONSTANTS
    Clients,      \* goroutines that call the store
    Tasks,        \* task identifiers (one global key space: the primary key)
    Identities,   \* verified identities, records [issuer, tenant, subject]
    Contents,     \* task documents, compared only for equality
    MaxVersion,   \* bound: updates are requested only below this version
    Requests,     \* the requests callers make, a subset of Request
    NoTask, NoIdentity, NoContent, NoRequest   \* model values

(* An identity is no more than its three claims. *)
ASSUME IdentityAssumption ==
    /\ \A i, j \in Identities :
          (i.issuer = j.issuer /\ i.tenant = j.tenant /\ i.subject = j.subject)
             => i = j
    /\ NoIdentity \notin Identities

ASSUME AbsenceAssumption ==
    /\ NoTask \notin Tasks
    /\ NoContent \notin Contents

ASSUME MaxVersionAssumption == MaxVersion \in Nat

TaskVersionMissing == 0

CreateRequest ==
    [client : Clients, kind : {"create"}, task : Tasks \cup {NoTask},
     as : Identities \cup {NoIdentity}, prev : {TaskVersionMissing},
     content : Contents]

UpdateRequest ==
    [client : Clients, kind : {"update"}, task : Tasks \cup {NoTask},
     as : Identities \cup {NoIdentity}, prev : 0..MaxVersion,
     content : Contents]

GetRequest ==
    [client : Clients, kind : {"get"}, task : Tasks \cup {NoTask},
     as : Identities \cup {NoIdentity}, prev : {TaskVersionMissing},
     content : {NoContent}]

Request == CreateRequest \cup UpdateRequest \cup GetRequest

ASSUME RequestAssumption == Requests \subseteq Request /\ NoRequest \notin Request

Status ==
    {"none",              \* nothing answered yet
     "ok", "exists", "notFound", "conflict", "invalid", "unauthenticated",
     "error"}             \* the call failed; its effect is unknown

Reply ==
    [task : Tasks \cup {NoTask}, as : Identities \cup {NoIdentity},
     status : Status, version : Nat, content : Contents \cup {NoContent}]

NoReply == [task |-> NoTask, as |-> NoIdentity, status |-> "none",
            version |-> 0, content |-> NoContent]

(* A success carries a version and the document written or read. *)
Success(r, version, content) ==
    [task |-> r.task, as |-> r.as, status |-> "ok",
     version |-> version, content |-> content]

(* Mutant: an error is reported with version -1. *)
FailureBelowZero(r, status) ==
    [task |-> r.task, as |-> r.as, status |-> status,
     version |-> -1, content |-> NoContent]

Failure(r, status) ==
    [task |-> r.task, as |-> r.as, status |-> status,
     version |-> TaskVersionMissing, content |-> NoContent]

(* The checks made before the database is consulted, in the order the code *)
(* makes them: a missing identifier is reported before a missing identity. *)
Refusal(r) ==
    IF r.task = NoTask
    THEN IF r.kind = "get" THEN "notFound" ELSE "invalid"
    ELSE IF r.as = NoIdentity THEN "unauthenticated" ELSE "none"

Admissible(r) == Refusal(r) = "none"

=============================================================================
