--------------------------- MODULE TaskListingMC ---------------------------
(* Small instances of TaskListing for TLC. *)
EXTENDS TaskListing, TLC

Doc(owner, context, state, reported, history) ==
    [owner |-> owner, context |-> context, state |-> state, reported |-> reported,
     history |-> history, artifacts |-> TRUE]

Unfiltered(owner, length, artifacts) ==
    [owner |-> owner, context |-> AnyContext, state |-> AnyState, after |-> NoTime,
     length |-> length, artifacts |-> artifacts]

(* One owner, one kind of document: only the order of updates matters. *)
PlainDocuments == {Doc("alice", "chat", "working", NoTime, <<1>>)}
PlainFilters == {Unfiltered("alice", NoLength, FALSE)}

(* The clock may be set back. *)
EitherWay == {1, -1}

(* Documents on either side of the filters, and another owner's. *)
VariedDocuments ==
    {Doc("alice", "chat", "working", NoTime, <<1, 2, 3>>),
     Doc("alice", "other", "completed", 1, <<1, 2>>),
     Doc("bob", "chat", "working", NoTime, <<1>>)}
VariedFilters ==
    {Unfiltered("alice", -1, TRUE),
     [owner |-> "alice", context |-> "chat", state |-> "working", after |-> 2,
      length |-> NoLength, artifacts |-> FALSE]}
=============================================================================
