---------------------------- MODULE TaskStoreMC ----------------------------
(* Small instances of TaskStore for TLC. *)
EXTENDS TaskStore, FiniteSets, TLC

CONSTANT c2

(* Two owners that differ in the issuer alone: the closest two can be. *)
Alice == [issuer |-> "issuer1", tenant |-> "tenant1", subject |-> "alice"]
Other == [issuer |-> "issuer2", tenant |-> "tenant1", subject |-> "alice"]

TwoIdentities == {Alice, Other}
OneIdentity == {Alice}

(* Every goroutine writes a document of its own, named after it. *)
OwnDocument(r) == r.content \in {r.client, NoContent}

(* Requests refused before the database is asked, one of each outcome. *)
Refused ==
    {r \in Request : /\ r.prev = 0 /\ OwnDocument(r)
                     /\ \/ r.kind = "update" /\ r.task = NoTask /\ r.as = Alice
                        \/ r.kind = "get" /\ r.task = NoTask /\ r.as = NoIdentity
                        \/ r.kind = "create" /\ r.task # NoTask /\ r.as = NoIdentity}

(* One owner: every well-formed request, with any version stated. *)
OwnersRequests == {r \in Request : Admissible(r) /\ OwnDocument(r)} \cup Refused

(* Two owners: the one states the version it saw, the other never does and *)
(* comes from one goroutine only.                                          *)
RivalRequests ==
    {r \in Request : /\ Admissible(r) /\ OwnDocument(r)
                     /\ r.kind = "update" => r.prev = (IF r.as = Alice THEN 1 ELSE TaskVersionMissing)
                     /\ r.as = Other => r.client = c2
                     /\ r.kind = "get" => r.client = c2}

(* Goroutines and connections are interchangeable, each with its document. *)
Symmetry == Permutations(Clients) \cup Permutations(Conns)
=============================================================================
