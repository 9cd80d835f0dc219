---------------------------- MODULE SchemaLedger ----------------------------
(***************************************************************************)
(* What internal/storage/postgres/migrations.go promises a deployment      *)
(* whose processes were built from different revisions: migrations are     *)
(* recorded one at a time, each the next one of some revision that knows   *)
(* everything recorded before it, and a call that succeeds leaves exactly  *)
(* the schema of its own revision.  There are no locks, sessions,          *)
(* transactions or failures here.                                          *)
(***************************************************************************)
EXTENDS Naturals

CONSTANTS
    Processes,
    Embedded       \* [Processes -> sets of files]: their revisions

VARIABLES
    recorded,      \* the migrations in the ledger
    outcome        \* [Processes -> Outcome]: what a process has achieved

vars == <<recorded, outcome>>

(* migrated: Migrate has returned nil; done: cmd/migrate has exited with   *)
(* status 0; serving: cmd/server has gone past VerifySchema.               *)
Outcome == {"none", "migrated", "done", "serving"}

Init ==
    /\ recorded = {}
    /\ outcome = [p \in Processes |-> "none"]

(* f is the next migration of the revision of p. *)
IsNext(f, p) ==
    /\ f \in Embedded[p] \ recorded
    /\ recorded \subseteq Embedded[p]
    /\ \A g \in recorded : g.version < f.version
    /\ \A g \in Embedded[p] \ recorded : f.version <= g.version

Record ==
    /\ \E p \in Processes : \E f \in Embedded[p] :
          IsNext(f, p) /\ recorded' = recorded \cup {f}
    /\ UNCHANGED outcome

Reaches(p, from, to) ==
    /\ outcome[p] = from
    /\ outcome' = [outcome EXCEPT ![p] = to]
    /\ UNCHANGED recorded

(* cmd/migrate is done only when VerifySchema has confirmed what Migrate   *)
(* did.                                                                    *)
Succeed(p) ==
    /\ recorded = Embedded[p]
    /\ \/ Reaches(p, "none", "migrated")
       \/ Reaches(p, "migrated", "done")
       \/ Reaches(p, "none", "serving")

(* A process fails, stops, or is started again. *)
Leave(p) == outcome[p] # "none" /\ Reaches(p, outcome[p], "none")

Next ==
    \/ Record
    \/ \E p \in Processes : Succeed(p) \/ Leave(p)

Spec == Init /\ [][Next]_vars

-----------------------------------------------------------------------------
(* However revisions are mixed, what is recorded is at any moment the      *)
(* beginning of one revision, without a gap.                               *)
OfOneRevision ==
    \/ recorded = {}
    \/ \E p \in Processes :
          /\ recorded \subseteq Embedded[p]
          /\ \A f \in Embedded[p] \ recorded, g \in recorded : g.version < f.version

=============================================================================
