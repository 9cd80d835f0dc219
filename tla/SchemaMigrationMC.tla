------------------------- MODULE SchemaMigrationMC -------------------------
(* Small instances of SchemaMigration for TLC. *)
EXTENDS SchemaMigration, TLC

CONSTANTS m1, m2, s1, s2

Migration(v) == [version |-> v, text |-> "reviewed"]
Edited(v) == [version |-> v, text |-> "edited"]

ThreeFiles == {Migration(1), Migration(2), Migration(3)}
AllFiles == ThreeFiles \cup {Edited(3)}

(* A rollout: an older and a newer migrator, and the newer server. *)
Rollout ==
    (m1 :> {Migration(1), Migration(2)}) @@ (m2 :> ThreeFiles) @@ (s1 :> ThreeFiles)

(* Diverged revisions: m1 lacks version 2, and s2 edited version 3. *)
Divergence ==
    (m1 :> {Migration(1), Migration(3)}) @@ (m2 :> ThreeFiles) @@ (s1 :> ThreeFiles)
       @@ (s2 :> {Migration(1), Migration(2), Edited(3)})

Symmetry == Permutations(Sessions)
=============================================================================
