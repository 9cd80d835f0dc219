----------------------- MODULE SchemaMigrationProofs -----------------------
(***************************************************************************)
(* SchemaMigration for any number of processes, sessions, restarts and     *)
(* migration files.                                                        *)
(*                                                                         *)
(* The argument: a session with a COMMIT in flight holds the lock, orphan  *)
(* or not, so while a process works under the lock nobody else's commit    *)
(* can land (LockProtects).  What it read of the ledger therefore stays    *)
(* true until it gives the lock back (ReadsStayTrue), and what is in       *)
(* flight is the next migration of one revision whoever still waits for    *)
(* it (InFlightIsNext).  That is what the refinement of SchemaLedger needs *)
(* beyond the properties of the runs.  At the end, why nobody waits for a  *)
(* lock in vain.                                                           *)
(***************************************************************************)
EXTENDS SchemaMigration, WellFoundedInduction, TLAPS

Working(p) == session[p] # NoSession /\ pc[p] \in Critical \cup {"unlock"}

(* A session belongs to one process, and to none that is out. *)
Links ==
    /\ \A p \in Procs : pc[p] = "out" => session[p] = NoSession
    /\ \A p \in Procs : pc[p] \in {"lock", "serve"} => session[p] # NoSession
    /\ \A p \in Procs : session[p] # NoSession => sess[session[p]] # "none"
    /\ \A p, q \in Procs : session[p] # NoSession /\ session[p] = session[q] => p = q

LockProtects ==
    /\ \A s \in Sessions : sess[s] \in {"none", "queued"} => lock # s
    /\ \A s \in Sessions : sess[s] = "tx" => lock = s
    /\ \A p \in Procs : Working(p) => lock = session[p]
    /\ \A p \in Procs : pc[p] = "serve" => lock # session[p]

(* Where a process is tells what its session is doing. *)
InStep ==
    /\ \A p \in Procs : pc[p] \in {"apply", "commit"} => stage[p] = "migrate"
    /\ \A p \in Procs : pc[p] = "serve" => p \in Servers
    /\ \A p \in Procs : pc[p] = "lock" => sess[session[p]] # "tx"
    /\ \A p \in Procs :
          (pc[p] = "serve" \/ (Working(p) /\ pc[p] # "commit")) => sess[session[p]] = "idle"
    /\ \A p \in Procs : Working(p) /\ pc[p] = "commit" =>
          sess[session[p]] = "tx" /\ IsLeast(pending[session[p]], todo[p])

ReadsStayTrue ==
    \A p \in Procs : Working(p) /\ pc[p] \in {"apply", "commit"} =>
       /\ Recognised(Embedded[p], ledger)
       /\ ~Gap(Embedded[p], ledger)
       /\ todo[p] = Unapplied(Embedded[p], ledger)

(* f is what a process of the revision of p would apply next. *)
IsNextOf(f, p) ==
    /\ Recognised(Embedded[p], ledger) /\ ~Gap(Embedded[p], ledger)
    /\ IsLeast(f, Unapplied(Embedded[p], ledger))

(* A commit in flight records the next migration of some revision, also if *)
(* the process that sent it is gone.                                       *)
InFlightIsNext ==
    \A s \in Sessions : sess[s] = "tx" => \E p \in Procs : IsNextOf(pending[s], p)

IInv ==
    /\ TypeOK /\ Links /\ LockProtects /\ InStep
    /\ ReadsStayTrue /\ InFlightIsNext /\ ApprovedIsExact /\ ServesOnItsSchema

-----------------------------------------------------------------------------
(* What verifyMigrationSet establishes. *)

(* With no pending migration allowed, the ledger is what the binary embeds. *)
LEMMA VerifiedIsExact ==
    ASSUME NEW p \in Procs, NEW recorded \in SUBSET File,
           Verified(Embedded[p], recorded, FALSE)
    PROVE  recorded = Embedded[p]
<1>1. recorded \subseteq Embedded[p]
  BY DEF Verified, Recognised
<1>2. ASSUME NEW f \in Embedded[p] PROVE f \in recorded
  <2>1. f.version \in VersionsOf(recorded)
    BY DEF Verified, Unapplied
  <2>2. PICK g \in recorded : g.version = f.version
    BY <2>1 DEF VersionsOf
  <2> QED BY <1>1, <2>2, EmbeddedAssumption
<1> QED BY <1>1, <1>2

(* The next migration is above everything recorded, and recording it       *)
(* leaves a ledger without a gap and one migration less to apply.          *)
LEMMA RecordingNext ==
    ASSUME NEW p \in Procs, NEW recorded \in SUBSET File, NEW f,
           Recognised(Embedded[p], recorded), ~Gap(Embedded[p], recorded),
           IsLeast(f, Unapplied(Embedded[p], recorded))
    PROVE  /\ f \in Embedded[p] /\ f \in File
           /\ \A g \in recorded : g.version < f.version
           /\ Recognised(Embedded[p], recorded \cup {f})
           /\ ~Gap(Embedded[p], recorded \cup {f})
           /\ Unapplied(Embedded[p], recorded) \ {f}
                = Unapplied(Embedded[p], recorded \cup {f})
<1>1. /\ f \in Embedded[p] /\ f.version \notin VersionsOf(recorded)
      /\ Embedded[p] \subseteq File
  BY EmbeddedAssumption DEF IsLeast, Unapplied
<1>2. ASSUME NEW g \in recorded PROVE g.version < f.version
  <2>1. ~(f.version <= g.version)
    BY <1>1 DEF Gap
  <2>2. f.version \in Nat /\ g.version \in Nat
    BY <1>1, FileAssumption
  <2> QED BY <2>1, <2>2
<1>3. VersionsOf(recorded \cup {f}) = VersionsOf(recorded) \cup {f.version}
  BY DEF VersionsOf
<1>4. Unapplied(Embedded[p], recorded) \ {f} = Unapplied(Embedded[p], recorded \cup {f})
  BY <1>1, <1>3, EmbeddedAssumption DEF Unapplied
<1>5. ~Gap(Embedded[p], recorded \cup {f})
  <2>1. SUFFICES ASSUME NEW e \in Embedded[p], NEW g \in recorded \cup {f},
                        e.version \notin VersionsOf(recorded \cup {f}),
                        e.version <= g.version
                 PROVE  FALSE
    BY DEF Gap
  <2>2. e \in Unapplied(Embedded[p], recorded) /\ e.version # f.version
    BY <1>3, <2>1 DEF Unapplied
  <2>3. f.version <= e.version /\ e.version \in Nat /\ f.version \in Nat
    BY <1>1, <2>2, FileAssumption DEF IsLeast
  <2>4. CASE g \in recorded
    BY <2>1, <2>2, <2>4 DEF Gap, Unapplied
  <2>5. CASE g = f
    BY <2>1, <2>2, <2>3, <2>5
  <2> QED BY <2>1, <2>4, <2>5
<1> QED BY <1>1, <1>2, <1>4, <1>5 DEF Recognised

-----------------------------------------------------------------------------
LEMMA TypeStep == IInv /\ [Next]_vars => TypeOK'
<1> SUFFICES ASSUME IInv, [Next]_vars PROVE TypeOK'
  OBVIOUS
<1> USE SessionAssumption, FileAssumption DEF TypeOK, SessState, Place, Critical
<1>0. TypeOK /\ Links /\ LockProtects /\ InStep
  BY DEF IInv
<1>1. ASSUME NEW p \in Procs, NEW s \in Sessions, Start(p, s) PROVE TypeOK'
  BY <1>0, <1>1 DEF Start
<1>2. ASSUME NEW p \in Procs, Enter(p) \/ CancelLock(p) \/ Finish(p) \/ UnlockFails(p) \/ Crash(p)
      PROVE  TypeOK'
  BY <1>0, <1>2 DEF Enter, CancelLock, Finish, UnlockFails, Crash, Detach, db
<1>3. ASSUME NEW p \in Procs, OpenLedger(p) PROVE TypeOK'
  <2>1. hasLedger' \in BOOLEAN
    BY <1>3 DEF OpenLedger
  <2>2. pc' \in [Procs -> Place] /\ failed' \in [Procs -> BOOLEAN]
    BY <1>0, <1>3 DEF OpenLedger, Fail
  <2> QED BY <1>0, <1>3, <2>1, <2>2 DEF OpenLedger
<1>a. ASSUME NEW p \in Procs, Load(p) PROVE TypeOK'
  <2>1. Unapplied(Embedded[p], ledger) \in SUBSET File
    BY EmbeddedAssumption DEF Unapplied
  <2>2. pc' \in [Procs -> Place] /\ failed' \in [Procs -> BOOLEAN]
    BY <1>0, <1>a DEF Load, Fail
  <2>3. applied' \in [Procs -> SUBSET File] /\ todo' \in [Procs -> SUBSET File]
    BY <1>0, <1>a, <2>1 DEF Load
  <2> QED BY <1>0, <1>a, <2>2, <2>3 DEF Load, db
<1>4. ASSUME NEW p \in Procs, Apply(p) PROVE TypeOK'
  <2>1. PICK f \in todo[p] :
           IF f.version \in VersionsOf(ledger)
           THEN Fail(p) /\ UNCHANGED <<sess, pending>>
           ELSE /\ pc' = [pc EXCEPT ![p] = "commit"]
                /\ sess' = [sess EXCEPT ![session[p]] = "tx"]
                /\ pending' = [pending EXCEPT ![session[p]] = f]
                /\ UNCHANGED failed
    BY <1>4 DEF Apply
  <2>2. f \in File
    BY <1>0
  <2>3. pc' \in [Procs -> Place] /\ failed' \in [Procs -> BOOLEAN]
    BY <1>0, <2>1 DEF Fail
  <2>4. CASE UNCHANGED <<sess, pending>>
    BY <1>0, <1>4, <2>3, <2>4 DEF Apply
  <2>5. CASE /\ sess' = [sess EXCEPT ![session[p]] = "tx"]
             /\ pending' = [pending EXCEPT ![session[p]] = f]
    BY <1>0, <1>4, <2>2, <2>3, <2>5 DEF Apply
  <2> QED BY <2>1, <2>4, <2>5
<1>5. ASSUME NEW p \in Procs, StatementFails(p) \/ ConnectionBreaks(p) PROVE TypeOK'
  BY <1>0, <1>5 DEF StatementFails, ConnectionBreaks, Fail, Detach, db
<1>6. ASSUME NEW p \in Procs, Unlock(p) PROVE TypeOK'
  BY <1>0, <1>6 DEF Unlock, End, Detach, InStep, Working
<1>7. ASSUME NEW p \in Procs, Stop(p) PROVE TypeOK'
  BY <1>0, <1>7 DEF Stop, End, Detach
<1>8. ASSUME NEW s \in Sessions, Grant(s) \/ Commit(s) \/ EndOrphan(s) PROVE TypeOK'
  BY <1>0, <1>8 DEF Grant, Commit, EndOrphan, End, proc
<1>9. CASE UNCHANGED vars
  BY <1>0, <1>9 DEF vars
<1> QED BY <1>1, <1>2, <1>3, <1>a, <1>4, <1>5, <1>6, <1>7, <1>8, <1>9 DEF Next, Work

LEMMA LinkStep == IInv /\ [Next]_vars => Links'
<1> SUFFICES ASSUME IInv, [Next]_vars PROVE Links'
  OBVIOUS
<1> USE SessionAssumption DEF TypeOK, Links, SessState, Place, Critical
<1>0. TypeOK /\ Links /\ TypeOK'
  BY TypeStep DEF IInv
<1>1. ASSUME NEW p \in Procs, NEW s \in Sessions, Start(p, s) PROVE Links'
  BY <1>0, <1>1 DEF Start
<1>2. ASSUME NEW p \in Procs, Enter(p) \/ CancelLock(p) \/ Finish(p) \/ UnlockFails(p) \/ Crash(p)
      PROVE  Links'
  BY <1>0, <1>2 DEF Enter, CancelLock, Finish, UnlockFails, Crash, Detach, db
<1>3. ASSUME NEW p \in Procs, OpenLedger(p) \/ Load(p) PROVE Links'
  BY <1>0, <1>3 DEF OpenLedger, Load, Fail, db
<1>4. ASSUME NEW p \in Procs, Apply(p) PROVE Links'
  BY <1>0, <1>4 DEF Apply, Fail
<1>5. ASSUME NEW p \in Procs, StatementFails(p) \/ ConnectionBreaks(p) PROVE Links'
  BY <1>0, <1>5 DEF StatementFails, ConnectionBreaks, Fail, Detach, db
<1>6. ASSUME NEW p \in Procs, Unlock(p) PROVE Links'
  BY <1>0, <1>6 DEF Unlock, End, Detach
<1>7. ASSUME NEW p \in Procs, Stop(p) PROVE Links'
  BY <1>0, <1>7 DEF Stop, End, Detach
<1>8. ASSUME NEW s \in Sessions, Grant(s) \/ Commit(s) \/ EndOrphan(s) PROVE Links'
  BY <1>0, <1>8 DEF Grant, Commit, EndOrphan, Orphan, End, proc
<1>9. CASE UNCHANGED vars
  BY <1>0, <1>9 DEF vars
<1> QED BY <1>1, <1>2, <1>3, <1>4, <1>5, <1>6, <1>7, <1>8, <1>9 DEF Next, Work

LEMMA LockStep == IInv /\ [Next]_vars => LockProtects'
<1> SUFFICES ASSUME IInv, [Next]_vars PROVE LockProtects'
  OBVIOUS
<1> USE SessionAssumption DEF TypeOK, Links, LockProtects, InStep, Working, SessState, Place, Critical
<1>0. TypeOK /\ Links /\ LockProtects /\ InStep /\ TypeOK'
  BY TypeStep DEF IInv
<1>1. ASSUME NEW p \in Procs, NEW s \in Sessions, Start(p, s) PROVE LockProtects'
  BY <1>0, <1>1 DEF Start
<1>2. ASSUME NEW p \in Procs, Enter(p) \/ CancelLock(p) \/ Finish(p) \/ UnlockFails(p) \/ Crash(p)
      PROVE  LockProtects'
  BY <1>0, <1>2 DEF Enter, CancelLock, Finish, UnlockFails, Crash, Detach, db
<1>3. ASSUME NEW p \in Procs, OpenLedger(p) \/ Load(p) PROVE LockProtects'
  BY <1>0, <1>3 DEF OpenLedger, Load, Fail, db
<1>4. ASSUME NEW p \in Procs, Apply(p) PROVE LockProtects'
  BY <1>0, <1>4 DEF Apply, Fail
<1>5. ASSUME NEW p \in Procs, StatementFails(p) \/ ConnectionBreaks(p) PROVE LockProtects'
  BY <1>0, <1>5 DEF StatementFails, ConnectionBreaks, Fail, Detach, db
<1>6. ASSUME NEW p \in Procs, Unlock(p) PROVE LockProtects'
  BY <1>0, <1>6 DEF Unlock, End, Detach
<1>7. ASSUME NEW p \in Procs, Stop(p) PROVE LockProtects'
  BY <1>0, <1>7 DEF Stop, End, Detach
<1>8. ASSUME NEW s \in Sessions, Grant(s) \/ Commit(s) \/ EndOrphan(s) PROVE LockProtects'
  BY <1>0, <1>8 DEF Grant, Commit, EndOrphan, Orphan, End, proc
<1>9. CASE UNCHANGED vars
  BY <1>0, <1>9 DEF vars
<1> QED BY <1>1, <1>2, <1>3, <1>4, <1>5, <1>6, <1>7, <1>8, <1>9 DEF Next, Work

LEMMA InStepStep == IInv /\ [Next]_vars => InStep'
<1> SUFFICES ASSUME IInv, [Next]_vars PROVE InStep'
  OBVIOUS
<1> USE SessionAssumption DEF TypeOK, Links, LockProtects, InStep, Working, SessState, Place, Critical
<1>0. TypeOK /\ Links /\ LockProtects /\ InStep /\ TypeOK'
  BY TypeStep DEF IInv
<1>1. ASSUME NEW p \in Procs, NEW s \in Sessions, Start(p, s) PROVE InStep'
  BY <1>0, <1>1 DEF Start
<1>2. ASSUME NEW p \in Procs, Enter(p) \/ CancelLock(p) \/ Finish(p) \/ UnlockFails(p) \/ Crash(p)
      PROVE  InStep'
  BY <1>0, <1>2 DEF Enter, CancelLock, Finish, UnlockFails, Crash, Detach, db
<1>3. ASSUME NEW p \in Procs, OpenLedger(p) \/ Load(p) PROVE InStep'
  BY <1>0, <1>3 DEF OpenLedger, Load, Fail, db
<1>4. ASSUME NEW p \in Procs, Apply(p) PROVE InStep'
  BY <1>0, <1>4 DEF Apply, Fail
<1>5. ASSUME NEW p \in Procs, StatementFails(p) \/ ConnectionBreaks(p) PROVE InStep'
  BY <1>0, <1>5 DEF StatementFails, ConnectionBreaks, Fail, Detach, db
<1>6. ASSUME NEW p \in Procs, Unlock(p) PROVE InStep'
  BY <1>0, <1>6 DEF Unlock, End, Detach
<1>7. ASSUME NEW p \in Procs, Stop(p) PROVE InStep'
  BY <1>0, <1>7 DEF Stop, End, Detach
<1>8. ASSUME NEW s \in Sessions, Grant(s) \/ Commit(s) \/ EndOrphan(s) PROVE InStep'
  BY <1>0, <1>8 DEF Grant, Commit, EndOrphan, Orphan, End, proc
<1>9. CASE UNCHANGED vars
  BY <1>0, <1>9 DEF vars
<1> QED BY <1>1, <1>2, <1>3, <1>4, <1>5, <1>6, <1>7, <1>8, <1>9 DEF Next, Work

-----------------------------------------------------------------------------
(* Nothing but a commit changes the ledger, and a commit can land only for *)
(* the holder of the lock.                                                 *)
LEMMA LedgerChanges ==
    ASSUME IInv, [Next]_vars
    PROVE  ledger' = ledger \/ \E s \in Sessions : Commit(s) /\ lock = s
<1>1. ledger' = ledger \/ \E s \in Sessions : Commit(s)
  BY DEF Next, Work, vars, Start, Enter, OpenLedger, Load, Apply, Finish, Unlock,
         UnlockFails, CancelLock, StatementFails, ConnectionBreaks, Stop, Crash,
         Grant, EndOrphan, db
<1> QED BY <1>1 DEF IInv, LockProtects, Commit

LEMMA ReadsStep == IInv /\ [Next]_vars => ReadsStayTrue'
<1> SUFFICES ASSUME IInv, [Next]_vars,
                    NEW p \in Procs, Working(p)', pc'[p] \in {"apply", "commit"}
             PROVE  (/\ Recognised(Embedded[p], ledger)
                     /\ ~Gap(Embedded[p], ledger)
                     /\ todo[p] = Unapplied(Embedded[p], ledger))'
  BY DEF ReadsStayTrue
<1> DEFINE Current == /\ Recognised(Embedded[p], ledger)
                      /\ ~Gap(Embedded[p], ledger)
                      /\ todo[p] = Unapplied(Embedded[p], ledger)
<1>0. /\ TypeOK /\ Links /\ LockProtects /\ InStep /\ ReadsStayTrue
      /\ LockProtects' /\ TypeOK'
  BY TypeStep, LockStep DEF IInv
(* The process has just read the ledger. *)
<1>1. CASE Load(p)
  <2>1. Verified(Embedded[p], ledger, TRUE) /\ ledger' = ledger
        /\ todo'[p] = Unapplied(Embedded[p], ledger)
    BY <1>0, <1>1 DEF Load, Fail, db, TypeOK
  <2> QED BY <2>1 DEF Verified, Recognised, Gap, Unapplied, VersionsOf
(* It was there already, and another step was taken. *)
<1>2. CASE /\ ledger' = ledger /\ todo'[p] = todo[p]
           /\ Working(p) /\ pc[p] \in {"apply", "commit"}
  BY <1>0, <1>2 DEF ReadsStayTrue, Recognised, Gap, Unapplied, VersionsOf
(* A commit: it is its own, since it holds the lock. *)
<1>3. ASSUME NEW s \in Sessions, Commit(s) PROVE Current'
  <2>1. lock = s
    BY <1>0, <1>3 DEF Commit, LockProtects
  <2>2. session[p] = s
    BY <1>0, <1>3, <2>1 DEF Commit, LockProtects, Working
  <2>3. Working(p) /\ pc[p] = "commit"
    BY <1>0, <1>3, <2>2, SessionAssumption
    DEF Commit, InStep, Links, Working, Critical, TypeOK, Place
  <2>4. IsLeast(pending[s], todo[p]) /\ Current
    BY <1>0, <2>2, <2>3 DEF InStep, ReadsStayTrue
  <2>5. /\ ledger' = ledger \cup {pending[s]}
        /\ todo'[p] = todo[p] \ {pending[s]}
    BY <1>3, <2>2 DEF Commit
  <2>6. ledger \in SUBSET File
    BY <1>0 DEF TypeOK
  <2>8. /\ Recognised(Embedded[p], ledger) /\ ~Gap(Embedded[p], ledger)
        /\ IsLeast(pending[s], Unapplied(Embedded[p], ledger))
    BY <2>4
  <2>7. /\ Recognised(Embedded[p], ledger \cup {pending[s]})
        /\ ~Gap(Embedded[p], ledger \cup {pending[s]})
        /\ Unapplied(Embedded[p], ledger) \ {pending[s]}
              = Unapplied(Embedded[p], ledger \cup {pending[s]})
    BY <2>6, <2>8, RecordingNext, ZenonT(30)
  <2> QED BY <2>4, <2>5, <2>7
<1>4. \/ Load(p) \/ \E s \in Sessions : Commit(s)
      \/ /\ ledger' = ledger /\ todo'[p] = todo[p]
         /\ Working(p) /\ pc[p] \in {"apply", "commit"}
  <2> USE <1>0, SessionAssumption DEF TypeOK, Working, Critical, Place
  <2>1. ASSUME NEW q \in Procs, NEW s \in Sessions, Start(q, s) PROVE <1>4
    BY <2>1 DEF Start
  <2>2. ASSUME NEW q \in Procs,
               Enter(q) \/ CancelLock(q) \/ Finish(q) \/ UnlockFails(q) \/ Crash(q)
        PROVE  <1>4
    BY <2>2 DEF Enter, CancelLock, Finish, UnlockFails, Crash, Detach, db
  <2>3. ASSUME NEW q \in Procs, OpenLedger(q) \/ Load(q) PROVE <1>4
    BY <2>3 DEF OpenLedger, Load, Fail, db
  <2>4. ASSUME NEW q \in Procs, Apply(q) PROVE <1>4
    BY <2>4 DEF Apply, Fail
  <2>5. ASSUME NEW q \in Procs, StatementFails(q) \/ ConnectionBreaks(q) PROVE <1>4
    BY <2>5 DEF StatementFails, ConnectionBreaks, Fail, Detach, db
  <2>6. ASSUME NEW q \in Procs, Unlock(q) \/ Stop(q) PROVE <1>4
    BY <2>6 DEF Unlock, Stop, End, Detach
  <2>7. ASSUME NEW s \in Sessions, Grant(s) \/ EndOrphan(s) PROVE <1>4
    BY <2>7 DEF Grant, EndOrphan, End, proc
  <2>8. CASE UNCHANGED vars
    BY <2>8 DEF vars
  <2> QED BY <2>1, <2>2, <2>3, <2>4, <2>5, <2>6, <2>7, <2>8 DEF Next, Work
<1> QED BY <1>1, <1>2, <1>3, <1>4

(* What is in flight when the lock protects it stays the next migration. *)
LEMMA InFlightStep == IInv /\ [Next]_vars => InFlightIsNext'
<1> SUFFICES ASSUME IInv, [Next]_vars, NEW s \in Sessions, sess'[s] = "tx"
             PROVE  \E p \in Procs : IsNextOf(pending[s], p)'
  BY DEF InFlightIsNext
<1>0. /\ TypeOK /\ LockProtects /\ InFlightIsNext /\ ReadsStayTrue /\ LockProtects'
  BY LockStep DEF IInv
<1>1. CASE sess[s] = "tx" /\ pending'[s] = pending[s] /\ ledger' = ledger
  <2>1. PICK p \in Procs : IsNextOf(pending[s], p)
    BY <1>0, <1>1 DEF InFlightIsNext
  <2> QED BY <1>1, <2>1 DEF IsNextOf, Recognised, Gap, Unapplied, IsLeast
<1>2. ASSUME NEW p \in Procs, Apply(p), sess[s] # "tx"
      PROVE  \E q \in Procs : IsNextOf(pending[s], q)'
  <2>1. PICK f \in todo[p] :
           /\ IsLeast(f, todo[p])
           /\ sess' = [sess EXCEPT ![session[p]] = "tx"]
           /\ pending' = [pending EXCEPT ![session[p]] = f]
    BY <1>2 DEF Apply
  <2>2. session[p] = s /\ pending'[s] = f
    BY <1>0, <1>2, <2>1 DEF TypeOK
  <2>3. Working(p) /\ pc[p] = "apply"
    BY <1>2 DEF Apply, Working, Critical
  <2>4. IsNextOf(f, p)
    BY <1>0, <2>1, <2>3 DEF ReadsStayTrue, IsNextOf
  <2>5. ledger' = ledger
    BY <1>2 DEF Apply
  <2> QED BY <2>2, <2>4, <2>5 DEF IsNextOf, Recognised, Gap, Unapplied, IsLeast
<1>3. \/ sess[s] = "tx" /\ pending'[s] = pending[s] /\ ledger' = ledger
      \/ \E p \in Procs : Apply(p) /\ sess[s] # "tx"
  <2> USE <1>0, SessionAssumption DEF TypeOK
  <2>1. ASSUME NEW q \in Procs, NEW t \in Sessions, Start(q, t) PROVE <1>3
    BY <2>1 DEF Start
  <2>2. ASSUME NEW q \in Procs,
               Enter(q) \/ CancelLock(q) \/ Finish(q) \/ UnlockFails(q) \/ Crash(q)
        PROVE  <1>3
    BY <2>2 DEF Enter, CancelLock, Finish, UnlockFails, Crash, db
  <2>3. ASSUME NEW q \in Procs, OpenLedger(q) \/ Load(q) PROVE <1>3
    BY <2>3 DEF OpenLedger, Load, db
  <2>4. ASSUME NEW q \in Procs, Apply(q) PROVE <1>3
    <3>1. sess[s] = "tx" => session[q] # s
      BY <2>4 DEF Apply, IInv, InStep, Working, Critical
    <3> QED BY <2>4, <3>1 DEF Apply
  <2>5. ASSUME NEW q \in Procs, StatementFails(q) \/ ConnectionBreaks(q) PROVE <1>3
    BY <2>5 DEF StatementFails, ConnectionBreaks, db
  <2>6. ASSUME NEW q \in Procs, Unlock(q) \/ Stop(q) PROVE <1>3
    BY <2>6 DEF Unlock, Stop, End
  <2>7. ASSUME NEW t \in Sessions, Grant(t) \/ EndOrphan(t) PROVE <1>3
    BY <2>7 DEF Grant, EndOrphan, End
  <2>8. ASSUME NEW t \in Sessions, Commit(t) PROVE <1>3
    BY <2>8 DEF Commit, LockProtects
  <2>9. CASE UNCHANGED vars
    BY <2>9 DEF vars
  <2> QED BY <2>1, <2>2, <2>3, <2>4, <2>5, <2>6, <2>7, <2>8, <2>9 DEF Next, Work
<1> QED BY <1>1, <1>2, <1>3

(* The set a call succeeded with stays the recorded one until the lock is  *)
(* given back: VerifySchema has just read it, Migrate has nothing left to  *)
(* apply, and no commit can land meanwhile.                                *)
LEMMA ExactStep == IInv /\ [Next]_vars => ApprovedIsExact'
<1> SUFFICES ASSUME IInv, [Next]_vars, NEW p \in Procs,
                    pc'[p] = "unlock", session'[p] # NoSession, ~failed'[p]
             PROVE  ledger' = Embedded[p]
  BY DEF ApprovedIsExact
<1>0. /\ TypeOK /\ Links /\ LockProtects /\ InStep /\ ApprovedIsExact
      /\ ReadsStayTrue /\ LockProtects' /\ TypeOK'
  BY TypeStep, LockStep DEF IInv
<1>1. CASE Load(p)
  <2>1. Verified(Embedded[p], ledger, stage[p] = "migrate") /\ ledger' = ledger
    BY <1>0, <1>1 DEF Load, Fail, db, TypeOK
  <2>2. (stage[p] = "migrate") = FALSE
    BY <1>0, <1>1, <2>1 DEF Load, TypeOK, Place
  <2>3. Verified(Embedded[p], ledger, FALSE)
    BY <2>1, <2>2 DEF Verified
  <2> QED BY <1>0, <2>1, <2>3, VerifiedIsExact DEF TypeOK
<1>4. CASE Finish(p)
  <2>1. Working(p) /\ pc[p] = "apply" /\ todo[p] = {} /\ ledger' = ledger
    BY <1>4 DEF Finish, db, Working, Critical
  <2>2. /\ Recognised(Embedded[p], ledger) /\ ~Gap(Embedded[p], ledger)
        /\ Unapplied(Embedded[p], ledger) = {}
    BY <1>0, <2>1 DEF ReadsStayTrue
  <2>3. Verified(Embedded[p], ledger, FALSE)
    BY <2>2 DEF Verified
  <2> QED BY <1>0, <2>1, <2>3, VerifiedIsExact DEF TypeOK
<1>2. CASE ledger' = ledger /\ pc[p] = "unlock" /\ session[p] # NoSession /\ ~failed[p]
  BY <1>0, <1>2 DEF ApprovedIsExact
<1>3. \/ Load(p) \/ Finish(p)
      \/ ledger' = ledger /\ pc[p] = "unlock" /\ session[p] # NoSession /\ ~failed[p]
  <2> USE <1>0, SessionAssumption DEF TypeOK, Critical, Place
  <2>1. ASSUME NEW q \in Procs, NEW s \in Sessions, Start(q, s) PROVE <1>3
    BY <2>1 DEF Start
  <2>2. ASSUME NEW q \in Procs,
               Enter(q) \/ CancelLock(q) \/ Finish(q) \/ UnlockFails(q) \/ Crash(q)
        PROVE  <1>3
    BY <2>2 DEF Enter, CancelLock, Finish, UnlockFails, Crash, Detach, db, InStep
  <2>3. ASSUME NEW q \in Procs, OpenLedger(q) \/ Load(q) PROVE <1>3
    BY <2>3 DEF OpenLedger, Load, Fail, db
  <2>4. ASSUME NEW q \in Procs, Apply(q) PROVE <1>3
    BY <2>4 DEF Apply, Fail
  <2>5. ASSUME NEW q \in Procs, StatementFails(q) \/ ConnectionBreaks(q) PROVE <1>3
    BY <2>5 DEF StatementFails, ConnectionBreaks, Fail, Detach, db
  <2>6. ASSUME NEW q \in Procs, Unlock(q) \/ Stop(q) PROVE <1>3
    BY <2>6 DEF Unlock, Stop, End, Detach
  <2>7. ASSUME NEW s \in Sessions, Grant(s) \/ EndOrphan(s) PROVE <1>3
    BY <2>7 DEF Grant, EndOrphan, End, proc
  <2>8. ASSUME NEW s \in Sessions, Commit(s) PROVE <1>3
    BY <2>8 DEF Commit, LockProtects, Working, InStep
  <2>9. CASE UNCHANGED vars
    BY <2>9 DEF vars
  <2> QED BY <2>1, <2>2, <2>3, <2>4, <2>5, <2>6, <2>7, <2>8, <2>9 DEF Next, Work
<1> QED BY <1>1, <1>2, <1>3, <1>4

LEMMA ServeStep == IInv /\ [Next]_vars => ServesOnItsSchema'
<1> SUFFICES ASSUME IInv, [Next]_vars, NEW p \in Servers, pc'[p] = "serve"
             PROVE  Embedded[p] \subseteq ledger'
  BY DEF ServesOnItsSchema
<1>0. TypeOK /\ ServesOnItsSchema /\ ApprovedIsExact /\ p \in Procs
  BY DEF IInv, Procs
<1>1. ledger \subseteq ledger'
  BY LedgerChanges DEF Commit
<1>2. CASE pc[p] = "serve"
  BY <1>0, <1>1, <1>2 DEF ServesOnItsSchema
<1>3. CASE /\ pc[p] = "unlock" /\ session[p] # NoSession
           /\ stage[p] = "verify" /\ ~failed[p]
  BY <1>0, <1>1, <1>3 DEF ApprovedIsExact
<1>4. \/ pc[p] = "serve"
      \/ /\ pc[p] = "unlock" /\ session[p] # NoSession
         /\ stage[p] = "verify" /\ ~failed[p]
  <2> USE <1>0 DEF TypeOK
  <2>1. ASSUME NEW q \in Procs, NEW s \in Sessions, Start(q, s) PROVE <1>4
    BY <2>1 DEF Start
  <2>2. ASSUME NEW q \in Procs,
               Enter(q) \/ CancelLock(q) \/ Finish(q) \/ UnlockFails(q) \/ Crash(q)
        PROVE  <1>4
    BY <2>2 DEF Enter, CancelLock, Finish, UnlockFails, Crash
  <2>3. ASSUME NEW q \in Procs, OpenLedger(q) \/ Load(q) PROVE <1>4
    BY <2>3 DEF OpenLedger, Load, Fail
  <2>4. ASSUME NEW q \in Procs, Apply(q) PROVE <1>4
    BY <2>4 DEF Apply, Fail
  <2>5. ASSUME NEW q \in Procs, StatementFails(q) \/ ConnectionBreaks(q) PROVE <1>4
    BY <2>5 DEF StatementFails, ConnectionBreaks, Fail
  <2>6. ASSUME NEW q \in Procs, Unlock(q) \/ Stop(q) PROVE <1>4
    BY <2>6 DEF Unlock, Stop
  <2>7. ASSUME NEW s \in Sessions, Grant(s) \/ EndOrphan(s) \/ Commit(s) PROVE <1>4
    BY <2>7 DEF Grant, EndOrphan, Commit, proc
  <2>8. CASE UNCHANGED vars
    BY <2>8 DEF vars
  <2> QED BY <2>1, <2>2, <2>3, <2>4, <2>5, <2>6, <2>7, <2>8 DEF Next, Work
<1> QED BY <1>2, <1>3, <1>4

-----------------------------------------------------------------------------
LEMMA InitInv == Init => IInv
<1> SUFFICES ASSUME Init PROVE IInv
  OBVIOUS
<1> USE SessionAssumption, FileAssumption DEF Init
<1>1. TypeOK
  <2>1. \A s \in Sessions : (pending[s] # NoFile) <=> (sess[s] = "tx")
    OBVIOUS
  <2>2. /\ lock \in Sessions \cup {NoSession} /\ sess \in [Sessions -> SessState]
        /\ pending \in [Sessions -> File \cup {NoFile}]
    BY DEF SessState
  <2>3. /\ session \in [Procs -> Sessions \cup {NoSession}]
        /\ pc \in [Procs -> Place] /\ stage \in [Procs -> {"migrate", "verify"}]
    BY DEF Place
  <2>4. hasLedger \in BOOLEAN /\ failed \in [Procs -> BOOLEAN]
    BY Zenon
  <2>5. ledger \in SUBSET File
    OBVIOUS
  <2>6. applied \in [Procs -> SUBSET File] /\ todo \in [Procs -> SUBSET File]
    OBVIOUS
  <2>7. runs \in [Procs -> 0..MaxRuns]
    OBVIOUS
  <2> QED BY <2>1, <2>2, <2>3, <2>4, <2>5, <2>6, <2>7 DEF TypeOK
<1>2. Links /\ LockProtects /\ InStep
  BY DEF Links, LockProtects, InStep, Working, Critical
<1>3. ReadsStayTrue /\ InFlightIsNext
  BY DEF ReadsStayTrue, InFlightIsNext
<1>4. ApprovedIsExact /\ ServesOnItsSchema
  BY DEF ApprovedIsExact, ServesOnItsSchema, Procs
<1> QED BY <1>1, <1>2, <1>3, <1>4 DEF IInv

LEMMA StepInv == IInv /\ [Next]_vars => IInv'
  BY TypeStep, LinkStep, LockStep, InStepStep, ReadsStep, InFlightStep, ExactStep, ServeStep
  DEF IInv

(* The inductive invariant of the migrations: at most one process works on *)
(* the schema, what it read of the ledger stays true, and a COMMIT in      *)
(* flight belongs to the holder of the lock (migrations.go).               *)
THEOREM MigrationInvariant == Spec => []IInv
<1> QED BY InitInv, StepInv, PTL DEF Spec

(* Every variable keeps its type, and a migration is in flight exactly in  *)
(* an open transaction.                                                    *)
THEOREM MigrationTypes == Spec => []TypeOK
<1>1. IInv => TypeOK
  BY DEF IInv
<1> QED BY <1>1, MigrationInvariant, PTL

(* A migration about to be applied is not recorded yet, whoever crashed    *)
(* before with a COMMIT in flight (migrations.go 86-101).                  *)
THEOREM MigrationNeverConflicts == Spec => []ApplyNeverConflicts
<1>1. IInv => ApplyNeverConflicts
  BY DEF IInv, ReadsStayTrue, ApplyNeverConflicts, Working, Critical, Unapplied
<1> QED BY <1>1, MigrationInvariant, PTL

(* An approved schema is the embedded one until the lock is given back     *)
(* (migrations.go 105-142).                                                *)
THEOREM MigrationApprovesExactly == Spec => []ApprovedIsExact
<1>1. IInv => ApprovedIsExact
  BY DEF IInv
<1> QED BY <1>1, MigrationInvariant, PTL

(* A server serves only on a schema that has all its migrations (main.go   *)
(* 74-76).                                                                 *)
THEOREM MigrationGuardsServing == Spec => []ServesOnItsSchema
<1>1. IInv => ServesOnItsSchema
  BY DEF IInv
<1> QED BY <1>1, MigrationInvariant, PTL

(* No process that is out or serves holds the advisory lock                *)
(* (migrations.go 66-74, 268-289).                                         *)
THEOREM MigrationLeaksNoLock == Spec => []NoLockLeak
<1>1. IInv => NoLockLeak
  BY DEF IInv, Links, LockProtects, NoLockLeak
<1> QED BY <1>1, MigrationInvariant, PTL

(* Every commit adds a version above all that are recorded, across         *)
(* processes, revisions and crashes (migrations.go 94-101).                *)
THEOREM MigrationIsForwardOnly == Spec => ForwardOnly
<1> DEFINE Ascends == \A f \in ledger' \ ledger : \A g \in ledger : g.version < f.version
<1>1. IInv /\ [Next]_vars => [Ascends]_vars
  <2> SUFFICES ASSUME IInv, [Next]_vars PROVE Ascends
    OBVIOUS
  <2>1. CASE ledger' = ledger
    BY <2>1
  <2>2. ASSUME NEW s \in Sessions, Commit(s) PROVE Ascends
    <3>1. PICK p \in Procs : IsNextOf(pending[s], p)
      BY <2>2 DEF Commit, IInv, InFlightIsNext
    <3>2. ledger \in SUBSET File /\ ledger' = ledger \cup {pending[s]}
      BY <2>2 DEF Commit, IInv, TypeOK
    <3>3. \A g \in ledger : g.version < pending[s].version
      BY <3>1, <3>2, RecordingNext DEF IsNextOf
    <3> QED BY <3>2, <3>3
  <2> QED BY <2>1, <2>2, LedgerChanges
<1>2. Spec => [][Ascends]_vars
  BY <1>1, MigrationInvariant, PTL DEF Spec
<1> QED BY <1>2 DEF ForwardOnly

-----------------------------------------------------------------------------
(* SchemaMigration implements SchemaLedger: a step of it is a step of the  *)
(* promise, or changes nothing the promise speaks of.                      *)

(* The next migration is the same in both. *)
LEMMA NextAgrees ==
    ASSUME TypeOK, NEW p \in Procs, NEW f, IsNextOf(f, p)
    PROVE  f \in Embedded[p] /\ Promise!IsNext(f, p)
<1>1. /\ ledger \in SUBSET File /\ ledger \subseteq Embedded[p]
      /\ Recognised(Embedded[p], ledger) /\ ~Gap(Embedded[p], ledger)
      /\ IsLeast(f, Unapplied(Embedded[p], ledger))
  BY DEF TypeOK, IsNextOf, Recognised
<1>2. Unapplied(Embedded[p], ledger) = Embedded[p] \ ledger
  BY <1>1, EmbeddedAssumption DEF Unapplied, VersionsOf
<1>3. f \in Embedded[p] \ ledger /\ \A g \in Embedded[p] \ ledger : f.version <= g.version
  BY <1>1, <1>2 DEF IsLeast
<1>4. \A g \in ledger : g.version < f.version
  BY <1>1, RecordingNext
<1> QED BY <1>1, <1>3, <1>4 DEF Promise!IsNext

LEMMA InitMaps == Init => Promise!Init
  BY DEF Init, Promise!Init, Achieved

(* The commit. *)
LEMMA CommitMaps ==
    ASSUME IInv, NEW s \in Sessions, Commit(s)
    PROVE  Promise!Next
<1>1. TypeOK /\ InFlightIsNext /\ Links /\ LockProtects /\ InStep
  BY DEF IInv
<1>2. PICK p \in Procs : IsNextOf(pending[s], p)
  BY <1>1 DEF Commit, InFlightIsNext
<1>3. pending[s] \in Embedded[p] /\ Promise!IsNext(pending[s], p)
  BY <1>1, <1>2, NextAgrees
<1>4. Achieved' = Achieved
  <2>1. ASSUME NEW q \in Procs PROVE Achieved'[q] = Achieved[q]
    <3>1. CASE session[q] # s
      BY <3>1 DEF Achieved, Commit
    <3>2. CASE session[q] = s
      <4>1. lock = s /\ session[q] # NoSession
        BY <1>1, <3>2, SessionAssumption DEF Commit, LockProtects
      <4>2. pc[q] \notin {"serve", "out"} /\ pc'[q] = "apply"
        BY <1>1, <3>2, <4>1 DEF Commit, Links, LockProtects
      <4> QED BY <4>2 DEF Achieved, Commit
    <3> QED BY <3>1, <3>2
  <2> QED BY <2>1 DEF Achieved
<1> QED BY <1>3, <1>4 DEF Promise!Next, Promise!Record, Commit

(* A step of one process that leaves the ledger alone. *)
OnlyOf(p) ==
    /\ ledger' = ledger
    /\ \A q \in Procs \ {p} : /\ pc'[q] = pc[q] /\ stage'[q] = stage[q]
                               /\ failed'[q] = failed[q] /\ runs'[q] = runs[q]

LEMMA OneMaps ==
    ASSUME NEW p \in Procs, OnlyOf(p),
           \/ Achieved'[p] = Achieved[p]
           \/ Achieved'[p] = "none"
           \/ /\ ledger = Embedded[p]
              /\ <<Achieved[p], Achieved'[p]>> \in
                    {<<"none", "migrated">>, <<"migrated", "done">>, <<"none", "serving">>}
    PROVE  Promise!Next \/ UNCHANGED Promise!vars
<1>1. \A q \in Procs \ {p} : Achieved'[q] = Achieved[q]
  BY DEF OnlyOf, Achieved
<1>2. Achieved' = [Achieved EXCEPT ![p] = Achieved'[p]]
  BY <1>1 DEF Achieved
<1>3. CASE Achieved'[p] = Achieved[p]
  <2>1. Achieved' = Achieved
    BY <1>2, <1>3 DEF Achieved
  <2> QED BY <2>1 DEF Promise!vars, OnlyOf
<1>4. CASE Achieved'[p] = "none" /\ Achieved[p] # "none"
  <2>1. Promise!Leave(p)
    BY <1>2, <1>4 DEF Promise!Leave, Promise!Reaches, OnlyOf
  <2> QED BY <2>1 DEF Promise!Next
<1>5. CASE /\ ledger = Embedded[p]
           /\ <<Achieved[p], Achieved'[p]>> \in
                  {<<"none", "migrated">>, <<"migrated", "done">>, <<"none", "serving">>}
  <2>1. Promise!Succeed(p)
    BY <1>2, <1>5 DEF Promise!Succeed, Promise!Reaches, OnlyOf
  <2> QED BY <2>1 DEF Promise!Next
<1> QED BY <1>3, <1>4, <1>5

LEMMA StepMaps == IInv /\ [Next]_vars => [Promise!Next]_Promise!vars
<1> SUFFICES ASSUME IInv, [Next]_vars
             PROVE  Promise!Next \/ UNCHANGED Promise!vars
  OBVIOUS
<1>0. TypeOK /\ Links /\ InStep /\ ApprovedIsExact
  BY DEF IInv
<1> USE DEF TypeOK, Place
<1>1. ASSUME NEW p \in Procs, NEW s \in Sessions, Start(p, s)
      PROVE  Promise!Next \/ UNCHANGED Promise!vars
  <2>1. OnlyOf(p) /\ Achieved'[p] = "none"
    BY <1>0, <1>1 DEF Start, OnlyOf, Achieved
  <2> QED BY <2>1, OneMaps
<1>2. ASSUME NEW p \in Procs, CancelLock(p) \/ UnlockFails(p) \/ Crash(p) \/ Stop(p)
      PROVE  Promise!Next \/ UNCHANGED Promise!vars
  <2>1. OnlyOf(p)
    BY <1>0, <1>2 DEF CancelLock, UnlockFails, Crash, Stop, db, OnlyOf
  <2>2. Achieved'[p] = "none"
    BY <1>0, <1>2, ProcAssumption DEF CancelLock, UnlockFails, Crash, Stop, Achieved, InStep
  <2> QED BY <2>1, <2>2, OneMaps
<1>3. ASSUME NEW p \in Procs,
             \/ Enter(p) \/ OpenLedger(p) \/ Load(p) \/ Apply(p) \/ Finish(p)
             \/ StatementFails(p) \/ ConnectionBreaks(p)
      PROVE  Promise!Next \/ UNCHANGED Promise!vars
  <2>1. /\ ledger' = ledger /\ stage' = stage /\ runs' = runs
        /\ pc[p] \notin {"out", "serve"} /\ pc'[p] \notin {"out", "serve"}
        /\ \A q \in Procs \ {p} : pc'[q] = pc[q] /\ failed'[q] = failed[q]
    BY <1>0, <1>3 DEF Enter, OpenLedger, Load, Apply, Finish, StatementFails,
                      ConnectionBreaks, Fail, Critical, db
  <2>2. OnlyOf(p) /\ Achieved'[p] = Achieved[p]
    BY <2>1 DEF OnlyOf, Achieved
  <2> QED BY <2>2, OneMaps
<1>4. ASSUME NEW p \in Procs, Unlock(p)
      PROVE  Promise!Next \/ UNCHANGED Promise!vars
  <2>1. OnlyOf(p)
    BY <1>0, <1>4 DEF Unlock, OnlyOf
  <2>2. CASE failed[p]
    <3>1. Achieved'[p] = "none"
      BY <1>0, <1>4, <2>2 DEF Unlock, Achieved
    <3> QED BY <2>1, <3>1, OneMaps
  <2>3. CASE ~failed[p]
    <3>1. ledger = Embedded[p]
      BY <1>0, <1>4, <2>3 DEF Unlock, ApprovedIsExact
    <3>2. \/ Achieved'[p] = Achieved[p] \/ Achieved'[p] = "none"
          \/ <<Achieved[p], Achieved'[p]>> \in
                {<<"none", "migrated">>, <<"migrated", "done">>, <<"none", "serving">>}
      BY <1>0, <1>4, <2>3, ProcAssumption DEF Unlock, Achieved, Procs
    <3> QED BY <2>1, <3>1, <3>2, OneMaps
  <2> QED BY <2>2, <2>3
<1>5. ASSUME NEW s \in Sessions, Grant(s) \/ EndOrphan(s)
      PROVE  Promise!Next \/ UNCHANGED Promise!vars
  BY <1>5 DEF Grant, EndOrphan, proc, Promise!vars, Achieved
<1>6. ASSUME NEW s \in Sessions, Commit(s) PROVE Promise!Next
  BY <1>6, CommitMaps
<1>7. CASE UNCHANGED vars
  BY <1>7 DEF vars, Promise!vars, Achieved
<1> QED BY <1>1, <1>2, <1>3, <1>4, <1>5, <1>6, <1>7 DEF Next, Work

(* Migrations keep their promise: seen through the ledger and what the     *)
(* processes have achieved, every behaviour of SchemaMigration is one of   *)
(* SchemaLedger (migrations.go 53-142).                                    *)
THEOREM MigrationImplementsLedger == Spec => ImplementsLedger
  BY InitMaps, StepMaps, MigrationInvariant, PTL DEF Spec, ImplementsLedger, Promise!Spec

(* Whoever records, what is recorded is the beginning of its revision. *)
LEMMA RecordingKeepsOneRevision ==
    ASSUME Promise!Record PROVE Promise!OfOneRevision'
<1>1. PICK p \in Procs : \E f \in Embedded[p] :
         Promise!IsNext(f, p) /\ ledger' = ledger \cup {f}
  BY DEF Promise!Record
<1>2. PICK f \in Embedded[p] : Promise!IsNext(f, p) /\ ledger' = ledger \cup {f}
  BY <1>1
<1>3. \A g \in Embedded[p] : g.version \in Nat
  BY EmbeddedAssumption, FileAssumption
<1>4. ledger' \subseteq Embedded[p]
  BY <1>2 DEF Promise!IsNext
<1>5. ASSUME NEW e \in Embedded[p] \ ledger', NEW g \in ledger' PROVE g.version < e.version
  <2>1. f.version <= e.version /\ f.version # e.version
    BY <1>2, <1>5, EmbeddedAssumption DEF Promise!IsNext
  <2>2. g = f \/ g.version < f.version
    BY <1>2, <1>5 DEF Promise!IsNext
  <2> QED BY <1>3, <1>4, <1>5, <2>1, <2>2
<1> QED BY <1>4, <1>5 DEF Promise!OfOneRevision

(* However revisions are mixed, what a2a_schema_migrations records is at   *)
(* any moment the beginning of one revision, without a gap: an edited, a   *)
(* renamed and a skipped version never meet in it (migrations.go 214-247). *)
(* It follows from the promise alone.                                      *)
THEOREM LedgerIsOfOneRevision == Spec => []Promise!OfOneRevision
<1>1. Promise!Init => Promise!OfOneRevision
  BY DEF Promise!Init, Promise!OfOneRevision
<1>2. Promise!OfOneRevision /\ [Promise!Next]_Promise!vars => Promise!OfOneRevision'
  <2>1. ASSUME Promise!OfOneRevision, ledger' = ledger PROVE Promise!OfOneRevision'
    BY <2>1 DEF Promise!OfOneRevision
  <2>2. [Promise!Next]_Promise!vars => Promise!Record \/ ledger' = ledger
    BY DEF Promise!Next, Promise!vars, Promise!Succeed, Promise!Leave, Promise!Reaches
  <2> QED BY <2>1, <2>2, RecordingKeepsOneRevision
<1> QED BY <1>1, <1>2, MigrationImplementsLedger, PTL DEF ImplementsLedger, Promise!Spec

-----------------------------------------------------------------------------
(* Nobody waits for somebody who waits. *)

(* A process that waits for the lock is in the queue or has just got it,   *)
(* and one that works under it has its connection.                         *)
WaitersQueue ==
    /\ \A p \in Procs : pc[p] = "lock" => sess[session[p]] = "queued" \/ lock = session[p]
    /\ \A p \in Procs : pc[p] \in Critical => session[p] # NoSession

LEMMA QueueStep == IInv /\ WaitersQueue /\ [Next]_vars => WaitersQueue'
<1> SUFFICES ASSUME IInv, WaitersQueue, [Next]_vars PROVE WaitersQueue'
  OBVIOUS
<1> USE SessionAssumption
    DEF TypeOK, Links, LockProtects, WaitersQueue, Working, SessState, Place, Critical
<1>0. TypeOK /\ Links /\ LockProtects
  BY DEF IInv
<1>1. ASSUME NEW p \in Procs, NEW s \in Sessions, Start(p, s) PROVE WaitersQueue'
  BY <1>0, <1>1 DEF Start
<1>2. ASSUME NEW p \in Procs, Enter(p) \/ CancelLock(p) \/ Finish(p) \/ UnlockFails(p) \/ Crash(p)
      PROVE  WaitersQueue'
  BY <1>0, <1>2 DEF Enter, CancelLock, Finish, UnlockFails, Crash, Detach, db
<1>3. ASSUME NEW p \in Procs, OpenLedger(p) \/ Load(p) PROVE WaitersQueue'
  BY <1>0, <1>3 DEF OpenLedger, Load, Fail, db
<1>4. ASSUME NEW p \in Procs, Apply(p) PROVE WaitersQueue'
  BY <1>0, <1>4 DEF Apply, Fail
<1>5. ASSUME NEW p \in Procs, StatementFails(p) \/ ConnectionBreaks(p) PROVE WaitersQueue'
  BY <1>0, <1>5 DEF StatementFails, ConnectionBreaks, Fail, Detach, db
<1>6. ASSUME NEW p \in Procs, Unlock(p) PROVE WaitersQueue'
  BY <1>0, <1>6 DEF Unlock, End, Detach
<1>7. ASSUME NEW p \in Procs, Stop(p) PROVE WaitersQueue'
  BY <1>0, <1>7 DEF Stop, End, Detach
<1>8. ASSUME NEW s \in Sessions, Grant(s) \/ Commit(s) \/ EndOrphan(s) PROVE WaitersQueue'
  BY <1>0, <1>8 DEF Grant, Commit, EndOrphan, Orphan, End, proc
<1>9. CASE UNCHANGED vars
  BY <1>9 DEF vars
<1> QED BY <1>1, <1>2, <1>3, <1>4, <1>5, <1>6, <1>7, <1>8, <1>9 DEF Next, Work

(* What is left to apply has a least migration: the loop never looks for   *)
(* one in vain.                                                            *)
LEMMA SomeLeast ==
    ASSUME NEW files \in SUBSET File, files # {}
    PROVE  \E f \in files : IsLeast(f, files)
<1> DEFINE N == {f.version : f \in files}
<1>1. N \subseteq Nat /\ N # {}
  BY FileAssumption
<1>2. PICK n \in N : \A m \in N : ~(<<m, n>> \in OpToRel(<, Nat))
  <2> HIDE DEF N
  <2> QED BY <1>1, NatLessThanWellFounded, WFMin
<1>3. PICK f \in files : f.version = n
  BY <1>2
<1>4. ASSUME NEW g \in files PROVE f.version <= g.version
  <2>1. f.version \in Nat /\ g.version \in Nat /\ g.version \in N
    BY <1>4, FileAssumption
  <2>2. ~(g.version < f.version)
    BY <1>2, <1>3, <2>1 DEF OpToRel
  <2> QED BY <2>1, <2>2
<1> QED BY <1>4 DEF IsLeast

(* A process, or PostgreSQL on its session, can take the next step: the    *)
(* guards of Enter, OpenLedger, Load, Apply, Finish, Commit and            *)
(* UnlockFails.                                                            *)
MayGoOn(p) ==
    \/ pc[p] = "lock" /\ session[p] = lock
    \/ pc[p] \in {"ledger", "load"} /\ session[p] # NoSession
    \/ pc[p] = "apply" /\ (todo[p] = {} \/ \E f \in todo[p] : IsLeast(f, todo[p]))
                       /\ session[p] # NoSession
    \/ pc[p] = "commit" /\ session[p] # NoSession /\ sess[session[p]] = "tx"
    \/ pc[p] = "unlock"

(* A process that is neither out nor serves can go on, or it is in the     *)
(* queue for the advisory lock, and then the lock is free, or its holder   *)
(* is a dead session that PostgreSQL will end, or a process that can go    *)
(* on: whatever crashed or broke before, migrators and servers never wait  *)
(* for each other in a circle, nor for a server that serves                *)
(* (migrations.go 53-142, 262-289).                                        *)
NobodyWaitsForAWaiter ==
    \A p \in Procs : pc[p] \notin {"out", "serve"} =>
       \/ MayGoOn(p)
       \/ /\ pc[p] = "lock" /\ sess[session[p]] = "queued"
          /\ \/ lock = NoSession
             \/ Orphan(lock)
             \/ \E q \in Procs \ {p} : session[q] = lock /\ MayGoOn(q)

(* A rollout never jams (migrations.go 53-142, 262-289).                   *)
THEOREM MigrationNeverJams == Spec => []NobodyWaitsForAWaiter
<1>1. Init => WaitersQueue
  BY DEF Init, WaitersQueue, Critical
<1>2. ASSUME IInv, WaitersQueue PROVE NobodyWaitsForAWaiter
  <2>0. TypeOK /\ Links /\ LockProtects /\ InStep
    BY <1>2 DEF IInv
  <2>1. ASSUME NEW q \in Procs, pc[q] \in Critical \cup {"unlock"} PROVE MayGoOn(q)
    <3>1. pc[q] \in Critical => session[q] # NoSession
      BY <1>2 DEF WaitersQueue
    <3>2. todo[q] = {} \/ \E f \in todo[q] : IsLeast(f, todo[q])
      BY <2>0, SomeLeast DEF TypeOK
    <3>3. pc[q] = "commit" => sess[session[q]] = "tx"
      BY <2>0, <3>1 DEF InStep, Working, Critical
    <3> QED BY <2>1, <3>1, <3>2, <3>3 DEF MayGoOn, Critical
  <2>2. ASSUME NEW p \in Procs, pc[p] = "lock", session[p] # lock, lock # NoSession,
               ~Orphan(lock)
        PROVE  \E q \in Procs \ {p} : session[q] = lock /\ MayGoOn(q)
    <3>1. lock \in Sessions /\ sess[lock] # "none"
      BY <2>0, <2>2 DEF TypeOK, LockProtects
    <3>2. PICK q \in Procs : session[q] = lock
      BY <2>2, <3>1 DEF Orphan
    <3>3. pc[q] \notin {"out", "serve"}
      BY <2>0, <2>2, <3>2 DEF Links, LockProtects
    <3>4. MayGoOn(q)
      BY <2>0, <2>1, <3>2, <3>3 DEF MayGoOn, TypeOK, Place, Critical
    <3> QED BY <2>2, <3>2, <3>4
  <2> SUFFICES ASSUME NEW p \in Procs, pc[p] \notin {"out", "serve"}, ~MayGoOn(p)
               PROVE  /\ pc[p] = "lock" /\ sess[session[p]] = "queued"
                      /\ \/ lock = NoSession
                         \/ Orphan(lock)
                         \/ \E q \in Procs \ {p} : session[q] = lock /\ MayGoOn(q)
    BY DEF NobodyWaitsForAWaiter
  <2>3. pc[p] = "lock"
    BY <2>0, <2>1 DEF TypeOK, Place, Critical
  <2>4. session[p] # lock
    BY <2>3 DEF MayGoOn
  <2>5. sess[session[p]] = "queued"
    BY <1>2, <2>3, <2>4 DEF WaitersQueue
  <2> QED BY <2>2, <2>3, <2>4, <2>5
<1> QED BY <1>1, <1>2, QueueStep, MigrationInvariant, PTL DEF Spec

=============================================================================
