----------------------- MODULE ServerLifecycleProofs -----------------------
(***************************************************************************)
(* ServerLifecycle for any number of requests and connections.             *)
(*                                                                         *)
(* The argument: a handler holds a connection only while there is a pool   *)
(* that still has to be closed (HoldersKeepPool), and run passes that      *)
(* close only when nobody holds one.  Then how a server ends: what has to  *)
(* happen before a socket opens, Shutdown returns and run returns          *)
(* (InOrder) leaves one way to cut a request that is not an error.         *)
(***************************************************************************)
EXTENDS ServerLifecycle, FiniteSetTheorems, TLAPS

InStore == {r \in Requests : req[r] = "store"}

(* The pool exists from its stage on, in the mode that has one; while      *)
(* somebody holds a connection it is open or being closed, and run, which  *)
(* closes it before it returns, has not.                                   *)
HoldersKeepPool ==
    /\ InStore # {} => pool \in {"open", "closing"} /\ main # "exited"
    /\ main = "defers" => pool # "open"
    /\ mode # "database" => pool = "none"
    /\ main \in {"config", "oidc", "pool"} => pool = "none"
    /\ main = "pool" => mode = "database"

LifecycleInvariant == TypeOK /\ HoldersKeepPool /\ NoStoreCallCut

-----------------------------------------------------------------------------
LEMMA InStoreIsFinite == IsFiniteSet(InStore) /\ Cardinality(InStore) \in Nat
    BY LifecycleAssumption, FS_Subset, FS_CardinalityType DEF InStore

(* Steps that leave the handlers alone or take them out of the store. *)
LEMMA FewerInStore ==
    ASSUME Cardinality(InStore) <= MaxConns,
           {r \in Requests : req'[r] = "store"} \subseteq InStore
    PROVE  Cardinality({r \in Requests : req'[r] = "store"}) <= MaxConns
<1> DEFINE After1 == {r \in Requests : req'[r] = "store"}
<1>1. Cardinality(After1) <= Cardinality(InStore) /\ Cardinality(After1) \in Nat
    BY InStoreIsFinite, FS_Subset, FS_CardinalityType
<1> QED
    BY <1>1, InStoreIsFinite, LifecycleAssumption

LEMMA InvariantAtStart == Init => LifecycleInvariant
<1> SUFFICES ASSUME Init PROVE LifecycleInvariant
    OBVIOUS
<1>1. {r \in Requests : req[r] = "store"} = {}
    BY DEF Init
<1>2. Cardinality({r \in Requests : req[r] = "store"}) <= MaxConns
    BY <1>1, FS_EmptySet, LifecycleAssumption
<1>3. TypeOK
    BY <1>2 DEF Init, TypeOK, Modes, Stages, DrainState, ReqState
<1> QED
    BY <1>1, <1>3 DEF Init, LifecycleInvariant, HoldersKeepPool, NoStoreCallCut, InStore

(* run, the signal and the goroutine that shuts down. *)
LEMMA ProcessSteps ==
    ASSUME LifecycleInvariant, Main \/ Signal \/ BeginShutdown \/ EndShutdown
    PROVE  LifecycleInvariant'
<1> USE DEF LifecycleInvariant
<1>1. /\ req' \in [Requests -> ReqState] /\ mode' = mode
      /\ {r \in Requests : req'[r] = "store"} \subseteq InStore
      /\ NoStoreCallCut'
    BY DEF Main, Advance, StartFails, Build, Listen, ServeFails, ServeReturns,
           Signal, BeginShutdown, EndShutdown, Exit, Gone, TypeOK, NoStoreCallCut, ReqState, InStore,
           HoldersKeepPool
<1>2. HoldersKeepPool'
  <2> USE <1>1 DEF HoldersKeepPool, InStore, TypeOK
  <2>1. CASE Advance
      BY <2>1 DEF Advance, After, Cancelable, Modes
  <2>2. CASE StartFails \/ ServeFails \/ ServeReturns
      BY <2>2 DEF StartFails, ServeFails, ServeReturns, Leave
  <2>3. CASE Build \/ Listen
      BY <2>3 DEF Build, Listen
  <2>4. CASE Exit
      BY <2>4 DEF Exit, Gone
  <2>5. CASE Signal \/ BeginShutdown \/ EndShutdown
      BY <2>5 DEF Signal, BeginShutdown, EndShutdown
  <2> QED
      BY <2>1, <2>2, <2>3, <2>4, <2>5 DEF Main
<1>3. /\ main' \in Stages /\ failed' \in BOOLEAN /\ signalled' \in BOOLEAN
      /\ drain' \in DrainState
      /\ listener' \in {"none", "open", "closed"}
      /\ pool' \in {"none", "open", "closing", "closed"}
    BY DEF Main, Advance, StartFails, Build, Listen, ServeFails, ServeReturns, Exit, Gone, After, Leave,
           Signal, BeginShutdown, EndShutdown, TypeOK, Cancelable, Stages, DrainState
<1>4. Cardinality({r \in Requests : req'[r] = "store"}) <= MaxConns
    BY <1>1, FewerInStore DEF TypeOK, InStore
<1>5. mode' # "database" => pool' = "none" /\ \A r \in Requests : req'[r] # "store"
    BY <1>1, <1>2 DEF HoldersKeepPool, TypeOK, InStore
<1> QED
    BY <1>1, <1>2, <1>3, <1>4, <1>5 DEF TypeOK

(* The handlers. *)
LEMMA HandlerSteps ==
    ASSUME LifecycleInvariant, NEW r \in Requests, Handler(r)
    PROVE  LifecycleInvariant'
<1> USE DEF LifecycleInvariant
<1>1. CASE Acquire(r)
  <2> USE <1>1 DEF Acquire, Step
  <2>1. {q \in Requests : req'[q] = "store"} = InStore \cup {r} /\ r \notin InStore
      BY DEF InStore, TypeOK
  <2>2. Cardinality(InStore \cup {r}) = Cardinality(InStore) + 1
      BY <2>1, InStoreIsFinite, FS_AddElement
  <2>3. Cardinality({q \in Requests : req'[q] = "store"}) <= MaxConns
      BY <2>1, <2>2, InStoreIsFinite, LifecycleAssumption DEF InStore
  <2>4. HoldersKeepPool'
      BY DEF HoldersKeepPool
  <2>5. req' \in [Requests -> ReqState] /\ NoStoreCallCut'
      BY DEF TypeOK, ReqState, NoStoreCallCut
  <2> QED
      BY <2>3, <2>4, <2>5 DEF TypeOK, HoldersKeepPool
<1>2. CASE Accept(r) \/ StoreReturns(r) \/ Answer(r)
  <2> USE <1>2 DEF Accept, StoreReturns, Answer, Step
  <2>1. {q \in Requests : req'[q] = "store"} \subseteq InStore
      BY DEF InStore, TypeOK
  <2>2. Cardinality({q \in Requests : req'[q] = "store"}) <= MaxConns
      BY <2>1, FewerInStore DEF TypeOK, InStore
  <2>3. HoldersKeepPool'
      BY <2>1 DEF HoldersKeepPool, InStore
  <2>4. req' \in [Requests -> ReqState] /\ NoStoreCallCut'
      BY DEF TypeOK, ReqState, NoStoreCallCut
  <2> QED
      BY <2>1, <2>2, <2>3, <2>4 DEF TypeOK, HoldersKeepPool, InStore
<1> QED
    BY <1>1, <1>2 DEF Handler

LEMMA InvariantIsKept == LifecycleInvariant /\ [Next]_vars => LifecycleInvariant'
<1>1. LifecycleInvariant /\ UNCHANGED vars => LifecycleInvariant'
    BY DEF LifecycleInvariant, vars, TypeOK, HoldersKeepPool, NoStoreCallCut, InStore
<1> QED
    BY <1>1, ProcessSteps, HandlerSteps DEF Next

LEMMA LifecycleInvariantHolds == Spec => []LifecycleInvariant
    BY InvariantAtStart, InvariantIsKept, PTL DEF Spec

(* Types; at no moment are more connections in use than the pool has. *)
THEOREM LifecycleTypes == Spec => []TypeOK
    BY LifecycleInvariantHolds, PTL DEF LifecycleInvariant

(* An exit through run never cuts a store call in two (main.go 73, 110). *)
THEOREM LifecycleCutsNoStoreCall == Spec => []NoStoreCallCut
    BY LifecycleInvariantHolds, PTL DEF LifecycleInvariant

-----------------------------------------------------------------------------
(* How a server that serves comes to its end. *)

Cut == {"cut", "cutInStore"}

(* The ways to lose a request (main.go 97-110).                            *)
CutOnlyUndrained ==
    (\E r \in Requests : req[r] \in Cut) => failed \/ drain \in {"draining", "expired"}

(* When a socket is open (main.go 56-106).                                 *)
AcceptsWhenReady ==
    listener = "open" =>
       /\ main = "serve" /\ drain = "armed"
       /\ pool = IF mode = "database" THEN "open" ELSE "none"

(* When a server leaves with status 0 (main.go 31, 107-110).               *)
SuccessWasAsked == main = "exited" /\ ~failed => signalled /\ ShutdownBegun

Starting == {"config", "oidc", "pool", "schema", "build"}

(* What is behind the three: nothing is served before run has come to      *)
(* ListenAndServe, Shutdown waits for a signal, a return without an error  *)
(* for Shutdown, and Shutdown for the handlers unless it expires.          *)
InOrder ==
    /\ main \in Starting => /\ drain = "none" /\ listener = "none"
                            /\ \A r \in Requests : req[r] = "none"
    /\ main \in {"schema", "build", "serve"} /\ mode = "database" => pool = "open"
    /\ main = "serve" => drain # "none"
    /\ ShutdownBegun => signalled
    /\ main \in {"defers", "exited"} /\ ~failed => ShutdownBegun
    /\ drain = "drained" => \A r \in Requests : ~Handled(r)
    /\ main # "exited" => \A r \in Requests : req[r] \notin Cut

EndInvariant == AcceptsWhenReady /\ InOrder /\ CutOnlyUndrained

LEMMA EndAtStart == Init => EndInvariant
    BY DEF Init, EndInvariant, AcceptsWhenReady, InOrder, CutOnlyUndrained, ShutdownBegun, Cut

LEMMA EndStep ==
    ASSUME LifecycleInvariant, EndInvariant, [Next]_vars
    PROVE  EndInvariant'
<1> USE DEF EndInvariant
<1>0. TypeOK /\ HoldersKeepPool
    BY DEF LifecycleInvariant
<1>1. ASSUME Main \/ Signal \/ BeginShutdown \/ EndShutdown PROVE AcceptsWhenReady'
  <2> USE <1>0 DEF AcceptsWhenReady, InOrder, Starting, TypeOK
  <2>1. CASE Advance \/ StartFails \/ Build
      BY <2>1 DEF Advance, StartFails, Build, Cancelable
  <2>2. CASE Listen
    <3>1. drain \notin {"none"} => drain = "armed" \/ ShutdownBegun
        BY DEF DrainState, ShutdownBegun
    <3>2. main = "serve" /\ drain = "armed"
        BY <2>2, <3>1 DEF Listen
    <3> QED
        BY <2>2, <3>2 DEF Listen, HoldersKeepPool
  <2>3. CASE ServeFails \/ ServeReturns
      BY <2>3 DEF ServeFails, ServeReturns, ShutdownBegun
  <2>4. CASE Exit
      BY <2>4 DEF Exit, Gone
  <2>5. CASE Signal \/ BeginShutdown \/ EndShutdown
      BY <2>5 DEF Signal, BeginShutdown, EndShutdown
  <2> QED
      BY <1>1, <2>1, <2>2, <2>3, <2>4, <2>5 DEF Main
<1>2. ASSUME Main \/ Signal \/ BeginShutdown \/ EndShutdown PROVE InOrder' /\ CutOnlyUndrained'
  <2> USE <1>0 DEF InOrder, AcceptsWhenReady, CutOnlyUndrained, ShutdownBegun, Starting, TypeOK, Cut
  <2>1. CASE Advance
      BY <2>1 DEF Advance, After, Cancelable, HoldersKeepPool, Modes
  <2>2. CASE StartFails \/ ServeFails \/ ServeReturns
      BY <2>2 DEF StartFails, ServeFails, ServeReturns, Leave, Cancelable, Handled
  <2>3. CASE Build \/ Listen
      BY <2>3 DEF Build, Listen, Handled
  <2>4. CASE Exit
      BY <2>4 DEF Exit, Gone, Handled, DrainState
  <2>5. CASE Signal \/ BeginShutdown \/ EndShutdown
      BY <2>5 DEF Signal, BeginShutdown, EndShutdown, Handled
  <2> QED
      BY <1>2, <2>1, <2>2, <2>3, <2>4, <2>5 DEF Main
<1>3. ASSUME NEW r \in Requests, Handler(r) PROVE EndInvariant'
  <2>1. /\ UNCHANGED <<main, mode, failed, signalled, drain, listener, pool>>
        /\ main \notin Starting \cup {"exited"}
        /\ req' \in [Requests -> ReqState] /\ \A q \in Requests : q # r => req'[q] = req[q]
        /\ req'[r] \notin Cut
        /\ drain # "drained"
    <3>1. drain # "drained"
        BY <1>0, <1>3
        DEF InOrder, AcceptsWhenReady, Handler, Accept, Acquire, StoreReturns, Answer, Step, Handled
    <3> QED
        BY <1>0, <1>3, <3>1
        DEF InOrder, AcceptsWhenReady, Handler, Accept, Acquire, StoreReturns, Answer, Step,
            TypeOK, ReqState, Cut, Starting
  <2>2. AcceptsWhenReady'
      BY <2>1 DEF AcceptsWhenReady
  <2>3. InOrder'
      BY <2>1 DEF InOrder, ShutdownBegun
  <2>4. CutOnlyUndrained'
      BY <2>1 DEF CutOnlyUndrained, InOrder
  <2> QED
      BY <2>2, <2>3, <2>4
<1>4. CASE UNCHANGED vars
    BY <1>4 DEF vars, AcceptsWhenReady, InOrder, CutOnlyUndrained, ShutdownBegun, Handled
<1> QED
    BY <1>1, <1>2, <1>3, <1>4 DEF Next

LEMMA EndInvariantHolds == Spec => []EndInvariant
<1>1. LifecycleInvariant /\ EndInvariant /\ [Next]_vars => EndInvariant'
    BY EndStep
<1> QED
    BY <1>1, EndAtStart, LifecycleInvariantHolds, PTL DEF Spec

(* Every request that is cut is cut by an error of run, by the timeout, or *)
(* by an exit in the middle of Shutdown: the wait that is missing after    *)
(* line 107 is all that keeps the shutdown from being graceful (main.go    *)
(* 97-110).                                                                *)
THEOREM LifecycleCutsOnlyUndrained == Spec => []CutOnlyUndrained
    BY EndInvariantHolds, PTL DEF EndInvariant

(* A request is accepted only between the end of the start and the         *)
(* beginning of Shutdown, with the pool open (main.go 56-106).             *)
THEOREM LifecycleAcceptsWhenReady == Spec => []AcceptsWhenReady
    BY EndInvariantHolds, PTL DEF EndInvariant

(* A server leaves with status 0 only when it was signalled and Shutdown   *)
(* has begun: no lost socket and no failed start looks like a success      *)
(* (main.go 31, 107-110).                                                  *)
THEOREM LifecycleSucceedsWhenAsked == Spec => []SuccessWasAsked
<1>1. EndInvariant => SuccessWasAsked
    BY DEF EndInvariant, InOrder, SuccessWasAsked
<1> QED
    BY <1>1, EndInvariantHolds, PTL

=============================================================================
