-------------------------- MODULE ServerLifecycle --------------------------
(***************************************************************************)
(* cmd/server/main.go: how a server process starts, serves and stops.      *)
(*                                                                         *)
(* Three activities share the process: run, which starts everything, then  *)
(* sits in ListenAndServe and finally runs its deferred calls; the         *)
(* goroutine that waits for a signal and calls Shutdown; and the request   *)
(* handlers.  When run has returned, main returns and the process is gone, *)
(* whatever the other two are doing.                                       *)
(*                                                                         *)
(* External, as main.go uses them: http.Server (ListenAndServe returns     *)
(* ErrServerClosed as soon as Shutdown has begun; Shutdown returns when no *)
(* handler runs or its context expires) and pgxpool (Close refuses new     *)
(* acquisitions and waits until every connection has been given back).     *)
(***************************************************************************)
EXTENDS Integers, FiniteSets

CONSTANTS
    Requests,     \* HTTP requests that may reach the server
    MaxConns      \* connections of the pool

ASSUME LifecycleAssumption == IsFiniteSet(Requests) /\ MaxConns \in Nat \ {0}

(* What the configuration wires up; a database requires authentication. *)
Modes == {"memory", "oidc", "database"}

Stages == {"config", "oidc", "pool", "schema", "build", "serve", "defers", "exited"}

VARIABLES
    main,         \* where run is
    mode,         \* what is configured
    failed,       \* the process exits with status 1
    signalled,    \* SIGINT or SIGTERM has arrived
    drain,        \* the goroutine that calls Shutdown
    listener,     \* the listening socket
    pool,         \* the PostgreSQL pool
    req           \* [Requests -> ReqState]

vars == <<main, mode, failed, signalled, drain, listener, pool, req>>

(* none: not started; armed: waiting for the signal; draining: inside      *)
(* Shutdown; drained: it returned nil; expired: SHUTDOWN_TIMEOUT passed.   *)
DrainState == {"none", "armed", "draining", "drained", "expired"}

(* store: inside a call that holds a connection; cut: the process exited   *)
(* in the middle; cutInStore: in the middle of a store call.               *)
ReqState == {"none", "handling", "store", "answered", "cut", "cutInStore"}

TypeOK ==
    /\ main \in Stages /\ mode \in Modes
    /\ failed \in BOOLEAN /\ signalled \in BOOLEAN
    /\ drain \in DrainState
    /\ listener \in {"none", "open", "closed"}
    /\ pool \in {"none", "open", "closing", "closed"}
    /\ req \in [Requests -> ReqState]
    /\ (mode # "database") => (pool = "none" /\ \A r \in Requests : req[r] # "store")
    /\ Cardinality({r \in Requests : req[r] = "store"}) <= MaxConns

Init ==
    /\ main = "config" /\ mode \in Modes
    /\ failed = FALSE /\ signalled = FALSE
    /\ drain = "none" /\ listener = "none" /\ pool = "none"
    /\ req = [r \in Requests |-> "none"]

-----------------------------------------------------------------------------
(* run. *)

(* run returns: the deferred calls start with pool.Close. *)
Leave(withError) ==
    /\ main' = "defers"
    /\ failed' = withError
    /\ pool' = IF pool = "open" THEN "closing" ELSE pool

ShutdownBegun == drain \in {"draining", "drained", "expired"}

(* The stage after each one; only some of them are wired. *)
After(stage) ==
    CASE stage = "config" -> IF mode = "memory" THEN "build" ELSE "oidc"
      [] stage = "oidc"   -> IF mode = "database" THEN "pool" ELSE "build"
      [] stage = "pool"   -> "schema"
      [] stage = "schema" -> "build"

(* These stages work under the context the signal cancels. *)
Cancelable == {"oidc", "pool", "schema"}

(* A stage of the start succeeds. *)
Advance ==
    /\ main \in {"config"} \cup Cancelable
    /\ main \in Cancelable => ~signalled
    /\ main' = After(main)
    /\ pool' = IF main = "pool" THEN "open" ELSE pool
    /\ UNCHANGED <<mode, failed, signalled, drain, listener, req>>

(* A stage of the start fails. *)
StartFails ==
    /\ main \in {"config", "build"} \cup Cancelable
    /\ Leave(TRUE)
    /\ UNCHANGED <<mode, signalled, drain, listener, req>>

(* ListenAndServe cannot open the socket, or loses it. *)
ServeFails ==
    /\ main = "serve" /\ ~ShutdownBegun
    /\ Leave(TRUE)
    /\ listener' = "closed"
    /\ UNCHANGED <<mode, signalled, drain, req>>

(* Mutant: the goroutine is started only while no signal is pending. *)
BuildUnlessSignalled ==
    /\ main = "build"
    /\ main' = "serve"
    /\ drain' = IF signalled THEN "none" ELSE "armed"
    /\ UNCHANGED <<mode, failed, signalled, listener, pool, req>>

(* The handler is built and the goroutine that waits for the signal starts. *)
Build ==
    /\ main = "build"
    /\ main' = "serve"
    /\ drain' = "armed"
    /\ UNCHANGED <<mode, failed, signalled, listener, pool, req>>

(* ListenAndServe opens the socket, unless Shutdown was faster. *)
Listen ==
    /\ main = "serve" /\ listener = "none" /\ ~ShutdownBegun
    /\ listener' = "open"
    /\ UNCHANGED <<main, mode, failed, signalled, drain, pool, req>>

(* ListenAndServe returns ErrServerClosed, which run takes for success. *)
ServeReturns ==
    /\ main = "serve" /\ ShutdownBegun
    /\ Leave(FALSE)
    /\ UNCHANGED <<mode, signalled, drain, listener, req>>

(* The process goes, and whatever a handler was doing ends there. *)
Gone ==
    /\ main' = "exited"
    /\ pool' = IF pool = "closing" THEN "closed" ELSE pool
    /\ req' = [r \in Requests |-> CASE req[r] = "handling" -> "cut"
                                    [] req[r] = "store" -> "cutInStore"
                                    [] OTHER -> req[r]]
    /\ UNCHANGED <<mode, failed, signalled, drain, listener>>

(* Mutant: the pool is not closed before the process exits. *)
ExitWithoutClose == main = "defers" /\ Gone

(* pool.Close returns, if there is a pool, and main returns. *)
Exit ==
    /\ main = "defers"
    /\ pool = "closing" => \A r \in Requests : req[r] # "store"
    /\ Gone

-----------------------------------------------------------------------------
(* The signal, and the goroutine that waits for it. *)

(* Before NotifyContext the signal kills the process; afterwards it only   *)
(* cancels the context, and later signals are swallowed.                   *)
Signal ==
    /\ ~signalled /\ main # "exited"
    /\ signalled' = TRUE
    /\ IF main = "config"
       THEN main' = "exited" /\ failed' = TRUE
       ELSE UNCHANGED <<main, failed>>
    /\ UNCHANGED <<mode, drain, listener, pool, req>>

(* Shutdown closes the socket and begins to wait for the handlers. *)
BeginShutdown ==
    /\ main # "exited"
    /\ drain = "armed" /\ signalled
    /\ drain' = "draining"
    /\ listener' = IF listener = "open" THEN "closed" ELSE listener
    /\ UNCHANGED <<main, mode, failed, signalled, pool, req>>

Handled(r) == req[r] \in {"handling", "store"}

(* Shutdown returns: nothing is being handled, or SHUTDOWN_TIMEOUT passed. *)
EndShutdown ==
    /\ main # "exited"
    /\ drain = "draining"
    /\ drain' = IF \E r \in Requests : Handled(r) THEN "expired" ELSE "drained"
    /\ UNCHANGED <<main, mode, failed, signalled, listener, pool, req>>

-----------------------------------------------------------------------------
(* The request handlers. *)

Step(r, from, to) ==
    /\ main # "exited"
    /\ req[r] = from
    /\ req' = [req EXCEPT ![r] = to]
    /\ UNCHANGED <<main, mode, failed, signalled, drain, listener, pool>>

(* A request is accepted. *)
Accept(r) == listener = "open" /\ Step(r, "none", "handling")

(* Mutant: the pool is not bounded. *)
AcquireUnlimited(r) == pool = "open" /\ Step(r, "handling", "store")

(* A handler calls the store and gets a connection. *)
Acquire(r) ==
    /\ pool = "open"
    /\ Cardinality({q \in Requests : req[q] = "store"}) < MaxConns
    /\ Step(r, "handling", "store")

(* The store call returns and gives the connection back. *)
StoreReturns(r) == Step(r, "store", "handling")

(* The handler answers, with an error if the pool refused it. *)
Answer(r) == Step(r, "handling", "answered")

-----------------------------------------------------------------------------
Main == Advance \/ StartFails \/ Build \/ Listen \/ ServeFails \/ ServeReturns \/ Exit

Handler(r) == Accept(r) \/ Acquire(r) \/ StoreReturns(r) \/ Answer(r)

Next ==
    \/ Main
    \/ Signal \/ BeginShutdown \/ EndShutdown
    \/ \E r \in Requests : Handler(r)

Spec == Init /\ [][Next]_vars

(* run and the goroutine are scheduled, every start stage either succeeds  *)
(* or fails, and store calls return (TaskStore).  A handler is obliged to  *)
(* nothing: a stream may stay open as long as its client likes.            *)
FairSpec ==
    /\ Spec
    /\ WF_vars(Advance \/ StartFails \/ Build) /\ WF_vars(Listen)
    /\ WF_vars(ServeReturns) /\ WF_vars(Exit)
    /\ WF_vars(BeginShutdown) /\ WF_vars(EndShutdown)
    /\ \A r \in Requests : WF_vars(StoreReturns(r))

-----------------------------------------------------------------------------
(* An exit through run never cuts a store call in two: pool.Close waits    *)
(* for the connection (main.go 73, 110).                                   *)
NoStoreCallCut == \A r \in Requests : req[r] # "cutInStore"

(* A signal ends the process, at whatever stage it arrives and whatever    *)
(* the handlers do (main.go 38-39, 97-110).                                *)
SignalStops == signalled ~> main = "exited"

(* What SHUTDOWN_TIMEOUT and "graceful shutdown" promise: a signalled      *)
(* server cuts a request only after the timeout (main.go 97-104,           *)
(* config.go 75-78, .env.example 5).                                       *)
GracefulShutdown ==
    (\E r \in Requests : req[r] = "cut") => (failed \/ drain = "expired")

=============================================================================
