------------------------------ MODULE Startup ------------------------------
(***************************************************************************)
(* run in cmd/server/main.go and cmd/migrate/main.go, from the first       *)
(* setting read to the first request: which settings are tried when, what  *)
(* is asked of the issuer, which password reaches the database, and what   *)
(* is served in the end.  ServerLifecycle has the same stages under        *)
(* signals, SchemaMigration has what happens in the database.              *)
(*                                                                         *)
(* A third program is what the tests of internal/auth make: config.Load    *)
(* and a verifier (oidc_test.go 243-250), in any environment.  The server  *)
(* itself ends in staging and production before it makes one, for want of  *)
(* a dispatcher.                                                           *)
(*                                                                         *)
(* The settings do not change while a program starts, but the password     *)
(* file may, between any two reads of it.                                  *)
(***************************************************************************)
EXTENDS OidcDiscovery, SequencesExt

CONSTANTS Programs,         \* of "server", "migrate" and "verifier"
          BaseSettings,     \* records [environment, port, url, positive]
          OIDCSettings,     \* records [issuer, audience] and OIDCPolicies
          DatabaseSettings, \* records [url, passwordFile, maxConnections, minConnections, positive]
          SourceSets,       \* where pgx may look for a password, too
          Files,            \* what the password file may be
          Cards             \* what the agent card may be

ASSUME StartupAssumption ==
    /\ Programs \subseteq {"server", "migrate", "verifier"}
    /\ Files \subseteq PasswordFile /\ Unset \notin PasswordFile /\ MaxPasswordBytes \in Nat
    /\ \A e \in Environments, o \in OIDCSettings : OIDCConfig(e, o) # Unset
    /\ Cards \subseteq AgentCard
    /\ Links \subseteq URL /\ NoURL \notin URL

VARIABLES
    program,
    stage,
    base, oidc, database,   \* the settings, once they were read
    sources,                \* the member of SourceSets that applies
    authentication,         \* dependencies.Authentication # nil
    file,                   \* the password file while and when it was read
    read,                   \* the bytes read of it
    torn,                   \* ghost: it was rewritten and no longer begins with them
    password,               \* ConnConfig.Password
    store,                  \* dependencies.TaskStore: "memory" or "postgres"
    card                    \* the card that is served

settings == <<program, base, oidc, database, sources>>
secrets == <<file, read, torn, password>>
wiring == <<authentication, store, card>>
vars == <<program, stage, base, oidc, database, sources, authentication,
          file, read, torn, password, store, card, discovery>>

Stage == {"base", "oidc", "database", "verifier", "pool", "read", "connect", "build",
          "serving", "migrated", "ready", "refused"}

TypeOK ==
    /\ DiscoveryTypeOK
    /\ program \in Programs /\ stage \in Stage
    /\ base \in BaseSettings \cup {Unset}
    /\ oidc \in OIDCSettings \cup {Unset}
    /\ database \in DatabaseSettings \cup {Unset}
    /\ authentication \in BOOLEAN
    /\ file = Unset \/ file \in PasswordFile
    /\ read \in Seq(Byte) /\ Len(read) <= MaxPasswordBytes + 1 /\ torn \in BOOLEAN
    /\ password = NoPassword \/ PasswordAccepted(password)
    /\ store \in {"memory", "postgres"}
    /\ card = Unset \/ card \in AgentCard

Init ==
    /\ DiscoveryInit
    /\ program \in Programs
    /\ stage = IF program = "migrate" THEN "database" ELSE "base"
    /\ base = Unset /\ oidc = Unset /\ database = Unset
    /\ sources \in SourceSets
    /\ file = Unset /\ read = <<>> /\ torn = FALSE /\ password = NoPassword
    /\ authentication = FALSE /\ store = "memory" /\ card = Unset

GoOn(accepted, next) == stage' = IF accepted THEN next ELSE "refused"

Environment == Or(base.environment, "development")

-----------------------------------------------------------------------------
(* config.Load *)

LoadBase ==
    /\ stage = "base"
    /\ base' \in BaseSettings
    /\ GoOn(BaseAccepted(base'), "oidc")
    /\ UNCHANGED <<program, oidc, database, sources, secrets, wiring, discovery>>

LoadOIDC ==
    /\ stage = "oidc"
    /\ oidc' \in OIDCSettings
    /\ GoOn(OIDCAccepted(Environment, oidc'), "database")
    /\ UNCHANGED <<program, base, database, sources, secrets, wiring, discovery>>

(* The server has a dispatcher for development and tests. *)
HasDispatcher == program = "server" => Environment \in Local

(* loadDatabaseConfig ends Load; without a dispatcher, run ends there. *)
LoadDatabase ==
    /\ stage = "database" /\ program # "migrate"
    /\ database' \in DatabaseSettings
    /\ GoOn(DatabaseAccepted(database') /\ HasDispatcher, "verifier")
    /\ UNCHANGED <<program, base, oidc, sources, secrets, wiring, discovery>>

(* cmd/migrate reads two variables and nothing else. *)
ReadDatabase ==
    /\ stage = "database" /\ program = "migrate"
    /\ database' \in DatabaseSettings
    /\ GoOn(Given(database'.url), "pool")
    /\ UNCHANGED <<program, base, oidc, sources, secrets, wiring, discovery>>

-----------------------------------------------------------------------------
(* NewOIDCVerifier and NewAuthenticator *)

(* The server goes on without one; there is no verifier without one. *)
NoProvider ==
    /\ stage = "verifier" /\ ~Given(oidc.issuer)
    /\ GoOn(program = "server", "pool")
    /\ UNCHANGED <<settings, secrets, wiring, discovery>>

StartDiscovery ==
    /\ stage = "verifier" /\ Given(oidc.issuer)
    /\ BeginDiscovery(OIDCConfig(Environment, oidc))
    /\ UNCHANGED <<stage, settings, secrets, wiring>>

NoVerifier ==
    /\ stage = "verifier" /\ gone
    /\ stage' = "refused"
    /\ UNCHANGED <<settings, secrets, wiring, discovery>>

Authenticate ==
    /\ stage = "verifier" /\ jwks # NoURL
    /\ authentication' = AuthenticatorAccepts(client)
    /\ GoOn(authentication', IF program = "server" THEN "pool" ELSE "ready")
    /\ UNCHANGED <<settings, secrets, store, card, discovery>>

(* What OidcDiscovery does, at the start or for a request's token. *)
Exchange ==
    /\ \/ Discovery
       \/ stage \in {"serving", "ready"} /\ BeginKeys
    /\ UNCHANGED <<stage, settings, secrets, wiring>>

-----------------------------------------------------------------------------
(* OpenPool *)

NoDatabase ==
    /\ stage = "pool" /\ ~Given(database.url)
    /\ stage' = "build"
    /\ UNCHANGED <<settings, secrets, wiring, discovery>>

(* Mutant: the database is opened for callers nobody knows. *)
AnybodyMayStore == TRUE

(* The server stores only for authenticated callers. *)
MayStore == program = "migrate" \/ authentication

OpenPool ==
    /\ stage = "pool" /\ Given(database.url)
    /\ LET accepted == MayStore /\ PoolAccepts(database.url, sources)
       IN  /\ GoOn(accepted, IF Given(database.passwordFile) THEN "read" ELSE "connect")
           /\ password' = IF accepted THEN ImplicitPassword(sources) ELSE password
    /\ UNCHANGED <<settings, file, read, torn, wiring, discovery>>

(* Open and Stat; what is read next need not be what Stat saw. *)
StatFile ==
    /\ stage = "read" /\ file = Unset
    /\ file' \in Files
    /\ GoOn(StatAccepted(file'), "read")
    /\ UNCHANGED <<settings, read, torn, password, wiring, discovery>>

FileChanges ==
    /\ stage = "read" /\ file # Unset
    /\ \E f \in Files : file' = [file EXCEPT !.content = f.content]
    /\ torn' = (torn \/ ~IsPrefix(read, file'.content))
    /\ UNCHANGED <<stage, settings, read, password, wiring, discovery>>

(* io.ReadAll reads on where it stopped, as much as it is given. *)
ReadSome ==
    /\ stage = "read" /\ file # Unset
    /\ \E n \in (Len(read) + 1)..Readable(file.content) :
          read' = read \o SubSeq(file.content, Len(read) + 1, n)
    /\ UNCHANGED <<stage, settings, file, torn, password, wiring, discovery>>

(* It is given nothing more. *)
ReadPassword ==
    /\ stage = "read" /\ file # Unset /\ Len(read) >= Readable(file.content)
    /\ GoOn(PasswordAccepted(read), "connect")
    /\ password' = IF PasswordAccepted(read) THEN TrimNewlines(read) ELSE password
    /\ UNCHANGED <<settings, file, read, torn, wiring, discovery>>

(* The database answers, and its schema is what it has to be. *)
Connect ==
    /\ stage = "connect"
    /\ IF program = "migrate" THEN stage' = "migrated" /\ UNCHANGED store
       ELSE stage' = "build" /\ store' = "postgres"
    /\ UNCHANGED <<settings, secrets, authentication, card, discovery>>

(* Or not. *)
ConnectFails ==
    /\ stage = "connect"
    /\ stage' = "refused"
    /\ UNCHANGED <<settings, secrets, wiring, discovery>>

-----------------------------------------------------------------------------
(* appserver.New.  ConfigureAgentCard states the security that is enforced. *)

SecureCard(c) == IF authentication THEN [c EXCEPT !.claims = {"security"}] ELSE c

Build ==
    /\ stage = "build"
    /\ \E c \in Cards :
          LET accepted == CardAccepted(c) /\ Environment \in Local
          IN  /\ GoOn(accepted, "serving")
              /\ card' = IF accepted THEN SecureCard(Published(c, PublicBaseURL(base))) ELSE card
    /\ UNCHANGED <<settings, secrets, authentication, store, discovery>>

(* What the program does by itself. *)
Proceed ==
    \/ LoadBase \/ LoadOIDC \/ LoadDatabase \/ ReadDatabase
    \/ NoProvider \/ StartDiscovery \/ NoVerifier \/ Authenticate
    \/ NoDatabase \/ OpenPool \/ StatFile \/ ReadSome \/ ReadPassword
    \/ Build

Next == Proceed \/ Exchange \/ FileChanges \/ Connect \/ ConnectFails

Spec == Init /\ [][Next]_vars

(* The program goes on while it can, and the client's timer runs by itself. *)
(* The issuer, the database and who writes the file need not do anything.   *)
FairSpec ==
    /\ Spec /\ WF_vars(Proceed)
    /\ WF_vars(TimeOut /\ UNCHANGED <<stage, settings, secrets, wiring>>)

-----------------------------------------------------------------------------
(* A server fails closed: what it serves is what it was told, or it does   *)
(* not serve.  It serves in development and tests only; behind an issuer   *)
(* exactly if one is named, with scopes that can be asked for and          *)
(* signatures that prove something; from the database exactly if one is    *)
(* named, and then behind an issuer; no policy and no password file is     *)
(* passed over; and the card promises what is enforced, at this server's   *)
(* own URL (README 29-44, main.go 34-87, config.go 134-151, 223-227).      *)
ServedAsConfigured ==
    stage = "serving" =>
       /\ Or(base.environment, "development") \in {"development", "test"}
       /\ authentication <=> Given(oidc.issuer)
       /\ authentication => /\ client.scopes # <<>> /\ Malformed \notin Members(client.scopes)
                            /\ client.algorithms # <<>>
                            /\ "HS256" \notin Members(client.algorithms)
       /\ ~authentication => \A p \in OIDCPolicies : ~Given(oidc[p])
       /\ (store = "postgres") <=> Given(database.url)
       /\ Given(database.passwordFile) \/ store = "postgres" => authentication
       /\ ("security" \in card.claims) <=> authentication
       /\ card.interfaces # <<>>
       /\ \A i \in 1..Len(card.interfaces) :
             card.interfaces[i].url = PublicBaseURL(base) /\ card.interfaces[i].binding # "GRPC"

(* A connection is made with the whole content of the operator's file,     *)
(* however it was rewritten before the first read and grew between the     *)
(* reads, or without a password if no file is named; never with part of a  *)
(* file that grew, and never with a password pgx found elsewhere (pool.go  *)
(* 60-94, 122-149).  One case is left to the operator: a file that is cut  *)
(* or rewritten in place between two reads, so that it no longer begins    *)
(* with what was read of it, may give a part of each content.              *)
OneCredential ==
    stage \in {"connect", "build", "serving", "migrated"} /\ Given(database.url) =>
       IF Given(database.passwordFile)
       THEN /\ file.regular /\ file.private
            /\ ~torn => /\ Len(file.content) <= MaxPasswordBytes
                        /\ \E n \in 0..Len(file.content) :
                              file.content = password \o [i \in 1..n |-> "newline"]
       ELSE password = <<>>

(* Every request of every exchange goes to the origin the operator named,  *)
(* through redirects and the jwks_uri too, and to a private address only   *)
(* in development and tests, although the name may resolve to another      *)
(* address each time (oidc.go 43-62, 124-148, 150-180, 225-239).           *)
StaysOnOrigin ==
    \A r \in sent :
       /\ r.url.host = oidc.issuer.host
       /\ r.url.scheme = oidc.issuer.scheme
       /\ r.url.port = oidc.issuer.port \/ EffectivePort(r.url) = EffectivePort(oidc.issuer)
       /\ r.address = "private" => Environment \in Local

(* A program starts, or is refused, or waits for the database: neither an  *)
(* issuer that answers anything or nothing, nor somebody who writes the    *)
(* password file over and over, holds it up (main.go 29-83, oidc.go 134,   *)
(* 225-229, pool.go 135).                                                  *)
StartupComesToRest ==
    <>[](stage \in {"connect", "serving", "migrated", "ready", "refused"})

=============================================================================
