------------------------------ MODULE Settings ------------------------------
(***************************************************************************)
(* What the programs read before they serve, and which of it they accept:  *)
(* the environment (internal/config/config.go, once more in                *)
(* internal/auth/oidc.go, auth.go and internal/storage/postgres/pool.go),  *)
(* the password file and the agent card.                                   *)
(*                                                                         *)
(* A variable is a model value if it is Unset (missing or empty), Blank    *)
(* (white space) or Malformed (not of the kind wanted), and what it means  *)
(* otherwise: a number, a string, a list, a URL.  A URL is a record of     *)
(* what the checks look at.  One host is loopback: "localhost".            *)
(***************************************************************************)
EXTENDS Integers, Sequences, FiniteSetsExt

CONSTANTS Unset, Blank, Malformed,
          MaxPasswordBytes   \* 64 KB in the code

Given(v) == v \notin {Unset, Blank}

(* envOrDefault *)
Or(v, default) == IF v = Unset THEN default ELSE v

(* parseInt32, and PORT *)
InRange(v, default, low, high) == Or(v, default) \in low..high

(* A duration, or MAX_REQUEST_BODY_BYTES; every default is positive. *)
Positive(v) == v = Unset \/ v \in Nat \ {0}

Environments == {"development", "test", "staging", "production"}
Local == {"development", "test"}

(* url.ParseRequestURI *)
URL == [scheme : {"http", "https", "postgres", "ftp"}, host : {"", "localhost", "idp", "other"},
        port : {"", "80", "443", "8080"}, user : {"none", "name", "password"},
        path : BOOLEAN, query : SUBSET {"sslmode", "password", "passfile"}, fragment : BOOLEAN]

IsLoopbackHost(host) == host = "localhost"

(* An absolute URL of one of these schemes. *)
Absolute(u, schemes) == u \in URL /\ u.host # "" /\ u.scheme \in schemes

LocalPort(e) == IF Or(e.port, 8080) = 8080 THEN "8080" ELSE "80"

(* PUBLIC_BASE_URL, by default http://localhost:PORT. *)
PublicBaseURL(e) ==
    Or(e.url, [scheme |-> "http", host |-> "localhost", port |-> LocalPort(e),
               user |-> "none", path |-> FALSE, query |-> {}, fragment |-> FALSE])

(* Load, up to the two parts below. *)
BaseAccepted(e) ==
    LET environment == Or(e.environment, "development")
        u == PublicBaseURL(e)
    IN  /\ environment \in Environments
        /\ InRange(e.port, 8080, 1, 65535)
        /\ Absolute(u, {"http", "https"})
        /\ u.user = "none" /\ u.query = {} /\ ~u.fragment /\ ~u.path
        /\ environment \in Local \/ u.scheme = "https"
        /\ \A name \in DOMAIN e.positive : Positive(e.positive[name])

OIDCPolicies == {"tenantClaim", "scopes", "algorithms", "skew", "timeout"}

PoliciesNeedProvider(o) == \A p \in OIDCPolicies : ~Given(o[p])

AllowedOIDCAlgorithm(a) ==
    a \in {"RS256", "RS384", "RS512", "PS256", "PS384", "PS512", "ES256", "ES384", "ES512"}

(* splitCSV drops the empty items, so a list may come out empty. *)
ListOf(v, default) == IF v = Blank THEN <<>> ELSE Or(v, default)

Members(list) == {list[i] : i \in 1..Len(list)}

IssuerAccepted(environment, u) ==
    /\ Absolute(u, {"http", "https"})
    /\ u.user = "none" /\ u.query = {} /\ ~u.fragment
    /\ u.scheme = "https" \/ (environment \in Local /\ IsLoopbackHost(u.host))

(* loadOIDCConfig *)
OIDCAccepted(environment, o) ==
    \/ ~Given(o.issuer) /\ ~Given(o.audience) /\ PoliciesNeedProvider(o)
    \/ /\ Given(o.issuer) /\ Given(o.audience)
       /\ IssuerAccepted(environment, o.issuer)
       /\ InRange(o.skew, 1, 0, 5)
       /\ Positive(o.timeout)
       /\ \A a \in Members(ListOf(o.algorithms, <<"RS256">>)) : AllowedOIDCAlgorithm(a)
       /\ ListOf(o.scopes, <<"a2a">>) # <<>>
       /\ Or(o.tenantClaim, "tenant_id") \notin {Blank, Malformed}

(* OIDCConfig, as it is handed on.  No issuer: Enabled() is false. *)
OIDCConfig(environment, o) ==
    [issuer |-> IF Given(o.issuer) THEN o.issuer ELSE Unset,
     algorithms |-> ListOf(o.algorithms, <<"RS256">>),
     scopes |-> ListOf(o.scopes, <<"a2a">>),
     allowPrivateIPs |-> environment \in Local]

(* validateRemoteURL *)
RemoteURLAccepted(u, allowLoopbackHTTP, allowQuery) ==
    /\ Absolute(u, {"http", "https"})
    /\ u.user = "none" /\ ~u.fragment
    /\ allowQuery \/ u.query = {}
    /\ u.scheme = "https" \/ (allowLoopbackHTTP /\ IsLoopbackHost(u.host))

(* validateOIDCConfig: the same again, and the algorithms must be a set. *)
VerifierAccepts(c) ==
    /\ RemoteURLAccepted(c.issuer, TRUE, FALSE)
    /\ c.algorithms # <<>>
    /\ \A i, j \in 1..Len(c.algorithms) : i # j => c.algorithms[i] # c.algorithms[j]
    /\ \A a \in Members(c.algorithms) : AllowedOIDCAlgorithm(a)

(* NewAuthenticator *)
AuthenticatorAccepts(c) == c.scopes # <<>> /\ Malformed \notin Members(c.scopes)

ImplicitKeys == {"password", "passfile"}

(* loadDatabaseConfig, and parsePoolConfig *)
DatabaseURLAccepted(u) ==
    /\ Absolute(u, {"postgres"})
    /\ u.user # "password" /\ u.query \cap ImplicitKeys = {}

(* loadDatabaseConfig.  A password file must not be Malformed: relative. *)
DatabaseAccepted(d) ==
    IF ~Given(d.url) THEN ~Given(d.passwordFile)
    ELSE /\ DatabaseURLAccepted(d.url)
         /\ d.passwordFile # Malformed
         /\ InRange(d.maxConnections, 20, 1, 500)
         /\ InRange(d.minConnections, 2, 0, Or(d.maxConnections, 20))
         /\ \A name \in DOMAIN d.positive : Positive(d.positive[name])

NoPassword == <<>>

(* What pgx makes of the URL, the environment and ~/.pgpass. *)
ImplicitPassword(sources) ==
    IF sources \cap {"PGPASSWORD", "pgpass"} # {} THEN <<"other">> ELSE NoPassword

(* parsePoolConfig, before it reads the password file.  Its bounds on the  *)
(* numbers of connections are those of loadDatabaseConfig, and cmd/migrate *)
(* names constants within them, so they refuse nothing here.               *)
PoolAccepts(u, sources) ==
    /\ "PGPASSWORD" \notin sources
    /\ DatabaseURLAccepted(u)
    /\ ImplicitPassword(sources) = NoPassword

Byte == {"c", "d", "newline", "nul"}

PasswordFile == [regular : BOOLEAN, private : BOOLEAN, content : Seq(Byte)]

(* readPasswordFile, up to Stat *)
StatAccepted(file) == file.regular /\ file.private /\ Len(file.content) <= MaxPasswordBytes

TrimNewlines(content) ==
    SubSeq(content, 1, Max({0} \cup {i \in 1..Len(content) : content[i] # "newline"}))

(* Mutant: the reader stops at the limit, and nobody notices. *)
ReadableUpToLimit(content) ==
    IF Len(content) > MaxPasswordBytes THEN MaxPasswordBytes ELSE Len(content)

(* io.LimitReader, one byte after the limit *)
Readable(content) ==
    IF Len(content) > MaxPasswordBytes THEN MaxPasswordBytes + 1 ELSE Len(content)

PasswordAccepted(read) ==
    /\ Len(read) <= MaxPasswordBytes
    /\ TrimNewlines(read) # NoPassword
    /\ \A i \in 1..Len(TrimNewlines(read)) : read[i] # "nul"

(* What loadAgentCard looks at. *)
AgentCard ==
    [described : BOOLEAN,       \* name, description, version, default modes
     skills : Seq({"complete", "incomplete", "secured"}),
     streaming : BOOLEAN,
     claims : SUBSET {"push", "extended", "extensions", "security", "signatures"},
     interfaces : Seq([binding : {"HTTP+JSON", "GRPC"}, url : URL \cup {Unset}])]

CardAccepted(card) ==
    /\ card.described
    /\ card.skills # <<>> /\ \A i \in 1..Len(card.skills) : card.skills[i] = "complete"
    /\ card.streaming /\ card.claims = {}
    /\ \A i \in 1..Len(card.interfaces) : card.interfaces[i].binding = "HTTP+JSON"

(* loadAgentCard: there is one interface at least, and all are this server. *)
Published(card, base) ==
    LET n == Max({1, Len(card.interfaces)})
    IN  [card EXCEPT !.interfaces = [i \in 1..n |-> [binding |-> "HTTP+JSON", url |-> base]]]

=============================================================================
