----------------------------- MODULE StartupMC -----------------------------
(* Small instances of Startup for TLC: good settings, and each defect once. *)
EXTENDS Startup, TLC

Server == [scheme |-> "https", host |-> "localhost", port |-> "", user |-> "none",
           path |-> FALSE, query |-> {}, fragment |-> FALSE]

Defects(u, schemes) ==
    {Malformed} \cup {[u EXCEPT !.scheme = s] : s \in schemes}
       \cup {[u EXCEPT !.user = "password"], [u EXCEPT !.host = ""],
             [u EXCEPT !.query = {"password"}], [u EXCEPT !.fragment = TRUE]}

(* ------------------------------------------------------------------------ *)
Timers == {"SHUTDOWN_TIMEOUT", "A2A_KEEP_ALIVE_INTERVAL", "A2A_AGENT_INACTIVITY_TIMEOUT",
           "HTTP_READ_TIMEOUT", "MAX_REQUEST_BODY_BYTES"}

Defaults == [environment |-> Unset, port |-> Unset, url |-> Unset,
             positive |-> [n \in Timers |-> Unset]]

SomeBase ==
    {Defaults, [Defaults EXCEPT !.environment = "test", !.port = 65535, !.positive["HTTP_READ_TIMEOUT"] = 1],
     [Defaults EXCEPT !.environment = "production", !.url = Server]}
       \cup {[Defaults EXCEPT !.environment = e] : e \in {"staging", Blank, Malformed}}
       \cup {[Defaults EXCEPT !.port = p] : p \in {Blank, 0, 65536}}
       \cup {[Defaults EXCEPT !.url = u] : u \in Defects(Server, {"ftp"})}
       \cup {[Defaults EXCEPT !.positive[n] = v] : n \in Timers, v \in {Malformed, 0}}

(* ------------------------------------------------------------------------ *)
Issuer == [Server EXCEPT !.host = "idp"]

NoOIDC == [issuer |-> Unset, audience |-> Unset, tenantClaim |-> Unset, scopes |-> Unset,
           algorithms |-> Unset, skew |-> Unset, timeout |-> Unset]
WithOIDC == [NoOIDC EXCEPT !.issuer = Issuer, !.audience = "a2a"]

SomeOIDC ==
    {NoOIDC, WithOIDC, [NoOIDC EXCEPT !.skew = Blank],
     [NoOIDC EXCEPT !.issuer = Issuer], [NoOIDC EXCEPT !.audience = "a2a"],
     [WithOIDC EXCEPT !.issuer = [Server EXCEPT !.scheme = "http", !.port = "8080"]]}
       \cup {[NoOIDC EXCEPT ![p] = 1] : p \in {"skew", "timeout"}}
       \cup {[WithOIDC EXCEPT !.issuer = u] : u \in Defects(Issuer, {"http", "ftp"})}
       \cup {[WithOIDC EXCEPT !.skew = v] : v \in {Blank, -1, 0, 5, 6}}
       \cup {[WithOIDC EXCEPT !.timeout = v] : v \in {Malformed, 0}}
       \cup {[WithOIDC EXCEPT !.algorithms = v] :
                v \in {Blank, <<"HS256">>, <<"ES256", "ES256">>, <<"RS256", "ES256">>}}
       \cup {[WithOIDC EXCEPT !.scopes = v] : v \in {Blank, <<Malformed>>}}
       \cup {[WithOIDC EXCEPT !.tenantClaim = v] : v \in {Blank, Malformed}}

(* What the provider may name: itself, with its port and a query, and others. *)
SomeLinks ==
    {[Issuer EXCEPT !.path = TRUE, !.port = "443", !.query = {"sslmode"}],
     [Issuer EXCEPT !.port = "8080"], [Issuer EXCEPT !.host = "other"],
     [Issuer EXCEPT !.scheme = "http"],
     [Server EXCEPT !.scheme = "http", !.port = "8080", !.path = TRUE]}

(* ------------------------------------------------------------------------ *)
DatabaseURL == [Server EXCEPT !.scheme = "postgres", !.user = "name", !.query = {"sslmode"}]

NoDB == [url |-> Unset, passwordFile |-> Unset, maxConnections |-> Unset,
         minConnections |-> Unset, positive |-> [n \in {"lifetime", "idle", "health"} |-> Unset]]
WithDB == [NoDB EXCEPT !.url = DatabaseURL, !.passwordFile = "/run/secrets/password"]

SomeDatabases ==
    {NoDB, WithDB, [NoDB EXCEPT !.maxConnections = 20, !.passwordFile = Blank],
     [NoDB EXCEPT !.passwordFile = "/run/secrets/password"],
     [WithDB EXCEPT !.passwordFile = Unset], [WithDB EXCEPT !.passwordFile = Malformed],
     [WithDB EXCEPT !.maxConnections = 1], [WithDB EXCEPT !.maxConnections = 1, !.minConnections = 1],
     [WithDB EXCEPT !.minConnections = -1]}
       \cup {[WithDB EXCEPT !.url = u] : u \in Defects(DatabaseURL, {"https"})}
       \cup {[WithDB EXCEPT !.positive[n] = 0] : n \in {"lifetime", "idle", "health"}}

SomeSources == {{}, {"PGPASSWORD"}, {"pgpass"}}

(* Nothing, a password, one at the limit, one past it, another one, and    *)
(* bytes that may not be.                                                  *)
SomeContents ==
    {<<>>, <<"newline">>, <<"c", "newline">>, <<"c", "c">>, <<"c", "c", "c">>,
     <<"d", "d">>, <<"nul", "c">>}
SomeFiles ==
    [regular : {TRUE}, private : {TRUE}, content : SomeContents]
       \cup {[regular |-> r, private |-> ~r, content |-> <<"c">>] : r \in BOOLEAN}

(* ------------------------------------------------------------------------ *)
GoodCard == [described |-> TRUE, skills |-> <<"complete">>, streaming |-> TRUE, claims |-> {},
             interfaces |-> <<>>]
Other == [binding |-> "HTTP+JSON", url |-> [Server EXCEPT !.host = "other"]]

SomeCards ==
    {GoodCard, [GoodCard EXCEPT !.interfaces = <<Other, Other>>],
     [GoodCard EXCEPT !.interfaces = <<Other, [Other EXCEPT !.binding = "GRPC"]>>],
     [GoodCard EXCEPT !.described = FALSE], [GoodCard EXCEPT !.streaming = FALSE]}
       \cup {[GoodCard EXCEPT !.skills = s] : s \in {<<>>, <<"complete", "incomplete">>, <<"secured">>}}
       \cup {[GoodCard EXCEPT !.claims = {c}] : c \in {"push", "extensions", "security", "signatures"}}

(* ------------------------------------------------------------------------ *)
(* .env.example *)
ExampleBase ==
    {[environment |-> "development", port |-> 8080,
      url |-> [Server EXCEPT !.scheme = "http", !.port = "8080"],
      positive |-> [n \in Timers |-> 20]]}
ExampleOIDC ==
    {[issuer |-> Unset, audience |-> Unset, tenantClaim |-> "tenant_id", scopes |-> <<"a2a">>,
      algorithms |-> <<"RS256">>, skew |-> 1, timeout |-> 10]}
ExampleDatabase ==
    {[url |-> Unset, passwordFile |-> Unset, maxConnections |-> 20, minConnections |-> 2,
      positive |-> [n \in {"lifetime", "idle", "health"} |-> 30]]}
ExampleCards == {GoodCard}

(* The program starts with the environment that .env.example documents     *)
(* (.env.example 1-25, README 27-28): nothing of it is refused.            *)
ExampleStarts == stage # "refused"
=============================================================================
