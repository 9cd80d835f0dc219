--------------------------- MODULE OidcDiscovery ---------------------------
(***************************************************************************)
(* internal/auth/oidc.go newOIDCVerifier and the HTTP client it builds: how *)
(* the server asks the issuer for its metadata when it starts, and for its *)
(* keys whenever a token is signed with one it has not seen.               *)
(*                                                                         *)
(* An exchange is a request, the requests its redirects lead to, and the   *)
(* answer.  External, as the code uses them: the name server (any          *)
(* addresses, others at the next look), the provider (any answer, or       *)
(* none), net/http (follows redirects that CheckRedirect allows and ends   *)
(* an exchange after client.Timeout) and go-oidc (GETs the metadata below  *)
(* the issuer's URL, wants the issuer's name in it, GETs the jwks_uri).    *)
(***************************************************************************)
EXTENDS Settings

CONSTANTS Links,     \* URLs a provider may name: redirects, jwks_uri
          NoURL      \* model value

VARIABLES
    client,     \* the OIDCConfig of the verifier, or Unset
    exchange,   \* "none", "discovery" or "keys"
    step,       \* "none", "dial" or "wait"
    target,     \* the URL of the request
    via,        \* how many requests the exchange has made before it
    jwks,       \* the jwks_uri, once there is a verifier
    gone,       \* the verifier could not be made
    sent        \* ghost: requests made, [url, address]

discovery == <<client, exchange, step, target, via, jwks, gone, sent>>

Addresses == {"public", "private"}

DiscoveryTypeOK ==
    /\ exchange \in {"none", "discovery", "keys"}
    /\ step \in {"none", "dial", "wait"}
    /\ target \in URL \cup {NoURL} /\ jwks \in URL \cup {NoURL}
    /\ via \in 0..4 /\ gone \in BOOLEAN
    /\ \A r \in sent : r.url \in URL /\ r.address \in Addresses

DiscoveryInit ==
    /\ client = Unset /\ exchange = "none" /\ step = "none"
    /\ target = NoURL /\ via = 0 /\ jwks = NoURL /\ gone = FALSE /\ sent = {}

EffectivePort(u) ==
    IF u.port # "" THEN u.port ELSE IF u.scheme = "http" THEN "80" ELSE "443"

SameOrigin(u, v) ==
    u.scheme = v.scheme /\ u.host = v.host /\ EffectivePort(u) = EffectivePort(v)

IssuerURL == client.issuer

(* Mutant: redirects are followed wherever they are safe to follow. *)
RedirectAnywhere(u) == via < 4 /\ RemoteURLAccepted(u, IssuerURL.scheme = "http", TRUE)

(* Mutant: one redirect more. *)
RedirectOnceMore(u) ==
    via + 1 <= 5 /\ RemoteURLAccepted(u, IssuerURL.scheme = "http", TRUE) /\ SameOrigin(IssuerURL, u)

(* oidcRedirectPolicy: u would be the request after via + 1 others. *)
RedirectAllowed(u) ==
    /\ via + 1 < 5
    /\ RemoteURLAccepted(u, IssuerURL.scheme = "http", TRUE)
    /\ SameOrigin(IssuerURL, u)

JWKSAccepted(u) ==
    RemoteURLAccepted(u, IssuerURL.scheme = "http", TRUE) /\ SameOrigin(IssuerURL, u)

(* An exchange ends, and the next one starts from nothing. *)
EndExchange ==
    exchange' = "none" /\ step' = "none" /\ target' = NoURL /\ via' = 0

BeginExchange(kind, u) ==
    exchange' = kind /\ step' = "dial" /\ target' = u /\ via' = 0

(* newOIDCVerifier up to the request for the metadata. *)
BeginDiscovery(c) ==
    /\ client = Unset
    /\ client' = c
    /\ IF VerifierAccepts(c)
       THEN BeginExchange("discovery", [c.issuer EXCEPT !.path = TRUE]) /\ UNCHANGED gone
       ELSE gone' = TRUE /\ UNCHANGED <<exchange, step, target, via>>
    /\ UNCHANGED <<jwks, sent>>

(* A token is signed with a key that is not in the cache. *)
BeginKeys ==
    /\ jwks # NoURL /\ exchange = "none"
    /\ BeginExchange("keys", jwks)
    /\ UNCHANGED <<client, jwks, gone, sent>>

(* Mutant: any address will do. *)
DialAnything(address) == TRUE

(* publicOIDCAddress, unless private addresses are allowed. *)
MayDial(address) == client.allowPrivateIPs \/ address = "public"

(* dialPublicOIDCAddress: one of the addresses answers and may be used. *)
Dial ==
    /\ step = "dial"
    /\ \E address \in Addresses :
          /\ MayDial(address)
          /\ sent' = sent \cup {[url |-> target, address |-> address]}
    /\ step' = "wait"
    /\ UNCHANGED <<client, exchange, target, via, jwks, gone>>

Redirect(u) ==
    /\ step = "wait" /\ RedirectAllowed(u)
    /\ step' = "dial" /\ target' = u /\ via' = via + 1
    /\ UNCHANGED <<client, exchange, jwks, gone, sent>>

(* The metadata has come, with the issuer's name and this jwks_uri. *)
Discovered(u) ==
    /\ step = "wait" /\ exchange = "discovery"
    /\ EndExchange
    /\ IF JWKSAccepted(u) THEN jwks' = u /\ UNCHANGED gone
       ELSE gone' = TRUE /\ UNCHANGED jwks
    /\ UNCHANGED <<client, sent>>

(* The keys have come. *)
KeysArrive ==
    /\ step = "wait" /\ exchange = "keys"
    /\ EndExchange
    /\ UNCHANGED <<client, jwks, gone, sent>>

Fail ==
    /\ EndExchange
    /\ gone' = (gone \/ exchange = "discovery")
    /\ UNCHANGED <<client, jwks, sent>>

(* Nobody may be dialled, the answer is an error, names another issuer, is *)
(* no metadata, or redirects where it must not.                            *)
ExchangeFails == step \in {"dial", "wait"} /\ Fail

(* Mutant: the client waits as long as the provider likes. *)
NoTimeOut == FALSE /\ Fail

(* client.Timeout has passed since the exchange began. *)
TimeOut == exchange # "none" /\ Fail

Discovery ==
    \/ Dial \/ (\E u \in Links : Redirect(u) \/ Discovered(u))
    \/ KeysArrive \/ ExchangeFails \/ TimeOut

=============================================================================
