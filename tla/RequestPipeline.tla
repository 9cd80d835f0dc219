-------------------------- MODULE RequestPipeline --------------------------
(***************************************************************************)
(* internal/server and internal/auth: what one HTTP request passes between *)
(* the socket and the task store, in the order New composes it:            *)
(*                                                                         *)
(*    Middleware (bearer token, Verify, scopes) -> limitRequestBody        *)
(*    -> normalizeServiceParameters -> the SDK's REST handler              *)
(*    -> interceptors (version, identity) -> the call -> error boundary.   *)
(*                                                                         *)
(* Verify takes time, since the signing key may have to be fetched, and    *)
(* the server's clock is not the issuer's: it may be ahead, behind, and    *)
(* set back, but is off by at most the configured skew.                    *)
(*                                                                         *)
(* External, as the code uses them: go-oidc (signature, issuer, audience   *)
(* and algorithm of a token), net/http's body, the SDK's decoding of a     *)
(* request and what a call returns.                                        *)
(***************************************************************************)
EXTENDS OwnerKey, FiniteSets, SequencesExt

CONSTANTS
    Issuer,           \* a text
    Tokens,           \* the tokens clients hold
    RequiredScopes,
    Skew,             \* OIDC_CLOCK_SKEW
    MaxRequestBytes,
    MaxTime,          \* bound: the issuer's clock stops there
    MaxBody,          \* bound: the longest body a client sends
    MaxMentions,      \* bound: version values in the header, and in the query
    NoClaim,          \* a claim that is missing or, if it is required, malformed
    BadClaim,         \* an optional claim that is malformed
    NoToken, NoIdentity

Scopes == RequiredScopes \cup {"profile"}

(* genuine: signed by the issuer for this audience, with an allowed        *)
(* algorithm.  Texts are not blank; one that is counts as missing.         *)
Token ==
    [genuine : BOOLEAN,
     subject : Seq(STRING) \cup {NoClaim}, tenant : Seq(STRING) \cup {NoClaim},
     exp : Nat \cup {NoClaim}, nbf : Nat \cup {NoClaim, BadClaim},
     scopes : (SUBSET Scopes) \cup {BadClaim}]

ASSUME PipelineAssumption ==
    /\ Issuer \in Seq(STRING) /\ Tokens \subseteq Token /\ NoToken \notin Token
    /\ Skew \in Nat /\ MaxRequestBytes \in Nat \ {0}
    /\ MaxTime \in Nat /\ MaxBody \in Nat /\ MaxMentions \in Nat

Identity == [issuer : {Issuer}, subject : Seq(STRING), tenant : Seq(STRING), scopes : SUBSET Scopes]

ASSUME IdentityAssumption == NoIdentity \notin Identity

Modes == {"memory", "oidc", "database"}

Versions == {"1.0", "0.3"}
Supported == "1.0"

(* The request types that carry a tenant. *)
TenantPayloads ==
    {"SendMessage", "GetTask", "ListTasks", "CancelTask", "SubscribeToTask",
     "GetExtendedAgentCard", "PushConfig", "GetTaskPushConfig",
     "ListTaskPushConfig", "DeleteTaskPushConfig"}

NoTenant == <<>>
Tenants == {t.tenant : t \in Tokens} \ {NoClaim}
Payload ==
    [kind : TenantPayloads, tenant : Tenants \cup {NoTenant}]
        \cup [kind : {"none"}, tenant : {NoTenant}]

ClientSafeSentinels ==
    <<"Canceled", "DeadlineExceeded", "ParseError", "InvalidRequest", "MethodNotFound",
      "InvalidParams", "TaskNotFound", "TaskNotCancelable", "PushNotificationNotSupported",
      "UnsupportedOperation", "UnsupportedContentType", "InvalidAgentResponse",
      "ExtendedCardNotConfigured", "ExtensionSupportRequired", "VersionNotSupported",
      "Unauthenticated", "Unauthorized">>

SafeSentinels == ToSet(ClientSafeSentinels)

(* What the code or the SDK return and no client may see. *)
InnerSentinels == {"TaskAlreadyExists", "ConcurrentModification", "ServerError"}
Sentinel == SafeSentinels \cup InnerSentinels \cup {"InternalError"}

(* An error: the sentinels errors.Is finds in it, and the one that its     *)
(* *a2a.Error wraps, if errors.As finds one.                               *)
Error == [is : SUBSET Sentinel, protocol : Sentinel \cup {"none"}]

Answers ==
    Sentinel \cup {"none", "ok", "card", "401", "403", "413", "400"}

Stages == {"idle", "signature", "claims", "scopes", "body", "params", "sdk",
           "version", "identity", "call", "boundary"}

VARIABLES
    mode,         \* what main wired: no authentication, OIDC, OIDC and PostgreSQL
    trueTime,     \* the issuer's clock
    now,          \* the server's clock
    stage,        \* how far the request is
    token,        \* its bearer token
    identity,     \* the verified identity in its context
    body,         \* [sent, seen]: its body as sent, and as passed on
    versions,     \* [stated, header]: what it states, and what the SDK is given
    payload,      \* the decoded request
    owner,        \* callCtx.User: the owner key
    error,        \* what the call returned
    answer        \* what the client got

clocks == <<trueTime, now>>
vars == <<mode, trueTime, now, stage, token, identity, body, versions, payload, owner, error, answer>>

NoBody == [sent |-> 0, seen |-> 0]
NoVersions == [stated |-> {}, header |-> <<>>]
NoPayload == [kind |-> "none", tenant |-> NoTenant]
NoError == [is |-> {}, protocol |-> "none"]
NoOwner == <<>>

TypeOK ==
    /\ mode \in Modes
    /\ trueTime \in 0..MaxTime /\ now \in (trueTime - Skew)..(trueTime + Skew)
    /\ stage \in Stages
    /\ token \in Tokens \cup {NoToken}
    /\ identity # NoIdentity =>
          /\ identity.issuer = Issuer /\ identity.scopes \subseteq Scopes
          /\ NoClaim \notin {identity.subject, identity.tenant}
    /\ body \in [sent : 0..MaxBody, seen : 0..MaxBody]
    /\ versions.stated \subseteq Versions /\ ToSet(versions.header) \subseteq Versions
    /\ payload \in Payload
    /\ error \in Error
    /\ answer \in Answers

Init ==
    /\ mode \in Modes
    /\ trueTime = 0 /\ now \in -Skew..Skew
    /\ stage = "idle" /\ token = NoToken /\ identity = NoIdentity
    /\ body = NoBody /\ versions = NoVersions /\ payload = NoPayload
    /\ owner = NoOwner /\ error = NoError /\ answer = "none"

Authenticated == mode # "memory"

-----------------------------------------------------------------------------
(* Time passes for both; the server's clock is corrected now and then. *)
Tick ==
    /\ trueTime' \in {trueTime, trueTime + 1} \cap (0..MaxTime)
    /\ now' \in (trueTime' - Skew)..(trueTime' + Skew)
    /\ UNCHANGED <<mode, stage, token, identity, body, versions, payload, owner, error, answer>>

(* The request is answered and what was known of it is gone. *)
Forget ==
    /\ token' = NoToken /\ identity' = NoIdentity /\ body' = NoBody
    /\ versions' = NoVersions /\ payload' = NoPayload /\ owner' = NoOwner

Respond(a) ==
    /\ stage' = "idle" /\ answer' = a
    /\ Forget
    /\ UNCHANGED <<mode, clocks, error>>

Pass(from, to) == stage = from /\ stage' = to /\ UNCHANGED <<mode, clocks, error, answer>>

(* The agent card is public. *)
ServeCard ==
    /\ stage = "idle"
    /\ answer' = "card" /\ error' = NoError
    /\ UNCHANGED <<mode, clocks, stage, token, identity, body, versions, payload, owner>>

-----------------------------------------------------------------------------
(* Middleware and Verify. *)

(* A request comes in; bearerToken finds exactly one credential in it. *)
Arrive ==
    /\ stage = "idle"
    /\ answer' = "none" /\ error' = NoError
    /\ IF Authenticated
       THEN token' \in Tokens /\ stage' = "signature"
       ELSE UNCHANGED token /\ stage' = "body"
    /\ UNCHANGED <<mode, clocks, identity, body, versions, payload, owner>>

(* Or it does not. *)
RefuseHeader ==
    /\ stage = "idle" /\ Authenticated
    /\ answer' = "401" /\ error' = NoError
    /\ UNCHANGED <<mode, clocks, stage, token, identity, body, versions, payload, owner>>

(* go-oidc accepts the token, after fetching the keys if need be. *)
AcceptSignature ==
    /\ Pass("signature", "claims")
    /\ token.genuine
    /\ UNCHANGED <<token, identity, body, versions, payload, owner>>

(* It does not, or the keys cannot be fetched. *)
RefuseSignature == stage = "signature" /\ Respond("401")

(* Mutant: the skew is not applied to exp. *)
UnexpiredExactly(t) == now < t.exp

(* Mutant: exp is compared with the wrong sign of "equal". *)
UnexpiredInclusive(t) == now <= t.exp + Skew

Unexpired(t) == now < t.exp + Skew

Begun(t) == t.nbf # NoClaim => ~(now + Skew < t.nbf)

ClaimsHold(t) ==
    /\ NoClaim \notin {t.subject, t.tenant, t.exp}
    /\ Unexpired(t)
    /\ t.nbf # BadClaim /\ Begun(t)
    /\ t.scopes # BadClaim

IdentityOf(t) ==
    [issuer |-> Issuer, subject |-> t.subject, tenant |-> t.tenant, scopes |-> t.scopes]

(* The claims are judged by the clock as it is after the keys were fetched. *)
AcceptClaims ==
    /\ Pass("claims", "scopes")
    /\ ClaimsHold(token)
    /\ identity' = IdentityOf(token)
    /\ UNCHANGED <<token, body, versions, payload, owner>>

RefuseClaims == stage = "claims" /\ ~ClaimsHold(token) /\ Respond("401")

(* Mutant: one of the required scopes is enough. *)
AnyScopeGranted == RequiredScopes \cap identity.scopes # {}

ScopesGranted == RequiredScopes \subseteq identity.scopes

AcceptScopes ==
    /\ Pass("scopes", "body")
    /\ ScopesGranted
    /\ UNCHANGED <<token, identity, body, versions, payload, owner>>

RefuseScopes == stage = "scopes" /\ ~ScopesGranted /\ Respond("403")

-----------------------------------------------------------------------------
(* limitRequestBody. *)

(* Mutant: io.LimitReader stops at the limit itself. *)
TakenInToLimit(sent) == Min({sent, MaxRequestBytes})

(* ReadAll of a LimitReader that stops one byte after the limit. *)
TakenIn(sent) == Min({sent, MaxRequestBytes + 1})

(* A body: the bytes that come, the length declared (-1: none), and        *)
(* whether it breaks off after the bytes that came.                        *)
Sent == {b \in [bytes : 0..MaxBody, declared : -1..MaxBody, broken : BOOLEAN] :
            /\ b.declared # -1 => b.bytes <= b.declared
            /\ b.declared > b.bytes => b.broken}

PassBody ==
    /\ Pass("body", "params")
    /\ \E b \in Sent :
          /\ b.declared <= MaxRequestBytes
          /\ ~b.broken
          /\ TakenIn(b.bytes) <= MaxRequestBytes
          /\ body' = [sent |-> b.bytes, seen |-> TakenIn(b.bytes)]
    /\ UNCHANGED <<token, identity, versions, payload, owner>>

(* A body that breaks off beyond the limit may or may not fail to close. *)
RefuseBody ==
    /\ stage = "body"
    /\ \E b \in Sent :
          \/ b.declared > MaxRequestBytes /\ Respond("413")
          \/ b.declared <= MaxRequestBytes /\ b.broken /\ Respond("400")
          \/ TakenIn(b.bytes) > MaxRequestBytes /\ Respond("413")

-----------------------------------------------------------------------------
(* normalizeServiceParameters, the SDK, and the interceptors. *)

(* One value stated twice is one value. *)
Merged(values) ==
    IF Len(values) = 2 /\ values[1] = values[2] THEN <<values[1]>> ELSE values

NormalizeParameters ==
    /\ Pass("params", "sdk")
    /\ \E header, query \in BoundedSeq(Versions, MaxMentions) :
          versions' = [stated |-> ToSet(header \o query), header |-> Merged(header \o query)]
    /\ UNCHANGED <<token, identity, body, payload, owner>>

(* The SDK decodes the request, or answers that it cannot. *)
Decode ==
    /\ Pass("sdk", "version")
    /\ payload' \in Payload
    /\ body' = NoBody
    /\ UNCHANGED <<token, identity, versions, owner>>

RefuseRequest ==
    /\ stage = "sdk"
    /\ \E s \in {"ParseError", "InvalidRequest", "MethodNotFound"} : Respond(s)

VersionAgreed == versions.header = <<Supported>>

AcceptVersion ==
    /\ Pass("version", IF Authenticated THEN "identity" ELSE "call")
    /\ VersionAgreed
    /\ UNCHANGED <<token, identity, body, versions, payload, owner>>

RefuseVersion == stage = "version" /\ ~VersionAgreed /\ Respond("VersionNotSupported")

RequestTenant(p) == IF p.kind \in TenantPayloads THEN p.tenant ELSE NoTenant

(* Mutant: a request type is missing in setRequestTenant. *)
WithTenantButPush(p, tenant) ==
    IF p.kind \in TenantPayloads \ {"PushConfig"} THEN [p EXCEPT !.tenant = tenant] ELSE p

(* Mutant: every payload is given the tenant. *)
WithTenantAlways(p, tenant) == [p EXCEPT !.tenant = tenant]

(* setRequestTenant *)
WithTenant(p, tenant) ==
    IF p.kind \in TenantPayloads THEN [p EXCEPT !.tenant = tenant] ELSE p

TenantAgrees == RequestTenant(payload) \in {NoTenant, identity.tenant}

AcceptIdentity ==
    /\ Pass("identity", "call")
    /\ identity # NoIdentity /\ TenantAgrees
    /\ payload' = WithTenant(payload, identity.tenant)
    /\ owner' = KeyOf(identity)
    /\ UNCHANGED <<token, identity, body, versions>>

RefuseIdentity ==
    /\ stage = "identity"
    /\ IF identity = NoIdentity THEN Respond("Unauthenticated")
       ELSE ~TenantAgrees /\ Respond("Unauthorized")

-----------------------------------------------------------------------------
(* The call and the error boundary. *)

(* Errors of one or two sentinels, with or without an *a2a.Error. *)
Errors ==
    {[is |-> {}, protocol |-> "none"]}
       \cup {[is |-> {s, r}, protocol |-> "none"] : s \in Sentinel, r \in Sentinel}
       \cup {[is |-> {s, r}, protocol |-> s] : s \in Sentinel, r \in Sentinel}

CallSucceeds == stage = "call" /\ Respond("ok")

CallFails ==
    /\ stage = "call" /\ stage' = "boundary"
    /\ error' \in Errors
    /\ Forget
    /\ UNCHANGED <<mode, clocks, answer>>

(* Mutant: an unlisted sentinel is passed on. *)
ClientSafeOrItself(e) ==
    IF e.protocol # "none" THEN e.protocol
    ELSE IF e.is = {} THEN "InternalError" ELSE CHOOSE s \in e.is : TRUE

(* clientSafeError *)
ClientSafe(e) ==
    LET listed == {i \in DOMAIN ClientSafeSentinels : ClientSafeSentinels[i] \in e.is}
    IN  IF e.protocol # "none"
        THEN IF e.protocol \in SafeSentinels THEN e.protocol ELSE "InternalError"
        ELSE IF listed # {} THEN ClientSafeSentinels[Min(listed)] ELSE "InternalError"

ShowError == stage = "boundary" /\ Respond(ClientSafe(error))

-----------------------------------------------------------------------------
Authentication ==
    \/ RefuseHeader \/ AcceptSignature \/ RefuseSignature \/ AcceptClaims \/ RefuseClaims
    \/ AcceptScopes \/ RefuseScopes

Handling ==
    \/ PassBody \/ RefuseBody \/ NormalizeParameters \/ Decode \/ RefuseRequest
    \/ AcceptVersion \/ RefuseVersion \/ AcceptIdentity \/ RefuseIdentity
    \/ CallSucceeds \/ CallFails \/ ShowError

Next == Tick \/ ServeCard \/ Arrive \/ Authentication \/ Handling

Spec == Init /\ [][Next]_vars

-----------------------------------------------------------------------------
(* A complete token that its issuer still takes for valid is never refused *)
(* for its times, wherever the server's clock is within the skew and       *)
(* however long the keys took (oidc.go 65-67, 251-258).                    *)
AcceptsCurrentTokens ==
    [][ stage = "claims" /\ answer' = "401" =>
          \/ NoClaim \in {token.subject, token.tenant, token.exp}
          \/ BadClaim \in {token.nbf, token.scopes}
          \/ trueTime >= token.exp
          \/ token.nbf # NoClaim /\ trueTime < token.nbf ]_vars

(* And a token is never taken that by the issuer's clock is off by twice   *)
(* the skew, once for the allowance and once for the clock                 *)
(* (oidc.go 251-258).                                                      *)
RefusesStaleTokens ==
    [][ identity = NoIdentity /\ identity' # NoIdentity =>
          /\ trueTime < token.exp + 2 * Skew
          /\ token.nbf = NoClaim \/ token.nbf <= trueTime + 2 * Skew ]_vars

(* Past Middleware there is always the identity of a genuine token with    *)
(* every required scope: nothing of the body has been read before          *)
(* (auth.go 57-81, server.go 90-95).                                       *)
OnlyAuthorizedPass ==
    Authenticated /\ (body # NoBody
                      \/ stage \in {"body", "params", "sdk", "version", "identity", "call"}) =>
       /\ token # NoToken /\ token.genuine
       /\ identity = IdentityOf(token)
       /\ RequiredScopes \subseteq token.scopes

(* The SDK gets the whole of a body within the limit, and nothing of any   *)
(* other (protocol.go 73-98).                                              *)
WholeBody ==
    stage \in {"params", "sdk"} => body.seen = body.sent /\ body.sent <= MaxRequestBytes

(* What is handled is what the client said, in one version and for one     *)
(* tenant: everything it says about its version, in the header and in the  *)
(* query, is the supported one, and a call made for an identity names its  *)
(* tenant, whatever the type of the request and whatever the client put    *)
(* there (protocol.go 19-51, auth.go 107-185).                             *)
CanonicalCall ==
    /\ stage \in {"identity", "call"} => versions.stated = {Supported}
    /\ stage = "call" /\ Authenticated /\ payload.kind \in TenantPayloads =>
          payload.tenant = identity.tenant

(* Two callers get the same owner key only if they are the same owner,     *)
(* whatever characters their claims are made of (auth.go 129-133).         *)
OwnersStayApart ==
    stage = "call" /\ Authenticated =>
       \A t \in Tokens : t.genuine /\ NoClaim \notin {t.subject, t.tenant} =>
          (owner = KeyOf(IdentityOf(t)) <=>
             t.subject = identity.subject /\ t.tenant = identity.tenant)

(* What a failed call shows its client is a listed error that it really    *)
(* was, or an internal error (error_boundary.go 17-68).                    *)
SafeAnswers ==
    /\ answer \notin InnerSentinels
    /\ stage = "idle" /\ error # NoError =>
          answer \in ((error.is \cup {error.protocol}) \cap SafeSentinels) \cup {"InternalError"}

=============================================================================
