----------------------- MODULE RequestPipelineProofs -----------------------
(***************************************************************************)
(* RequestPipeline for any tokens, scopes, skew, limits and body sizes.    *)
(*                                                                         *)
(* The argument: how far the request is tells what is known of it.  Each   *)
(* part of PipelineInvariant says so for one of the things it carries; a   *)
(* layer that passes the request on establishes what the next stage needs, *)
(* and an answer forgets everything.  The last part is about OwnerKey: a   *)
(* key tells the claims it was made of.                                    *)
(***************************************************************************)
EXTENDS RequestPipeline, SequenceTheorems, WellFoundedInduction, TLAPS

(* Past Middleware, where a request has an identity if there is one. *)
Inside == {"body", "params", "sdk", "version", "identity", "call"}

Places ==
    /\ mode \in Modes /\ stage \in Stages
    /\ stage \in {"signature", "claims", "scopes", "identity"} => Authenticated

Clocks ==
    /\ trueTime \in 0..MaxTime /\ now \in Int
    /\ trueTime - Skew <= now /\ now <= trueTime + Skew

(* What the claims of a token are once AcceptClaims has seen them. *)
Complete(t) ==
    NoClaim \notin {t.subject, t.tenant, t.exp} /\ BadClaim \notin {t.nbf, t.scopes}

TokenFollows ==
    /\ token \in Tokens \cup {NoToken}
    /\ Authenticated /\ stage \notin {"idle", "boundary"} => token \in Tokens
    /\ Authenticated /\ stage \in {"claims", "scopes"} \cup Inside => token.genuine

IdentityFollows ==
    IF Authenticated /\ stage \in {"scopes"} \cup Inside
    THEN /\ Complete(token) /\ identity = IdentityOf(token)
         /\ stage \in Inside => RequiredScopes \subseteq token.scopes
    ELSE identity = NoIdentity

BodyFollows ==
    /\ body \in [sent : 0..MaxBody, seen : 0..MaxBody]
    /\ body.sent = body.seen /\ body.seen <= MaxRequestBytes
    /\ stage \notin {"params", "sdk"} => body = NoBody

VersionsFollow ==
    /\ versions.stated \subseteq Versions
    /\ ToSet(versions.header) = versions.stated
    /\ stage \in {"identity", "call"} => VersionAgreed

PayloadFollows ==
    /\ payload \in Payload
    /\ stage = "call" /\ Authenticated /\ payload.kind \in TenantPayloads =>
          payload.tenant = identity.tenant

AnswerFollows ==
    /\ error \in Error /\ answer \in Answers
    /\ stage # "idle" => answer = "none"
    /\ stage \notin {"idle", "boundary"} => error = NoError
    /\ SafeAnswers

PipelineInvariant ==
    /\ Places /\ Clocks /\ TokenFollows /\ IdentityFollows
    /\ BodyFollows /\ VersionsFollow /\ PayloadFollows /\ AnswerFollows

-----------------------------------------------------------------------------
(* What the fields of a token are, and the identity made of it. *)
LEMMA TokenFields ==
    ASSUME NEW t \in Tokens
    PROVE  /\ t \in Token /\ t # NoToken
           /\ t.exp # NoClaim => t.exp \in Nat
           /\ t.nbf \notin {NoClaim, BadClaim} => t.nbf \in Nat
           /\ t.genuine \in BOOLEAN
    BY PipelineAssumption DEF Token

LEMMA IdentityFields ==
    ASSUME NEW t \in Tokens, Complete(t)
    PROVE  /\ IdentityOf(t) \in Identity /\ IdentityOf(t) # NoIdentity
           /\ IdentityOf(t).tenant \in Tenants
           /\ IdentityOf(t).scopes = t.scopes /\ t.scopes \subseteq Scopes
           /\ IdentityOf(t).issuer = Issuer
           /\ IdentityOf(t).subject = t.subject /\ IdentityOf(t).tenant = t.tenant
<1>1. t \in Token
    BY TokenFields
<1>2. t.subject \in Seq(STRING) /\ t.tenant \in Seq(STRING) /\ t.scopes \in SUBSET Scopes
    BY <1>1 DEF Token, Complete
<1>3. IdentityOf(t) \in Identity
    BY <1>2 DEF IdentityOf, Identity
<1>4. IdentityOf(t).tenant \in Tenants
    BY DEF Tenants, IdentityOf, Complete
<1> QED
    BY <1>2, <1>3, <1>4, IdentityAssumption DEF IdentityOf

(* A body that is taken in without passing the limit is taken in whole. *)
LEMMA TakenInWhole ==
    ASSUME NEW n \in Nat, TakenIn(n) <= MaxRequestBytes
    PROVE  TakenIn(n) = n
<1> DEFINE M == MaxRequestBytes + 1
<1>1. M \in Nat /\ MaxRequestBytes \in Nat
    BY PipelineAssumption
<1>2. \E x \in {n, M} : \A y \in {n, M} : x <= y
  <2>1. CASE n <= M
      BY <2>1, <1>1
  <2>2. CASE ~(n <= M)
      BY <2>2, <1>1
  <2> QED
      BY <2>1, <2>2
<1>3. Min({n, M}) \in {n, M} /\ \A y \in {n, M} : Min({n, M}) <= y
    BY <1>2 DEF Min
<1> QED
    BY <1>1, <1>3 DEF TakenIn

(* A set of natural numbers has a least member. *)
LEMMA MinIsLeast ==
    ASSUME NEW S, S \subseteq Nat, S # {}
    PROVE  Min(S) \in S /\ \A n \in S : Min(S) <= n
<1>1. PICK x \in S : \A y \in S : ~(<<y, x>> \in OpToRel(<, Nat))
    BY NatLessThanWellFounded, WFMin
<1>2. \A y \in S : x <= y
  <2> SUFFICES ASSUME NEW y \in S, y < x PROVE FALSE
      OBVIOUS
  <2> QED
      BY <1>1 DEF OpToRel
<1> QED
    BY <1>2 DEF Min

(* What the error boundary shows is a listed sentinel the error is, or     *)
(* wraps, or it is the internal error (error_boundary.go 42-68).           *)
LEMMA ClientSafeIsListed ==
    ASSUME NEW e \in Error
    PROVE  ClientSafe(e) \in ((e.is \cup {e.protocol}) \cap SafeSentinels) \cup {"InternalError"}
<1> DEFINE listed == {i \in DOMAIN ClientSafeSentinels : ClientSafeSentinels[i] \in e.is}
<1>1. CASE e.protocol # "none"
    BY <1>1 DEF ClientSafe
<1>2. CASE e.protocol = "none" /\ listed = {}
    BY <1>2 DEF ClientSafe
<1>3. CASE e.protocol = "none" /\ listed # {}
  <2>1. ClientSafe(e) = ClientSafeSentinels[Min(listed)]
      BY <1>3 DEF ClientSafe
  <2>2. Min(listed) \in listed
    <3>1. listed \subseteq Nat
        BY DEF ClientSafeSentinels
    <3> HIDE DEF listed
    <3> QED
        BY <1>3, <3>1, MinIsLeast
  <2> QED
      BY <2>1, <2>2 DEF SafeSentinels, ToSet
<1> QED
    BY <1>1, <1>2, <1>3

(* Merging the values loses none of them. *)
LEMMA MergedKeepsValues ==
    ASSUME NEW values \in Seq(Versions)
    PROVE  ToSet(Merged(values)) = ToSet(values)
<1>1. CASE Len(values) = 2 /\ values[1] = values[2]
  <2>1. DOMAIN values = {1, 2}
      BY <1>1
  <2>2. ToSet(values) = {values[1]}
      BY <1>1, <2>1 DEF ToSet
  <2>3. ToSet(<<values[1]>>) = {values[1]}
      BY DEF ToSet
  <2> QED
      BY <1>1, <2>2, <2>3 DEF Merged
<1>2. CASE ~(Len(values) = 2 /\ values[1] = values[2])
    BY <1>2 DEF Merged
<1> QED
    BY <1>1, <1>2

-----------------------------------------------------------------------------
(* The first state. *)
LEMMA InvariantAtStart == Init => PipelineInvariant
<1> SUFFICES ASSUME Init PROVE PipelineInvariant
    OBVIOUS
<1>1. Places /\ TokenFollows /\ IdentityFollows
    BY DEF Init, Places, Modes, Stages, TokenFollows, IdentityFollows, Inside
<1>2. Clocks
    BY PipelineAssumption DEF Init, Clocks
<1>3. BodyFollows
    BY PipelineAssumption DEF Init, BodyFollows, NoBody
<1>4. VersionsFollow
    BY DEF Init, VersionsFollow, NoVersions, ToSet
<1>5. PayloadFollows
    BY DEF Init, PayloadFollows, NoPayload, Payload
<1>6. AnswerFollows
    BY DEF Init, AnswerFollows, SafeAnswers, NoError, Error, Answers, InnerSentinels
<1> QED
    BY <1>1, <1>2, <1>3, <1>4, <1>5, <1>6 DEF PipelineInvariant

(* A step that answers: nothing is left to say something wrong about but   *)
(* the answer.                                                             *)
LEMMA AnsweringKeeps ==
    ASSUME PipelineInvariant, stage # "idle", NEW a \in Answers, Respond(a),
           a \notin InnerSentinels,
           error # NoError =>
              a \in ((error.is \cup {error.protocol}) \cap SafeSentinels) \cup {"InternalError"}
    PROVE  PipelineInvariant'
<1> USE DEF PipelineInvariant, Respond, Forget
<1>1. Places' /\ TokenFollows' /\ IdentityFollows'
    BY DEF Places, Modes, Stages, TokenFollows, IdentityFollows, Inside, Authenticated
<1>2. Clocks'
    BY DEF clocks, Clocks
<1>3. BodyFollows'
    BY PipelineAssumption DEF BodyFollows, NoBody
<1>4. VersionsFollow'
    BY DEF VersionsFollow, NoVersions, ToSet
<1>5. PayloadFollows'
    BY DEF PayloadFollows, NoPayload, Payload
<1>6. AnswerFollows'
    BY DEF AnswerFollows, SafeAnswers
<1> QED
    BY <1>1, <1>2, <1>3, <1>4, <1>5, <1>6

(* While a call runs no error is known: any plain answer may be given. *)
LEMMA RefusalsAreSafe ==
    ASSUME PipelineInvariant, stage \notin {"idle", "boundary"},
           NEW a \in Answers \ InnerSentinels, Respond(a)
    PROVE  PipelineInvariant'
    BY AnsweringKeeps DEF PipelineInvariant, AnswerFollows

LEMMA PlainAnswers ==
    /\ {"none", "ok", "card", "401", "403", "413", "400"} \subseteq Answers \ InnerSentinels
    /\ {"ParseError", "InvalidRequest", "MethodNotFound", "VersionNotSupported",
        "Unauthenticated", "Unauthorized"} \subseteq Answers \ InnerSentinels
    /\ SafeSentinels \subseteq Answers \ InnerSentinels
    /\ "InternalError" \in Answers \ InnerSentinels
<1>1. SafeSentinels =
         {"Canceled", "DeadlineExceeded", "ParseError", "InvalidRequest", "MethodNotFound",
          "InvalidParams", "TaskNotFound", "TaskNotCancelable", "PushNotificationNotSupported",
          "UnsupportedOperation", "UnsupportedContentType", "InvalidAgentResponse",
          "ExtendedCardNotConfigured", "ExtensionSupportRequired", "VersionNotSupported",
          "Unauthenticated", "Unauthorized"}
    BY DEF SafeSentinels, ClientSafeSentinels, ToSet
<1> QED
    BY <1>1 DEF Answers, Sentinel, InnerSentinels

-----------------------------------------------------------------------------
(* Every step. *)
LEMMA Ticking == PipelineInvariant /\ Tick => PipelineInvariant'
<1> SUFFICES ASSUME PipelineInvariant, Tick PROVE PipelineInvariant'
    OBVIOUS
<1> USE DEF PipelineInvariant
<1>1. Clocks'
  <2>1. trueTime' \in 0..MaxTime /\ now' \in (trueTime' - Skew)..(trueTime' + Skew)
      BY DEF Tick
  <2>2. trueTime' \in Int /\ Skew \in Int
      BY <2>1, PipelineAssumption
  <2>3. \A t, skew, n \in Int : n \in (t - skew)..(t + skew) => t - skew <= n /\ n <= t + skew
      OBVIOUS
  <2>4. now' \in Int
      BY <2>1, <2>2
  <2> QED
      BY <2>1, <2>2, <2>3, <2>4 DEF Clocks
<1>2. Places' /\ TokenFollows' /\ IdentityFollows'
    BY DEF Tick, Places, TokenFollows, IdentityFollows, Authenticated
<1>3. BodyFollows' /\ VersionsFollow' /\ PayloadFollows'
    BY DEF Tick, BodyFollows, VersionsFollow, PayloadFollows, Authenticated, VersionAgreed
<1>4. AnswerFollows'
    BY DEF Tick, AnswerFollows, SafeAnswers
<1> QED
    BY <1>1, <1>2, <1>3, <1>4

LEMMA Arriving == PipelineInvariant /\ (ServeCard \/ Arrive \/ RefuseHeader) => PipelineInvariant'
<1> SUFFICES ASSUME PipelineInvariant, ServeCard \/ Arrive \/ RefuseHeader
             PROVE  PipelineInvariant'
    OBVIOUS
<1> USE DEF PipelineInvariant, ServeCard, Arrive, RefuseHeader
<1>1. Places' /\ TokenFollows'
    BY DEF Places, Stages, TokenFollows, Inside, Authenticated, clocks
<1>2. IdentityFollows'
    BY DEF IdentityFollows, Inside, Authenticated, Places
<1>3. Clocks'
    BY DEF clocks, Clocks
<1>4. BodyFollows' /\ VersionsFollow' /\ PayloadFollows'
    BY DEF BodyFollows, VersionsFollow, PayloadFollows, Authenticated
<1>5. AnswerFollows'
  <2>1. NoError \in Error
      BY DEF NoError, Error
  <2>2. answer' \in Answers \ InnerSentinels
      BY PlainAnswers
  <2> QED
      BY <2>1, <2>2 DEF AnswerFollows, SafeAnswers
<1> QED
    BY <1>1, <1>2, <1>3, <1>4, <1>5

LEMMA JudgingSignature ==
    PipelineInvariant /\ (AcceptSignature \/ RefuseSignature) => PipelineInvariant'
<1> USE DEF PipelineInvariant
<1>1. ASSUME PipelineInvariant, AcceptSignature PROVE PipelineInvariant'
  <2> USE <1>1 DEF AcceptSignature, Pass
  <2>1. Places' /\ Clocks' /\ TokenFollows' /\ IdentityFollows'
      BY DEF Places, Stages, Clocks, clocks, TokenFollows, IdentityFollows, Inside, Authenticated
  <2>2. BodyFollows' /\ VersionsFollow' /\ PayloadFollows' /\ AnswerFollows'
      BY DEF BodyFollows, VersionsFollow, PayloadFollows, AnswerFollows, SafeAnswers
  <2> QED
      BY <2>1, <2>2
<1>2. ASSUME PipelineInvariant, RefuseSignature PROVE PipelineInvariant'
    BY <1>2, RefusalsAreSafe, PlainAnswers DEF RefuseSignature
<1> QED
    BY <1>1, <1>2

LEMMA JudgingClaims ==
    PipelineInvariant /\ (AcceptClaims \/ RefuseClaims) => PipelineInvariant'
<1> USE DEF PipelineInvariant
<1>1. ASSUME PipelineInvariant, AcceptClaims PROVE PipelineInvariant'
  <2> USE <1>1 DEF AcceptClaims, Pass
  <2>1. Places' /\ Clocks' /\ TokenFollows'
      BY DEF Places, Stages, Clocks, clocks, TokenFollows, Inside, Authenticated
  <2>2. Complete(token)
      BY DEF ClaimsHold, Complete
  <2>3. IdentityFollows'
      BY <2>2 DEF IdentityFollows, Inside, Places, Authenticated, Complete, IdentityOf
  <2>4. BodyFollows' /\ VersionsFollow' /\ PayloadFollows' /\ AnswerFollows'
      BY DEF BodyFollows, VersionsFollow, PayloadFollows, AnswerFollows, SafeAnswers
  <2> QED
      BY <2>1, <2>3, <2>4
<1>2. ASSUME PipelineInvariant, RefuseClaims PROVE PipelineInvariant'
    BY <1>2, RefusalsAreSafe, PlainAnswers DEF RefuseClaims
<1> QED
    BY <1>1, <1>2

LEMMA JudgingScopes ==
    PipelineInvariant /\ (AcceptScopes \/ RefuseScopes) => PipelineInvariant'
<1> USE DEF PipelineInvariant
<1>1. ASSUME PipelineInvariant, AcceptScopes PROVE PipelineInvariant'
  <2> USE <1>1 DEF AcceptScopes, Pass
  <2>1. Places' /\ Clocks' /\ TokenFollows'
      BY DEF Places, Stages, Clocks, clocks, TokenFollows, Inside, Authenticated
  <2>2. IdentityFollows'
      BY DEF IdentityFollows, Inside, Places, Authenticated, Complete, IdentityOf, ScopesGranted
  <2>3. BodyFollows' /\ VersionsFollow' /\ PayloadFollows' /\ AnswerFollows'
      BY DEF BodyFollows, VersionsFollow, PayloadFollows, AnswerFollows, SafeAnswers
  <2> QED
      BY <2>1, <2>2, <2>3
<1>2. ASSUME PipelineInvariant, RefuseScopes PROVE PipelineInvariant'
    BY <1>2, RefusalsAreSafe, PlainAnswers DEF RefuseScopes
<1> QED
    BY <1>1, <1>2

LEMMA ReadingBody == PipelineInvariant /\ (PassBody \/ RefuseBody) => PipelineInvariant'
<1> USE DEF PipelineInvariant
<1>1. ASSUME PipelineInvariant, PassBody PROVE PipelineInvariant'
  <2> USE <1>1 DEF PassBody, Pass
  <2>1. Places' /\ Clocks' /\ TokenFollows' /\ IdentityFollows'
      BY DEF Places, Stages, Clocks, clocks, TokenFollows, IdentityFollows, Inside, Authenticated
  <2>2. PICK n \in 0..MaxBody :
           /\ TakenIn(n) <= MaxRequestBytes
           /\ body' = [sent |-> n, seen |-> TakenIn(n)]
      BY DEF Sent
  <2>3. TakenIn(n) = n
      BY <2>2, TakenInWhole, PipelineAssumption
  <2>4. BodyFollows'
      BY <2>2, <2>3 DEF BodyFollows
  <2>5. VersionsFollow' /\ PayloadFollows' /\ AnswerFollows'
      BY DEF VersionsFollow, PayloadFollows, AnswerFollows, SafeAnswers
  <2> QED
      BY <2>1, <2>4, <2>5
<1>2. ASSUME PipelineInvariant, RefuseBody PROVE PipelineInvariant'
  <2>1. Respond("413") \/ Respond("400")
      BY <1>2 DEF RefuseBody
  <2> QED
      BY <1>2, <2>1, RefusalsAreSafe, PlainAnswers DEF RefuseBody
<1> QED
    BY <1>1, <1>2

LEMMA ReadingRequest ==
    PipelineInvariant /\ (NormalizeParameters \/ Decode \/ RefuseRequest) => PipelineInvariant'
<1> USE DEF PipelineInvariant
<1>1. ASSUME PipelineInvariant, NormalizeParameters PROVE PipelineInvariant'
  <2> USE <1>1 DEF NormalizeParameters, Pass
  <2>1. Places' /\ Clocks' /\ TokenFollows' /\ IdentityFollows'
      BY DEF Places, Stages, Clocks, clocks, TokenFollows, IdentityFollows, Inside, Authenticated
  <2>2. PICK header \in BoundedSeq(Versions, MaxMentions), query \in BoundedSeq(Versions, MaxMentions) :
           versions' = [stated |-> ToSet(header \o query), header |-> Merged(header \o query)]
      OBVIOUS
  <2>3. header \o query \in Seq(Versions)
    <3>1. PICK m \in 0..MaxMentions : header \in [1..m -> Versions]
        BY DEF BoundedSeq, SeqOf
    <3>2. PICK n \in 0..MaxMentions : query \in [1..n -> Versions]
        BY DEF BoundedSeq, SeqOf
    <3>3. header \in Seq(Versions) /\ query \in Seq(Versions)
        BY <3>1, <3>2, SeqDef, PipelineAssumption
    <3> QED
        BY <3>3
  <2>4. ToSet(header \o query) \subseteq Versions
      BY <2>3 DEF ToSet
  <2>5. VersionsFollow'
      BY <2>2, <2>3, <2>4, MergedKeepsValues DEF VersionsFollow
  <2>6. BodyFollows' /\ PayloadFollows' /\ AnswerFollows'
      BY DEF BodyFollows, PayloadFollows, AnswerFollows, SafeAnswers
  <2> QED
      BY <2>1, <2>5, <2>6
<1>2. ASSUME PipelineInvariant, Decode PROVE PipelineInvariant'
  <2> USE <1>2 DEF Decode, Pass
  <2>1. Places' /\ Clocks' /\ TokenFollows' /\ IdentityFollows'
      BY DEF Places, Stages, Clocks, clocks, TokenFollows, IdentityFollows, Inside, Authenticated
  <2>2. BodyFollows'
      BY PipelineAssumption DEF BodyFollows, NoBody
  <2>3. VersionsFollow' /\ PayloadFollows' /\ AnswerFollows'
      BY DEF VersionsFollow, PayloadFollows, AnswerFollows, SafeAnswers
  <2> QED
      BY <2>1, <2>2, <2>3
<1>3. ASSUME PipelineInvariant, RefuseRequest PROVE PipelineInvariant'
    BY <1>3, RefusalsAreSafe, PlainAnswers DEF RefuseRequest
<1> QED
    BY <1>1, <1>2, <1>3

LEMMA AgreeingOnVersion ==
    PipelineInvariant /\ (AcceptVersion \/ RefuseVersion) => PipelineInvariant'
<1> USE DEF PipelineInvariant
<1>1. ASSUME PipelineInvariant, AcceptVersion PROVE PipelineInvariant'
  <2> USE <1>1 DEF AcceptVersion, Pass
  <2>1. Places' /\ Clocks' /\ TokenFollows' /\ IdentityFollows'
      BY DEF Places, Stages, Clocks, clocks, TokenFollows, IdentityFollows, Inside, Authenticated
  <2>2. VersionsFollow'
      BY DEF VersionsFollow, VersionAgreed
  <2>3. BodyFollows' /\ PayloadFollows' /\ AnswerFollows'
      BY DEF BodyFollows, PayloadFollows, AnswerFollows, SafeAnswers, Authenticated
  <2> QED
      BY <2>1, <2>2, <2>3
<1>2. ASSUME PipelineInvariant, RefuseVersion PROVE PipelineInvariant'
    BY <1>2, RefusalsAreSafe, PlainAnswers DEF RefuseVersion
<1> QED
    BY <1>1, <1>2

LEMMA AgreeingOnTenant ==
    PipelineInvariant /\ (AcceptIdentity \/ RefuseIdentity) => PipelineInvariant'
<1> USE DEF PipelineInvariant
<1>1. ASSUME PipelineInvariant, AcceptIdentity PROVE PipelineInvariant'
  <2> USE <1>1 DEF AcceptIdentity, Pass
  <2>1. Places' /\ Clocks' /\ TokenFollows' /\ IdentityFollows'
      BY DEF Places, Stages, Clocks, clocks, TokenFollows, IdentityFollows, Inside, Authenticated
  <2>2. PayloadFollows'
    <3>1. identity.tenant \in Tenants
        BY IdentityFields DEF Places, TokenFollows, IdentityFollows, Inside
    <3>2. CASE payload.kind \in TenantPayloads
      <4>1. payload' = [payload EXCEPT !.tenant = identity.tenant]
          BY <3>2 DEF WithTenant
      <4>2. payload \in [kind : TenantPayloads, tenant : Tenants \cup {NoTenant}]
          BY <3>2 DEF PayloadFollows, Payload, TenantPayloads
      <4> QED
          BY <3>1, <4>1, <4>2 DEF PayloadFollows, Payload
    <3>3. CASE payload.kind \notin TenantPayloads
        BY <3>3 DEF WithTenant, PayloadFollows
    <3> QED
        BY <3>2, <3>3
  <2>3. BodyFollows' /\ VersionsFollow' /\ AnswerFollows'
      BY DEF BodyFollows, VersionsFollow, VersionAgreed, AnswerFollows, SafeAnswers
  <2> QED
      BY <2>1, <2>2, <2>3
<1>2. ASSUME PipelineInvariant, RefuseIdentity PROVE PipelineInvariant'
  <2>1. Respond("Unauthenticated") \/ Respond("Unauthorized")
      BY <1>2 DEF RefuseIdentity
  <2> QED
      BY <1>2, <2>1, RefusalsAreSafe, PlainAnswers DEF RefuseIdentity
<1> QED
    BY <1>1, <1>2

LEMMA Calling ==
    PipelineInvariant /\ (CallSucceeds \/ CallFails \/ ShowError) => PipelineInvariant'
<1> USE DEF PipelineInvariant
<1>1. ASSUME PipelineInvariant, CallSucceeds PROVE PipelineInvariant'
    BY <1>1, RefusalsAreSafe, PlainAnswers DEF CallSucceeds
<1>2. ASSUME PipelineInvariant, CallFails PROVE PipelineInvariant'
  <2> USE <1>2 DEF CallFails, Forget
  <2>1. Places' /\ Clocks' /\ TokenFollows' /\ IdentityFollows'
      BY DEF Places, Stages, Clocks, clocks, TokenFollows, IdentityFollows, Inside, Authenticated
  <2>2. BodyFollows'
      BY PipelineAssumption DEF BodyFollows, NoBody
  <2>3. VersionsFollow' /\ PayloadFollows'
      BY DEF VersionsFollow, NoVersions, ToSet, PayloadFollows, NoPayload, Payload
  <2>4. error' \in Error
      BY DEF Errors, Error
  <2>5. AnswerFollows'
      BY <2>4 DEF AnswerFollows, SafeAnswers
  <2> QED
      BY <2>1, <2>2, <2>3, <2>5
<1>3. ASSUME PipelineInvariant, ShowError PROVE PipelineInvariant'
  <2>1. stage = "boundary" /\ Respond(ClientSafe(error)) /\ error \in Error
      BY <1>3 DEF ShowError, AnswerFollows
  <2>2. ClientSafe(error) \in ((error.is \cup {error.protocol}) \cap SafeSentinels) \cup {"InternalError"}
      BY <2>1, ClientSafeIsListed
  <2>3. ClientSafe(error) \in Answers \ InnerSentinels
      BY <2>2, PlainAnswers
  <2> QED
      BY <1>3, <2>1, <2>2, <2>3, AnsweringKeeps
<1> QED
    BY <1>1, <1>2, <1>3

LEMMA InvariantIsKept == PipelineInvariant /\ [Next]_vars => PipelineInvariant'
<1>1. ASSUME PipelineInvariant, UNCHANGED vars PROVE PipelineInvariant'
  <2> USE <1>1 DEF PipelineInvariant, vars
  <2>1. Places' /\ Clocks' /\ TokenFollows' /\ IdentityFollows'
      BY DEF Places, Clocks, TokenFollows, IdentityFollows, Authenticated
  <2>2. BodyFollows' /\ VersionsFollow' /\ PayloadFollows' /\ AnswerFollows'
      BY DEF BodyFollows, VersionsFollow, VersionAgreed, PayloadFollows, AnswerFollows, SafeAnswers,
             Authenticated
  <2> QED
      BY <2>1, <2>2
<1> QED
    BY <1>1, Ticking, Arriving, JudgingSignature, JudgingClaims, JudgingScopes, ReadingBody,
       ReadingRequest, AgreeingOnVersion, AgreeingOnTenant, Calling
    DEF Next, Authentication, Handling

THEOREM PipelineInvariantHolds == Spec => []PipelineInvariant
    BY InvariantAtStart, InvariantIsKept, PTL DEF Spec

-----------------------------------------------------------------------------
(* Types. *)
THEOREM PipelineTypes == Spec => []TypeOK
<1>1. PipelineInvariant => TypeOK
  <2> SUFFICES ASSUME PipelineInvariant PROVE TypeOK
      OBVIOUS
  <2> USE DEF PipelineInvariant
  <2>1. now \in (trueTime - Skew)..(trueTime + Skew)
      BY PipelineAssumption DEF Clocks
  <2>2. identity # NoIdentity =>
          /\ identity.issuer = Issuer /\ identity.scopes \subseteq Scopes
          /\ NoClaim \notin {identity.subject, identity.tenant}
      BY IdentityFields DEF TokenFollows, IdentityFollows, Inside, Complete
  <2>3. body \in [sent : 0..MaxBody, seen : 0..MaxBody] /\ payload \in Payload
      BY DEF BodyFollows, PayloadFollows
  <2>4. versions.stated \subseteq Versions /\ ToSet(versions.header) \subseteq Versions
      BY DEF VersionsFollow
  <2> QED
      BY <2>1, <2>2, <2>3, <2>4 DEF TypeOK, Places, Clocks, TokenFollows, AnswerFollows
<1> QED
    BY <1>1, PipelineInvariantHolds, PTL

(* No request passes Middleware without a verified identity and every      *)
(* required scope (auth.go 57-81).                                         *)
THEOREM PipelineAuthorizes == Spec => []OnlyAuthorizedPass
<1>1. PipelineInvariant => OnlyAuthorizedPass
  <2> SUFFICES ASSUME PipelineInvariant, Authenticated,
                      body # NoBody \/ stage \in Inside
               PROVE  /\ token # NoToken /\ token.genuine
                      /\ identity = IdentityOf(token)
                      /\ RequiredScopes \subseteq token.scopes
      BY DEF OnlyAuthorizedPass, Inside
  <2>1. stage \in Inside
      BY DEF PipelineInvariant, BodyFollows, Inside
  <2>2. token \in Tokens /\ token.genuine
      BY <2>1 DEF PipelineInvariant, TokenFollows, Inside
  <2>3. token # NoToken
      BY <2>2, TokenFields
  <2> QED
      BY <2>1, <2>2, <2>3 DEF PipelineInvariant, IdentityFollows
<1> QED
    BY <1>1, PipelineInvariantHolds, PTL

(* The SDK gets the whole of a body within the limit, and nothing of any   *)
(* other (protocol.go 73-98).                                              *)
THEOREM PipelineTakesWholeBodies == Spec => []WholeBody
<1>1. PipelineInvariant => WholeBody
  <2> SUFFICES ASSUME PipelineInvariant PROVE WholeBody
      OBVIOUS
  <2> QED
      BY PipelineAssumption DEF PipelineInvariant, BodyFollows, WholeBody
<1> QED
    BY <1>1, PipelineInvariantHolds, PTL

(* One version and the caller's tenant (protocol.go 19-51, auth.go         *)
(* 107-185).                                                               *)
THEOREM PipelineIsCanonical == Spec => []CanonicalCall
<1>1. PipelineInvariant => CanonicalCall
  <2> SUFFICES ASSUME PipelineInvariant PROVE CanonicalCall
      OBVIOUS
  <2>1. ToSet(<<Supported>>) = {Supported}
      BY DEF ToSet
  <2> QED
      BY <2>1 DEF PipelineInvariant, VersionsFollow, VersionAgreed, PayloadFollows, CanonicalCall
<1> QED
    BY <1>1, PipelineInvariantHolds, PTL

(* A client sees a listed error that really was, or an internal one        *)
(* (error_boundary.go 17-68).                                              *)
THEOREM PipelineAnswersSafely == Spec => []SafeAnswers
    BY PipelineInvariantHolds, PTL DEF PipelineInvariant, AnswerFollows

(* A current token is not refused for its times (oidc.go 65-67, 251-258). *)
THEOREM PipelineAcceptsCurrent == Spec => AcceptsCurrentTokens
<1> DEFINE Grounds ==
      \/ NoClaim \in {token.subject, token.tenant, token.exp}
      \/ BadClaim \in {token.nbf, token.scopes}
      \/ trueTime >= token.exp
      \/ token.nbf # NoClaim /\ trueTime < token.nbf
<1>1. ASSUME PipelineInvariant, Next, stage = "claims", answer' = "401" PROVE Grounds
  <2>1. ~ClaimsHold(token)
    <3>1. answer # answer'
        BY <1>1 DEF PipelineInvariant, AnswerFollows
    <3>2. RefuseClaims
        BY <1>1, <3>1
        DEF Next, Tick, ServeCard, Arrive, Authentication, Handling, RefuseHeader,
            AcceptSignature, RefuseSignature, AcceptClaims, AcceptScopes, RefuseScopes,
            PassBody, RefuseBody, NormalizeParameters, Decode, RefuseRequest, AcceptVersion,
            RefuseVersion, AcceptIdentity, RefuseIdentity, CallSucceeds, CallFails, ShowError, Pass
    <3> QED
        BY <3>2 DEF RefuseClaims
  <2>2. token \in Tokens
      BY <1>1 DEF PipelineInvariant, Places, TokenFollows
  <2>3. trueTime \in Int /\ now \in Int /\ Skew \in Nat
        /\ trueTime - Skew <= now /\ now <= trueTime + Skew
      BY <1>1, PipelineAssumption DEF PipelineInvariant, Clocks
  <2>4. CASE NoClaim \in {token.subject, token.tenant, token.exp} \/ BadClaim \in {token.nbf, token.scopes}
      BY <2>4
  <2>5. CASE /\ NoClaim \notin {token.subject, token.tenant, token.exp}
             /\ BadClaim \notin {token.nbf, token.scopes}
             /\ ~Unexpired(token)
    <3>1. token.exp \in Nat
        BY <2>2, <2>5, TokenFields
    <3> QED
        BY <2>3, <2>5, <3>1 DEF Unexpired
  <2>6. CASE /\ BadClaim \notin {token.nbf, token.scopes}
             /\ ~Begun(token)
    <3>1. token.nbf # NoClaim /\ token.nbf \in Nat /\ now + Skew < token.nbf
        BY <2>2, <2>6, TokenFields DEF Begun
    <3> QED
        BY <2>3, <3>1
  <2> QED
      BY <2>1, <2>4, <2>5, <2>6 DEF ClaimsHold
<1>2. PipelineInvariant /\ [Next]_vars => [stage = "claims" /\ answer' = "401" => Grounds]_vars
    BY <1>1
<1> QED
    BY <1>2, PipelineInvariantHolds, PTL DEF Spec, AcceptsCurrentTokens

(* A token that is off by twice the skew is never taken (oidc.go 251-258). *)
THEOREM PipelineRefusesStale == Spec => RefusesStaleTokens
<1> DEFINE Fresh ==
      /\ trueTime < token.exp + 2 * Skew
      /\ token.nbf = NoClaim \/ token.nbf <= trueTime + 2 * Skew
<1>1. ASSUME PipelineInvariant, Next, identity = NoIdentity, identity' # NoIdentity PROVE Fresh
  <2>1. AcceptClaims
      BY <1>1
      DEF Next, Tick, ServeCard, Arrive, Authentication, Handling, RefuseHeader,
          AcceptSignature, RefuseSignature, RefuseClaims, AcceptScopes, RefuseScopes,
          PassBody, RefuseBody, NormalizeParameters, Decode, RefuseRequest, AcceptVersion,
          RefuseVersion, AcceptIdentity, RefuseIdentity, CallSucceeds, CallFails, ShowError,
          Respond, Forget
  <2>2. token \in Tokens
      BY <1>1, <2>1 DEF PipelineInvariant, Places, TokenFollows, AcceptClaims, Pass
  <2>3. trueTime \in Int /\ now \in Int /\ Skew \in Nat
        /\ trueTime - Skew <= now /\ now <= trueTime + Skew
      BY <1>1, PipelineAssumption DEF PipelineInvariant, Clocks
  <2>4. token.exp \in Nat /\ now < token.exp + Skew
      BY <2>1, <2>2, TokenFields DEF AcceptClaims, ClaimsHold, Unexpired
  <2>5. token.nbf # NoClaim => token.nbf \in Nat /\ ~(now + Skew < token.nbf)
      BY <2>1, <2>2, TokenFields DEF AcceptClaims, ClaimsHold, Begun
  <2> QED
      BY <2>3, <2>4, <2>5
<1>2. PipelineInvariant /\ [Next]_vars =>
         [identity = NoIdentity /\ identity' # NoIdentity => Fresh]_vars
    BY <1>1
<1> QED
    BY <1>2, PipelineInvariantHolds, PTL DEF Spec, RefusesStaleTokens

-----------------------------------------------------------------------------
(* The lengths of texts, as OwnerKey writes them.  Decimal unfolds because *)
(* the functions up to m that do so exist and agree; digits tell a number, *)
(* since there is no least one that shares them with another.              *)
Digit == {DigitOf[i + 1] : i \in 0..9}

LEMMA Digits ==
    /\ \A i \in 0..9 : DigitOf[i + 1] \in Digit
    /\ \A i, j \in 0..9 : DigitOf[i + 1] = DigitOf[j + 1] => i = j
    /\ ":" \notin Digit
<1>1. /\ DigitOf[1] = "0" /\ DigitOf[2] = "1" /\ DigitOf[3] = "2" /\ DigitOf[4] = "3"
      /\ DigitOf[5] = "4" /\ DigitOf[6] = "5" /\ DigitOf[7] = "6" /\ DigitOf[8] = "7"
      /\ DigitOf[9] = "8" /\ DigitOf[10] = "9"
    BY DEF DigitOf
<1>0. \A i \in 1..10 : i \in {1, 2, 3, 4, 5, 6, 7, 8, 9, 10}
    OBVIOUS
<1>2. \A i, j \in 1..10 : DigitOf[i] = DigitOf[j] => i = j
    BY <1>0, <1>1
<1>3. \A i \in 1..10 : DigitOf[i] # ":"
    BY <1>0, <1>1
<1>4. \A i \in 0..9 : i + 1 \in 1..10
    OBVIOUS
<1>5. \A i, j \in 0..9 : DigitOf[i + 1] = DigitOf[j + 1] => i = j
  <2> SUFFICES ASSUME NEW i \in 0..9, NEW j \in 0..9, DigitOf[i + 1] = DigitOf[j + 1] PROVE i = j
      OBVIOUS
  <2>1. i + 1 = j + 1
      BY <1>2, <1>4
  <2> QED
      BY <2>1
<1> QED
    BY <1>3, <1>4, <1>5 DEF Digit

LEMMA LastDigit ==
    ASSUME NEW n \in Nat
    PROVE  /\ n \div 10 \in Nat /\ n % 10 \in 0..9 /\ n = 10 * (n \div 10) + (n % 10)
           /\ n >= 10 => n \div 10 < n
    OBVIOUS

(* One step of the recursion in Decimal. *)
Unfolded(f, n) ==
    IF n < 10 THEN <<DigitOf[n + 1]>> ELSE Append(f[n \div 10], DigitOf[(n % 10) + 1])

Upto(m, f) == f = [n \in 0..m |-> Unfolded(f, n)]

LEMMA UptoAt ==
    ASSUME NEW m, NEW f, Upto(m, f), NEW n \in 0..m
    PROVE  f[n] = Unfolded(f, n)
    BY Zenon DEF Upto

LEMMA UptoAgrees ==
    ASSUME NEW m \in Nat, NEW k \in Nat, NEW f, NEW g, Upto(m, f), Upto(k, g),
           NEW n \in Nat, n <= m, n <= k
    PROVE  f[n] = g[n]
<1> DEFINE Wrong == {i \in Nat : i <= m /\ i <= k /\ f[i] # g[i]}
<1> SUFFICES ASSUME Wrong # {} PROVE FALSE
    OBVIOUS
<1> PICK i \in Nat : i = Min(Wrong) /\ i \in Wrong /\ \A j \in Wrong : i <= j
    BY MinIsLeast
<1>1. f[i] = Unfolded(f, i) /\ g[i] = Unfolded(g, i)
  <2>1. i \in 0..m /\ i \in 0..k
      OBVIOUS
  <2> QED
      BY <2>1, UptoAt
<1>2. i >= 10 => f[i \div 10] = g[i \div 10]
    BY LastDigit
<1> QED
    BY <1>1, <1>2 DEF Unfolded

LEMMA UptoExists == ASSUME NEW m \in Nat PROVE \E f : Upto(m, f)
<1> DEFINE Missing == {i \in Nat : ~\E f : Upto(i, f)}
<1> SUFFICES ASSUME Missing # {} PROVE FALSE
    OBVIOUS
<1> PICK i \in Nat : i = Min(Missing) /\ i \in Missing /\ \A j \in Missing : i <= j
    BY MinIsLeast
<1>1. CASE i = 0
  <2> DEFINE f == [n \in 0..0 |-> Unfolded(<<>>, n)]
  <2>1. \A n \in 0..0 : Unfolded(f, n) = Unfolded(<<>>, n)
      BY DEF Unfolded
  <2>2. f = [n \in 0..0 |-> Unfolded(f, n)]
      BY <2>1
  <2> HIDE DEF f
  <2> QED
      BY <1>1, <2>2 DEF Upto
<1>2. CASE i # 0
  <2> PICK k \in Nat : i = k + 1
      BY <1>2
  <2>1. k \notin Missing
    <3> HIDE DEF Missing
    <3> QED
        OBVIOUS
  <2> PICK g : Upto(k, g)
      BY <2>1
  <2> DEFINE f == [n \in 0..i |-> Unfolded(g, n)]
  <2>2. \A n \in 0..k : f[n] = g[n]
      BY UptoAt
  <2>3. \A n \in 0..i : Unfolded(f, n) = Unfolded(g, n)
    <3> HIDE DEF f
    <3> SUFFICES ASSUME NEW n \in 0..i PROVE Unfolded(f, n) = Unfolded(g, n)
        OBVIOUS
    <3>1. n >= 10 => n \div 10 \in 0..k
        BY LastDigit
    <3>2. n >= 10 => f[n \div 10] = g[n \div 10]
        BY <2>2, <3>1
    <3> QED
        BY <3>2 DEF Unfolded
  <2>4. f = [n \in 0..i |-> Unfolded(f, n)]
      BY <2>3
  <2> HIDE DEF f
  <2> QED
      BY <2>4 DEF Upto
<1> QED
    BY <1>1, <1>2

LEMMA DecimalUnfolds ==
    /\ \A n \in Nat : Decimal[n] = Unfolded(Decimal, n)
<1> DEFINE Best(m) == CHOOSE f : Upto(m, f)
           F == [n \in Nat |-> Best(n)[n]]
<1>1. \A m \in Nat : Upto(m, Best(m))
    BY UptoExists
<1> HIDE DEF Best
<1>2. \A n \in Nat : F[n] = Unfolded(F, n)
  <2> SUFFICES ASSUME NEW n \in Nat PROVE F[n] = Unfolded(F, n)
      OBVIOUS
  <2>1. F[n] = Unfolded(Best(n), n)
      BY <1>1 DEF Upto
  <2>2. n >= 10 => F[n \div 10] = Best(n)[n \div 10]
    <3> SUFFICES ASSUME n >= 10 PROVE F[n \div 10] = Best(n)[n \div 10]
        OBVIOUS
    <3> PICK k \in Nat : k = n \div 10 /\ k < n
        BY LastDigit
    <3>1. Best(k)[k] = Best(n)[k]
        BY <1>1, UptoAgrees
    <3> QED
        BY <3>1
  <2> QED
      BY <2>1, <2>2 DEF Unfolded
<1>3. F = [n \in Nat |-> Unfolded(F, n)]
    BY <1>2
<1> HIDE DEF F
<1>4. Decimal = CHOOSE f : f = [n \in Nat |-> Unfolded(f, n)]
    BY DEF Decimal, Unfolded
<1>5. Decimal = [n \in Nat |-> Unfolded(Decimal, n)]
    BY <1>3, <1>4
<1> QED
    BY <1>5

LEMMA OneDigit ==
    ASSUME NEW n \in Nat, n < 10
    PROVE  /\ Decimal[n] \in Seq(Digit) /\ Len(Decimal[n]) = 1
           /\ Decimal[n][1] = DigitOf[n + 1]
<1>1. Decimal[n] = <<DigitOf[n + 1]>>
    BY DecimalUnfolds DEF Unfolded
<1>2. DigitOf[n + 1] \in Digit
  <2>1. n \in 0..9
      OBVIOUS
  <2> QED
      BY <2>1, Digits
<1>3. ASSUME NEW x \in Digit PROVE <<x>> \in Seq(Digit) /\ Len(<<x>>) = 1 /\ <<x>>[1] = x
    OBVIOUS
<1> QED
    BY <1>1, <1>2, <1>3

LEMMA MoreDigits ==
    ASSUME NEW n \in Nat, n >= 10
    PROVE  \E k \in Nat, i \in 0..9 :
              /\ k < n /\ n = 10 * k + i
              /\ Decimal[n] = Append(Decimal[k], DigitOf[i + 1]) /\ DigitOf[i + 1] \in Digit
<1>1. Decimal[n] = Append(Decimal[n \div 10], DigitOf[(n % 10) + 1])
  <2>1. ~(n < 10)
      OBVIOUS
  <2>2. Unfolded(Decimal, n) = Append(Decimal[n \div 10], DigitOf[(n % 10) + 1])
      BY <2>1, Zenon DEF Unfolded
  <2> QED
      BY <2>2, DecimalUnfolds
<1>2. /\ n \div 10 \in Nat /\ n % 10 \in 0..9 /\ n = 10 * (n \div 10) + (n % 10)
      /\ n \div 10 < n
    BY LastDigit
<1> QED
    BY <1>1, <1>2, Digits

LEMMA DecimalDigits ==
    ASSUME NEW n \in Nat
    PROVE  /\ Decimal[n] \in Seq(Digit) /\ Len(Decimal[n]) >= 1
           /\ n >= 10 => Len(Decimal[n]) >= 2
<1> DEFINE P(i) == /\ Decimal[i] \in Seq(Digit) /\ Len(Decimal[i]) >= 1
                   /\ i >= 10 => Len(Decimal[i]) >= 2
           Wrong == {i \in Nat : ~P(i)}
<1> SUFFICES ASSUME Wrong # {} PROVE FALSE
    OBVIOUS
<1> PICK i \in Nat : i = Min(Wrong) /\ i \in Wrong /\ \A j \in Wrong : i <= j
    BY MinIsLeast
<1> HIDE DEF P
<1>1. CASE i < 10
    BY <1>1, OneDigit DEF P
<1>2. CASE i >= 10
  <2> PICK k \in Nat, d \in Digit : k < i /\ Decimal[i] = Append(Decimal[k], d)
      BY <1>2, MoreDigits
  <2>1. P(k)
      OBVIOUS
  <2>2. P(i)
      BY <2>1 DEF P
  <2> QED
      BY <2>2
<1> QED
    BY <1>1, <1>2

LEMMA SameAppended ==
    ASSUME NEW s \in Seq(Digit), NEW t \in Seq(Digit), NEW x \in Digit, NEW y \in Digit,
           Append(s, x) = Append(t, y)
    PROVE  s = t /\ x = y
<1>1. Len(s) \in Nat /\ Len(t) \in Nat /\ Len(s) + 1 = Len(t) + 1
    OBVIOUS
<1>2. Len(s) = Len(t) /\ x = y
    BY <1>1
<1>3. \A i \in 1..Len(s) : s[i] = t[i]
    BY <1>2
<1> QED
    BY <1>2, <1>3, SeqEqual

LEMMA DecimalOneToOne ==
    ASSUME NEW m \in Nat, NEW n \in Nat, Decimal[m] = Decimal[n]
    PROVE  m = n
<1> DEFINE Confused == {i \in Nat : \E j \in Nat : i # j /\ Decimal[i] = Decimal[j]}
<1> SUFFICES ASSUME Confused # {} PROVE FALSE
    OBVIOUS
<1>0. Confused \subseteq Nat
    OBVIOUS
<1> HIDE DEF Confused
<1> PICK i \in Nat : i \in Confused /\ \A k \in Confused : i <= k
    BY <1>0, MinIsLeast
<1> PICK j \in Nat : i # j /\ Decimal[i] = Decimal[j]
    BY DEF Confused
<1>1. /\ i >= 10 => Len(Decimal[i]) >= 2
      /\ j >= 10 => Len(Decimal[j]) >= 2
    BY DecimalDigits
<1>2. CASE i < 10 /\ j < 10
  <2>1. i \in 0..9 /\ j \in 0..9
      BY <1>2
  <2>2. Decimal[i][1] = DigitOf[i + 1] /\ Decimal[j][1] = DigitOf[j + 1]
    <3>1. i < 10 /\ j < 10
        BY <1>2
    <3>2. Decimal[i][1] = DigitOf[i + 1]
        BY <3>1, OneDigit
    <3>3. Decimal[j][1] = DigitOf[j + 1]
        BY <3>1, OneDigit
    <3> QED
        BY <3>2, <3>3
  <2>3. DigitOf[i + 1] = DigitOf[j + 1]
      BY <2>2
  <2> QED
      BY <2>1, <2>3, Digits
<1>3. CASE i < 10 /\ j >= 10
  <2>1. Len(Decimal[i]) = 1 /\ Len(Decimal[j]) >= 2
      BY <1>1, <1>3, OneDigit
  <2>2. Len(Decimal[j]) = 1
      BY <2>1, Zenon
  <2> QED
      BY <2>1, <2>2
<1>4. CASE i >= 10 /\ j < 10
  <2>1. Len(Decimal[j]) = 1 /\ Len(Decimal[i]) >= 2
      BY <1>1, <1>4, OneDigit
  <2>2. Len(Decimal[i]) = 1
      BY <2>1, Zenon
  <2> QED
      BY <2>1, <2>2
<1>5. CASE i >= 10 /\ j >= 10
  <2> PICK k \in Nat, d \in 0..9 :
         /\ k < i /\ i = 10 * k + d
         /\ Decimal[i] = Append(Decimal[k], DigitOf[d + 1]) /\ DigitOf[d + 1] \in Digit
      BY <1>5, MoreDigits
  <2> PICK l \in Nat, e \in 0..9 :
         /\ l < j /\ j = 10 * l + e
         /\ Decimal[j] = Append(Decimal[l], DigitOf[e + 1]) /\ DigitOf[e + 1] \in Digit
      BY <1>5, MoreDigits
  <2>1. Decimal[k] \in Seq(Digit) /\ Decimal[l] \in Seq(Digit)
      BY DecimalDigits
  <2>2. Decimal[k] = Decimal[l] /\ DigitOf[d + 1] = DigitOf[e + 1]
    <3>1. PICK s \in Seq(Digit), t \in Seq(Digit) : s = Decimal[k] /\ t = Decimal[l]
        BY <2>1
    <3>2. PICK x \in Digit, y \in Digit : x = DigitOf[d + 1] /\ y = DigitOf[e + 1]
        OBVIOUS
    <3>3. Append(s, x) = Append(t, y)
        BY <3>1, <3>2
    <3>4. s = t /\ x = y
        BY <3>3, SameAppended
    <3> QED
        BY <3>1, <3>2, <3>4
  <2>3. d = e
      BY <2>2, Digits
  <2>4. k # l
      BY <2>3
  <2>5. k \in Confused
      BY <2>2, <2>4 DEF Confused
  <2> QED
      BY <2>5
<1> QED
    BY <1>2, <1>3, <1>4, <1>5

(* What keys are made of. *)
Char == STRING \cup Digit \cup {":", "|"}
Text == Seq(Char)

(* Concatenation by another name: below it is known by its laws only. *)
Joined(a, b) == a \o b
Colon == <<":">>
Bar == <<"|">>
Count(text) == Decimal[Len(text)]
NoColon(text) == \A i \in 1..Len(text) : text[i] # ":"

LEMMA Texts == \A t \in Seq(STRING) : t \in Text
    BY DEF Text, Char

LEMMA Separators == Colon \in Text /\ Len(Colon) = 1 /\ Colon[1] = ":" /\ Bar \in Text /\ <<>> \in Text
    BY DEF Text, Char, Colon, Bar

LEMMA JoinedIsText == \A a, b \in Text : Joined(a, b) \in Text
    BY ConcatProperties DEF Text, Joined

LEMMA JoinedAssociates ==
    \A a, b, c \in Text : Joined(Joined(a, b), c) = Joined(a, Joined(b, c))
    BY ConcatAssociative DEF Text, Joined

LEMMA JoinedCancels ==
    \A a, b, c \in Text : Joined(a, b) = Joined(a, c) => b = c
    BY ConcatSimplifications DEF Text, Joined

LEMMA CountIsDigits ==
    \A t \in Text : Count(t) \in Text /\ NoColon(Count(t))
<1> SUFFICES ASSUME NEW t \in Text PROVE Count(t) \in Text /\ NoColon(Count(t))
    OBVIOUS
<1> PICK d : d = Decimal[Len(t)]
    OBVIOUS
<1>1. Len(t) \in Nat
    BY DEF Text
<1>2. d \in Seq(Digit)
    BY <1>1, DecimalDigits
<1>3. d \in Seq(Char) /\ \A i \in 1..Len(d) : d[i] # ":"
    BY <1>2, Digits DEF Char
<1> QED
    BY <1>3 DEF Count, Text, NoColon

LEMMA CountTellsLength ==
    \A s, t \in Text : Count(s) = Count(t) => Len(s) = Len(t)
<1>1. \A t \in Text : Len(t) \in Nat
    BY DEF Text
<1> QED
    BY <1>1, DecimalOneToOne, Zenon DEF Count

LEMMA SameLength ==
    \A s, t, u, v \in Text : Joined(s, u) = Joined(t, v) /\ Len(s) = Len(t) => s = t /\ u = v
<1> SUFFICES ASSUME NEW s \in Text, NEW t \in Text, NEW u \in Text, NEW v \in Text,
                    Joined(s, u) = Joined(t, v), Len(s) = Len(t)
             PROVE  s = t
    BY JoinedCancels
<1>1. /\ \A i \in 1..Len(s) : Joined(s, u)[i] = s[i]
      /\ \A i \in 1..Len(t) : Joined(t, v)[i] = t[i]
    BY DEF Text, Joined
<1> QED
    BY <1>1, SeqEqual DEF Text

(* The first colon tells where the digits end. *)
LEMMA FirstColon ==
    ASSUME NEW a \in Seq(Char), NEW b \in Seq(Char), NEW x \in Seq(Char), NEW y \in Seq(Char),
           a \o x = b \o y, x # <<>>, y # <<>>, x[1] = ":", y[1] = ":",
           \A i \in 1..Len(a) : a[i] # ":", \A i \in 1..Len(b) : b[i] # ":"
    PROVE  a = b /\ x = y
<1> PICK k \in Nat, l \in Nat, m \in Nat, n \in Nat :
       k = Len(a) /\ l = Len(b) /\ m = Len(x) /\ n = Len(y)
    OBVIOUS
<1>1. m >= 1 /\ n >= 1
    OBVIOUS
<1>2. PICK w : w = a \o x /\ w = b \o y
    OBVIOUS
<1>3. /\ \A i \in 1..(k + m) : w[i] = IF i <= k THEN a[i] ELSE x[i - k]
      /\ \A i \in 1..(l + n) : w[i] = IF i <= l THEN b[i] ELSE y[i - l]
      /\ Len(w) = k + m /\ Len(w) = l + n
    BY <1>2, ConcatProperties
<1>4. ~(k < l)
  <2> SUFFICES ASSUME k < l PROVE FALSE
      OBVIOUS
  <2>1. k + 1 \in 1..(k + m) /\ k + 1 \in 1..(l + n) /\ (k + 1) - k = 1 /\ k + 1 \in 1..l
      BY <1>1
  <2>2. w[k + 1] = x[1] /\ w[k + 1] = b[k + 1]
      BY <1>3, <2>1
  <2> QED
      BY <2>1, <2>2
<1>5. ~(l < k)
  <2> SUFFICES ASSUME l < k PROVE FALSE
      OBVIOUS
  <2>1. l + 1 \in 1..(k + m) /\ l + 1 \in 1..(l + n) /\ (l + 1) - l = 1 /\ l + 1 \in 1..k
      BY <1>1
  <2>2. w[l + 1] = y[1] /\ w[l + 1] = a[l + 1]
      BY <1>3, <2>1
  <2> QED
      BY <2>1, <2>2
<1>6. k = l
    BY <1>4, <1>5
<1>7. \A i \in 1..k : a[i] = b[i]
  <2> SUFFICES ASSUME NEW i \in 1..k PROVE a[i] = b[i]
      OBVIOUS
  <2>1. i \in 1..(k + m) /\ i \in 1..(l + n) /\ i <= k /\ i <= l
      BY <1>6
  <2> QED
      BY <1>3, <2>1
<1>8. a = b
    BY <1>6, <1>7, SeqEqual
<1> QED
    BY <1>8, ConcatSimplifications


LEMMA FirstColonSplits ==
    \A a, b, x, y \in Text :
       /\ NoColon(a) /\ NoColon(b) /\ Joined(a, x) = Joined(b, y)
       /\ x # <<>> /\ y # <<>> /\ x[1] = ":" /\ y[1] = ":"
       => a = b /\ x = y
    BY FirstColon, Zenon DEF Text, NoColon, Joined

LEMMA ColonThenText ==
    ASSUME NEW c \in Seq(Char), NEW z \in Seq(Char), Len(c) = 1, c[1] = ":"
    PROVE  /\ c \o z \in Seq(Char) /\ c \o z # <<>> /\ (c \o z)[1] = ":"
<1>1. Len(z) \in Nat
    OBVIOUS
<1>2. c \o z \in Seq(Char) /\ Len(c \o z) = Len(c) + Len(z)
    BY ConcatProperties, Zenon
<1>3. (c \o z)[1] = ":"
    BY <1>1, ConcatProperties
<1> QED
    BY <1>1, <1>2, <1>3

LEMMA AfterColon ==
    \A z \in Text : Joined(Colon, z) \in Text /\ Joined(Colon, z) # <<>> /\ Joined(Colon, z)[1] = ":"
    BY ColonThenText, Separators, Zenon DEF Text, Joined

LEMMA ColonSplits ==
    \A a, b, x, y \in Text :
       NoColon(a) /\ NoColon(b) /\ Joined(a, Joined(Colon, x)) = Joined(b, Joined(Colon, y))
          => a = b /\ x = y
<1> SUFFICES ASSUME NEW a \in Text, NEW b \in Text, NEW x \in Text, NEW y \in Text,
                    NoColon(a), NoColon(b),
                    Joined(a, Joined(Colon, x)) = Joined(b, Joined(Colon, y))
             PROVE  a = b /\ x = y
    OBVIOUS
<1>1. \A z \in Text : Joined(Colon, z) \in Text /\ Joined(Colon, z) # <<>> /\ Joined(Colon, z)[1] = ":"
    BY AfterColon
<1>2. PICK g, h : g = Joined(Colon, x) /\ h = Joined(Colon, y)
    OBVIOUS
<1>3. g \in Text /\ h \in Text /\ g # <<>> /\ h # <<>> /\ g[1] = ":" /\ h[1] = ":"
    BY <1>1, <1>2
<1>4. Joined(a, g) = Joined(b, h)
    BY <1>2
<1>5. a = b /\ g = h
    BY <1>3, <1>4, FirstColonSplits
<1> QED
    BY <1>2, <1>5, JoinedCancels, Separators

LEMMA FramedIsText ==
    \A t \in Text : /\ Framed(t) = Joined(Joined(Count(t), Colon), t)
                    /\ Framed(t) \in Text
<1>1. \A t : Framed(t) = Joined(Joined(Count(t), Colon), t)
    BY DEF Framed, Joined, Count, Colon
<1> QED
    BY <1>1, CountIsDigits, Separators, JoinedIsText

LEMMA FramesApart ==
    \A s, t, u, v \in Text :
       Joined(Framed(s), u) = Joined(Framed(t), v) => s = t /\ u = v
<1> SUFFICES ASSUME NEW s \in Text, NEW t \in Text, NEW u \in Text, NEW v \in Text,
                    Joined(Framed(s), u) = Joined(Framed(t), v)
             PROVE  s = t /\ u = v
    OBVIOUS
<1>1. ASSUME NEW p \in Text, NEW q \in Text
      PROVE  Joined(Framed(p), q) = Joined(Count(p), Joined(Colon, Joined(p, q)))
  <2>1. Count(p) \in Text /\ Colon \in Text /\ Joined(Count(p), Colon) \in Text /\ Joined(p, q) \in Text
      BY CountIsDigits, Separators, JoinedIsText
  <2>2. Joined(Framed(p), q) = Joined(Joined(Count(p), Colon), Joined(p, q))
      BY <2>1, FramedIsText, JoinedAssociates
  <2> QED
      BY <2>1, <2>2, JoinedAssociates
<1>2. /\ Count(s) \in Text /\ NoColon(Count(s)) /\ Joined(s, u) \in Text
      /\ Count(t) \in Text /\ NoColon(Count(t)) /\ Joined(t, v) \in Text
    BY CountIsDigits, JoinedIsText
<1>3. Joined(Count(s), Joined(Colon, Joined(s, u))) = Joined(Count(t), Joined(Colon, Joined(t, v)))
    BY <1>1
<1>4. Count(s) = Count(t) /\ Joined(s, u) = Joined(t, v)
    BY <1>2, <1>3, ColonSplits
<1> QED
    BY <1>4, CountTellsLength, SameLength

(* A key tells all three claims, whatever their characters: ownerKey is    *)
(* one-to-one (auth.go 129-133).                                           *)
THEOREM KeyTellsAll ==
    ASSUME NEW p, NEW q,
           p.issuer \in Seq(STRING), p.tenant \in Seq(STRING), p.subject \in Seq(STRING),
           q.issuer \in Seq(STRING), q.tenant \in Seq(STRING), q.subject \in Seq(STRING),
           KeyOf(p) = KeyOf(q)
    PROVE  p.issuer = q.issuer /\ p.tenant = q.tenant /\ p.subject = q.subject
<1>1. /\ p.issuer \in Text /\ p.tenant \in Text /\ p.subject \in Text
      /\ q.issuer \in Text /\ q.tenant \in Text /\ q.subject \in Text
    BY Texts
<1> DEFINE SubjectPart(c) == Joined(Bar, Joined(Framed(c), <<>>))
           TenantPart(b, c) == Joined(Bar, Joined(Framed(b), SubjectPart(c)))
<1>2. ASSUME NEW id, id.issuer \in Text, id.tenant \in Text, id.subject \in Text
      PROVE  /\ SubjectPart(id.subject) \in Text /\ TenantPart(id.tenant, id.subject) \in Text
             /\ Joined(Framed(id.subject), <<>>) \in Text
             /\ Joined(Framed(id.tenant), SubjectPart(id.subject)) \in Text
             /\ KeyOf(id) = Joined(Framed(id.issuer), TenantPart(id.tenant, id.subject))
  <2>1. PICK a, b, c : a = Framed(id.issuer) /\ b = Framed(id.tenant) /\ c = Framed(id.subject)
      OBVIOUS
  <2>2. a \in Text /\ b \in Text /\ c \in Text
      BY <1>2, <2>1, FramedIsText
  <2>3. c = Joined(c, <<>>)
      BY <2>2, ConcatEmptySeq DEF Text, Joined
  <2>4. KeyOf(id) = Joined(Joined(Joined(Joined(a, Bar), b), Bar), c)
      BY <2>1, Zenon DEF KeyOf, Joined, Bar
  <2>5. PICK w : w = Joined(Bar, c)
      OBVIOUS
  <2>6. w \in Text /\ Joined(a, Bar) \in Text /\ Joined(Joined(a, Bar), b) \in Text
      BY <2>2, <2>5, Separators, JoinedIsText
  <2>7. KeyOf(id) = Joined(Joined(Joined(a, Bar), b), w)
      BY <2>2, <2>4, <2>5, <2>6, Separators, JoinedAssociates
  <2>8. KeyOf(id) = Joined(Joined(a, Bar), Joined(b, w)) /\ Joined(b, w) \in Text
      BY <2>2, <2>6, <2>7, JoinedAssociates, JoinedIsText
  <2>9. KeyOf(id) = Joined(a, Joined(Bar, Joined(b, w))) /\ Joined(Bar, Joined(b, w)) \in Text
      BY <2>2, <2>8, Separators, JoinedAssociates, JoinedIsText
  <2> QED
      BY <2>1, <2>2, <2>3, <2>5, <2>6, <2>8, <2>9
<1>3. Joined(Framed(p.issuer), TenantPart(p.tenant, p.subject)) = Joined(Framed(q.issuer), TenantPart(q.tenant, q.subject))
    BY <1>1, <1>2
<1>4. p.issuer = q.issuer /\ TenantPart(p.tenant, p.subject) = TenantPart(q.tenant, q.subject)
    BY <1>1, <1>2, <1>3, FramesApart
<1>5. Joined(Framed(p.tenant), SubjectPart(p.subject)) = Joined(Framed(q.tenant), SubjectPart(q.subject))
    BY <1>1, <1>2, <1>4, Separators, JoinedCancels
<1>6. p.tenant = q.tenant /\ SubjectPart(p.subject) = SubjectPart(q.subject)
    BY <1>1, <1>2, <1>5, FramesApart
<1>7. Joined(Framed(p.subject), <<>>) = Joined(Framed(q.subject), <<>>)
    BY <1>1, <1>2, <1>6, Separators, JoinedCancels
<1>8. p.subject = q.subject
    BY <1>1, <1>7, FramesApart, Separators
<1> QED
    BY <1>4, <1>6, <1>8

-----------------------------------------------------------------------------
(* A call is made with the key of the identity. *)
OwnerFollows == stage = "call" /\ Authenticated => owner = KeyOf(identity)

LEMMA OwnerIsKept == OwnerFollows /\ [Next]_vars => OwnerFollows'
<1> SUFFICES ASSUME OwnerFollows, [Next]_vars, stage' = "call", Authenticated'
             PROVE  owner' = KeyOf(identity')
    BY DEF OwnerFollows
<1>1. CASE UNCHANGED <<mode, stage, owner, identity>>
    BY <1>1 DEF OwnerFollows, Authenticated
<1>2. CASE AcceptIdentity
    BY <1>2 DEF AcceptIdentity
<1>3. CASE AcceptVersion
    BY <1>3 DEF AcceptVersion, Pass, Authenticated
<1> QED
    BY <1>1, <1>2, <1>3
    DEF Next, vars, Tick, ServeCard, Arrive, Authentication, Handling, RefuseHeader,
        AcceptSignature, RefuseSignature, AcceptClaims, RefuseClaims, AcceptScopes, RefuseScopes,
        PassBody, RefuseBody, NormalizeParameters, Decode, RefuseRequest, RefuseVersion,
        RefuseIdentity, CallSucceeds, CallFails, ShowError, Pass, Respond

(* Two callers get the same owner key only if they are the same owner,     *)
(* whatever characters their claims are made of (auth.go 129-133).         *)
THEOREM PipelineKeepsOwnersApart == Spec => []OwnersStayApart
<1>1. Init => OwnerFollows
    BY DEF Init, OwnerFollows
<1>2. PipelineInvariant /\ OwnerFollows => OwnersStayApart
  <2> SUFFICES ASSUME PipelineInvariant, OwnerFollows, stage = "call", Authenticated,
                      NEW t \in Tokens, NoClaim \notin {t.subject, t.tenant}
               PROVE  owner = KeyOf(IdentityOf(t)) <=>
                         t.subject = identity.subject /\ t.tenant = identity.tenant
      BY DEF OwnersStayApart
  <2>1. owner = KeyOf(identity) /\ identity = IdentityOf(token)
        /\ token \in Tokens /\ Complete(token)
      BY DEF OwnerFollows, PipelineInvariant, TokenFollows, IdentityFollows, Inside
  <2>2. /\ t \in Token /\ t.subject \in Seq(STRING) /\ t.tenant \in Seq(STRING)
        /\ token \in Token /\ token.subject \in Seq(STRING) /\ token.tenant \in Seq(STRING)
      BY <2>1, TokenFields DEF Token, Complete
  <2>3. PICK p, q : p = identity /\ q = IdentityOf(t)
      OBVIOUS
  <2>4. /\ p.issuer = Issuer /\ p.tenant = token.tenant /\ p.subject = token.subject
        /\ q.issuer = Issuer /\ q.tenant = t.tenant /\ q.subject = t.subject
      BY <2>1, <2>3 DEF IdentityOf
  <2>5. KeyOf(p) = KeyOf(q) => p.tenant = q.tenant /\ p.subject = q.subject
    <3> SUFFICES ASSUME KeyOf(p) = KeyOf(q) PROVE p.tenant = q.tenant /\ p.subject = q.subject
        OBVIOUS
    <3>1. /\ p.issuer \in Seq(STRING) /\ p.tenant \in Seq(STRING) /\ p.subject \in Seq(STRING)
          /\ q.issuer \in Seq(STRING) /\ q.tenant \in Seq(STRING) /\ q.subject \in Seq(STRING)
        BY <2>2, <2>4, PipelineAssumption
    <3> QED
        BY <3>1, KeyTellsAll, Zenon
  <2>6. p.tenant = q.tenant /\ p.subject = q.subject => KeyOf(p) = KeyOf(q)
      BY <2>4, Zenon DEF KeyOf
  <2> QED
      BY <2>1, <2>3, <2>4, <2>5, <2>6
<1> QED
    BY <1>1, <1>2, OwnerIsKept, PipelineInvariantHolds, PTL DEF Spec

=============================================================================
