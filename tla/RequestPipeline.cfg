SPECIFICATION Spec
CONSTANTS
    Issuer <- TheIssuer
    Tokens <- SomeTokens
    RequiredScopes = {"a2a", "tasks"}
    Skew = 1
    MaxRequestBytes = 1
    MaxTime = 3
    MaxBody = 3
    MaxMentions = 2
    NoClaim = NoClaim
    BadClaim = BadClaim
    NoToken = NoToken
    NoIdentity = NoIdentity
INVARIANTS
    TypeOK
    OnlyAuthorizedPass
    WholeBody
    CanonicalCall
    SafeAnswers
    OwnersStayApart
PROPERTIES
    AcceptsCurrentTokens
    RefusesStaleTokens
