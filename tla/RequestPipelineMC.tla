------------------------- MODULE RequestPipelineMC -------------------------
(* A small instance of RequestPipeline for TLC. *)
EXTENDS RequestPipeline

A == <<"a">>
AA == <<"a", "|", ":", "a">>
LA == <<"1", ":", "a">>

TheIssuer == <<"i">>

Good == [genuine |-> TRUE, subject |-> A, tenant |-> A, exp |-> 1, nbf |-> NoClaim,
         scopes |-> RequiredScopes]

(* Every kind of lifetime; owners whose claims hold separators and digits;  *)
(* then one thing missing at a time.                                        *)
SomeTokens ==
    {[Good EXCEPT !.exp = e, !.nbf = n] : e \in {1, 2}, n \in {NoClaim, 1, 2}}
       \cup {[Good EXCEPT !.tenant = AA, !.scopes = @ \cup {"profile"}],
             [Good EXCEPT !.subject = AA], [Good EXCEPT !.subject = LA],
             [Good EXCEPT !.tenant = AA \o <<"|">> \o LA],
             [Good EXCEPT !.genuine = FALSE],
             [Good EXCEPT !.subject = NoClaim], [Good EXCEPT !.tenant = NoClaim],
             [Good EXCEPT !.exp = NoClaim], [Good EXCEPT !.nbf = BadClaim],
             [Good EXCEPT !.scopes = BadClaim], [Good EXCEPT !.scopes = {"a2a", "profile"}]}
=============================================================================
