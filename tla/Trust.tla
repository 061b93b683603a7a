-------------------------------- MODULE Trust --------------------------------
(***************************************************************************)
(* What a token means: the shapes the services sign, the claim rules that   *)
(* tell a caller's access token from every other token the same key signs,  *)
(* and the verifiers built on the trust anchors of one manifest version.    *)
(* (trust/service_identity.py, access_token.py, trust/authority_trust.py)   *)
(*                                                                          *)
(* A token is a record of its claims and of the key that signed it.  Pure   *)
(* operators only: the cached manifest is state of module ServerAuth.       *)
(***************************************************************************)
EXTENDS Integers

CONSTANTS NoOne,        \* an absent claim: no subject, no actor, no issuer
          Jwks,         \* manifest version |-> [service |-> its keys]
          IssuerAt,     \* manifest version |-> its issuer, or NoOne
          OriginOf      \* a spelling of an issuer URI |-> scheme://host[:port]

Versions == DOMAIN Jwks

ASSUME TrustAssumption ==
  /\ 1 \in Versions /\ Versions \subseteq Nat \ {0}
  /\ DOMAIN IssuerAt = Versions
  /\ \A v \in Versions :
       /\ \A name \in DOMAIN Jwks[v] : \A k \in Jwks[v][name] : k[1] = name
       /\ IssuerAt[v] # NoOne => OriginOf[IssuerAt[v]] = OriginOf[OriginOf[IssuerAt[v]]]

NoToken == [key |-> NoOne]
AnyAudience == {NoOne}

(***************************************************************************)
(* Signing.  `key` is <<service, generation>>; the header's kid names it.   *)
(* The default claims win over any additional ones.                         *)
(***************************************************************************)
SignService(name, gen, audience) ==
  [iss |-> name, sub |-> name, aud |-> {audience}, list |-> FALSE, ptype |-> "service",
   act |-> NoOne, purpose |-> FALSE, live |-> TRUE, key |-> <<name, gen>>]

SignDelegation(name, gen, audience, user) ==
  [SignService(name, gen, audience) EXCEPT !.sub = user, !.act = name, !.ptype = "delegation"]

\* What Origin signs for itself, one key for all of them: an access token
\* (no token_type, no principal_type for a person), the special-purpose
\* tokens, a server's token, a delegation.
OriginToken(gen, ptype, user, audience, actor, purpose) ==
  [iss |-> "authority", sub |-> user, aud |-> {audience}, list |-> FALSE, ptype |-> ptype,
   act |-> actor, purpose |-> purpose, live |-> TRUE, key |-> <<"origin", gen>>]

\* A grant key is not a JWT: it verifies under no anchor, only its prefix counts.
GrantKey(owner) == [NoToken EXCEPT !.key = <<"agk", owner>>]
IsGrantKey(t) == t # NoToken /\ t.key[1] = "agk"
IsJwt(t) == t # NoToken /\ ~IsGrantKey(t)

(***************************************************************************)
(* The claim rules.                                                         *)
(***************************************************************************)
PurposeRefused(t) == t.purpose

PrincipalType(t) == IF t.ptype = NoOne THEN "user" ELSE t.ptype

SameAuthority(a, issuer) == issuer # NoOne /\ OriginOf[a] = OriginOf[issuer]

CallerAccepted(t, issuer, delegationAudiences) ==
  /\ ~PurposeRefused(t)
  /\ t.sub # NoOne
  /\ PrincipalType(t) \in {"user", "mcp_client", "delegation"}
  /\ t.aud # {}
  /\ PrincipalType(t) = "user" => \E a \in t.aud : SameAuthority(a, issuer)
  /\ PrincipalType(t) = "delegation" =>
       /\ t.act # NoOne
       /\ \/ delegationAudiences = AnyAudience
          \/ t.aud \cap delegationAudiences # {}

(***************************************************************************)
(* The verifiers, under manifest version v.  A token without `exp`, or past *)
(* it, is not live.  A missing anchor, a bad signature and a manifest whose *)
(* load raised KeyError are the same refusal to a caller.                   *)
(***************************************************************************)
VerifyJwt(t, v, service, audiences, issuer) ==
  /\ IsJwt(t) /\ t.live /\ v \in Versions
  /\ service \in DOMAIN Jwks[v] /\ t.key \in Jwks[v][service]
  /\ audiences # AnyAudience => t.aud \cap audiences # {}
  /\ issuer # NoOne => t.iss = issuer

VerifyService(t, v, issuer, audience) ==
  VerifyJwt(t, v, issuer, {audience}, issuer)

VerifyDelegation(t, v, issuer, audience, actor) ==
  /\ VerifyService(t, v, issuer, audience)
  /\ t.ptype = "delegation"
  /\ actor # NoOne => t.act = actor
=============================================================================
