----------------------------- MODULE MCCredentials -----------------------------
(***************************************************************************)
(* The two gates that decide whether a bearer is admitted, the platform's   *)
(* and a host's, each on a small instance, one per behaviour.               *)
(***************************************************************************)
EXTENDS ServerAuth, HostAuth

VARIABLE part

CredentialsInit ==
  /\ part \in {"server", "host"} /\ AuthInit /\ HostInit /\ disk = 1

CredentialsNext ==
  \/ part = "server" /\ AuthNext /\ UNCHANGED <<part, hostAuthVars>>
  \/ part = "host" /\ HostNext /\ UNCHANGED <<part, authVars>>

credentialsVars == <<part, authVars, hostAuthVars>>

\* Both fairnesses: nothing of the idle part that is fair is enabled where it
\* starts, no request is under way and no refresh.
CredentialsSpec ==
  CredentialsInit /\ [][CredentialsNext]_credentialsVars /\ AuthFairness /\ HostFairness

\* Two versions of the authority's manifest: the rotation of Origin's key.
MCJwks == << [origin |-> {<<"origin", 1>>}, mantle |-> {<<"mantle", 1>>}],
             [origin |-> {<<"origin", 2>>}, mantle |-> {<<"mantle", 1>>}] >>
MCIssuer == <<"authority/", "authority">>
MCOriginOf == [a \in {"authority", "authority/", "me", "other"} |->
                 IF a = "authority/" THEN "authority" ELSE a]

\* A delegation and a service token of Mantle, a grant key, and what Origin
\* mints: for a person, refused for its purpose, a delegation to another server.
\* They arrive next to a request with a person's token, the one that is awaited.
AccessToken == OriginToken(1, NoOne, "ann", "authority", NoOne, FALSE)
AnyBearer ==
  {NoToken, SignDelegation("mantle", 1, "me", "ann"), SignService("mantle", 1, "me"), GrantKey("ann"),
   AccessToken, [AccessToken EXCEPT !.purpose = TRUE],
   OriginToken(1, "delegation", "ann", "other", "other", FALSE)}
MCBearer == [r \in Request |-> IF r = (CHOOSE q \in Request : TRUE) THEN {AccessToken} ELSE AnyBearer]

MCJwt == {[kid |-> "kid", key |-> CHOOSE k \in HostKey : TRUE, aud |-> {"me"}, purpose |-> FALSE]}
=============================================================================
