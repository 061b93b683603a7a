------------------------------ MODULE ServerAuth ------------------------------
(***************************************************************************)
(* One persona's server: the middleware that turns a bearer token into a    *)
(* request's delegation context, over the process-wide cache of the         *)
(* authority manifest, which a second thread may reload.                    *)
(* (trust/server_auth.py, trust/authority_trust.py)                         *)
(*                                                                          *)
(* All requests run on one event loop: verification is synchronous, so one  *)
(* request at a time is being `verifying`; the exchange with Origin is the  *)
(* one await before the application runs.  The manifest is loaded under a   *)
(* plain lock by whichever thread finds the cache empty.                    *)
(***************************************************************************)
EXTENDS Trust, FiniteSets

CONSTANTS Request,      \* slots of concurrently served requests
          Bearer,       \* slot |-> the tokens its callers may send
          ClientId,     \* this persona's audience
          RequireAuth,  \* the keyword of the constructor
          Missing       \* no manifest: in the cache, or on the disk

ASSUME AuthAssumption ==
  /\ {NoOne, Missing} \cap Int = {} /\ Missing # NoOne
  /\ NoOne \notin {ClientId, "mantle", "loop", "events"} \cup Request

VARIABLES disk,     \* the manifest version in KEYS_DIR, Missing or Lacking
          newest,   \* the newest version ever written there (environment)
          manifest, \* the module's cached manifest, or Missing
          lock,     \* who holds _manifest_lock, or NoOne
          load,     \* per thread: "no", "want" or "holds" (the lock)
          text,     \* what the holder has read of the file
          got,      \* what get_authority_manifest gives the verifier that runs:
                    \* NoOne before the call, Cached, or how its load ended
          floor,    \* history: the newest version when the last reload cleared
          up,       \* startup found the service identity
          verifying,\* the request on the loop, or NoOne
          req       \* the requests

cacheVars == <<disk, newest, manifest, lock, load, text, got, floor>>
authVars == <<cacheVars, up, verifying, req>>

Thread == {"loop", "events"}

Cached == 0
Lacking == -1   \* a manifest without its issuer or its artifact_id

Quiet == [phase |-> "idle", token |-> NoToken, stored |-> NoToken,
          caller |-> NoToken, service |-> NoOne, since |-> 0, under |-> {}]

AuthInit ==
  /\ newest = 1 /\ disk \in {1, Missing} /\ manifest = Missing
  /\ lock = NoOne /\ text = Missing /\ load = [th \in Thread |-> "no"] /\ got = NoOne
  /\ floor = 0 /\ up = FALSE
  /\ verifying = NoOne /\ req = [r \in Request |-> Quiet]

(***************************************************************************)
(* load_authority_manifest, by whichever thread wants it.                   *)
(***************************************************************************)
\* load returns the version it found or read, still under the lock, or raises:
\* KeyError for a manifest that is Lacking, another error for one that is Missing.
Given(th, version) == got' = IF th = "loop" THEN version ELSE got

\* The lock is free and somebody else filled the cache meanwhile.
LoadHit(th) ==
  /\ load[th] = "want" /\ lock = NoOne /\ manifest # Missing
  /\ load' = [load EXCEPT ![th] = "no"] /\ Given(th, manifest)
  /\ UNCHANGED <<disk, newest, manifest, lock, text, floor>>

LoadRead(th) ==
  /\ load[th] = "want" /\ lock = NoOne /\ manifest = Missing
  /\ lock' = th
  /\ load' = [load EXCEPT ![th] = "holds"] /\ text' = disk
  /\ UNCHANGED <<disk, newest, manifest, got, floor>>

\* Mutant: the lock is not released when the load raises.
MutRaiseKeepsLock(th) ==
  /\ lock = th /\ load[th] = "holds"
  /\ manifest' = IF text = Lacking THEN Missing ELSE text
  /\ Given(th, text)
  /\ load' = [load EXCEPT ![th] = "no"] /\ text' = Missing
  /\ lock' = IF text \in Versions THEN NoOne ELSE lock
  /\ UNCHANGED <<disk, newest, floor>>

\* The parsed manifest is cached, or the load raises and the cache stays empty.
LoadStore(th) ==
  /\ lock = th
  /\ manifest' = IF text = Lacking THEN Missing ELSE text
  /\ Given(th, text)
  /\ load' = [load EXCEPT ![th] = "no"] /\ lock' = NoOne /\ text' = Missing
  /\ UNCHANGED <<disk, newest, floor>>

\* Mutant: the cache is cleared without the lock.
MutClearUnlocked ==
  /\ load["events"] = "no"
  /\ manifest' = Missing /\ floor' = newest
  /\ load' = [load EXCEPT !["events"] = "want"]
  /\ UNCHANGED <<disk, newest, lock, text, got>>

\* reload_authority_manifest: the cache is cleared under the lock, then loaded
\* by the ordinary load, which takes the lock again.
ReloadClear ==
  /\ load["events"] = "no" /\ lock = NoOne
  /\ manifest' = Missing /\ floor' = newest
  /\ load' = [load EXCEPT !["events"] = "want"]
  /\ UNCHANGED <<disk, newest, lock, text, got>>

\* The operator writes the next version; while it is written there is none, and
\* the first attempt may lack a field.
Rotate ==
  /\ newest + 1 \in Versions /\ disk # Missing
  /\ disk' = Missing /\ newest' = newest + 1
  /\ UNCHANGED <<manifest, lock, load, text, got, floor>>
Written ==
  /\ disk # newest /\ disk' \in {newest, Lacking} /\ disk' # disk
  /\ UNCHANGED <<newest, manifest, lock, load, text, got, floor>>

CacheNext ==
  \/ \E th \in Thread : LoadHit(th) \/ LoadRead(th) \/ LoadStore(th)
  \/ ReloadClear \/ Rotate \/ Written

(***************************************************************************)
(* The middleware.  get_authority_manifest is called anew by each verifier, *)
(* so every step of the route sees the manifest of its own moment.          *)
(***************************************************************************)
To(r, phase) == req' = [req EXCEPT ![r].phase = phase]
Answer(r) == req' = [req EXCEPT ![r] = Quiet]

LoopFree == verifying = NoOne /\ load["loop"] = "no"

Arrive(r, t) ==
  /\ up /\ LoopFree /\ req[r].phase = "idle"
  /\ verifying' = r
  /\ req' = [req EXCEPT ![r] = [Quiet EXCEPT !.phase = "mantle", !.token = t,
                                              !.since = floor]]
  /\ UNCHANGED <<cacheVars, up>>

\* get_authority_manifest tests the cache, and loads when it is empty; else the
\* cache is read again to be returned, and a reload may have cleared it by then.
Ask(r) ==
  /\ verifying = r /\ got = NoOne /\ load["loop"] = "no"
  /\ req[r].phase \in {"mantle", "origin", "service", "user", "issuer"}
  /\ req[r].token # NoToken
  /\ IF manifest = Missing
     THEN load' = [load EXCEPT !["loop"] = "want"] /\ UNCHANGED got
     ELSE got' = Cached /\ UNCHANGED load
  /\ UNCHANGED <<disk, newest, manifest, lock, text, floor, up, verifying, req>>
Held == IF got = Cached THEN manifest ELSE got

\* The load raised, or None was returned: only the service verifier catches
\* every exception, the others let it out of the middleware, a 500.  KeyError
\* is what they all catch: under a Lacking manifest each just does not verify.
LoadRaised(r) ==
  /\ verifying = r /\ Held = Missing /\ load["loop"] = "no"
  /\ got' = NoOne
  /\ IF req[r].phase = "service"
     THEN To(r, "user") /\ UNCHANGED verifying
     ELSE Answer(r) /\ verifying' = NoOne
  /\ UNCHANGED <<disk, newest, manifest, lock, load, text, floor, up>>

Verifies(r, phase) ==
  /\ verifying = r /\ req[r].phase = phase /\ load["loop"] = "no"
  /\ req[r].token = NoToken \/ Held \notin {NoOne, Missing}
  /\ got' = NoOne
  /\ UNCHANGED <<disk, newest, manifest, lock, load, text, floor, up>>

\* The context variables are set and the application runs.
Admit(r, stored, caller, service) ==
  /\ verifying' = NoOne
  /\ req' = [req EXCEPT ![r].phase = "app", ![r].stored = stored, ![r].caller = caller,
                        ![r].service = service, ![r].under = req[r].under \cup ({Held} \cap Versions)]

\* Nothing established who calls: 401, unless the server is open or the method
\* is OPTIONS, with a bearer or without.  Nothing else looks at the method, so it
\* is chosen here.
Unidentified(r) ==
  \/ RequireAuth /\ Answer(r) /\ verifying' = NoOne
  \/ Admit(r, NoToken, NoToken, NoOne)

MintedByMantle(t) == t # NoToken /\ VerifyDelegation(t, Held, "mantle", ClientId, "mantle")

MantleDelegation(r) ==
  /\ Verifies(r, "mantle")
  /\ IF MintedByMantle(req[r].token)
     THEN Admit(r, req[r].token, NoToken, NoOne)
     ELSE To(r, "origin") /\ UNCHANGED verifying

\* Mutant: Origin's delegations are taken for whomever they were minted.
MutMintedForAnyone(t) ==
  t # NoToken /\ VerifyJwt(t, Held, "origin", AnyAudience, NoOne) /\ t.ptype = "delegation"

MintedByOrigin(t) ==
  /\ t # NoToken /\ VerifyJwt(t, Held, "origin", AnyAudience, NoOne)
  /\ t.ptype = "delegation" /\ t.aud = {ClientId} /\ ~t.list /\ t.act = ClientId

\* Origin's delegation, then the grant key, then a claim to be a service.
OriginDelegation(r) ==
  LET t == req[r].token IN
  /\ Verifies(r, "origin")
  /\ IF MintedByOrigin(t) THEN Admit(r, t, NoToken, NoOne)
     ELSE IF IsGrantKey(t) THEN Admit(r, t, t, NoOne)
     ELSE /\ To(r, IF IsJwt(t) /\ t.ptype = "service" /\ t.iss \notin {NoOne, "origin"}
                   THEN "service" ELSE "user")
          /\ UNCHANGED verifying

PlatformService(r) ==
  LET t == req[r].token IN
  /\ Verifies(r, "service")
  /\ IF VerifyService(t, Held, t.iss, ClientId)
     THEN Admit(r, NoToken, NoToken, t.iss)
     ELSE To(r, "user") /\ UNCHANGED verifying

UserSignature(r) ==
  LET t == req[r].token IN
  /\ Verifies(r, "user")
  /\ IF t # NoToken /\ VerifyJwt(t, Held, "origin", AnyAudience, NoOne)
     THEN /\ req' = [req EXCEPT ![r].phase = "issuer", ![r].under = {Held}]
          /\ UNCHANGED verifying
     ELSE Unidentified(r)

\* The claim rule needs the issuer, asked of the manifest a second time; then
\* the exchange is signed with a service key and awaited.
UserClaims(r) ==
  /\ Verifies(r, "issuer")
  /\ IF Held \in Versions /\ CallerAccepted(req[r].token, IssuerAt[Held], {})
     THEN To(r, "exchange") /\ verifying' = NoOne
     ELSE Unidentified(r)

\* Origin verifies the subject token itself, under the keys of today.
OriginMints(t) ==
  IF t.key \in Jwks[newest]["origin"]
  THEN OriginToken(newest, "delegation", t.sub, ClientId, ClientId, FALSE)
  ELSE NoToken

\* The exchange answers; a decline, a timeout or any failure mints nothing.
ExchangeEnds(r, minted) ==
  /\ LoopFree /\ req[r].phase = "exchange"
  /\ IF minted # NoToken
     THEN req' = [req EXCEPT ![r].phase = "app", ![r].stored = minted,
                             ![r].caller = req[r].token]
     ELSE (RequireAuth /\ Answer(r)) \/ To(r, "app")
  /\ UNCHANGED <<cacheVars, up, verifying>>

ExchangeAnswers(r) ==
  /\ req[r].phase = "exchange"
  /\ \E minted \in {OriginMints(req[r].token), NoToken} : ExchangeEnds(r, minted)

\* The application returns or raises: the three context variables are reset.
AppReturns(r) ==
  /\ LoopFree /\ req[r].phase = "app"
  /\ Answer(r)
  /\ UNCHANGED <<cacheVars, up, verifying>>

\* The headers a tool may send: on behalf of the caller, or the persona's own.
RequireUserHeaders(r) == IF req[r].stored = NoToken THEN "MissingDelegationError" ELSE "delegated"
UserHeaders(r) == IF req[r].stored = NoToken THEN "platform" ELSE "delegated"
DelegationUserId(r) ==
  IF IsJwt(req[r].stored) THEN req[r].stored.sub ELSE "anonymous"

(***************************************************************************)
(* The process around it.                                                   *)
(***************************************************************************)
\* init_service_identity, then the persona's startup hook.
Startup == ~up /\ up' = TRUE /\ UNCHANGED <<cacheVars, verifying, req>>

Middleware(r) ==
  \/ Ask(r) \/ LoadRaised(r) \/ MantleDelegation(r) \/ OriginDelegation(r)
  \/ PlatformService(r) \/ UserSignature(r) \/ UserClaims(r)
  \/ ExchangeAnswers(r) \/ AppReturns(r)

AuthNext ==
  \/ CacheNext /\ UNCHANGED <<up, verifying, req>>
  \/ \E r \in Request : Middleware(r) \/ \E t \in Bearer[r] : Arrive(r, t)
  \/ Startup

(***************************************************************************)
(* Both threads run, urlopen has a timeout, and the lock is granted to a    *)
(* thread that waits for it; the environment owes nothing.                  *)
(***************************************************************************)
Loading(th) == LoadHit(th) \/ LoadRead(th) \/ LoadStore(th)
AuthFairness ==
  /\ \A th \in Thread : SF_authVars(Loading(th) /\ UNCHANGED <<up, verifying, req>>)
  /\ \A r \in Request : SF_authVars(Middleware(r))

(***************************************************************************)
(* Properties.                                                              *)
(***************************************************************************)
\* Whose authority a bearer token is, whatever route found it out.
NamesACaller(t) ==
  /\ IsJwt(t) /\ ~t.purpose /\ t.sub # NoOne
  /\ t.key[1] = "origin" /\ PrincipalType(t) \in {"user", "mcp_client"}
AddressedToMe(t) ==
  IsJwt(t) /\ t.ptype = "delegation" /\ ClientId \in t.aud
  /\ t.act = IF t.key[1] = "mantle" THEN "mantle" ELSE ClientId

\* A request acts with a person's authority only when its own bearer was a
\* delegation for this persona, a grant key, or a caller's access token, and
\* then for that bearer's subject: no program's token, special-purpose token
\* or delegation to another persona is ever turned into one, whichever of the
\* five routes it falls through (server_auth.py 536-550).
StrangersRefused ==
  \A r \in Request :
    LET q == req[r] IN
    q.phase = "app" /\ q.stored # NoToken =>
      \/ q.stored = q.token /\ (AddressedToMe(q.token) \/ IsGrantKey(q.token))
      \/ NamesACaller(q.token) /\ q.caller = q.token /\ DelegationUserId(r) = q.token.sub

\* Once a reload has cleared the cache, no later request is verified under an
\* older manifest: a load that was already reading the old file cannot put it
\* back, because clearing waits for its lock (authority_trust.py 84-126).
RevokedKeysRefused ==
  \A r \in Request : req[r].phase \in {"issuer", "exchange", "app"} =>
    \A v \in req[r].under : v >= req[r].since

\* Every request is answered: the lock is always handed on, a failed load is
\* an answer, and the exchange ends (server_auth.py 131, 565-573).
Answered == \A r \in Request : req[r].phase # "idle" ~> req[r].phase = "idle"
=============================================================================
