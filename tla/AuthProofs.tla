------------------------------ MODULE AuthProofs ------------------------------
(***************************************************************************)
(* Proofs about the server's middleware, for any manifests, bearers and     *)
(* requests: strangers are refused, and so are the keys of a manifest that  *)
(* a reload has dropped; and about a host's key directory, for any files    *)
(* and edits: a removed key is honoured no longer than the refresh interval.*)
(***************************************************************************)
EXTENDS ServerAuth, HostAuth, TLAPS

AuthSpec == AuthInit /\ [][AuthNext]_authVars

Fields == {"phase", "token", "stored", "caller", "service", "since", "under"}

TypeOK ==
  /\ newest \in Versions /\ floor \in Nat /\ floor <= newest
  /\ disk \in {newest, Missing, Lacking}
  /\ manifest \in Versions \cup {Missing} /\ text \in Versions \cup {Missing, Lacking}
  /\ got \in Versions \cup {Missing, Lacking, NoOne, Cached}
  /\ lock \in Thread \cup {NoOne}
  /\ DOMAIN load = Thread
  /\ verifying \in Request \cup {NoOne}
  /\ DOMAIN req = Request
  /\ \A r \in Request : DOMAIN req[r] = Fields

\* The cache, and a file that is being read, are no older than the last
\* clearing, for the reader holds the lock that clearing needs; what the
\* running verifier was given is no older than its request.
CacheFresh ==
  /\ manifest \in Versions => floor <= manifest
  /\ lock # NoOne /\ text \in Versions => floor <= text
  /\ lock = "loop" => load["loop"] = "holds"
  /\ load["loop"] # "no" \/ got # NoOne => verifying \in Request
  /\ got \in Versions => req[verifying].since <= got

\* What StrangersRefused says of one request.
Rightful(q) ==
  q.stored # NoToken =>
    \/ q.stored = q.token /\ (AddressedToMe(q.token) \/ IsGrantKey(q.token))
    \/ /\ NamesACaller(q.token) /\ q.caller = q.token
       /\ (IF IsJwt(q.stored) THEN q.stored.sub ELSE "anonymous") = q.token.sub

\* A request on its way: nothing is stored before the application runs, a
\* signature found good was Origin's, an exchange is asked for a caller only.
Sound(q) ==
  /\ q.phase # "app" => q.stored = NoToken
  /\ q.phase = "issuer" => IsJwt(q.token) /\ q.token.key[1] = "origin"
  /\ q.phase = "exchange" => NamesACaller(q.token)
  /\ q.phase = "app" => Rightful(q)

\* The manifests that verified a request are no older than the last clearing
\* before it arrived.
Recent(q) ==
  /\ q.since \in Nat /\ q.since <= floor
  /\ q.under \subseteq Versions /\ \A v \in q.under : q.since <= v

IInv == TypeOK /\ CacheFresh /\ \A r \in Request : Sound(req[r]) /\ Recent(req[r])

LEMMA VersionsAreNat == Versions \subseteq Nat \ {0} /\ NoOne \notin Versions /\ Missing \notin Versions
                        /\ {Cached, Lacking} \cap Versions = {}
                        /\ {Cached, Lacking} \cap {NoOne, Missing} = {} /\ Cached # Lacking
<1>1. Versions \subseteq Nat \ {0} /\ NoOne \notin Int /\ Missing \notin Int
  BY TrustAssumption, AuthAssumption
<1>2. Cached \in Int /\ Lacking \in Int /\ Cached \notin Nat \ {0} /\ Lacking \notin Nat \ {0}
      /\ Cached # Lacking
  BY DEF Cached, Lacking
<1>3. ASSUME NEW v \in Versions PROVE v \in Int
  BY <1>1
<1>4. {Cached, Lacking} \cap Versions = {}
  BY <1>1, <1>2
<1>5. {Cached, Lacking} \cap {NoOne, Missing} = {}
  BY <1>1, <1>2
<1>6. NoOne \notin Versions
  BY <1>1, <1>3, Zenon
<1>7. Missing \notin Versions
  BY <1>1, <1>3, Zenon
<1>8. QED BY <1>1, <1>2, <1>4, <1>5, <1>6, <1>7

LEMMA SoundIsEnough == IInv => StrangersRefused /\ RevokedKeysRefused
<1> SUFFICES ASSUME IInv, NEW r \in Request PROVE
      LET q == req[r] IN
      /\ q.phase = "app" /\ q.stored # NoToken =>
           \/ q.stored = q.token /\ (AddressedToMe(q.token) \/ IsGrantKey(q.token))
           \/ NamesACaller(q.token) /\ q.caller = q.token /\ DelegationUserId(r) = q.token.sub
      /\ \A v \in q.under : v >= q.since
  BY DEF StrangersRefused, RevokedKeysRefused
<1>1. Sound(req[r]) /\ Recent(req[r])
  BY DEF IInv
<1>2. \A v \in req[r].under : v >= req[r].since
  BY <1>1, VersionsAreNat DEF Recent
<1>3. QED BY <1>1, <1>2 DEF Sound, Rightful, DelegationUserId

-----------------------------------------------------------------------------
(* How one request is changed.                                             *)

LEMMA OneField ==
  ASSUME TypeOK, NEW r \in Request, NEW ph, To(r, ph)
  PROVE  /\ DOMAIN req' = Request /\ \A s \in Request : DOMAIN req'[s] = Fields
         /\ req'[r].phase = ph /\ req'[r].token = req[r].token /\ req'[r].stored = req[r].stored
         /\ req'[r].caller = req[r].caller /\ req'[r].since = req[r].since
         /\ req'[r].under = req[r].under
         /\ \A s \in Request : s # r => req'[s] = req[s]
<1>1. req' = [req EXCEPT ![r] = [req[r] EXCEPT !.phase = ph]]
  BY DEF To
<1>2. req'[r] = [req[r] EXCEPT !.phase = ph] /\ DOMAIN req' = Request
  BY <1>1 DEF TypeOK
<1>3. DOMAIN req[r] = Fields
  BY DEF TypeOK
<1>4. QED BY <1>1, <1>2, <1>3 DEF TypeOK, Fields

LEMMA Answered1 ==
  ASSUME TypeOK, NEW r \in Request, Answer(r)
  PROVE  /\ DOMAIN req' = Request /\ \A s \in Request : DOMAIN req'[s] = Fields
         /\ req'[r] = Quiet
         /\ \A s \in Request : s # r => req'[s] = req[s]
<1>1. DOMAIN Quiet = Fields
  BY DEF Quiet, Fields
<1>2. QED BY <1>1 DEF Answer, TypeOK

LEMMA QuietIsSound == Sound(Quiet) /\ \A n \in Nat : 0 <= n => Quiet.since \in Nat /\ Quiet.since <= n
                      /\ Quiet.under = {}
BY DEF Quiet, Sound

LEMMA Admitted ==
  ASSUME TypeOK, NEW r \in Request, NEW stored, NEW caller, NEW service,
         Admit(r, stored, caller, service)
  PROVE  /\ DOMAIN req' = Request /\ \A s \in Request : DOMAIN req'[s] = Fields
         /\ req'[r].phase = "app" /\ req'[r].token = req[r].token /\ req'[r].stored = stored
         /\ req'[r].caller = caller /\ req'[r].since = req[r].since
         /\ req'[r].under = req[r].under \cup ({Held} \cap Versions)
         /\ \A s \in Request : s # r => req'[s] = req[s]
<1> DEFINE q == [[[[[req[r] EXCEPT !.phase = "app"] EXCEPT !.stored = stored] EXCEPT !.caller = caller]
                  EXCEPT !.service = service] EXCEPT !.under = req[r].under \cup ({Held} \cap Versions)]
<1>1. DOMAIN req[r] = Fields /\ DOMAIN req = Request
  BY DEF TypeOK
<1>2. req' = [req EXCEPT ![r] = q]
  BY <1>1 DEF Admit
<1>3. req'[r] = q /\ DOMAIN req' = Request /\ \A s \in Request : s # r => req'[s] = req[s]
  BY <1>1, <1>2
<1>4. QED BY <1>1, <1>3 DEF TypeOK, Fields

-----------------------------------------------------------------------------
(* The cache's own steps.                                                  *)

LEMMA CacheKeeps ==
  ASSUME IInv, CacheNext, UNCHANGED <<up, verifying, req>>
  PROVE  IInv'
<1> USE VersionsAreNat, AuthAssumption
<1> USE DEF IInv, Thread
<1>1. \A r \in Request : Sound(req[r])'
  BY DEF Sound, Rightful
<1>2. ASSUME floor' = floor PROVE \A r \in Request : Recent(req[r])'
  BY <1>2 DEF Recent
<1>3. ASSUME NEW r \in Request PROVE req[r].since \in Nat /\ req[r].since <= floor
  BY DEF Recent
<1>4. ASSUME NEW th \in Thread, LoadHit(th) PROVE IInv'
  <2>1. TypeOK'
    BY <1>4 DEF LoadHit, Given, TypeOK
  <2>2. CacheFresh'
    <3>1. manifest \in Versions /\ floor <= manifest /\ lock = NoOne
      BY <1>4 DEF LoadHit, TypeOK, CacheFresh
    <3>2. CASE th = "loop"
      <4>1. verifying \in Request
        BY <1>4, <3>2 DEF LoadHit, CacheFresh
      <4>2. req[verifying].since <= manifest
        BY <1>3, <3>1, <4>1 DEF TypeOK
      <4>3. QED BY <1>4, <3>1, <3>2, <4>1, <4>2 DEF LoadHit, Given, CacheFresh, TypeOK
    <3>3. CASE th # "loop"
      <4>1. load'["loop"] = load["loop"] /\ got' = got
        BY <1>4, <3>3 DEF LoadHit, Given, TypeOK
      <4>2. QED BY <1>4, <3>1, <4>1 DEF LoadHit, CacheFresh
    <3>4. QED BY <3>2, <3>3
  <2>3. QED BY <1>1, <1>2, <1>4, <2>1, <2>2 DEF LoadHit
<1>5. ASSUME NEW th \in Thread, LoadRead(th) PROVE IInv'
  <2>1. TypeOK'
    BY <1>5 DEF LoadRead, TypeOK
  <2>2. CacheFresh'
    <3>1. text' \in Versions => floor <= text'
      BY <1>5 DEF LoadRead, TypeOK
    <3>2. load'[th] = "holds" /\ lock' = th /\ \A t \in Thread : t # th => load'[t] = load[t]
      BY <1>5 DEF LoadRead, TypeOK
    <3>3. load'["loop"] # "no" => load["loop"] # "no"
      BY <1>5, <3>2 DEF LoadRead
    <3>4. QED BY <1>5, <3>1, <3>2, <3>3 DEF LoadRead, CacheFresh
  <2>3. QED BY <1>1, <1>2, <1>5, <2>1, <2>2 DEF LoadRead
<1>6. ASSUME NEW th \in Thread, LoadStore(th) PROVE IInv'
  <2>1. TypeOK'
    BY <1>6 DEF LoadStore, Given, TypeOK
  <2>2. CacheFresh'
    <3>1. text \in Versions => floor <= text
      BY <1>6 DEF LoadStore, CacheFresh
    <3>2. lock' = NoOne /\ floor' = floor /\ (manifest' \in Versions => manifest' = text)
      BY <1>6 DEF LoadStore
    <3>3. CASE th = "loop"
      <4>1. verifying \in Request
        BY <1>6, <3>3 DEF LoadStore, CacheFresh
      <4>2. text \in Versions => req[verifying].since <= text
        BY <1>3, <3>1, <4>1 DEF TypeOK
      <4>3. QED BY <1>6, <3>1, <3>2, <3>3, <4>1, <4>2 DEF LoadStore, Given, CacheFresh
    <3>4. CASE th # "loop"
      <4>1. load'["loop"] = load["loop"] /\ got' = got
        BY <1>6, <3>4 DEF LoadStore, Given, TypeOK
      <4>2. QED BY <1>6, <3>1, <3>2, <4>1 DEF CacheFresh
    <3>5. QED BY <3>3, <3>4
  <2>3. QED BY <1>1, <1>2, <1>6, <2>1, <2>2 DEF LoadStore
<1>7. CASE ReloadClear
  <2>1. TypeOK'
    BY <1>7 DEF ReloadClear, TypeOK
  <2>2. CacheFresh'
    <3>1. load'["loop"] = load["loop"] /\ lock' = NoOne /\ manifest' = Missing /\ got' = got
      BY <1>7 DEF ReloadClear, TypeOK
    <3>2. QED BY <3>1 DEF CacheFresh
  <2>3. \A r \in Request : Recent(req[r])'
    <3>1. floor' = newest /\ floor <= newest /\ floor \in Nat /\ newest \in Nat
      BY <1>7 DEF ReloadClear, TypeOK
    <3>2. QED BY <3>1 DEF Recent
  <2>4. QED BY <1>1, <2>1, <2>2, <2>3
<1>8. CASE Rotate \/ Written
  <2>1. floor' = floor /\ manifest' = manifest /\ lock' = lock /\ load' = load /\ text' = text /\ got' = got
    BY <1>8 DEF Rotate, Written
  <2>2. newest' \in Versions /\ floor <= newest' /\ disk' \in {newest', Missing, Lacking}
    BY <1>8 DEF Rotate, Written, TypeOK
  <2>3. TypeOK'
    BY <2>1, <2>2 DEF TypeOK
  <2>4. CacheFresh'
    BY <2>1 DEF CacheFresh
  <2>5. QED BY <1>1, <1>2, <2>1, <2>3, <2>4
<1>9. QED BY <1>4, <1>5, <1>6, <1>7, <1>8 DEF CacheNext

-----------------------------------------------------------------------------
(* The middleware's steps.                                                 *)

\* What a verifier holds is no older than the clearing its request came after.
LEMMA HeldRecent ==
  ASSUME IInv, NEW r \in Request, verifying = r
  PROVE  \A v \in {Held} \cap Versions : req[r].since <= v
<1> USE VersionsAreNat
<1>1. req[r].since \in Nat /\ req[r].since <= floor /\ floor \in Nat
  BY DEF IInv, Recent, TypeOK
<1>2. manifest \in Versions => req[r].since <= manifest
  BY <1>1 DEF IInv, CacheFresh
<1>3. got \in Versions => req[r].since <= got
  BY DEF IInv, CacheFresh
<1>4. QED BY <1>2, <1>3 DEF Held

\* The step of one request that leaves the manifest and its file alone: the
\* invariant holds if it holds of that request and of what is being verified.
LEMMA OneRequest ==
  ASSUME IInv, NEW r \in Request,
         UNCHANGED <<disk, newest, manifest, lock, text, floor>>,
         DOMAIN req' = Request, \A s \in Request : DOMAIN req'[s] = Fields,
         \A s \in Request : s # r => req'[s] = req[s],
         Sound(req'[r]), req'[r].since \in Nat, req'[r].since <= floor,
         req'[r].under \subseteq Versions, \A v \in req'[r].under : req'[r].since <= v,
         load' = load, verifying' \in {r, NoOne} \/ verifying' = verifying,
         \/ got' = NoOne /\ load["loop"] = "no"
         \/ got' = got /\ verifying' = verifying /\ req'[r].since = req[r].since
  PROVE  IInv'
<1> USE VersionsAreNat, AuthAssumption
<1>1. TypeOK'
  BY DEF IInv, TypeOK
<1>2. CacheFresh'
  <2>1. CASE got' = NoOne /\ load["loop"] = "no"
    BY <2>1 DEF IInv, CacheFresh
  <2>2. CASE got' = got /\ verifying' = verifying /\ req'[r].since = req[r].since
    <3>1. \A s \in Request : req'[s].since = req[s].since
      BY <2>2
    <3>2. QED BY <2>2, <3>1 DEF IInv, CacheFresh
  <2>3. QED BY <2>1, <2>2
<1>3. \A s \in Request : Sound(req[s])'
  BY DEF IInv, Sound, Rightful
<1>4. \A s \in Request : Recent(req[s])'
  BY DEF IInv, Recent
<1>5. QED BY <1>1, <1>2, <1>3, <1>4 DEF IInv

\* A verifier that let the request go on to another phase, with nothing
\* stored, keeps the invariant when that phase asks for no more.
LEMMA GoesOn ==
  ASSUME IInv, NEW r \in Request, NEW old, NEW ph, Verifies(r, old), To(r, ph),
         old # "app", ph # "app",
         verifying' \in {r, NoOne},
         ph = "issuer" => IsJwt(req[r].token) /\ req[r].token.key[1] = "origin",
         ph = "exchange" => NamesACaller(req[r].token)
  PROVE  IInv'
<1>1. /\ req[r].phase = old /\ load' = load /\ load["loop"] = "no" /\ got' = NoOne
      /\ UNCHANGED <<disk, newest, manifest, lock, text, floor>>
  BY DEF Verifies
<1>2. Sound(req[r]) /\ Recent(req[r]) /\ TypeOK
  BY DEF IInv
<1>3. Sound(req'[r])
  BY <1>1, <1>2, OneField DEF Sound
<1>4. QED BY <1>1, <1>2, <1>3, OneField, OneRequest DEF Recent

\* A request that is answered, or that the application serves rightfully.
LEMMA Ends ==
  ASSUME IInv, NEW r \in Request, Answer(r),
         UNCHANGED <<disk, newest, manifest, lock, load, text, floor>>,
         load["loop"] = "no", got' = NoOne, verifying' \in {r, NoOne} \/ verifying' = verifying
  PROVE  IInv'
<1>1. TypeOK /\ floor \in Nat /\ 0 <= floor
  BY DEF IInv, TypeOK
<1>2. Sound(Quiet) /\ Quiet.since = 0 /\ Quiet.under = {}
  BY QuietIsSound DEF Quiet
<1>3. Sound(req'[r]) /\ req'[r].since = 0 /\ req'[r].under = {}
  BY <1>1, <1>2, Answered1
<1>4. QED BY <1>1, <1>3, Answered1, OneRequest

LEMMA Serves ==
  ASSUME IInv, NEW r \in Request, NEW ph, NEW stored, NEW caller, NEW service,
         Verifies(r, ph), Admit(r, stored, caller, service),
         \/ stored = NoToken
         \/ stored = req[r].token /\ (AddressedToMe(req[r].token) \/ IsGrantKey(req[r].token))
  PROVE  IInv'
<1>1. /\ verifying = r /\ load' = load /\ load["loop"] = "no" /\ got' = NoOne /\ verifying' = NoOne
      /\ UNCHANGED <<disk, newest, manifest, lock, text, floor>>
  BY DEF Verifies, Admit
<1>2. Recent(req[r]) /\ TypeOK
  BY DEF IInv
<1>3. Sound(req'[r])
  BY <1>2, Admitted DEF Sound, Rightful
<1>4. req'[r].under \subseteq Versions /\ \A v \in req'[r].under : req'[r].since <= v
  BY <1>1, <1>2, Admitted, HeldRecent DEF Recent
<1>5. req'[r].since \in Nat /\ req'[r].since <= floor
  BY <1>2, Admitted DEF Recent
<1>6. QED BY <1>1, <1>2, <1>3, <1>4, <1>5, Admitted, OneRequest

LEMMA UnidentifiedKeeps ==
  ASSUME IInv, NEW r \in Request, NEW ph, Verifies(r, ph), Unidentified(r)
  PROVE  IInv'
<1>1. CASE Answer(r) /\ verifying' = NoOne
  BY <1>1, Ends DEF Verifies
<1>2. CASE Admit(r, NoToken, NoToken, NoOne)
  BY <1>2, Serves
<1>3. QED BY <1>1, <1>2 DEF Unidentified

LEMMA ArriveKeeps ==
  ASSUME IInv, NEW r \in Request, NEW t, Arrive(r, t)
  PROVE  IInv'
<1> DEFINE q == [Quiet EXCEPT !.phase = "mantle", !.token = t, !.since = floor]
<1>1. /\ req' = [req EXCEPT ![r] = q] /\ UNCHANGED cacheVars /\ verifying' = r
      /\ verifying = NoOne /\ load["loop"] = "no"
  BY DEF Arrive, LoopFree
<1>2. got = NoOne
  BY <1>1, AuthAssumption DEF IInv, CacheFresh
<1>3. /\ DOMAIN q = Fields /\ q.phase = "mantle" /\ q.since = floor /\ q.under = {}
      /\ q.stored = NoToken
  BY DEF Quiet, Fields
<1>4. /\ req'[r] = q /\ DOMAIN req' = Request /\ \A s \in Request : s # r => req'[s] = req[s]
      /\ \A s \in Request : DOMAIN req'[s] = Fields
  BY <1>1, <1>3 DEF IInv, TypeOK
<1>5. Sound(req'[r])
  BY <1>3, <1>4 DEF Sound
<1>6. floor \in Nat /\ floor <= floor
  BY DEF IInv, TypeOK
<1>7. req'[r].since = floor /\ req'[r].under = {}
  BY <1>3, <1>4
<1>8. QED BY <1>1, <1>2, <1>4, <1>5, <1>6, <1>7, OneRequest DEF cacheVars

LEMMA AskKeeps ==
  ASSUME IInv, NEW r \in Request, Ask(r)
  PROVE  IInv'
<1>1. /\ verifying = r /\ got = NoOne /\ load["loop"] = "no"
      /\ UNCHANGED <<disk, newest, manifest, lock, text, floor, up, verifying, req>>
      /\ \/ load' = [load EXCEPT !["loop"] = "want"] /\ got' = got
         \/ got' = Cached /\ load' = load
  BY DEF Ask
<1>2. TypeOK'
  BY <1>1 DEF IInv, TypeOK
<1>3. lock # "loop"
  BY <1>1 DEF IInv, CacheFresh
<1>4. got' \notin Versions
  BY <1>1, VersionsAreNat
<1>5. CacheFresh'
  BY <1>1, <1>3, <1>4 DEF IInv, CacheFresh
<1>6. QED BY <1>1, <1>2, <1>5 DEF IInv, Sound, Rightful, Recent

LEMMA RaisedKeeps ==
  ASSUME IInv, NEW r \in Request, LoadRaised(r)
  PROVE  IInv'
<1>1. /\ verifying = r /\ load["loop"] = "no" /\ got' = NoOne
      /\ UNCHANGED <<disk, newest, manifest, lock, load, text, floor>>
  BY DEF LoadRaised
<1>2. CASE req[r].phase = "service"
  <2>1. To(r, "user") /\ verifying' = verifying
    BY <1>2 DEF LoadRaised
  <2>2. Sound(req[r]) /\ Recent(req[r]) /\ TypeOK
    BY DEF IInv
  <2>3. Sound(req'[r])
    BY <1>2, <2>1, <2>2, OneField DEF Sound
  <2>4. QED BY <1>1, <2>1, <2>2, <2>3, OneField, OneRequest DEF Recent
<1>3. CASE req[r].phase # "service"
  <2>1. Answer(r) /\ verifying' = NoOne
    BY <1>3 DEF LoadRaised
  <2>2. QED BY <1>1, <2>1, Ends
<1>4. QED BY <1>2, <1>3

LEMMA MantleKeeps ==
  ASSUME IInv, NEW r \in Request, MantleDelegation(r)
  PROVE  IInv'
<1>1. Verifies(r, "mantle")
  BY DEF MantleDelegation
<1>2. CASE MintedByMantle(req[r].token)
  <2>1. Admit(r, req[r].token, NoToken, NoOne)
    BY <1>2 DEF MantleDelegation
  <2>2. VerifyDelegation(req[r].token, Held, "mantle", ClientId, "mantle") /\ req[r].token # NoToken
    BY <1>2 DEF MintedByMantle
  <2>3. Held \in Versions
    BY <2>2 DEF VerifyDelegation, VerifyService, VerifyJwt
  <2>4. req[r].token.key[1] = "mantle"
    BY <2>2, <2>3, TrustAssumption DEF VerifyDelegation, VerifyService, VerifyJwt
  <2>5. ClientId \in req[r].token.aud
    <3>1. {ClientId} # AnyAudience => req[r].token.aud \cap {ClientId} # {}
      BY <2>2 DEF VerifyDelegation, VerifyService, VerifyJwt
    <3>2. QED BY <3>1, AuthAssumption DEF AnyAudience
  <2>6. AddressedToMe(req[r].token)
    BY <2>2, <2>4, <2>5, AuthAssumption
    DEF AddressedToMe, VerifyDelegation, VerifyService, VerifyJwt
  <2>7. QED BY <1>1, <2>1, <2>6, Serves
<1>3. CASE ~MintedByMantle(req[r].token)
  <2>1. To(r, "origin") /\ verifying' = verifying /\ verifying = r
    BY <1>1, <1>3 DEF MantleDelegation, Verifies
  <2>2. QED BY <1>1, <2>1, GoesOn
<1>4. QED BY <1>2, <1>3

\* Under a manifest that a verifier holds, Origin's signature is Origin's.
LEMMA OriginSigned ==
  ASSUME IInv, NEW r \in Request, NEW ph, Verifies(r, ph), req[r].token # NoToken,
         VerifyJwt(req[r].token, Held, "origin", AnyAudience, NoOne)
  PROVE  Held \in Versions /\ IsJwt(req[r].token) /\ req[r].token.key[1] = "origin"
BY TrustAssumption DEF VerifyJwt

LEMMA OriginKeeps ==
  ASSUME IInv, NEW r \in Request, OriginDelegation(r)
  PROVE  IInv'
<1> DEFINE t == req[r].token
<1>1. Verifies(r, "origin") /\ verifying = r
  BY DEF OriginDelegation, Verifies
<1>2. CASE MintedByOrigin(t)
  <2>1. Admit(r, t, NoToken, NoOne)
    BY <1>2 DEF OriginDelegation
  <2>2. IsJwt(t) /\ t.key[1] = "origin"
    BY <1>1, <1>2, OriginSigned DEF MintedByOrigin
  <2>3. AddressedToMe(t)
    BY <1>2, <2>2 DEF MintedByOrigin, AddressedToMe
  <2>4. QED BY <1>1, <2>1, <2>3, Serves
<1>3. CASE ~MintedByOrigin(t) /\ IsGrantKey(t)
  <2>1. Admit(r, t, t, NoOne)
    BY <1>3 DEF OriginDelegation
  <2>2. QED BY <1>1, <1>3, <2>1, Serves
<1>4. CASE ~MintedByOrigin(t) /\ ~IsGrantKey(t)
  <2>1. (To(r, "service") \/ To(r, "user")) /\ verifying' = verifying
    BY <1>4 DEF OriginDelegation
  <2>2. CASE To(r, "service")
    BY <1>1, <2>1, <2>2, GoesOn
  <2>3. CASE To(r, "user")
    BY <1>1, <2>1, <2>3, GoesOn
  <2>4. QED BY <2>1, <2>2, <2>3
<1>5. QED BY <1>2, <1>3, <1>4

LEMMA ServiceKeeps ==
  ASSUME IInv, NEW r \in Request, PlatformService(r)
  PROVE  IInv'
<1>1. Verifies(r, "service") /\ verifying = r
  BY DEF PlatformService, Verifies
<1>2. \/ Admit(r, NoToken, NoToken, req[r].token.iss)
      \/ To(r, "user") /\ verifying' = verifying
  BY DEF PlatformService
<1>3. CASE Admit(r, NoToken, NoToken, req[r].token.iss)
  BY <1>1, <1>3, Serves
<1>4. CASE To(r, "user") /\ verifying' = verifying
  BY <1>1, <1>4, GoesOn
<1>5. QED BY <1>2, <1>3, <1>4

LEMMA SignatureKeeps ==
  ASSUME IInv, NEW r \in Request, UserSignature(r)
  PROVE  IInv'
<1> DEFINE t == req[r].token
<1>1. Verifies(r, "user") /\ verifying = r
  BY DEF UserSignature, Verifies
<1>2. CASE t # NoToken /\ VerifyJwt(t, Held, "origin", AnyAudience, NoOne)
  <2>1. Held \in Versions /\ IsJwt(t) /\ t.key[1] = "origin"
    BY <1>1, <1>2, OriginSigned
  <2>2. req' = [req EXCEPT ![r] = [[req[r] EXCEPT !.phase = "issuer"] EXCEPT !.under = {Held}]]
        /\ verifying' = verifying
    BY <1>2 DEF UserSignature
  <2>3. DOMAIN req = Request /\ DOMAIN req[r] = Fields
    BY DEF IInv, TypeOK
  <2>4. req'[r] = [[req[r] EXCEPT !.phase = "issuer"] EXCEPT !.under = {Held}]
        /\ DOMAIN req' = Request /\ \A s \in Request : s # r => req'[s] = req[s]
    BY <2>2, <2>3
  <2>5. /\ DOMAIN req'[r] = Fields /\ req'[r].phase = "issuer" /\ req'[r].under = {Held}
        /\ req'[r].token = t /\ req'[r].stored = req[r].stored /\ req'[r].since = req[r].since
    BY <2>3, <2>4 DEF Fields
  <2>6. Sound(req[r]) /\ Recent(req[r]) /\ req[r].phase = "user"
    BY <1>1 DEF IInv, Verifies
  <2>7. Sound(req'[r])
    BY <2>1, <2>5, <2>6 DEF Sound
  <2>8. \A v \in {Held} : req[r].since <= v
    BY <1>1, <2>1, HeldRecent
  <2>9. \A s \in Request : DOMAIN req'[s] = Fields
    BY <2>4, <2>5 DEF IInv, TypeOK
  <2>10. load' = load /\ load["loop"] = "no" /\ got' = NoOne
         /\ UNCHANGED <<disk, newest, manifest, lock, text, floor>>
    BY <1>1 DEF Verifies
  <2>11. QED BY <1>1, <2>1, <2>2, <2>4, <2>5, <2>6, <2>7, <2>8, <2>9, <2>10, OneRequest DEF Recent
<1>3. CASE ~(t # NoToken /\ VerifyJwt(t, Held, "origin", AnyAudience, NoOne))
  <2>1. Unidentified(r)
    BY <1>3 DEF UserSignature
  <2>2. QED BY <1>1, <2>1, UnidentifiedKeeps
<1>4. QED BY <1>2, <1>3

LEMMA ClaimsKeep ==
  ASSUME IInv, NEW r \in Request, UserClaims(r)
  PROVE  IInv'
<1> DEFINE t == req[r].token
<1>1. Verifies(r, "issuer") /\ verifying = r /\ req[r].phase = "issuer"
  BY DEF UserClaims, Verifies
<1>2. CASE Held \in Versions /\ CallerAccepted(t, IssuerAt[Held], {})
  <2>1. To(r, "exchange") /\ verifying' = NoOne
    BY <1>2 DEF UserClaims
  <2>2. IsJwt(t) /\ t.key[1] = "origin"
    BY <1>1 DEF IInv, Sound
  <2>3. PrincipalType(t) # "delegation"
    BY <1>2 DEF CallerAccepted, AnyAudience
  <2>4. NamesACaller(t)
    BY <1>2, <2>2, <2>3 DEF CallerAccepted, NamesACaller, PurposeRefused
  <2>5. QED BY <1>1, <2>1, <2>4, GoesOn
<1>3. CASE ~(Held \in Versions /\ CallerAccepted(t, IssuerAt[Held], {}))
  <2>1. Unidentified(r)
    BY <1>3 DEF UserClaims
  <2>2. QED BY <1>1, <2>1, UnidentifiedKeeps
<1>4. QED BY <1>2, <1>3

\* A request whose exchange was asked for is served with what it minted, for
\* its own bearer, or ends.
LEMMA ExchangeKeeps ==
  ASSUME IInv, NEW r \in Request, ExchangeAnswers(r)
  PROVE  IInv'
<1> DEFINE t == req[r].token
<1>1. PICK minted \in {OriginMints(t), NoToken} : ExchangeEnds(r, minted)
  BY DEF ExchangeAnswers
<1>2. /\ req[r].phase = "exchange" /\ verifying = NoOne /\ load["loop"] = "no"
      /\ UNCHANGED cacheVars /\ verifying' = verifying
  BY <1>1 DEF ExchangeEnds, LoopFree
<1>3. Sound(req[r]) /\ Recent(req[r]) /\ NamesACaller(t) /\ req[r].stored = NoToken /\ TypeOK
  BY <1>2 DEF IInv, Sound
<1>4. got = NoOne
  BY <1>2, AuthAssumption DEF IInv, CacheFresh
<1>5. CASE minted # NoToken
  <2>1. IsJwt(minted) /\ minted.sub = t.sub
    BY <1>5 DEF OriginMints, OriginToken, IsJwt, IsGrantKey
  <2>2. req' = [req EXCEPT ![r] = [[[req[r] EXCEPT !.phase = "app"] EXCEPT !.stored = minted]
                                   EXCEPT !.caller = t]]
    BY <1>1, <1>5 DEF ExchangeEnds
  <2>3. DOMAIN req = Request /\ DOMAIN req[r] = Fields
    BY <1>3 DEF TypeOK
  <2>4. /\ req'[r] = [[[req[r] EXCEPT !.phase = "app"] EXCEPT !.stored = minted] EXCEPT !.caller = t]
        /\ DOMAIN req' = Request /\ \A s \in Request : s # r => req'[s] = req[s]
    BY <2>2, <2>3
  <2>5. /\ DOMAIN req'[r] = Fields /\ req'[r].phase = "app" /\ req'[r].under = req[r].under
        /\ req'[r].token = t /\ req'[r].stored = minted /\ req'[r].caller = t
        /\ req'[r].since = req[r].since
    BY <2>3, <2>4 DEF Fields
  <2>6. Sound(req'[r])
    BY <1>3, <2>1, <2>5 DEF Sound, Rightful
  <2>7. \A s \in Request : DOMAIN req'[s] = Fields
    BY <1>3, <2>4, <2>5 DEF TypeOK
  <2>8. QED BY <1>2, <1>3, <1>4, <2>4, <2>5, <2>6, <2>7, OneRequest DEF Recent, cacheVars
<1>6. CASE minted = NoToken
  <2>1. Answer(r) \/ To(r, "app")
    BY <1>1, <1>6 DEF ExchangeEnds
  <2>2. CASE Answer(r)
    BY <1>2, <1>4, <2>2, Ends DEF cacheVars
  <2>3. CASE To(r, "app")
    <3>1. Sound(req'[r])
      BY <1>3, <2>3, OneField DEF Sound, Rightful
    <3>2. QED BY <1>2, <1>3, <1>4, <2>3, <3>1, OneField, OneRequest DEF Recent, cacheVars
  <2>4. QED BY <2>1, <2>2, <2>3
<1>7. QED BY <1>5, <1>6

LEMMA ReturnKeeps ==
  ASSUME IInv, NEW r \in Request, AppReturns(r)
  PROVE  IInv'
<1>1. Answer(r) /\ UNCHANGED cacheVars /\ verifying' = verifying /\ verifying = NoOne /\ load["loop"] = "no"
  BY DEF AppReturns, LoopFree
<1>2. got = NoOne
  BY <1>1, AuthAssumption DEF IInv, CacheFresh
<1>3. QED BY <1>1, <1>2, Ends DEF cacheVars

LEMMA NothingMoves ==
  ASSUME IInv, UNCHANGED <<cacheVars, verifying, req>>
  PROVE  IInv'
BY DEF IInv, TypeOK, CacheFresh, Sound, Rightful, Recent, cacheVars, Held

LEMMA Inductive == AuthSpec => []IInv
<1>1. AuthInit => IInv
  <2> SUFFICES ASSUME AuthInit PROVE IInv
    OBVIOUS
  <2>1. DOMAIN Quiet = Fields
    BY DEF Quiet, Fields
  <2>2. TypeOK
    BY <2>1, TrustAssumption DEF AuthInit, TypeOK, Thread
  <2>3. CacheFresh
    BY VersionsAreNat, AuthAssumption DEF AuthInit, CacheFresh, Thread
  <2>4. \A r \in Request : Sound(req[r]) /\ Recent(req[r])
    BY DEF AuthInit, Sound, Recent, Quiet
  <2>5. QED BY <2>2, <2>3, <2>4 DEF IInv
<1>2. IInv /\ [AuthNext]_authVars => IInv'
  <2> SUFFICES ASSUME IInv, [AuthNext]_authVars PROVE IInv'
    OBVIOUS
  <2>1. CASE CacheNext /\ UNCHANGED <<up, verifying, req>>
    BY <2>1, CacheKeeps
  <2>2. ASSUME NEW r \in Request, Middleware(r) PROVE IInv'
    BY <2>2, AskKeeps, RaisedKeeps, MantleKeeps, OriginKeeps, ServiceKeeps, SignatureKeeps,
       ClaimsKeep, ExchangeKeeps, ReturnKeeps DEF Middleware
  <2>3. ASSUME NEW r \in Request, NEW t \in Bearer[r], Arrive(r, t) PROVE IInv'
    BY <2>3, ArriveKeeps
  <2>4. CASE Startup \/ UNCHANGED authVars
    BY <2>4, NothingMoves DEF Startup, authVars
  <2>5. QED BY <2>1, <2>2, <2>3, <2>4 DEF AuthNext
<1>3. QED BY <1>1, <1>2, PTL DEF AuthSpec

\* Nobody but a person's own bearer, delegation or grant key gives a request
\* that person's authority, whichever of the five routes it took, for every
\* manifest, token and interleaving of requests (server_auth.py 536-573).
THEOREM NoStrangers == AuthSpec => []StrangersRefused
<1>1. IInv => StrangersRefused
  BY SoundIsEnough
<1>2. QED BY <1>1, Inductive, PTL

\* No request that arrived after a reload is verified under what the reload
\* dropped, for every interleaving of the two threads at the lock
\* (authority_trust.py 84-126).
THEOREM NoRevokedKeys == AuthSpec => []RevokedKeysRefused
<1>1. IInv => RevokedKeysRefused
  BY SoundIsEnough
<1>2. QED BY <1>1, Inductive, PTL


-----------------------------------------------------------------------------
(* A host's directory of API keys: a removed key is refused in time.        *)

HostSpec == HostInit /\ [][HostNext]_hostAuthVars

FilesOK ==
  /\ dirState \in {"ok", "gone", "broken"} /\ edits \in Nat
  /\ files \in [KeyFile -> [keys : SUBSET ApiKey, stamp : Nat, locked : BOOLEAN]]
  /\ \A f \in KeyFile : files[f] = Gone \/ files[f].stamp \in 1..edits
  /\ lately \in [ApiKey -> 0..RefreshS]
  /\ \A k \in ApiKey : Holds(k, files, dirState) => lately[k] = 0

Signature == UNION {[F -> 1..edits] : F \in SUBSET KeyFile}

\* A file vouches for a key of a signature: while it carries its stamp it still
\* holds the key, and if it carried it when it was seen, the key is not behind.
Vouches(f, k, sig, seen) ==
  /\ files[f].stamp = sig[f] => k \in files[f].keys
  /\ f \in DOMAIN seen /\ seen[f] = sig[f] => lately[k] = 0

\* A signature stands for keys that its files vouch for: a stamp is never used
\* again.  `seen` are the stamps that the refresh under way has seen.
Stands(sig, keys, seen) ==
  /\ sig \in Signature
  /\ \A k \in keys : \E f \in DOMAIN sig : Vouches(f, k, sig, seen)

Refreshing == step \in {"scan", "stat", "read"}

\* The cached keys are no further behind than the last scan; those a refresh
\* gathers are not behind at all, for it is over within a tick.
CacheOK ==
  /\ age \in 0..RefreshS /\ dirKeys \subseteq ApiKey /\ keysRead \subseteq ApiKey
  /\ listing \subseteq KeyFile /\ statted \in Signature
  /\ IF dirSig = Unsigned THEN dirKeys = {} ELSE Stands(dirSig, dirKeys, statted)
  /\ step = "read" => Stands(statted, keysRead, NoSig) /\ listing \subseteq DOMAIN statted
  /\ ~Refreshing => statted = NoSig /\ \A k \in dirKeys : lately[k] <= age
  /\ Refreshing => age = 0 /\ \A k \in keysRead : lately[k] = 0
  /\ step # "read" => keysRead = {}

\* What was admitted in this tick was held within the last interval.
Admitted1 == admitted.keys \subseteq ApiKey /\ RevokedInTime

HostIInv == FilesOK /\ CacheOK /\ Admitted1

LEMMA SeenIsZero ==
  ASSUME NEW fs, NEW state, lately \in [ApiKey -> 0..RefreshS],
         NEW s, s = Seen(fs, state)
  PROVE  /\ s \in [ApiKey -> 0..RefreshS]
         /\ \A k \in ApiKey : s[k] <= lately[k]
         /\ \A k \in ApiKey : Holds(k, fs, state) => s[k] = 0
BY HostAssumption DEF Seen

\* What edits of the directory come to: they age nothing, and give a file a
\* stamp that no signature has.
Moved ==
  /\ FilesOK' /\ edits <= edits'
  /\ \A k \in ApiKey : lately'[k] <= lately[k]
  /\ \A f \in KeyFile : \/ files'[f].keys = files[f].keys /\ files'[f].stamp = files[f].stamp
                        \/ files'[f].stamp \notin 1..edits

LEMMA EditMoves ==
  ASSUME FilesOK, NEW f \in KeyFile, Edit(f)
  PROVE  Moved
<1>1. PICK ks \in SUBSET ApiKey, locked \in BOOLEAN :
        files' = [files EXCEPT ![f] = [keys |-> ks, stamp |-> edits + 1, locked |-> locked]]
  BY DEF Edit
<1>2. edits' = edits + 1 /\ lately' = Seen(files', dirState) /\ dirState' = dirState
  BY DEF Edit
<1>3. /\ files' \in [KeyFile -> [keys : SUBSET ApiKey, stamp : Nat, locked : BOOLEAN]]
      /\ files'[f].stamp = edits + 1
      /\ \A g \in KeyFile \ {f} : files'[g] = files[g]
  BY <1>1 DEF FilesOK
<1>4. PICK fs, s : fs = files' /\ s = lately' /\ s = Seen(fs, dirState)
  BY <1>2
<1>5. /\ s \in [ApiKey -> 0..RefreshS] /\ \A k \in ApiKey : s[k] <= lately[k]
      /\ \A k \in ApiKey : Holds(k, fs, dirState) => s[k] = 0
  BY <1>4, SeenIsZero DEF FilesOK
<1>6. \A g \in KeyFile : files'[g] = Gone \/ files'[g].stamp \in 1..edits'
  BY <1>2, <1>3 DEF FilesOK
<1>7. \A k \in ApiKey : Holds(k, files, dirState)' => lately'[k] = 0
  BY <1>2, <1>4, <1>5 DEF Holds
<1>8. FilesOK'
  BY <1>2, <1>3, <1>4, <1>5, <1>6, <1>7 DEF FilesOK
<1>9. QED BY <1>2, <1>3, <1>4, <1>5, <1>8 DEF Moved, FilesOK

LEMMA RemoveMoves ==
  ASSUME FilesOK, NEW f \in KeyFile, Remove(f) \/ Unlock(f)
  PROVE  Moved
<1>1. UNCHANGED <<dirState, edits, lately>>
  BY DEF Remove, Unlock
<1>2. /\ files' \in [KeyFile -> [keys : SUBSET ApiKey, stamp : Nat, locked : BOOLEAN]]
      /\ \A g \in KeyFile \ {f} : files'[g] = files[g]
      /\ \/ files'[f] = Gone
         \/ files'[f].keys = files[f].keys /\ files'[f].stamp = files[f].stamp /\ files[f] # Gone
  <2>1. CASE Remove(f)
    BY <2>1 DEF Remove, FilesOK, Gone
  <2>2. CASE Unlock(f)
    <3>1. files' = [files EXCEPT ![f] = [files[f] EXCEPT !.locked = FALSE]] /\ files[f].locked
      BY <2>2 DEF Unlock, FilesOK
    <3>2. PICK g \in [keys : SUBSET ApiKey, stamp : Nat, locked : BOOLEAN] : g = files[f]
      BY DEF FilesOK
    <3>3. /\ [g EXCEPT !.locked = FALSE] \in [keys : SUBSET ApiKey, stamp : Nat, locked : BOOLEAN]
          /\ [g EXCEPT !.locked = FALSE].keys = g.keys /\ [g EXCEPT !.locked = FALSE].stamp = g.stamp
      OBVIOUS
    <3>4. files[f] # Gone
      BY <3>1 DEF Gone
    <3>5. QED BY <3>1, <3>2, <3>3, <3>4 DEF FilesOK
  <2>3. QED BY <2>1, <2>2
<1>3. \A g \in KeyFile : files'[g].keys \subseteq files[g].keys
  BY <1>2 DEF Gone
<1>4. \A k \in ApiKey : Holds(k, files, dirState)' => Holds(k, files, dirState)
  BY <1>1, <1>3 DEF Holds
<1>5. \A g \in KeyFile : files'[g] = Gone \/ files'[g].stamp \in 1..edits'
  BY <1>1, <1>2 DEF FilesOK
<1>6. FilesOK'
  BY <1>1, <1>2, <1>4, <1>5 DEF FilesOK
<1>7. QED BY <1>1, <1>2, <1>6 DEF Moved, FilesOK, Gone

LEMMA DirMoves ==
  ASSUME FilesOK, NEW state \in {"ok", "gone", "broken"}, DirTurns(state)
  PROVE  Moved
<1>1. edits' = edits + 1 /\ dirState' = state /\ files' = files /\ lately' = Seen(files, state)
  BY DEF DirTurns
<1>2. PICK s : s = lately' /\ s = Seen(files, state)
  BY <1>1
<1>3. /\ s \in [ApiKey -> 0..RefreshS] /\ \A k \in ApiKey : s[k] <= lately[k]
      /\ \A k \in ApiKey : Holds(k, files, state) => s[k] = 0
  BY <1>2, SeenIsZero DEF FilesOK
<1>4. \A k \in ApiKey : Holds(k, files, dirState)' => lately'[k] = 0
  BY <1>1, <1>2, <1>3 DEF Holds
<1>5. FilesOK'
  BY <1>1, <1>2, <1>3, <1>4 DEF FilesOK
<1>6. QED BY <1>1, <1>2, <1>3, <1>5 DEF Moved, FilesOK

LEMMA StandsStill ==
  ASSUME FilesOK, Moved, NEW sig, NEW keys \in SUBSET ApiKey, NEW seen, Stands(sig, keys, seen)
  PROVE  Stands(sig, keys, seen)'
<1>1. PICK F \in SUBSET KeyFile : sig \in [F -> 1..edits]
  BY DEF Stands, Signature
<1>2. sig \in [F -> 1..edits'] /\ DOMAIN sig = F
  BY <1>1 DEF Moved, FilesOK
<1>3. ASSUME NEW k \in keys PROVE \E f \in DOMAIN sig : Vouches(f, k, sig, seen)'
  <2>1. PICK f \in F : Vouches(f, k, sig, seen)
    BY <1>2 DEF Stands
  <2>2. files'[f].stamp = sig[f] => k \in files'[f].keys
    BY <1>1, <2>1 DEF Moved, Vouches
  <2>3. lately[k] = 0 => lately'[k] = 0
    BY DEF Moved, FilesOK
  <2>4. QED BY <1>2, <2>1, <2>2, <2>3 DEF Vouches
<1>4. QED BY <1>2, <1>3 DEF Stands, Signature

LEMMA FileSystemKeeps ==
  ASSUME HostIInv, FileSystem
  PROVE  HostIInv'
<1>1. UNCHANGED <<dirKeys, dirSig, age, step, listing, statted, keysRead, admitted>>
  BY DEF FileSystem, cachedVars, callVars
<1>2. Moved
  BY EditMoves, RemoveMoves, DirMoves DEF FileSystem, HostIInv
<1>3. PICK ds, dk, st, kr : ds = dirSig /\ dk = dirKeys /\ st = statted /\ kr = keysRead
  OBVIOUS
<1>4. /\ Stands(ds, dk, st) => Stands(ds, dk, st)'
      /\ Stands(st, kr, NoSig) => Stands(st, kr, NoSig)'
  BY <1>2, <1>3, StandsStill DEF HostIInv, CacheOK
<1>5. /\ Stands(dirSig, dirKeys, statted) => Stands(dirSig, dirKeys, statted)'
      /\ Stands(statted, keysRead, NoSig) => Stands(statted, keysRead, NoSig)'
  BY <1>1, <1>3, <1>4 DEF Stands, Signature, Vouches, NoSig
<1>6. \A k \in ApiKey : lately'[k] <= lately[k] /\ lately[k] \in Nat /\ lately'[k] \in Nat
  BY <1>2 DEF Moved, HostIInv, FilesOK
<1>7. statted' \in Signature'
  <2>1. PICK F \in SUBSET KeyFile : statted \in [F -> 1..edits]
    BY DEF HostIInv, CacheOK, Signature
  <2>2. statted' \in [F -> 1..edits']
    BY <1>1, <1>2, <2>1 DEF Moved, HostIInv, FilesOK
  <2>3. QED BY <2>2 DEF Signature
<1>8. CacheOK'
  BY <1>1, <1>5, <1>6, <1>7 DEF HostIInv, CacheOK, Refreshing
<1>9. Admitted1'
  BY <1>1, <1>6, HostAssumption DEF HostIInv, Admitted1, RevokedInTime
<1>10. QED BY <1>2, <1>8, <1>9 DEF HostIInv, Moved

\* Nothing has been seen: then no key is vouched for as not behind.
LEMMA StandsUnseen ==
  ASSUME NEW sig, NEW keys, NEW seen, Stands(sig, keys, seen)
  PROVE  Stands(sig, keys, NoSig)
BY DEF Stands, Vouches, NoSig

\* A tick ages the cached keys and the throttle alike.
LEMMA TickAges ==
  ASSUME HostIInv, Tick
  PROVE  HostIInv'
<1>1. /\ ~Refreshing
      /\ UNCHANGED <<files, dirState, edits, dirKeys, dirSig, step, listing, statted, keysRead>>
      /\ age' = IF age < RefreshS THEN age + 1 ELSE age
      /\ lately' = [k \in ApiKey |-> IF Holds(k, files, dirState) THEN 0
                                  ELSE IF lately[k] < RefreshS THEN lately[k] + 1 ELSE lately[k]]
      /\ admitted' = Nobody
  BY DEF Tick, Refreshing
<1>2. /\ lately' \in [ApiKey -> 0..RefreshS] /\ age' \in 0..RefreshS
      /\ \A k \in ApiKey : Holds(k, files, dirState) => lately'[k] = 0
      /\ \A k \in ApiKey : lately[k] <= age => lately'[k] <= age'
  BY <1>1, HostAssumption DEF HostIInv, FilesOK, CacheOK
<1>3. FilesOK'
  BY <1>1, <1>2 DEF HostIInv, FilesOK, Holds
<1>4. \A s, K : Stands(s, K, NoSig)' <=> Stands(s, K, NoSig)
  BY <1>1 DEF Stands, Signature, Vouches, NoSig
<1>5. statted = NoSig /\ statted' = NoSig /\ step # "read" /\ keysRead = {}
  BY <1>1 DEF HostIInv, CacheOK, Refreshing
<1>6. IF dirSig' = Unsigned THEN dirKeys' = {} ELSE Stands(dirSig, dirKeys, statted)'
  BY <1>1, <1>4, <1>5 DEF HostIInv, CacheOK, Stands, Signature, Vouches, NoSig
<1>7. CacheOK'
  BY <1>1, <1>2, <1>5, <1>6 DEF HostIInv, CacheOK, Signature, Refreshing
<1>8. Admitted1'
  BY <1>1 DEF Nobody, Admitted1, RevokedInTime
<1>9. QED BY <1>3, <1>7, <1>8 DEF HostIInv

\* A step that leaves the files alone leaves every signature standing.
LEMMA FilesRest ==
  ASSUME HostIInv, UNCHANGED dirVars
  PROVE  /\ FilesOK' /\ \A s, K, n : Stands(s, K, n)' <=> Stands(s, K, n)
         /\ lately' = lately /\ Signature' = Signature
<1>1. FilesOK'
  BY DEF HostIInv, FilesOK, dirVars, Holds
<1>2. QED BY <1>1 DEF dirVars, Stands, Signature, Vouches

\* A look that finds keys, none further behind than the last scan or the
\* interval, keeps them so, and what it decides rests on them.
LEMMA FindsKeep ==
  ASSUME HostIInv, UNCHANGED <<dirVars, age>>, NEW keys \in SUBSET ApiKey,
         Finds(keys), dirKeys' = keys,
         \A k \in keys : lately[k] <= age /\ lately[k] < RefreshS,
         IF dirSig' = Unsigned THEN keys = {} ELSE Stands(dirSig', keys, NoSig)
  PROVE  HostIInv'
<1>1. /\ listing' = {} /\ statted' = NoSig /\ keysRead' = {}
      /\ step' \in {"idle", "jwt", "look"}
      /\ admitted'.keys \in {{}, asks \cap (Inline \cup keys), admitted.keys}
  BY DEF Finds, Decides, Nobody
<1>2. FilesOK' /\ lately' = lately /\ Signature' = Signature
  BY FilesRest
<1>3. IF dirSig' = Unsigned THEN dirKeys' = {} ELSE Stands(dirSig, dirKeys, statted)'
  BY <1>1 DEF Stands, Signature, Vouches, dirVars, NoSig
<1>4. NoSig \in Signature
  <2>1. NoSig \in [{} -> 1..edits]
    BY DEF NoSig
  <2>2. QED BY <2>1 DEF Signature
<1>5. CacheOK'
  BY <1>1, <1>2, <1>3, <1>4 DEF HostIInv, CacheOK, Refreshing
<1>6. Admitted1'
  BY <1>1, <1>2, HostAssumption DEF HostIInv, Admitted1, RevokedInTime
<1>7. QED BY <1>2, <1>5, <1>6 DEF HostIInv

LEMMA LookKeeps ==
  ASSUME HostIInv, Look
  PROVE  HostIInv'
<1>1. /\ step = "look" /\ ~Refreshing /\ UNCHANGED <<dirVars, dirKeys, dirSig>>
      /\ keysRead = {} /\ statted = NoSig
  BY DEF Look, HostIInv, CacheOK, Refreshing
<1>2. FilesOK' /\ lately' = lately /\ Signature' = Signature
      /\ \A s, K, n : Stands(s, K, n)' <=> Stands(s, K, n)
  BY <1>1, FilesRest
<1>3. CASE Throttled
  <2>1. Finds(dirKeys) /\ age' = age
    BY <1>3 DEF Look
  <2>2. PICK keys \in SUBSET ApiKey : keys = dirKeys
    BY DEF HostIInv, CacheOK
  <2>3. \A k \in keys : lately[k] <= age /\ lately[k] < RefreshS
    BY <1>1, <1>3, <2>2, HostAssumption DEF HostIInv, CacheOK, FilesOK, Throttled
  <2>4. IF dirSig' = Unsigned THEN keys = {} ELSE Stands(dirSig', keys, NoSig)
    BY <1>1, <2>2 DEF HostIInv, CacheOK
  <2>5. QED BY <1>1, <2>1, <2>2, <2>3, <2>4, FindsKeep
<1>4. CASE ~Throttled
  <2>1. step' = "scan" /\ age' = 0 /\ UNCHANGED <<listing, statted, keysRead, admitted>>
    BY <1>4 DEF Look
  <2>2. IF dirSig' = Unsigned THEN dirKeys' = {} ELSE Stands(dirSig, dirKeys, statted)'
    BY <1>1, <2>1 DEF HostIInv, CacheOK, Stands, Signature, Vouches, dirVars
  <2>3. 0 \in 0..RefreshS
    BY HostAssumption
  <2>4. CacheOK'
    BY <1>1, <1>2, <2>1, <2>2, <2>3 DEF HostIInv, CacheOK, Refreshing
  <2>5. Admitted1'
    BY <1>2, <2>1 DEF HostIInv, Admitted1, RevokedInTime
  <2>6. QED BY <1>2, <2>4, <2>5 DEF HostIInv
<1>5. QED BY <1>3, <1>4

\* The ways a refresh ends: no keys, those cached, or those read, and none of
\* them is behind.
LEMMA RefreshEnds ==
  ASSUME HostIInv, Refreshing, UNCHANGED <<dirVars, age>>, NEW keys \in SUBSET ApiKey,
         Finds(keys), dirKeys' = keys, \A k \in keys : lately[k] = 0,
         IF dirSig' = Unsigned THEN keys = {} ELSE Stands(dirSig', keys, NoSig)
  PROVE  HostIInv'
<1>1. \A k \in keys : lately[k] <= age /\ lately[k] < RefreshS
  BY HostAssumption DEF HostIInv, CacheOK
<1>2. QED BY <1>1, FindsKeep

\* A directory that is gone: no keys, and the empty signature.
LEMMA VanishedKeeps ==
  ASSUME HostIInv, Refreshing, UNCHANGED <<dirVars, age>>, Vanished
  PROVE  HostIInv'
<1>1. Stands(NoSig, {}, NoSig)
  <2>1. NoSig \in [{} -> 1..edits] /\ {} \in SUBSET KeyFile
    BY DEF NoSig
  <2>2. QED BY <2>1 DEF Stands, Signature
<1>2. dirKeys' = {} /\ dirSig' = NoSig /\ Finds({})
  BY DEF Vanished
<1>3. QED BY <1>1, <1>2, RefreshEnds

\* The cached keys are kept, and none of them is behind.
LEMMA KeptKeeps ==
  ASSUME HostIInv, Refreshing, UNCHANGED <<dirVars, age>>, Kept, \A k \in dirKeys : lately[k] = 0
  PROVE  HostIInv'
<1>1. Finds(dirKeys) /\ UNCHANGED <<dirKeys, dirSig>>
  BY DEF Kept
<1>2. PICK keys \in SUBSET ApiKey : keys = dirKeys
  BY DEF HostIInv, CacheOK
<1>3. IF dirSig' = Unsigned THEN keys = {} ELSE Stands(dirSig', keys, NoSig)
  BY <1>1, <1>2, StandsUnseen DEF HostIInv, CacheOK
<1>4. QED BY <1>1, <1>2, <1>3, RefreshEnds

\* A directory that cannot be read may still hold every key.
LEMMA BrokenKeeps ==
  ASSUME HostIInv, Refreshing, UNCHANGED <<dirVars, age>>, dirState = "broken", Kept
  PROVE  HostIInv'
<1>1. \A k \in dirKeys : lately[k] = 0
  BY DEF HostIInv, FilesOK, CacheOK, Holds
<1>2. QED BY <1>1, KeptKeeps

LEMMA ScanKeeps ==
  ASSUME HostIInv, Scan
  PROVE  HostIInv'
<1>1. step = "scan" /\ Refreshing /\ UNCHANGED <<dirVars, age>>
  BY DEF Scan, Refreshing
<1>2. CASE Vanished
  BY <1>1, <1>2, VanishedKeeps
<1>3. CASE dirState = "broken" /\ Kept
  BY <1>1, <1>3, BrokenKeeps
<1>4. CASE /\ step' = "stat" /\ listing' = {f \in KeyFile : files[f] # Gone}
           /\ UNCHANGED <<statted, keysRead, admitted, dirKeys, dirSig>>
  <2>1. FilesOK' /\ lately' = lately /\ Signature' = Signature
    BY <1>1, FilesRest
  <2>2. IF dirSig' = Unsigned THEN dirKeys' = {} ELSE Stands(dirSig, dirKeys, statted)'
    BY <1>1, <1>4 DEF HostIInv, CacheOK, Stands, Signature, Vouches, dirVars
  <2>3. CacheOK'
    BY <1>1, <1>4, <2>1, <2>2 DEF HostIInv, CacheOK, Refreshing
  <2>4. QED BY <1>4, <2>1, <2>3 DEF HostIInv, Admitted1, RevokedInTime
<1>5. QED BY <1>2, <1>3, <1>4 DEF Scan

\* A file whose stamp is the cached one is seen to hold the keys it vouches for.
LEMMA StatKeeps ==
  ASSUME HostIInv, NEW f \in KeyFile, StatFile(f)
  PROVE  HostIInv'
<1>1. step = "stat" /\ Refreshing /\ UNCHANGED <<dirVars, age>> /\ f \in listing
  BY DEF StatFile, Refreshing
<1>2. CASE Vanished
  BY <1>1, <1>2, VanishedKeeps
<1>3. CASE dirState = "broken" /\ Kept
  BY <1>1, <1>3, BrokenKeeps
<1>4. CASE /\ dirState = "ok" /\ files[f] # Gone
           /\ statted' = [g \in DOMAIN statted \cup {f} |->
                            IF g = f THEN files[f].stamp ELSE statted[g]]
           /\ UNCHANGED <<step, listing, keysRead, admitted, dirKeys, dirSig>>
  <2>1. FilesOK' /\ lately' = lately /\ Signature' = Signature
    BY <1>1, FilesRest
  <2>2. PICK F \in SUBSET KeyFile : statted \in [F -> 1..edits]
    BY DEF HostIInv, CacheOK, Signature
  <2>3. files[f].stamp \in 1..edits
    BY <1>4 DEF HostIInv, FilesOK
  <2>4. statted' \in [F \cup {f} -> 1..edits] /\ F \cup {f} \in SUBSET KeyFile
    BY <1>4, <2>2, <2>3
  <2>5. statted' \in Signature'
    BY <2>1, <2>4 DEF Signature
  <2>6. ASSUME NEW k \in dirKeys, NEW g \in KeyFile, Vouches(g, k, dirSig, statted)
        PROVE  Vouches(g, k, dirSig, statted)'
    <3>1. files[f].stamp = dirSig[g] /\ g = f => lately[k] = 0
      BY <1>4, <2>6 DEF Vouches, HostIInv, FilesOK, CacheOK, Holds
    <3>2. QED BY <1>1, <1>4, <2>1, <2>2, <2>4, <2>6, <3>1 DEF Vouches, dirVars
  <2>7. IF dirSig' = Unsigned THEN dirKeys' = {} ELSE Stands(dirSig, dirKeys, statted)'
    <3>1. CASE dirSig = Unsigned
      BY <1>4, <3>1 DEF HostIInv, CacheOK
    <3>2. CASE dirSig # Unsigned
      <4>1. Stands(dirSig, dirKeys, statted)
        BY <3>2 DEF HostIInv, CacheOK
      <4>2. DOMAIN dirSig \subseteq KeyFile /\ dirSig \in Signature
        BY <4>1 DEF Stands, Signature
      <4>3. \A k \in dirKeys : \E g \in DOMAIN dirSig : Vouches(g, k, dirSig, statted)'
        BY <2>6, <4>1, <4>2 DEF Stands
      <4>4. QED BY <1>4, <2>1, <3>2, <4>2, <4>3 DEF Stands
    <3>3. QED BY <3>1, <3>2
  <2>8. CacheOK'
    BY <1>1, <1>4, <2>1, <2>5, <2>7 DEF HostIInv, CacheOK, Refreshing
  <2>9. QED BY <1>4, <2>1, <2>8 DEF HostIInv, Admitted1, RevokedInTime
<1>5. QED BY <1>2, <1>3, <1>4 DEF StatFile

\* An unchanged signature was seen file by file in this refresh.
LEMMA SignedKeeps ==
  ASSUME HostIInv, Signed
  PROVE  HostIInv'
<1>1. step = "stat" /\ Refreshing /\ UNCHANGED <<dirVars, age>> /\ DOMAIN statted = listing
  BY DEF Signed, Refreshing
<1>2. CASE statted = dirSig /\ Kept
  <2>1. statted # Unsigned
    <3>1. PICK F \in SUBSET KeyFile : statted \in [F -> 1..edits]
      BY DEF HostIInv, CacheOK, Signature
    <3>2. statted \in [F -> Nat]
      BY <3>1 DEF HostIInv, FilesOK
    <3>3. QED BY <3>2, HostAssumption
  <2>2. \A k \in dirKeys : lately[k] = 0
    BY <1>2, <2>1 DEF HostIInv, CacheOK, Stands, Vouches
  <2>3. QED BY <1>1, <1>2, <2>2, KeptKeeps
<1>3. CASE /\ step' = "read"
           /\ UNCHANGED <<listing, statted, keysRead, admitted, dirKeys, dirSig>>
  <2>1. FilesOK' /\ lately' = lately /\ Signature' = Signature
    BY <1>1, FilesRest
  <2>2. keysRead = {} /\ Stands(statted, {}, NoSig)
    BY <1>1 DEF HostIInv, CacheOK, Stands
  <2>3. Stands(statted, keysRead, NoSig)'
    BY <1>3, <2>1, <2>2 DEF Stands
  <2>4. IF dirSig' = Unsigned THEN dirKeys' = {} ELSE Stands(dirSig, dirKeys, statted)'
    BY <1>1, <1>3 DEF HostIInv, CacheOK, Stands, Signature, Vouches, dirVars
  <2>5. CacheOK'
    BY <1>1, <1>3, <2>1, <2>2, <2>3, <2>4 DEF HostIInv, CacheOK, Refreshing
  <2>6. QED BY <1>3, <2>1, <2>5 DEF HostIInv, Admitted1, RevokedInTime
<1>4. QED BY <1>2, <1>3 DEF Signed

\* What is read from a file now is held now.
LEMMA ReadKeeps ==
  ASSUME HostIInv, NEW f \in KeyFile, ReadFile(f)
  PROVE  HostIInv'
<1>1. /\ step = "read" /\ Refreshing /\ f \in listing /\ listing' = listing \ {f}
      /\ UNCHANGED <<dirVars, dirKeys, dirSig, age, step, statted, admitted>>
      /\ \/ keysRead' = keysRead
         \/ dirState = "ok" /\ keysRead' = keysRead \cup files[f].keys
  BY DEF ReadFile, Refreshing
<1>2. FilesOK' /\ lately' = lately /\ FilesOK /\ Signature' = Signature
  BY <1>1, FilesRest DEF HostIInv
<1>3. f \in DOMAIN statted /\ files[f].keys \subseteq ApiKey
  BY <1>1 DEF HostIInv, FilesOK, CacheOK
<1>4. dirState = "ok" => \A k \in files[f].keys : lately[k] = 0
  BY <1>2, <1>3 DEF FilesOK, Holds
<1>5. keysRead' \subseteq ApiKey /\ \A k \in keysRead' : lately'[k] = 0
  BY <1>1, <1>2, <1>3, <1>4 DEF HostIInv, FilesOK, CacheOK
<1>6. \A k \in files[f].keys : Vouches(f, k, statted, NoSig)
  BY DEF Vouches, NoSig
<1>7. \A k \in keysRead' : \E g \in DOMAIN statted : Vouches(g, k, statted, NoSig)
  BY <1>1, <1>3, <1>6 DEF HostIInv, CacheOK, Stands
<1>8. Stands(statted, keysRead, NoSig)'
  BY <1>1, <1>2, <1>7 DEF HostIInv, CacheOK, Stands, Vouches, dirVars, NoSig
<1>9. IF dirSig' = Unsigned THEN dirKeys' = {} ELSE Stands(dirSig, dirKeys, statted)'
  BY <1>1 DEF HostIInv, CacheOK, Stands, Signature, Vouches, dirVars
<1>10. CacheOK'
  BY <1>1, <1>2, <1>5, <1>8, <1>9 DEF HostIInv, CacheOK, Refreshing
<1>11. QED BY <1>1, <1>2, <1>10 DEF HostIInv, Admitted1, RevokedInTime

LEMMA StoreKeeps ==
  ASSUME HostIInv, Store
  PROVE  HostIInv'
<1>1. /\ step = "read" /\ Refreshing /\ dirKeys' = keysRead /\ dirSig' = statted
      /\ Finds(keysRead) /\ UNCHANGED <<dirVars, age>>
  BY DEF Store, Refreshing
<1>2. Stands(statted, keysRead, NoSig) /\ \A k \in keysRead : lately[k] = 0
  BY <1>1 DEF HostIInv, CacheOK
<1>3. statted # Unsigned
  <2>1. PICK F \in SUBSET KeyFile : statted \in [F -> 1..edits]
    BY <1>2 DEF Stands, Signature
  <2>2. statted \in [F -> Nat]
    BY <2>1 DEF HostIInv, FilesOK
  <2>3. QED BY <2>2, HostAssumption
<1>4. PICK keys \in SUBSET ApiKey : keys = keysRead
  BY DEF HostIInv, CacheOK
<1>5. QED BY <1>1, <1>2, <1>3, <1>4, RefreshEnds

\* The lifespan, the JWTs and the calls leave the directory and its keys alone.
LEMMA ElsewhereKeeps ==
  ASSUME HostIInv, UNCHANGED <<dirVars, dirKeys, dirSig, age, listing, statted, keysRead>>,
         step' = step \/ (~Refreshing /\ ~Refreshing'),
         admitted'.keys \in {{}, admitted.keys}
  PROVE  HostIInv'
<1>1. FilesOK' /\ lately' = lately /\ Signature' = Signature
  BY FilesRest
<1>2. IF dirSig' = Unsigned THEN dirKeys' = {} ELSE Stands(dirSig, dirKeys, statted)'
  BY DEF HostIInv, CacheOK, Stands, Signature, Vouches, dirVars
<1>3. step' = "read" => step = "read" /\ Stands(statted, keysRead, NoSig)'
  BY DEF HostIInv, CacheOK, Stands, Signature, Vouches, dirVars, Refreshing, NoSig
<1>4. CacheOK'
  BY <1>1, <1>2, <1>3 DEF HostIInv, CacheOK, Refreshing
<1>5. Admitted1'
  BY <1>1 DEF HostIInv, Admitted1, RevokedInTime
<1>6. QED BY <1>1, <1>4, <1>5 DEF HostIInv

LEMMA HostInductive == HostSpec => []HostIInv
<1>1. HostInit => HostIInv
  <2> SUFFICES ASSUME HostInit PROVE HostIInv
    OBVIOUS
  <2>1. FilesOK
    BY HostAssumption DEF HostInit, FilesOK, Gone, Holds
  <2>2. NoSig \in Signature
    <3>1. NoSig \in [{} -> 1..edits]
      BY DEF NoSig
    <3>2. QED BY <3>1 DEF Signature
  <2>3. QED BY <2>1, <2>2, HostAssumption
        DEF HostInit, HostIInv, CacheOK, Admitted1, RevokedInTime, Nobody, Refreshing
<1>2. HostIInv /\ [HostNext]_hostAuthVars => HostIInv'
  <2> SUFFICES ASSUME HostIInv, [HostNext]_hostAuthVars PROVE HostIInv'
    OBVIOUS
  <2>1. CASE WarmUp \/ Register \/ UNCHANGED hostAuthVars
             \/ \E kid \in Kid, key \in HostKey : RotateAnchor(kid, key)
    <3>1. UNCHANGED <<dirVars, cachedVars, callVars>>
      BY <2>1 DEF WarmUp, Register, RotateAnchor, hostAuthVars
    <3>2. QED BY <3>1, ElsewhereKeeps DEF cachedVars, callVars
  <2>2. ASSUME NEW credential, Call(credential) PROVE HostIInv'
    <3>1. /\ UNCHANGED <<dirVars, cachedVars, listing, statted, keysRead>>
          /\ admitted'.keys = {} /\ ~Refreshing /\ ~Refreshing'
      BY <2>2 DEF Call, Nobody, Refreshing
    <3>2. QED BY <3>1, ElsewhereKeeps DEF cachedVars
  <2>3. ASSUME NEW readable, TryJwt(readable) PROVE HostIInv'
    <3>1. /\ UNCHANGED <<dirVars, cachedVars, listing, statted, keysRead>>
          /\ admitted'.keys \in {{}, admitted.keys} /\ ~Refreshing /\ ~Refreshing'
      BY <2>3 DEF TryJwt, Decides, Nobody, Refreshing
    <3>2. QED BY <3>1, ElsewhereKeeps DEF cachedVars
  <2>4. QED BY <2>1, <2>2, <2>3, FileSystemKeeps, TickAges, LookKeeps, ScanKeeps, StatKeeps,
               SignedKeeps, ReadKeeps, StoreKeeps DEF HostNext, Refresh
<1>3. QED BY <1>1, <1>2, PTL DEF HostSpec

\* A host's key directory is revoked in time, for any files, keys, edits and
\* refresh interval: a key is honoured only if a readable directory held it, or
\* the directory could not be read, within the last interval, whatever the
\* stats and the reads of a refresh see of the change, and a directory that is
\* gone holds nothing (host/auth.py 83-86, 104-142).
THEOREM RevokedKeysExpire == HostSpec => []RevokedInTime
BY HostInductive, PTL DEF HostIInv, Admitted1
=============================================================================
