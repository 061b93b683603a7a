------------------------------- MODULE HostAuth -------------------------------
(***************************************************************************)
(* A compute host's inbound credentials: the API-key directory, re-read     *)
(* when its signature changes and at most once per refresh interval, and    *)
(* the JWT keys of a mounted manifest, re-read on an unknown kid.           *)
(* (host/auth.py, host/host.py)                                             *)
(*                                                                          *)
(* The host runs one event loop: a call is verified without an await, but   *)
(* the files change under it between the scan, each stat and each read.     *)
(* Every edit gives a file a new stamp, standing for its (size, mtime).     *)
(***************************************************************************)
EXTENDS Integers, FiniteSets

CONSTANTS KeyFile, ApiKey,     \* names of key files; the keys they may hold
          RefreshS,            \* ticks between two scans of the directory
          MaxEdits,            \* bound: edits of the directory
          HostJwt,             \* bearer JWTs: [kid, key, aud, purpose]
          HostKey, Kid,        \* signing keys and their ids
          Audiences,           \* expected_audiences; {} refuses every JWT
          AllowOpen,           \* the allow_open keyword
          Inline,              \* keys given inline, by argument or environment
          Unsigned,            \* _dir_sig is None: the directory was never read
          Leaf                 \* is a leaf and a token configured to register with?

Gone == [keys |-> {}, stamp |-> 0, locked |-> FALSE]    \* no such file
NoSig == [f \in {} |-> 0]

ASSUME HostAssumption ==
  /\ RefreshS \in Nat \ {0} /\ MaxEdits \in Nat /\ {AllowOpen, Leaf} \subseteq BOOLEAN
  /\ Inline \subseteq ApiKey /\ \A F \in SUBSET KeyFile : Unsigned \notin [F -> Nat]
  /\ \A t \in HostJwt : t.kid \in Kid /\ t.key \in HostKey

VARIABLES files,    \* the key directory
          dirState, \* "ok", "gone" (FileNotFoundError) or "broken" (other OSError)
          edits,    \* the stamp of the last edit
          dirKeys, dirSig, age,       \* _dir_keys, _dir_sig, ticks since the last scan
          step,     \* where the call on the loop stands
          asks,     \* the credential it presents: an API key or a JWT, in a set
          look,     \* its first look at the API keys (`enabled`), or its second
          listing, statted, keysRead, \* what its refresh has gathered
          unread,   \* history: did the refresh behind dirSig skip a file?
          lately,   \* history: ticks since a key was last in a readable directory
          admitted, \* what the verdict of this tick admitted
          anchors, jwtKeys, \* the manifest file (kid |-> key) and its cache
          boot,     \* "warming", "registering", "serving" or "failed"
          announced \* did the leaf accept the registration?

dirVars == <<files, dirState, edits, lately>>
cachedVars == <<dirKeys, dirSig, age, unread>>
callVars == <<step, asks, look, listing, statted, keysRead, admitted>>
jwtVars == <<anchors, jwtKeys>>
bootVars == <<boot, announced>>
hostAuthVars == <<dirVars, cachedVars, callVars, jwtVars, bootVars>>

InDir == UNION {files[f].keys : f \in KeyFile}

NoJwtKeys == [k \in {} |-> k]
Nobody == [open |-> FALSE, keys |-> {}, jwts |-> {}]

HostInit ==
  /\ files = [f \in KeyFile |-> Gone] /\ dirState = "ok" /\ edits = 0
  /\ lately = [k \in ApiKey |-> RefreshS]
  /\ dirKeys = {} /\ dirSig = Unsigned /\ age = 0 /\ unread = FALSE
  /\ step = "idle" /\ asks = {} /\ look = 1 /\ listing = {} /\ statted = NoSig /\ keysRead = {}
  /\ admitted = Nobody
  /\ anchors \in [Kid -> HostKey] /\ jwtKeys = NoJwtKeys
  /\ boot = "warming" /\ announced = FALSE

(***************************************************************************)
(* The file system.                                                         *)
(***************************************************************************)
Holds(k, fs, state) ==
  state = "broken" \/ (state = "ok" /\ k \in UNION {fs[f].keys : f \in KeyFile})

Seen(fs, state) == [k \in ApiKey |-> IF Holds(k, fs, state) THEN 0 ELSE lately[k]]

Edit(f) ==
  /\ edits < MaxEdits /\ edits' = edits + 1
  /\ \E ks \in SUBSET ApiKey, locked \in BOOLEAN :
       files' = [files EXCEPT ![f] = [keys |-> ks, stamp |-> edits + 1, locked |-> locked]]
  /\ lately' = Seen(files', dirState) /\ UNCHANGED dirState

Remove(f) ==
  /\ files[f] # Gone /\ files' = [files EXCEPT ![f] = Gone]
  /\ UNCHANGED <<dirState, edits, lately>>

\* A lock on a file comes and goes without touching its signature.
Unlock(f) ==
  /\ files[f].locked /\ files' = [files EXCEPT ![f].locked = FALSE]
  /\ UNCHANGED <<dirState, edits, lately>>

DirTurns(state) ==
  /\ dirState # state /\ edits < MaxEdits /\ edits' = edits + 1
  /\ dirState' = state /\ lately' = Seen(files, state) /\ UNCHANGED files

FileSystem ==
  /\ boot = "serving"
  /\ \/ \E f \in KeyFile : Edit(f) \/ Remove(f) \/ Unlock(f)
     \/ \E state \in {"ok", "gone", "broken"} : DirTurns(state)
  /\ UNCHANGED <<cachedVars, callVars, jwtVars, bootVars>>

\* A refresh is over within a tick.
Tick ==
  /\ boot = "serving" /\ step \notin {"scan", "stat", "read"}
  /\ age' = IF age < RefreshS THEN age + 1 ELSE age
  /\ lately' = [k \in ApiKey |-> IF Holds(k, files, dirState) THEN 0
                                  ELSE IF lately[k] < RefreshS THEN lately[k] + 1 ELSE lately[k]]
  /\ admitted' = Nobody
  /\ UNCHANGED <<files, dirState, edits, dirKeys, dirSig, unread, step, asks, look, listing,
                 statted, keysRead, jwtVars, bootVars>>

(***************************************************************************)
(* verify: a first look at the API keys decides whether the host has any    *)
(* credential at all, then a JWT is tried as one, then a second look at the *)
(* keys decides; either look may refresh them.                              *)
(***************************************************************************)
Call(credential) ==
  /\ boot = "serving" /\ step = "idle"
  /\ step' = "look" /\ asks' = {credential} /\ admitted' = Nobody
  /\ UNCHANGED <<dirVars, cachedVars, look, listing, statted, keysRead, jwtVars, bootVars>>

Decides(verdict) == step' = "idle" /\ asks' = {} /\ look' = 1 /\ admitted' = verdict

\* What a look finds.  A JWT source counts as a credential, so does any key;
\* without one the host is closed, or open to everyone if it was built so.
Finds(keys) ==
  LET all == Inline \cup keys IN
  /\ listing' = {} /\ statted' = NoSig /\ keysRead' = {}
  /\ IF look = 2 THEN Decides([Nobody EXCEPT !.keys = asks \cap all])
     ELSE IF all = {} /\ Kid = {} THEN Decides([Nobody EXCEPT !.open = AllowOpen])
     ELSE /\ look' = 2 /\ step' = IF asks \subseteq HostJwt THEN "jwt" ELSE "look"
          /\ UNCHANGED <<asks, admitted>>

Throttled == dirSig # Unsigned /\ age < RefreshS

Look ==
  /\ step = "look"
  /\ IF Throttled THEN Finds(dirKeys) /\ UNCHANGED age
     ELSE /\ step' = "scan" /\ age' = 0
          /\ UNCHANGED <<asks, look, listing, statted, keysRead, admitted>>
  /\ UNCHANGED <<dirVars, dirKeys, dirSig, unread, jwtVars, bootVars>>

(***************************************************************************)
(* The refresh.  A missing directory, or file, empties the keys; any other  *)
(* error of the scan or of a stat keeps them.                               *)
(***************************************************************************)
Kept == Finds(dirKeys) /\ UNCHANGED <<dirKeys, dirSig, unread>>

\* Mutant: a directory that vanished is taken for one that cannot be read.
MutVanishedKeeps == Kept

Vanished == dirKeys' = {} /\ dirSig' = NoSig /\ unread' = FALSE /\ Finds({})

Scan ==
  /\ step = "scan"
  /\ \/ dirState = "gone" /\ Vanished
     \/ dirState = "broken" /\ Kept
     \/ /\ dirState = "ok" /\ step' = "stat"
        /\ listing' = {f \in KeyFile : files[f] # Gone}
        /\ UNCHANGED <<asks, look, statted, keysRead, admitted, dirKeys, dirSig, unread>>
  /\ UNCHANGED <<dirVars, age, jwtVars, bootVars>>

\* The files are taken in the order of their names.
FirstOf(F) == CHOOSE f \in F : TRUE

\* One file's stamp for the signature.
StatFile(f) ==
  /\ step = "stat" /\ f \in listing \ DOMAIN statted /\ f = FirstOf(listing \ DOMAIN statted)
  /\ \/ dirState # "broken" /\ (dirState = "gone" \/ files[f] = Gone) /\ Vanished
     \/ dirState = "broken" /\ Kept
     \/ /\ dirState = "ok" /\ files[f] # Gone
        /\ statted' = [g \in DOMAIN statted \cup {f} |->
                         IF g = f THEN files[f].stamp ELSE statted[g]]
        /\ UNCHANGED <<step, asks, look, listing, keysRead, admitted, dirKeys, dirSig, unread>>
  /\ UNCHANGED <<dirVars, age, jwtVars, bootVars>>

\* The signature is whole; unchanged, it reads nothing.
Signed ==
  /\ step = "stat" /\ DOMAIN statted = listing
  /\ IF statted = dirSig THEN Kept
     ELSE /\ step' = "read" /\ unread' = FALSE
          /\ UNCHANGED <<asks, look, listing, statted, keysRead, admitted, dirKeys, dirSig>>
  /\ UNCHANGED <<dirVars, age, jwtVars, bootVars>>

\* One file: skipped when it cannot be read, and the signature is kept anyway.
ReadFile(f) ==
  /\ step = "read" /\ f \in listing /\ f = FirstOf(listing) /\ listing' = listing \ {f}
  /\ IF dirState # "ok" \/ files[f] = Gone \/ files[f].locked
     THEN unread' = TRUE /\ UNCHANGED keysRead
     ELSE keysRead' = keysRead \cup files[f].keys /\ UNCHANGED unread
  /\ UNCHANGED <<dirVars, dirKeys, dirSig, age, step, asks, look, statted, admitted, jwtVars,
                 bootVars>>

\* Mutant: the signature is taken after the files were read.
MutStampsAfterwards ==
  /\ step = "read" /\ listing = {}
  /\ dirKeys' = keysRead /\ Finds(keysRead)
  /\ dirSig' = [f \in {f \in KeyFile : files[f] # Gone} |-> files[f].stamp]
  /\ UNCHANGED <<dirVars, age, unread, jwtVars, bootVars>>

Store ==
  /\ step = "read" /\ listing = {}
  /\ dirKeys' = keysRead /\ dirSig' = statted /\ Finds(keysRead)
  /\ UNCHANGED <<dirVars, age, unread, jwtVars, bootVars>>

Refresh == Scan \/ Signed \/ Store \/ \E f \in KeyFile : StatFile(f) \/ ReadFile(f)

(***************************************************************************)
(* A JWT.  The cache is keyed by kid and re-read on a miss only; an         *)
(* unreadable manifest leaves an empty cache, so that every later kid       *)
(* misses.                                                                  *)
(***************************************************************************)
ClaimsOk(t) == ~t.purpose /\ t.aud \cap Audiences # {}

TryJwt(readable) ==
  /\ step = "jwt"
  /\ \E t \in asks :
       LET keys == IF t.kid \in DOMAIN jwtKeys THEN jwtKeys
                   ELSE IF readable THEN anchors ELSE NoJwtKeys IN
       /\ jwtKeys' = IF Audiences = {} THEN jwtKeys ELSE keys
       /\ IF t.kid \in DOMAIN keys /\ keys[t.kid] = t.key /\ ClaimsOk(t)
          THEN Decides([Nobody EXCEPT !.jwts = {t}])
          ELSE step' = "look" /\ UNCHANGED <<asks, look, admitted>>
  /\ UNCHANGED <<dirVars, cachedVars, listing, statted, keysRead, anchors, bootVars>>

RotateAnchor(kid, key) ==
  /\ boot = "serving"
  /\ anchors' = [anchors EXCEPT ![kid] = key] /\ anchors' # anchors
  /\ UNCHANGED <<dirVars, cachedVars, callVars, jwtKeys, bootVars>>

(***************************************************************************)
(* The lifespan: warm up, announce the operators, serve.  A refusal, a      *)
(* timeout or a missing leaf or token leaves the host serving unannounced;  *)
(* only a warm-up that raises stops it.                                     *)
(***************************************************************************)
WarmUp ==
  /\ boot = "warming" /\ boot' \in {"registering", "failed"}
  /\ UNCHANGED <<announced, dirVars, cachedVars, callVars, jwtVars>>

Register ==
  /\ boot = "registering" /\ boot' = "serving"
  /\ announced' \in {FALSE, Leaf}
  /\ UNCHANGED <<dirVars, cachedVars, callVars, jwtVars>>

HostNext ==
  \/ WarmUp \/ Register
  \/ FileSystem \/ Tick
  \/ \E credential \in ApiKey \cup HostJwt : Call(credential)
  \/ Look \/ Refresh \/ \E readable \in BOOLEAN : TryJwt(readable)
  \/ \E kid \in Kid, key \in HostKey : RotateAnchor(kid, key)

\* A call that began goes on; callers and the clock owe nothing.
HostFairness ==
  WF_hostAuthVars(Look \/ Refresh \/ \E readable \in BOOLEAN : TryJwt(readable))

(***************************************************************************)
(* Properties.                                                              *)
(***************************************************************************)
\* A key is honoured only if a readable directory held it, or the directory
\* could not be read, within the last refresh interval: removing a file
\* revokes its keys in time whatever the scan, the stats and the reads of a
\* refresh see of the change (host/auth.py 83-86, 111-142).
RevokedInTime ==
  \A k \in admitted.keys \ Inline : lately[k] < RefreshS

\* Once the directory stands still and every file behind the signature was
\* read, calls come to be decided by exactly the keys it holds: a refresh
\* that raced an edit is always followed by another (host/auth.py 104-142).
Settled == dirState = "ok" /\ ~unread /\ \A f \in KeyFile : ~files[f].locked
KeysCatchUp ==
  ([]<>(step = "stat") /\ <>[]Settled) => <>[](dirKeys = InDir)
=============================================================================
