-------------------------------- MODULE Runner --------------------------------
(***************************************************************************)
(* The bundle runner: the one path by which distributed code comes to run.  *)
(* A group's bundle is taken from the attached store, else from a file;     *)
(* verified; served to the import system by a finder; its entry module is   *)
(* run once and the group is pinned for the life of the process.            *)
(* (runner.py, trust/opsign.py)                                             *)
(*                                                                          *)
(* A reentrant lock is held from the look-up to the pin, so loads nest but  *)
(* never interleave: `stack` holds the entry modules being run, outermost   *)
(* first.  A running entry may load other groups, its own included.         *)
(***************************************************************************)
EXTENDS Integers, Sequences, FiniteSets

CONSTANTS Group, Seam,
          StoreDoc,     \* documents a store may hold: [author, payload]
          File,         \* payloads a registered file may hold
          Shipped,      \* group |-> payload in the bundle directory, or Nothing
          Artifact,     \* the authors that resolve |-> [key, grounded, channel]
          Channels,     \* EMBER_BUNDLE_CHANNELS; {} is the default, grounding
          Uses, Needs,  \* what a body's entry module loads; the seams it imports
          Short(_),     \* sha[:12], which does not tell all hashes apart
          Nothing,      \* no document, file, signature, key or pin
          Vanished,     \* a registered file that is no longer there
          MaxChanges    \* bound: changes made around the process

\* A payload is [group, body, sha, sig, signedBy]: `sha` is the hash it claims,
\* `sig` the <<key, content>> it was made over, or Nothing.
ContentOf(p) == <<p.group, p.body>>

ASSUME RunnerAssumption ==
  /\ MaxChanges \in Nat /\ DOMAIN Shipped = Group
  /\ \A p \in File \cup {d.payload : d \in StoreDoc} : Uses[p.body] \subseteq Group

VARIABLES docs,     \* group |-> the store's bundle artifact
          storeUp,  \* does the store answer?
          gate,     \* EMBER_REQUIRE_SIGNED
          hostFile, \* _HOST_GROUPS: nothing, a payload, or Vanished
          seams,    \* _HOST_SEAMS
          finder,   \* package |-> the payload and the seams it is served from
          entry,    \* package |-> its entry module: "running" or "done"
          loaded,   \* _loaded
          stack,    \* the loads in progress
          ran,      \* history: every entry run, and what it was run upon
          circular, \* history: groups asked for while being loaded
          changes

aroundVars == <<docs, storeUp, gate, hostFile, seams, changes>>
loadVars == <<finder, entry, loaded, stack, ran, circular>>
runnerVars == <<aroundVars, loadVars>>

RunnerInit ==
  /\ docs = [g \in Group |-> Nothing] /\ storeUp = TRUE /\ gate \in BOOLEAN
  /\ hostFile = [g \in Group |-> Nothing] /\ seams = {} /\ changes = 0
  /\ finder = <<>> /\ entry = <<>> /\ loaded = [g \in Group |-> Nothing]
  /\ stack = <<>> /\ ran = {} /\ circular = {}

(***************************************************************************)
(* Verification.                                                            *)
(***************************************************************************)
VerifySha(p) == p.sha = ContentOf(p)
VerifyGroup(p, g) == p.group = g

\* opsign.verify_bundle, under the key the author's artifact attests.
VerifyBundle(p, key) == p.sig = <<key, ContentOf(p)>>

AttestedKey(author) == Artifact[author].key

SignerGrounded(author) ==
  IF Channels # {} THEN Artifact[author].channel \in Channels ELSE Artifact[author].grounded

VerifyProvenance(doc) ==
  LET p == doc.payload IN
  /\ doc.author \in DOMAIN Artifact
  /\ gate => /\ p.sig # Nothing /\ AttestedKey(doc.author) # Nothing
             /\ p.signedBy \in {Nothing, AttestedKey(doc.author)}
             /\ VerifyBundle(p, AttestedKey(doc.author))
             /\ SignerGrounded(doc.author)

(***************************************************************************)
(* Where a bundle comes from.  An unreachable store is an absent bundle; a  *)
(* present bundle that fails a check is a refusal, never a fallback.  A     *)
(* registered file hides the shipped one even when it is gone.              *)
(***************************************************************************)
FromStore(g) == IF storeUp THEN docs[g] ELSE Nothing

BundleFile(g) == IF hostFile[g] # Nothing THEN hostFile[g] ELSE Shipped[g]

\* {} when the load raises, or the one bundle to run.
FromData(g) ==
  {p \in {BundleFile(g)} \ {Nothing, Vanished} : VerifySha(p) /\ VerifyGroup(p, g)}

Origin(g) == IF FromStore(g) # Nothing THEN "store"
             ELSE IF hostFile[g] # Nothing THEN "host" ELSE "shipped"

\* Mutant: a store copy that fails a check falls back to the file.
MutFallsBack(g) ==
  LET verified == {p \in {FromStore(g)} \ {Nothing} : VerifySha(p.payload) /\ VerifyProvenance(p)}
  IN  IF verified # {} THEN {p.payload : p \in verified} ELSE FromData(g)

Found(g) ==
  IF FromStore(g) # Nothing
  THEN {p \in {FromStore(g).payload} :
          VerifySha(p) /\ VerifyGroup(p, g) /\ VerifyProvenance(FromStore(g))}
  ELSE FromData(g)

\* What a name can be asked of the module as an attribute.
KnownGroups == {g \in Group : hostFile[g] # Nothing \/ Shipped[g] # Nothing}

(***************************************************************************)
(* Loading.                                                                 *)
(***************************************************************************)
Running == {stack[i].group : i \in DOMAIN stack}
Top == stack[Len(stack)]

MayAsk(g) == stack # <<>> => g \in Uses[finder[Top.pkg].payload.body]

With(f, x, y) == [z \in DOMAIN f \cup {x} |-> IF z = x THEN y ELSE f[z]]
Without(f, x) == [z \in DOMAIN f \ {x} |-> f[z]]

Pin(g, pkg, origin) == loaded' = [loaded EXCEPT ![g] = [pkg |-> pkg, origin |-> origin]]

\* Mutant: a pinned group is loaded again.
MutNeverHit(g) == loaded[g] # loaded[g]

Hit(g) == loaded[g] # Nothing

\* The name a bundle has in sys.modules.
PackageOf(g, p) == <<g, Short(p.sha)>>

Import(g, p) ==
  LET pkg == PackageOf(g, p) IN
  /\ finder' = IF pkg \in DOMAIN finder THEN finder
               ELSE With(finder, pkg, [payload |-> p, seams |-> seams])
  /\ IF pkg \in DOMAIN entry
     THEN \* the import system answers with the module it has, however far it got
          Pin(g, pkg, Origin(g)) /\ UNCHANGED <<entry, stack, ran>>
     ELSE /\ entry' = With(entry, pkg, "running")
          /\ stack' = Append(stack, [group |-> g, pkg |-> pkg, origin |-> Origin(g)])
          /\ ran' = ran \cup {[group |-> g, found |-> p, runs |-> finder'[pkg].payload,
                               gate |-> gate, origin |-> Origin(g), doc |-> FromStore(g)]}
          /\ UNCHANGED loaded

\* _load_group, up to the entry module's first line; a refusal changes nothing.
Load(g) ==
  /\ MayAsk(g) /\ ~Hit(g)
  /\ \E p \in Found(g) : Import(g, p)
  /\ circular' = circular \cup ({g} \cap Running)
  /\ UNCHANGED aroundVars

\* The entry module ran to its end: the group is pinned.
EntryReturns ==
  /\ stack # <<>> /\ Needs[finder[Top.pkg].payload.body] \subseteq finder[Top.pkg].seams
  /\ entry' = [entry EXCEPT ![Top.pkg] = "done"]
  /\ Pin(Top.group, Top.pkg, Top.origin)
  /\ stack' = SubSeq(stack, 1, Len(stack) - 1)
  /\ UNCHANGED <<finder, ran, circular, aroundVars>>

\* It raised, for a seam the finder was built without or any reason of its
\* own: the entry is forgotten, its package and finder stay.
EntryRaises ==
  /\ stack # <<>>
  /\ entry' = Without(entry, Top.pkg)
  /\ stack' = SubSeq(stack, 1, Len(stack) - 1)
  /\ UNCHANGED <<finder, loaded, ran, circular, aroundVars>>

(***************************************************************************)
(* Around the process: the store, the host's own registrations, the gate.   *)
(***************************************************************************)
Change(what) ==
  /\ changes < MaxChanges /\ changes' = changes + 1 /\ what
  /\ UNCHANGED loadVars

Publish(g, doc) ==
  Change(docs' = [docs EXCEPT ![g] = doc] /\ UNCHANGED <<storeUp, gate, hostFile, seams>>)
StoreTurns == Change(storeUp' = ~storeUp /\ UNCHANGED <<docs, gate, hostFile, seams>>)
GateTurns == Change(gate' = ~gate /\ UNCHANGED <<docs, storeUp, hostFile, seams>>)
RegisterGroup(g, p) ==
  Change(hostFile' = [hostFile EXCEPT ![g] = p] /\ UNCHANGED <<docs, storeUp, gate, seams>>)
FileVanishes(g) ==
  /\ hostFile[g] # Nothing
  /\ Change(hostFile' = [hostFile EXCEPT ![g] = Vanished] /\ UNCHANGED <<docs, storeUp, gate, seams>>)
RegisterSeam(s) ==
  Change(seams' = seams \cup {s} /\ UNCHANGED <<docs, storeUp, gate, hostFile>>)

Around ==
  \/ \E g \in Group : \/ \E doc \in StoreDoc : Publish(g, doc)
                      \/ \E p \in File : RegisterGroup(g, p)
                      \/ FileVanishes(g)
  \/ StoreTurns \/ GateTurns \/ \E s \in Seam : RegisterSeam(s)

RunnerNext ==
  \/ \E g \in Group : Load(g)
  \/ EntryReturns \/ EntryRaises
  \/ Around

(***************************************************************************)
(* Properties.                                                              *)
(***************************************************************************)
\* An entry module runs after a bundle was found that is intact, hashed under
\* the name asked for, and either the store's, by an author who resolves and,
\* with the gate on, signed and stands on a ground, or a file's while the store
\* had none.  The code run may be an earlier load's, left behind by an entry
\* that raised: a bundle of this group whose hash begins with the same twelve
\* digits, and that was found, and passed all this, itself (runner.py 474-534,
\* 640-643).
OnlyVerifiedRuns ==
  \A e \in ran :
    /\ e.found.sha = ContentOf(e.found) /\ e.found.group = e.group
    /\ IF e.origin = "store"
       THEN /\ e.found = e.doc.payload /\ e.doc.author \in DOMAIN Artifact
            /\ e.gate => /\ e.found.sig = <<Artifact[e.doc.author].key, ContentOf(e.found)>>
                         /\ SignerGrounded(e.doc.author)
       ELSE e.doc = Nothing
    /\ Short(e.runs.sha) = Short(e.found.sha)
    /\ \E f \in ran : f.group = e.group /\ f.found = e.runs

\* A pinned group's entry module has run to its end, and the pin never moves,
\* whatever is published, registered or raised afterwards; except for a group
\* that is asked for again by what its own load runs (runner.py 257, 632-648).
PinnedForLife ==
  [][\A g \in Group \ circular' : loaded'[g] # Nothing =>
       /\ entry'[loaded'[g].pkg] = "done"
       /\ loaded[g] # Nothing => loaded'[g] = loaded[g]]_runnerVars
=============================================================================
