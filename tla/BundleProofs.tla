---------------------------- MODULE BundleProofs ----------------------------
(***************************************************************************)
(* Proofs about bundles, for any bundles, bodies, signers, capabilities and*)
(* definitions: what a runner imports (prism/bundle_runner.py) and what an *)
(* install leaves in the registry (prism/cli.py).                          *)
(***************************************************************************)
EXTENDS Runner, Install, SequenceTheorems, TLAPS

-----------------------------------------------------------------------------
(* The runner.                                                             *)

RunnerSpec == RunnerInit /\ [][RunnerNext]_runnerVars

-----------------------------------------------------------------------------
(* What runs was verified.                                                 *)

\* A finder serves the payload that some load found, verified and ran first,
\* and is named for that payload's group and the head of its hash.
FindersKnown ==
  \A pkg \in DOMAIN finder :
    /\ pkg[2] = Short(finder[pkg].payload.sha)
    /\ \E f \in ran : f.group = pkg[1] /\ f.found = finder[pkg].payload

\* No entry module is known of a package that has no finder.
EntriesFound == DOMAIN entry \subseteq DOMAIN finder

\* A load only goes on with a bundle that is intact, hashed under the name
\* asked for and, when a store gave it, provided by its document's author.
LEMMA FoundVerified ==
  ASSUME NEW g \in Group, NEW p \in Found(g)
  PROVE  /\ VerifySha(p) /\ VerifyGroup(p, g)
         /\ FromStore(g) # Nothing => p = FromStore(g).payload /\ VerifyProvenance(FromStore(g))
BY DEF Found, FromData

\* One entry of `ran` is verified, as OnlyVerifiedRuns says of them all.
Verified(e) ==
  /\ e.found.sha = ContentOf(e.found) /\ e.found.group = e.group
  /\ IF e.origin = "store"
     THEN /\ e.found = e.doc.payload /\ e.doc.author \in DOMAIN Artifact
          /\ e.gate => /\ e.found.sig = <<Artifact[e.doc.author].key, ContentOf(e.found)>>
                       /\ SignerGrounded(e.doc.author)
     ELSE e.doc = Nothing

\* What it ran is a bundle that was found itself.
WasFound(e) ==
  /\ Short(e.runs.sha) = Short(e.found.sha)
  /\ \E f \in ran : f.group = e.group /\ f.found = e.runs

LEMMA RanIsVerified == OnlyVerifiedRuns <=> \A e \in ran : Verified(e) /\ WasFound(e)
BY DEF OnlyVerifiedRuns, Verified, WasFound

\* What the load of p puts on record is verified, whatever it runs.
LEMMA FoundIsVerified ==
  ASSUME NEW g \in Group, NEW p \in Found(g), NEW q,
         NEW e, e = [group |-> g, found |-> p, runs |-> q, gate |-> gate,
                     origin |-> Origin(g), doc |-> FromStore(g)]
  PROVE  Verified(e)
<1>1. VerifySha(p) /\ VerifyGroup(p, g)
  BY FoundVerified
<1>2. e.found.sha = ContentOf(e.found) /\ e.found.group = e.group
  BY <1>1 DEF VerifySha, VerifyGroup
<1>3. CASE FromStore(g) # Nothing
  <2>1. p = FromStore(g).payload /\ VerifyProvenance(FromStore(g))
    BY <1>3, FoundVerified
  <2>2. Origin(g) = "store"
    BY <1>3 DEF Origin
  <2>3. FromStore(g).author \in DOMAIN Artifact
    BY <2>1 DEF VerifyProvenance
  <2>4. gate => /\ p.sig = <<Artifact[FromStore(g).author].key, ContentOf(p)>>
                /\ SignerGrounded(FromStore(g).author)
    BY <2>1 DEF VerifyProvenance, VerifyBundle, AttestedKey
  <2>5. QED BY <1>2, <2>1, <2>2, <2>3, <2>4 DEF Verified
<1>4. CASE FromStore(g) = Nothing
  <2>1. Origin(g) # "store"
    BY <1>4 DEF Origin
  <2>2. QED BY <1>2, <1>4, <2>1 DEF Verified
<1>5. QED BY <1>3, <1>4

\* An import keeps the finders known, and runs nothing unverified, also when
\* it runs the finder of an earlier load.
LEMMA ImportVerified ==
  ASSUME FindersKnown, EntriesFound, OnlyVerifiedRuns,
         NEW g \in Group, NEW p \in Found(g), Import(g, p)
  PROVE  FindersKnown' /\ EntriesFound' /\ OnlyVerifiedRuns'
<1> DEFINE pkg == PackageOf(g, p)
           q == finder'[pkg].payload
           e == [group |-> g, found |-> p, runs |-> q, gate |-> gate,
                 origin |-> Origin(g), doc |-> FromStore(g)]
<1>1. pkg[1] = g /\ pkg[2] = Short(p.sha)
  BY DEF PackageOf
<1>2. pkg \in DOMAIN finder' /\ DOMAIN finder' = DOMAIN finder \cup {pkg}
  BY DEF Import, With
<1>3. \A k \in DOMAIN finder : finder'[k] = finder[k]
  BY DEF Import, With
<1>4. pkg \notin DOMAIN finder => q = p
  BY DEF Import, With
<1>5. CASE pkg \in DOMAIN entry
  <2>1. pkg \in DOMAIN finder
    BY <1>5 DEF EntriesFound
  <2>2. finder' = finder /\ entry' = entry /\ ran' = ran
    BY <1>5, <2>1 DEF Import
  <2>3. QED BY <2>2, RanIsVerified DEF FindersKnown, EntriesFound, OnlyVerifiedRuns, ContentOf
<1>6. CASE pkg \notin DOMAIN entry
  <2>1. ran' = ran \cup {e} /\ DOMAIN entry' = DOMAIN entry \cup {pkg}
    BY <1>6 DEF Import, With
  <2>2. Short(q.sha) = Short(p.sha) /\ \E f \in ran' : f.group = g /\ f.found = q
    <3>1. CASE pkg \in DOMAIN finder
      <4>1. q = finder[pkg].payload
        BY <1>3, <3>1
      <4>2. QED BY <1>1, <2>1, <3>1, <4>1 DEF FindersKnown
    <3>2. CASE pkg \notin DOMAIN finder
      <4>1. q = p /\ e \in ran' /\ e.group = g /\ e.found = p
        BY <1>4, <2>1, <3>2
      <4> HIDE DEF e, q, pkg
      <4>2. QED BY <4>1
    <3>3. QED BY <3>1, <3>2
  <2>3. FindersKnown'
    <3>1. ASSUME NEW k \in DOMAIN finder'
          PROVE  /\ k[2] = Short(finder'[k].payload.sha)
                 /\ \E f \in ran' : f.group = k[1] /\ f.found = finder'[k].payload
      <4>1. CASE k = pkg
        BY <1>1, <2>2, <4>1
      <4>2. CASE k # pkg
        <5>1. k \in DOMAIN finder /\ finder'[k] = finder[k]
          BY <1>2, <1>3, <4>2
        <5>2. QED BY <2>1, <5>1 DEF FindersKnown
      <4>3. QED BY <4>1, <4>2
    <3>2. QED BY <3>1 DEF FindersKnown
  <2>4. EntriesFound'
    BY <1>2, <2>1 DEF EntriesFound
  <2>5. Verified(e)
    BY FoundIsVerified
  <2>6. e.runs = q /\ e.found = p /\ e.group = g
    OBVIOUS
  <2>7. ASSUME NEW x \in ran'
        PROVE  Verified(x) /\ Short(x.runs.sha) = Short(x.found.sha)
               /\ \E f \in ran' : f.group = x.group /\ f.found = x.runs
    <3> HIDE DEF e, q, pkg
    <3>1. CASE x = e
      BY <2>2, <2>5, <2>6, <3>1
    <3>2. CASE x \in ran
      <4>1. Verified(x) /\ WasFound(x)
        BY <3>2, RanIsVerified
      <4>2. QED BY <2>1, <4>1 DEF WasFound
    <3>3. QED BY <2>1, <3>1, <3>2
  <2>8. OnlyVerifiedRuns'
    BY <2>7 DEF OnlyVerifiedRuns, Verified
  <2>9. QED BY <2>3, <2>4, <2>8
<1>7. QED BY <1>5, <1>6

\* Whatever entry module ever ran was that of a bundle some load of its group
\* found and verified, for every store, gate, order of loads, retry after an
\* entry that raised, and hashes that begin alike (runner.py 474-534, 623-648).
THEOREM RunsVerified == RunnerSpec => []OnlyVerifiedRuns
<1> DEFINE IInv == FindersKnown /\ EntriesFound /\ OnlyVerifiedRuns
<1>1. RunnerInit => IInv
  BY DEF RunnerInit, FindersKnown, EntriesFound, OnlyVerifiedRuns
<1>2. IInv /\ [RunnerNext]_runnerVars => IInv'
  <2> SUFFICES ASSUME IInv, [RunnerNext]_runnerVars PROVE IInv'
    OBVIOUS
  <2>1. ASSUME NEW g \in Group, Load(g) PROVE IInv'
    <3>1. PICK p \in Found(g) : Import(g, p)
      BY <2>1 DEF Load
    <3>2. QED BY <3>1, ImportVerified
  <2>2. CASE EntryReturns \/ EntryRaises \/ Around \/ UNCHANGED runnerVars
    <3>1. finder' = finder /\ ran' = ran
      BY <2>2 DEF EntryReturns, EntryRaises, Around, Change, Publish, StoreTurns, GateTurns,
                  RegisterGroup, FileVanishes, RegisterSeam, loadVars, runnerVars
    <3>2. DOMAIN entry' \subseteq DOMAIN entry
      BY <2>2 DEF EntryReturns, EntryRaises, Without, Around, Change, Publish, StoreTurns,
                  GateTurns, RegisterGroup, FileVanishes, RegisterSeam, loadVars, runnerVars
    <3>3. QED BY <3>1, <3>2 DEF FindersKnown, EntriesFound, OnlyVerifiedRuns, ContentOf
  <2>3. QED BY <2>1, <2>2 DEF RunnerNext
<1>3. QED BY <1>1, <1>2, PTL DEF RunnerSpec
-----------------------------------------------------------------------------
(* A pin stands for life.                                                  *)

Payload == File \cup {d.payload : d \in StoreDoc} \cup {Shipped[g] : g \in Group}
Package == Group \X {Short(p.sha) : p \in Payload}
Whence == {"store", "host", "shipped"}
Progress == [group : Group, pkg : Package, origin : Whence]

RunnerTypeOK ==
  /\ docs \in [Group -> StoreDoc \cup {Nothing}]
  /\ hostFile \in [Group -> File \cup {Nothing, Vanished}]
  /\ loaded \in [Group -> [pkg : Package, origin : Whence] \cup {Nothing}]
  /\ stack \in Seq(Progress)
  /\ DOMAIN entry \subseteq Package
  /\ circular \subseteq Group

\* The loads in progress: each runs a package of its group, no two the same,
\* and these are the packages whose entry is running.
LoadsNested ==
  /\ \A i \in DOMAIN stack :
       /\ stack[i].pkg[1] = stack[i].group
       /\ stack[i].pkg \in DOMAIN entry /\ entry[stack[i].pkg] = "running"
       /\ \A j \in DOMAIN stack : stack[j].pkg = stack[i].pkg => i = j
  /\ \A k \in DOMAIN entry : entry[k] = "done" \/ \E i \in DOMAIN stack : stack[i].pkg = k

\* A group that is not loaded within its own load is loaded once at a time,
\* never while pinned, and is pinned to a package of its own whose entry ran
\* to its end.
PinsStand ==
  \A g \in Group \ circular :
    /\ \A i, j \in DOMAIN stack : stack[i].group = g /\ stack[j].group = g => i = j
    /\ loaded[g] # Nothing =>
         /\ loaded[g].pkg \in DOMAIN entry /\ entry[loaded[g].pkg] = "done"
         /\ loaded[g].pkg[1] = g
         /\ \A i \in DOMAIN stack : stack[i].group # g

Pinning == RunnerTypeOK /\ LoadsNested /\ PinsStand

\* What PinnedForLife says of one step.
StepKeepsPins ==
  \A g \in Group \ circular' : loaded'[g] # Nothing =>
    /\ entry'[loaded'[g].pkg] = "done"
    /\ loaded[g] # Nothing => loaded'[g] = loaded[g]

LEMMA FoundTyped ==
  ASSUME RunnerTypeOK, NEW g \in Group, NEW p \in Found(g)
  PROVE  p \in Payload /\ PackageOf(g, p) \in Package
<1>1. CASE FromStore(g) # Nothing
  <2>1. p = FromStore(g).payload
    BY <1>1 DEF Found
  <2>2. FromStore(g) \in StoreDoc
    BY <1>1 DEF FromStore, RunnerTypeOK
  <2>3. QED BY <2>1, <2>2 DEF Payload, Package, PackageOf
<1>2. CASE FromStore(g) = Nothing
  <2>1. p = BundleFile(g) /\ p # Nothing /\ p # Vanished
    BY <1>2 DEF Found, FromData
  <2>2. p \in File \/ p = Shipped[g]
    BY <2>1 DEF BundleFile, RunnerTypeOK
  <2>3. QED BY <2>2 DEF Payload, Package, PackageOf
<1>3. QED BY <1>1, <1>2

LEMMA OriginTyped == \A g : Origin(g) \in Whence
BY DEF Origin, Whence

\* A load that finds its package's entry already there pins it: done, unless
\* the group is being loaded within itself.
LEMMA ImportHit ==
  ASSUME Pinning, NEW g \in Group, NEW p \in Found(g), Import(g, p), ~Hit(g),
         PackageOf(g, p) \in DOMAIN entry, circular' = circular \cup ({g} \cap Running),
         UNCHANGED aroundVars
  PROVE  Pinning' /\ StepKeepsPins
<1> DEFINE pkg == PackageOf(g, p)
           pin == [pkg |-> pkg, origin |-> Origin(g)]
<1> USE DEF Pinning, PackageOf
<1>1. entry' = entry /\ stack' = stack /\ loaded' = [loaded EXCEPT ![g] = pin]
  BY DEF Import, Pin
<1>2. pkg \in Package /\ pin \in [pkg : Package, origin : Whence]
  BY FoundTyped, OriginTyped
<1>3. loaded' \in [Group -> [pkg : Package, origin : Whence] \cup {Nothing}]
  BY <1>1, <1>2 DEF RunnerTypeOK
<1>4. RunnerTypeOK'
  BY <1>1, <1>3 DEF RunnerTypeOK, aroundVars
<1>5. LoadsNested'
  BY <1>1 DEF LoadsNested
<1>6. g \notin circular' => entry[pkg] = "done" /\ \A i \in DOMAIN stack : stack[i].group # g
  <2>1. g \notin circular' => \A i \in DOMAIN stack : stack[i].group # g
    BY DEF Running
  <2>2. pkg[1] = g
    OBVIOUS
  <2>3. QED BY <2>1, <2>2 DEF LoadsNested
<1>7. PinsStand'
  <2> SUFFICES ASSUME NEW h \in Group \ circular'
               PROVE  /\ \A i, j \in DOMAIN stack : stack[i].group = h /\ stack[j].group = h => i = j
                      /\ loaded'[h] # Nothing =>
                           /\ loaded'[h].pkg \in DOMAIN entry /\ entry[loaded'[h].pkg] = "done"
                           /\ loaded'[h].pkg[1] = h
                           /\ \A i \in DOMAIN stack : stack[i].group # h
    BY <1>1 DEF PinsStand
  <2>1. CASE h = g
    <3>1. loaded'[h] = pin
      BY <1>1, <2>1 DEF RunnerTypeOK
    <3>2. QED BY <3>1, <1>6, <2>1
  <2>2. CASE h # g
    <3>1. loaded'[h] = loaded[h]
      BY <1>1, <2>2 DEF RunnerTypeOK
    <3>2. QED BY <3>1 DEF PinsStand
  <2>3. QED BY <2>1, <2>2
<1>8. StepKeepsPins
  <2>1. \A h \in Group : loaded[h] # Nothing => loaded'[h] = loaded[h]
    BY <1>1 DEF RunnerTypeOK, Hit
  <2>2. QED BY <1>1, <1>7, <2>1 DEF PinsStand, StepKeepsPins
<1>9. QED BY <1>4, <1>5, <1>7, <1>8

\* A load that runs its package's entry puts one load more on the stack.
LEMMA ImportRuns ==
  ASSUME Pinning, NEW g \in Group, NEW p \in Found(g), Import(g, p), ~Hit(g),
         PackageOf(g, p) \notin DOMAIN entry, circular' = circular \cup ({g} \cap Running),
         UNCHANGED aroundVars
  PROVE  Pinning' /\ StepKeepsPins
<1> DEFINE pkg == PackageOf(g, p)
           load == [group |-> g, pkg |-> pkg, origin |-> Origin(g)]
           n == Len(stack)
<1> USE DEF Pinning, PackageOf
<1>1. /\ entry' = With(entry, pkg, "running") /\ stack' = Append(stack, load)
      /\ loaded' = loaded
  BY DEF Import
<1>2. /\ DOMAIN entry' = DOMAIN entry \cup {pkg} /\ entry'[pkg] = "running"
      /\ \A k \in DOMAIN entry : entry'[k] = entry[k]
  BY <1>1 DEF With
<1>3. pkg \in Package /\ load \in Progress
  BY FoundTyped, OriginTyped DEF Progress
<1>4. n \in Nat /\ DOMAIN stack = 1..n
  BY DEF RunnerTypeOK
<1>5. /\ DOMAIN stack' = DOMAIN stack \cup {n + 1} /\ n + 1 \notin DOMAIN stack
      /\ stack'[n + 1] = load /\ \A i \in DOMAIN stack : stack'[i] = stack[i]
  BY <1>1, <1>4 DEF RunnerTypeOK
<1>6. RunnerTypeOK'
  <2>1. stack' \in Seq(Progress)
    BY <1>1, <1>3 DEF RunnerTypeOK
  <2>2. circular' \subseteq Group
    BY DEF RunnerTypeOK
  <2>3. QED BY <2>1, <2>2, <1>1, <1>2, <1>3 DEF RunnerTypeOK, aroundVars
<1>7. LoadsNested'
  <2>1. \A i \in DOMAIN stack : stack[i].pkg # pkg
    BY DEF LoadsNested
  <2>2. ASSUME NEW i \in DOMAIN stack'
        PROVE  /\ stack'[i].pkg[1] = stack'[i].group
               /\ stack'[i].pkg \in DOMAIN entry' /\ entry'[stack'[i].pkg] = "running"
               /\ \A j \in DOMAIN stack' : stack'[j].pkg = stack'[i].pkg => i = j
    <3>1. CASE i = n + 1
      BY <3>1, <2>1, <1>2, <1>5
    <3>2. CASE i \in DOMAIN stack
      BY <3>2, <2>1, <1>2, <1>5 DEF LoadsNested
    <3>3. QED BY <3>1, <3>2, <1>5
  <2>3. ASSUME NEW k \in DOMAIN entry'
        PROVE  entry'[k] = "done" \/ \E i \in DOMAIN stack' : stack'[i].pkg = k
    BY <1>2, <1>5 DEF LoadsNested
  <2>4. QED BY <2>2, <2>3 DEF LoadsNested
<1>8. ASSUME NEW h \in Group \ circular'
      PROVE  /\ \A i, j \in DOMAIN stack' : stack'[i].group = h /\ stack'[j].group = h => i = j
             /\ loaded[h] # Nothing =>
                  /\ loaded[h].pkg \in DOMAIN entry' /\ entry'[loaded[h].pkg] = "done"
                  /\ loaded[h].pkg[1] = h
                  /\ \A i \in DOMAIN stack' : stack'[i].group # h
  <2>1. h \notin circular
    OBVIOUS
  <2>2. CASE h = g
    <3>1. \A i \in DOMAIN stack : stack[i].group # g
      BY <2>2 DEF Running
    <3>2. QED BY <3>1, <2>2, <1>5 DEF Hit
  <2>3. CASE h # g
    BY <2>1, <2>3, <1>2, <1>5 DEF PinsStand
  <2>4. QED BY <2>2, <2>3
<1>9. QED BY <1>1, <1>6, <1>7, <1>8 DEF PinsStand, StepKeepsPins

\* A sequence without its last element is the rest, untouched.
LEMMA FrontIsRest ==
  ASSUME NEW S, NEW s \in Seq(S), s # <<>>, NEW t, t = SubSeq(s, 1, Len(s) - 1)
  PROVE  /\ Len(s) \in DOMAIN s /\ DOMAIN t = DOMAIN s \ {Len(s)} /\ t \in Seq(S)
         /\ \A i \in DOMAIN t : t[i] = s[i]
<1> DEFINE n == Len(s)
<1>1. n \in Nat \ {0} /\ DOMAIN s = 1..n
  OBVIOUS
<1>2. \A i \in 1..(n - 1) : s[i] \in S
  BY <1>1
<1>3. t \in Seq(S) /\ Len(t) = n - 1 /\ \A i \in 1..(n - 1) : t[i] = s[i]
  BY <1>1, <1>2, SubSeqProperties
<1>4. DOMAIN t = 1..(n - 1)
  BY <1>3
<1>5. QED BY <1>1, <1>3, <1>4

\* The innermost load leaves the stack; the loads under it are untouched.
LEMMA PopLeavesRest ==
  ASSUME RunnerTypeOK, stack # <<>>, stack' = SubSeq(stack, 1, Len(stack) - 1)
  PROVE  /\ Len(stack) \in DOMAIN stack /\ DOMAIN stack' = DOMAIN stack \ {Len(stack)}
         /\ \A i \in DOMAIN stack' : stack'[i] = stack[i]
         /\ stack' \in Seq(Progress)
         /\ Top \in Progress
<1>1. stack \in Seq(Progress)
  BY DEF RunnerTypeOK
<1>2. /\ Len(stack) \in DOMAIN stack /\ DOMAIN stack' = DOMAIN stack \ {Len(stack)}
      /\ \A i \in DOMAIN stack' : stack'[i] = stack[i]
      /\ stack' \in Seq(Progress)
  BY <1>1, FrontIsRest
<1>3. Top \in Progress
  <2>1. stack \in Seq(Progress) /\ Len(stack) \in 1..Len(stack)
    BY <1>1, <1>2
  <2>2. QED BY <2>1 DEF Top
<1>4. QED BY <1>2, <1>3

\* A load that ends pins its group to a package whose entry ran to its end.
LEMMA ReturnPins ==
  ASSUME Pinning, EntryReturns
  PROVE  Pinning' /\ StepKeepsPins
<1> DEFINE n == Len(stack)
           pin == [pkg |-> Top.pkg, origin |-> Top.origin]
<1> USE DEF Pinning, PackageOf
<1>1. /\ stack # <<>> /\ stack' = SubSeq(stack, 1, n - 1)
      /\ entry' = [entry EXCEPT ![Top.pkg] = "done"]
      /\ loaded' = [loaded EXCEPT ![Top.group] = pin]
      /\ circular' = circular /\ docs' = docs /\ hostFile' = hostFile
  BY DEF EntryReturns, Pin, aroundVars
<1>2. /\ n \in DOMAIN stack /\ DOMAIN stack' = DOMAIN stack \ {n}
      /\ \A i \in DOMAIN stack' : stack'[i] = stack[i]
      /\ stack' \in Seq(Progress)
      /\ Top \in Progress /\ Top.group \in Group /\ Top.pkg \in Package
  BY <1>1, PopLeavesRest DEF Progress
<1>3. Top = stack[n]
  BY DEF Top
<1>4. Top.pkg \in DOMAIN entry /\ Top.pkg[1] = Top.group
  BY <1>2, <1>3 DEF LoadsNested
<1>5. /\ DOMAIN entry' = DOMAIN entry /\ entry'[Top.pkg] = "done"
      /\ \A k \in DOMAIN entry : k # Top.pkg => entry'[k] = entry[k]
  BY <1>1, <1>4
<1>6. /\ loaded'[Top.group] = pin
      /\ \A h \in Group : h # Top.group => loaded'[h] = loaded[h]
  BY <1>1, <1>2 DEF RunnerTypeOK
<1>7. RunnerTypeOK'
  <2>1. pin \in [pkg : Package, origin : Whence]
    BY <1>2 DEF Progress
  <2>2. loaded' \in [Group -> [pkg : Package, origin : Whence] \cup {Nothing}]
    BY <1>1, <2>1 DEF RunnerTypeOK
  <2>3. QED BY <1>1, <1>2, <1>5, <2>2 DEF RunnerTypeOK
<1>8. \A i \in DOMAIN stack' : stack[i].pkg # Top.pkg
  BY <1>2, <1>3 DEF LoadsNested
<1>9. LoadsNested'
  <2>1. ASSUME NEW i \in DOMAIN stack'
        PROVE  /\ stack'[i].pkg[1] = stack'[i].group
               /\ stack'[i].pkg \in DOMAIN entry' /\ entry'[stack'[i].pkg] = "running"
               /\ \A j \in DOMAIN stack' : stack'[j].pkg = stack'[i].pkg => i = j
    BY <1>2, <1>5, <1>8 DEF LoadsNested
  <2>2. ASSUME NEW k \in DOMAIN entry'
        PROVE  entry'[k] = "done" \/ \E i \in DOMAIN stack' : stack'[i].pkg = k
    BY <1>2, <1>3, <1>5 DEF LoadsNested
  <2>3. QED BY <2>1, <2>2 DEF LoadsNested
<1>10. ASSUME NEW h \in Group \ circular
       PROVE  /\ \A i, j \in DOMAIN stack' : stack'[i].group = h /\ stack'[j].group = h => i = j
              /\ loaded'[h] # Nothing =>
                   /\ loaded'[h].pkg \in DOMAIN entry' /\ entry'[loaded'[h].pkg] = "done"
                   /\ loaded'[h].pkg[1] = h
                   /\ \A i \in DOMAIN stack' : stack'[i].group # h
              /\ loaded[h] # Nothing => loaded'[h] = loaded[h]
  <2>1. CASE h = Top.group
    <3>1. \A i \in DOMAIN stack : stack[i].group = h => i = n
      BY <2>1, <1>2, <1>3 DEF PinsStand
    <3>2. loaded[h] = Nothing
      BY <2>1, <1>2, <1>3 DEF PinsStand
    <3>3. QED BY <2>1, <3>1, <3>2, <1>2, <1>4, <1>5, <1>6
  <2>2. CASE h # Top.group
    <3>1. loaded'[h] = loaded[h]
      BY <2>2, <1>6
    <3>2. \A i, j \in DOMAIN stack' : stack'[i].group = h /\ stack'[j].group = h => i = j
      BY <1>2 DEF PinsStand
    <3>3. CASE loaded[h] # Nothing
      BY <3>1, <3>2, <3>3, <1>2, <1>5 DEF PinsStand
    <3>4. QED BY <3>1, <3>2, <3>3
  <2>3. QED BY <2>1, <2>2
<1>11. QED BY <1>1, <1>7, <1>9, <1>10 DEF PinsStand, StepKeepsPins

\* A load whose entry raised leaves the pins, and no trace on the stack.
LEMMA RaiseKeepsPins ==
  ASSUME Pinning, EntryRaises
  PROVE  Pinning' /\ StepKeepsPins
<1> DEFINE n == Len(stack)
<1> USE DEF Pinning, PackageOf
<1>1. /\ stack # <<>> /\ stack' = SubSeq(stack, 1, n - 1)
      /\ entry' = Without(entry, Top.pkg) /\ loaded' = loaded
      /\ circular' = circular /\ docs' = docs /\ hostFile' = hostFile
  BY DEF EntryRaises, aroundVars
<1>2. /\ n \in DOMAIN stack /\ DOMAIN stack' = DOMAIN stack \ {n}
      /\ \A i \in DOMAIN stack' : stack'[i] = stack[i]
      /\ stack' \in Seq(Progress)
  BY <1>1, PopLeavesRest
<1>3. Top = stack[n] /\ Top.pkg \in DOMAIN entry /\ entry[Top.pkg] = "running"
  BY <1>2 DEF Top, LoadsNested
<1>4. /\ DOMAIN entry' = DOMAIN entry \ {Top.pkg}
      /\ \A k \in DOMAIN entry' : entry'[k] = entry[k]
  BY <1>1 DEF Without
<1>5. RunnerTypeOK'
  BY <1>1, <1>2, <1>4 DEF RunnerTypeOK
<1>6. \A i \in DOMAIN stack' : stack[i].pkg # Top.pkg
  BY <1>2, <1>3 DEF LoadsNested
<1>7. LoadsNested'
  <2>1. ASSUME NEW i \in DOMAIN stack'
        PROVE  /\ stack'[i].pkg[1] = stack'[i].group
               /\ stack'[i].pkg \in DOMAIN entry' /\ entry'[stack'[i].pkg] = "running"
               /\ \A j \in DOMAIN stack' : stack'[j].pkg = stack'[i].pkg => i = j
    BY <1>2, <1>4, <1>6 DEF LoadsNested
  <2>2. ASSUME NEW k \in DOMAIN entry'
        PROVE  entry'[k] = "done" \/ \E i \in DOMAIN stack' : stack'[i].pkg = k
    BY <1>2, <1>3, <1>4 DEF LoadsNested
  <2>3. QED BY <2>1, <2>2 DEF LoadsNested
<1>8. ASSUME NEW h \in Group \ circular
      PROVE  /\ \A i, j \in DOMAIN stack' : stack'[i].group = h /\ stack'[j].group = h => i = j
             /\ loaded[h] # Nothing =>
                  /\ loaded[h].pkg \in DOMAIN entry' /\ entry'[loaded[h].pkg] = "done"
                  /\ loaded[h].pkg[1] = h
                  /\ \A i \in DOMAIN stack' : stack'[i].group # h
  <2>1. CASE loaded[h] = Nothing
    BY <2>1, <1>2 DEF PinsStand
  <2>2. CASE loaded[h] # Nothing
    <3>1. /\ loaded[h].pkg \in DOMAIN entry /\ entry[loaded[h].pkg] = "done"
          /\ loaded[h].pkg[1] = h /\ \A i \in DOMAIN stack : stack[i].group # h
      BY <2>2 DEF PinsStand
    <3>2. loaded[h].pkg # Top.pkg
      BY <3>1, <1>3
    <3>3. QED BY <3>1, <3>2, <1>2, <1>4
  <2>3. QED BY <2>1, <2>2
<1>9. QED BY <1>1, <1>5, <1>7, <1>8 DEF PinsStand, StepKeepsPins

\* Whatever is published, registered or lost around the process moves no pin.
LEMMA AroundKeepsPins ==
  ASSUME Pinning, Around \/ UNCHANGED runnerVars
  PROVE  Pinning' /\ StepKeepsPins
<1> USE DEF Pinning, PackageOf
<1>1. entry' = entry /\ loaded' = loaded /\ stack' = stack /\ circular' = circular
  BY DEF Around, Change, Publish, StoreTurns, GateTurns, RegisterGroup, FileVanishes,
         RegisterSeam, loadVars, runnerVars
<1>2. /\ docs' \in [Group -> StoreDoc \cup {Nothing}]
      /\ hostFile' \in [Group -> File \cup {Nothing, Vanished}]
  BY DEF Around, Change, Publish, StoreTurns, GateTurns, RegisterGroup, FileVanishes,
         RegisterSeam, aroundVars, runnerVars, RunnerTypeOK
<1>3. RunnerTypeOK'
  BY <1>1, <1>2 DEF RunnerTypeOK
<1>4. QED BY <1>1, <1>3 DEF LoadsNested, PinsStand, StepKeepsPins

\* A group that its own load does not ask for again is pinned once, to an
\* entry that ran to its end, and its pin never moves, for every nesting of
\* loads, failure and change around the process (runner.py 257, 632-648).
THEOREM PinsForLife == RunnerSpec => PinnedForLife
<1>1. RunnerInit => Pinning
  BY DEF RunnerInit, Pinning, RunnerTypeOK, LoadsNested, PinsStand
<1>2. Pinning /\ [RunnerNext]_runnerVars => Pinning' /\ StepKeepsPins
  <2> SUFFICES ASSUME Pinning, [RunnerNext]_runnerVars PROVE Pinning' /\ StepKeepsPins
    OBVIOUS
  <2>1. ASSUME NEW g \in Group, Load(g) PROVE Pinning' /\ StepKeepsPins
    <3>1. PICK p \in Found(g) : Import(g, p)
      BY <2>1 DEF Load
    <3>2. ~Hit(g) /\ circular' = circular \cup ({g} \cap Running) /\ UNCHANGED aroundVars
      BY <2>1 DEF Load
    <3>3. CASE PackageOf(g, p) \in DOMAIN entry
      BY <3>1, <3>2, <3>3, ImportHit
    <3>4. CASE PackageOf(g, p) \notin DOMAIN entry
      BY <3>1, <3>2, <3>4, ImportRuns
    <3>5. QED BY <3>3, <3>4
  <2>2. QED BY <2>1, ReturnPins, RaiseKeepsPins, AroundKeepsPins DEF RunnerNext
<1>3. StepKeepsPins => [\A g \in Group \ circular' : loaded'[g] # Nothing =>
                          /\ entry'[loaded'[g].pkg] = "done"
                          /\ loaded[g] # Nothing => loaded'[g] = loaded[g]]_runnerVars
  BY DEF StepKeepsPins
<1>4. QED BY <1>1, <1>2, <1>3, PTL DEF RunnerSpec, PinnedForLife

-----------------------------------------------------------------------------
(* The install.                                                            *)

InstallSpec == InstallInit /\ [][InstallNext]_installVars

Crystal == [body : Body, sha : Body]
Member == CrystalName \X (Body \cup {Unset})
BundleArtifact == [def : Definition, sha : {d.body : d \in Definition}]
Fields == {"bundle", "sha", "caps", "members", "grounded", "open"}

CrystalsOK == crystals \in [CrystalName -> Crystal \cup {Unset}]
BundlesOK == bundles \in [BundleName -> BundleArtifact \cup {Unset}]

InstallTypeOK ==
  /\ CrystalsOK /\ BundlesOK
  /\ work # Unset =>
       /\ DOMAIN work = Fields
       /\ work.members \in Seq(Member) /\ work.grounded \in Seq(Crystal)
       /\ work.open \in BOOLEAN
  /\ DOMAIN registry = BundleName

\* The crystals grounded so far are the first of the members, each the very
\* structure pinned, unaltered, and able to run on the capabilities read.
GroundedSoFar(w) ==
  /\ Len(w.grounded) <= Len(w.members)
  /\ \A i \in DOMAIN w.grounded :
       /\ w.grounded[i] = [body |-> w.members[i][2], sha |-> w.members[i][2]]
       /\ Requires[w.grounded[i].body] \subseteq w.caps

\* What a record is begun from is grounded to the end.
OpenIsGrounded(w) == w.open => Len(w.grounded) = Len(w.members)

InstallIInv ==
  /\ InstallTypeOK /\ GroundedAsPinned
  /\ work # Unset => GroundedSoFar(work) /\ OpenIsGrounded(work)

\* A crystal activates only where all it requires is advertised by name: no
\* family stands in for a member (capabilities.py, cli.py 327).
LEMMA ActivationIsExact ==
  ASSUME NEW body, NEW caps, ActivatesOn(body, caps)
  PROVE  Requires[body] \subseteq caps
<1> SUFFICES ASSUME NEW r \in Requires[body] PROVE r \in caps
  OBVIOUS
<1>1. CapabilityReach(r, caps).hops = 0
  BY DEF ActivatesOn
<1>2. r \notin caps => CapabilityReach(r, caps).hops \in {-1, 1}
  BY DEF CapabilityReach
<1>3. QED BY <1>1, <1>2

LEMMA PublishingKeeps == InstallIInv /\ Publishing => InstallIInv'
<1> SUFFICES ASSUME InstallIInv, Publishing PROVE InstallIInv'
  OBVIOUS
<1>1. work' = work /\ registry' = registry
  BY DEF Publishing, PublishCrystal, AlterCrystal, PublishBundle, AlterBundle, Posted
<1>2. CrystalsOK'
  <2>1. ASSUME NEW n \in CrystalName, NEW b \in Body, PublishCrystal(n, b) PROVE CrystalsOK'
    BY <2>1 DEF PublishCrystal, InstallIInv, InstallTypeOK, CrystalsOK, Crystal
  <2>2. ASSUME NEW n \in CrystalName, NEW b \in Body, AlterCrystal(n, b) PROVE CrystalsOK'
    <3>1. crystals[n] \in Crystal
      BY <2>2 DEF AlterCrystal, InstallIInv, InstallTypeOK, CrystalsOK
    <3>2. [crystals[n] EXCEPT !.body = b] \in Crystal
      BY <3>1 DEF Crystal
    <3>3. crystals' = [crystals EXCEPT ![n] = [crystals[n] EXCEPT !.body = b]]
      BY <2>2 DEF AlterCrystal
    <3>4. QED BY <3>2, <3>3 DEF InstallIInv, InstallTypeOK, CrystalsOK, BundlesOK
  <2>3. CASE crystals' = crystals
    BY <2>3 DEF InstallIInv, InstallTypeOK, CrystalsOK, BundlesOK
  <2>4. QED BY <2>1, <2>2, <2>3 DEF Publishing, PublishBundle, AlterBundle
<1>3. BundlesOK'
  <2>1. ASSUME NEW n \in BundleName, NEW d \in Definition, PublishBundle(n, d) PROVE BundlesOK'
    <3>1. [def |-> d, sha |-> d.body] \in BundleArtifact
      BY DEF BundleArtifact
    <3>2. QED BY <2>1, <3>1 DEF PublishBundle, InstallIInv, InstallTypeOK, BundlesOK
  <2>2. ASSUME NEW n \in BundleName, NEW d \in Definition, AlterBundle(n, d) PROVE BundlesOK'
    <3>1. bundles[n] \in BundleArtifact
      BY <2>2 DEF AlterBundle, InstallIInv, InstallTypeOK, BundlesOK
    <3>2. [bundles[n] EXCEPT !.def = d] \in BundleArtifact
      BY <3>1 DEF BundleArtifact
    <3>3. bundles' = [bundles EXCEPT ![n] = [bundles[n] EXCEPT !.def = d]]
      BY <2>2 DEF AlterBundle
    <3>4. QED BY <3>2, <3>3 DEF InstallIInv, InstallTypeOK, CrystalsOK, BundlesOK
  <2>3. CASE bundles' = bundles
    BY <2>3 DEF InstallIInv, InstallTypeOK, CrystalsOK, BundlesOK
  <2>4. QED BY <2>1, <2>2, <2>3 DEF Publishing, PublishCrystal, AlterCrystal
<1>4. QED BY <1>1, <1>2, <1>3 DEF InstallIInv, InstallTypeOK, GroundedSoFar, OpenIsGrounded, GroundedAsPinned

LEMMA StartKeeps ==
  ASSUME InstallIInv, NEW n \in BundleName, InstallStart(n), UNCHANGED <<crystals, bundles>>
  PROVE  InstallIInv'
<1>1. /\ bundles[n] # Unset /\ registry' = registry
      /\ work' = [bundle |-> n, sha |-> bundles[n].sha, caps |-> identity["manifest"].caps,
                  members |-> bundles[n].def.crystals, grounded |-> <<>>, open |-> FALSE]
  BY DEF InstallStart
<1>2. bundles[n].def \in Definition
  BY <1>1 DEF InstallIInv, InstallTypeOK, BundlesOK, BundleArtifact
<1>3. bundles[n].def.crystals \in Seq(Member)
  BY <1>2, InstallAssumption DEF Member
<1>4. /\ work'.members \in Seq(Member) /\ work'.grounded = <<>> /\ DOMAIN work' = Fields
      /\ ~work'.open
  BY <1>1, <1>3 DEF Fields
<1>5. <<>> \in Seq(Crystal) /\ DOMAIN <<>> = {} /\ Len(<<>>) = 0 /\ Len(work'.members) \in Nat
  BY <1>4
<1>6. InstallTypeOK'
  BY <1>1, <1>4, <1>5 DEF InstallIInv, InstallTypeOK, CrystalsOK, BundlesOK
<1>7. GroundedSoFar(work') /\ OpenIsGrounded(work')
  BY <1>4, <1>5 DEF GroundedSoFar, OpenIsGrounded
<1>8. QED BY <1>1, <1>6, <1>7 DEF InstallIInv, GroundedAsPinned

\* The next member is grounded, or the command ends.
LEMMA MemberKeeps ==
  ASSUME InstallIInv, InstallMember, UNCHANGED <<crystals, bundles>>
  PROVE  InstallIInv'
<1> DEFINE k == Len(work.grounded) + 1
           member == work.members[k]
           a == crystals[member[1]]
           longer == Append(work.grounded, a)
<1>1. /\ work # Unset /\ Len(work.grounded) < Len(work.members) /\ registry' = registry
      /\ DOMAIN work = Fields /\ work.members \in Seq(Member) /\ work.grounded \in Seq(Crystal)
      /\ GroundedSoFar(work) /\ work.open = FALSE
  BY DEF InstallMember, InstallIInv, InstallTypeOK, OpenIsGrounded
<1>2. CASE ~MemberGrounds(member)
  <2>1. work' = Unset
    BY <1>2 DEF InstallMember
  <2>2. QED BY <1>1, <2>1 DEF InstallIInv, InstallTypeOK, CrystalsOK, BundlesOK, GroundedAsPinned
<1>3. CASE MemberGrounds(member)
  <2>1. work' = [work EXCEPT !.grounded = longer]
    BY <1>3 DEF InstallMember
  <2>2. /\ DOMAIN work' = Fields /\ work'.grounded = longer /\ work'.members = work.members
        /\ work'.caps = work.caps /\ work'.open = FALSE
    BY <1>1, <2>1 DEF Fields
  <2>3. k \in DOMAIN work.members /\ Len(work.grounded) \in Nat /\ Len(work.members) \in Nat
    BY <1>1
  <2>4. member \in Member
    BY <1>1, <2>3
  <2>5. a \in Crystal
    <3>1. member[1] \in CrystalName /\ a # Unset
      BY <1>3, <2>4 DEF MemberGrounds, Member
    <3>2. QED BY <3>1 DEF InstallIInv, InstallTypeOK, CrystalsOK
  <2>6. a = [body |-> member[2], sha |-> member[2]]
    BY <1>3, <2>5 DEF MemberGrounds, CrystalVerifies, Crystal
  <2>7. Requires[a.body] \subseteq work.caps
    BY <1>3, ActivationIsExact DEF MemberGrounds
  <2>8. /\ longer \in Seq(Crystal) /\ Len(longer) = k /\ longer[k] = a
        /\ DOMAIN longer = DOMAIN work.grounded \cup {k}
        /\ \A i \in DOMAIN work.grounded : longer[i] = work.grounded[i]
    BY <1>1, <2>5
  <2>9. GroundedSoFar(work')
    <3>1. Len(longer) <= Len(work.members)
      BY <1>1, <2>3, <2>8
    <3>2. ASSUME NEW i \in DOMAIN longer
          PROVE  /\ longer[i] = [body |-> work.members[i][2], sha |-> work.members[i][2]]
                 /\ Requires[longer[i].body] \subseteq work.caps
      <4>1. CASE i = k
        BY <2>6, <2>7, <2>8, <4>1
      <4>2. CASE i \in DOMAIN work.grounded
        BY <1>1, <2>8, <4>2 DEF GroundedSoFar
      <4>3. QED BY <2>8, <4>1, <4>2
    <3>3. QED BY <2>2, <3>1, <3>2 DEF GroundedSoFar
  <2>10. InstallTypeOK'
    BY <1>1, <2>2, <2>8 DEF InstallIInv, InstallTypeOK, CrystalsOK, BundlesOK
  <2>11. QED BY <1>1, <2>2, <2>9, <2>10 DEF InstallIInv, GroundedAsPinned, OpenIsGrounded
<1>4. QED BY <1>2, <1>3

\* The record is truncated, an earlier one with it.
LEMMA OpensKeeps ==
  ASSUME InstallIInv, InstallOpens, UNCHANGED <<crystals, bundles>>
  PROVE  InstallIInv'
<1>1. /\ work # Unset /\ Len(work.grounded) = Len(work.members)
      /\ registry' = [registry EXCEPT ![work.bundle] = Torn]
      /\ work' = [work EXCEPT !.open = TRUE]
  BY DEF InstallOpens
<1>2. /\ DOMAIN work = Fields /\ work.members \in Seq(Member) /\ work.grounded \in Seq(Crystal)
      /\ GroundedSoFar(work) /\ DOMAIN registry = BundleName
  BY <1>1 DEF InstallIInv, InstallTypeOK
<1>3. /\ DOMAIN work' = Fields /\ work'.members = work.members /\ work'.open
      /\ work'.grounded = work.grounded /\ work'.caps = work.caps
  BY <1>1, <1>2 DEF Fields
<1>4. InstallTypeOK'
  BY <1>1, <1>2, <1>3 DEF InstallIInv, InstallTypeOK, CrystalsOK, BundlesOK
<1>5. GroundedSoFar(work') /\ OpenIsGrounded(work')
  BY <1>1, <1>2, <1>3 DEF GroundedSoFar, OpenIsGrounded
<1>6. GroundedAsPinned'
  <2>1. ASSUME NEW n \in BundleName PROVE registry'[n] = registry[n] \/ registry'[n] = Torn
    BY <1>1, <1>2
  <2>2. QED BY <2>1 DEF InstallIInv, GroundedAsPinned, Whole
<1>7. QED BY <1>4, <1>5, <1>6 DEF InstallIInv

LEMMA FillsKeeps ==
  ASSUME InstallIInv, InstallFills, UNCHANGED <<crystals, bundles>>
  PROVE  InstallIInv'
<1>1. /\ work # Unset /\ Len(work.grounded) = Len(work.members)
      /\ registry' = [registry EXCEPT ![work.bundle] = work] /\ work' = Unset
  BY DEF InstallFills, InstallIInv, OpenIsGrounded
<1>2. InstallTypeOK'
  BY <1>1 DEF InstallIInv, InstallTypeOK, CrystalsOK, BundlesOK
<1>3. DOMAIN work.members = DOMAIN work.grounded
  BY <1>1 DEF InstallIInv, InstallTypeOK, CrystalsOK, BundlesOK
<1>4. ASSUME NEW n \in BundleName PROVE registry'[n] = registry[n] \/ registry'[n] = work
  BY <1>1 DEF InstallIInv, InstallTypeOK, CrystalsOK, BundlesOK
<1>5. /\ Len(work.grounded) = Len(work.members)
      /\ \A i \in DOMAIN work.members :
           /\ work.grounded[i] = [body |-> work.members[i][2], sha |-> work.members[i][2]]
           /\ Requires[work.grounded[i].body] \subseteq work.caps
  BY <1>1, <1>3 DEF InstallIInv, GroundedSoFar
<1>6. ASSUME NEW n \in BundleName, Whole(registry'[n])
      PROVE  LET r == registry'[n] IN
             /\ Len(r.grounded) = Len(r.members)
             /\ \A i \in DOMAIN r.members :
                  /\ r.grounded[i] = [body |-> r.members[i][2], sha |-> r.members[i][2]]
                  /\ Requires[r.grounded[i].body] \subseteq r.caps
  <2>1. CASE registry'[n] = work
    BY <1>5, <2>1
  <2>2. CASE registry'[n] = registry[n]
    BY <1>6, <2>2 DEF InstallIInv, GroundedAsPinned
  <2>3. QED BY <1>4, <2>1, <2>2
<1>7. GroundedAsPinned'
  BY <1>6 DEF GroundedAsPinned
<1>8. QED BY <1>1, <1>2, <1>7 DEF InstallIInv

\* A record that no death has torn is whole, however the store changed between
\* the fetches of one install, and whichever installs died (cli.py 291-356).
THEOREM InstalledIsWhole == InstallSpec => []GroundedAsPinned
<1>1. InstallInit => InstallIInv
  BY DEF InstallInit, InstallIInv, InstallTypeOK, CrystalsOK, BundlesOK, GroundedAsPinned,
         Whole
<1>2. InstallIInv /\ [InstallNext]_installVars => InstallIInv'
  <2> SUFFICES ASSUME InstallIInv, [InstallNext]_installVars PROVE InstallIInv'
    OBVIOUS
  <2>1. CASE Publishing
    BY <2>1, PublishingKeeps
  <2>2. CASE InstallCommand
    <3>1. CASE InstallDies
      BY <2>2, <3>1 DEF InstallDies, InstallCommand, InstallIInv, InstallTypeOK, CrystalsOK,
                        BundlesOK, GroundedAsPinned
    <3>2. QED BY <2>2, <3>1, StartKeeps, MemberKeeps, OpensKeeps, FillsKeeps DEF InstallCommand
  <2>3. CASE InitCommand \/ UNCHANGED installVars
    <3>1. UNCHANGED <<crystals, bundles, work, registry>>
      BY <2>3 DEF InitCommand, installVars
    <3>2. QED BY <3>1 DEF InstallIInv, InstallTypeOK, CrystalsOK, BundlesOK, GroundedSoFar,
                       OpenIsGrounded, GroundedAsPinned
  <2>4. QED BY <2>1, <2>2, <2>3 DEF InstallNext
<1>3. InstallIInv => GroundedAsPinned
  BY DEF InstallIInv
<1>4. QED BY <1>1, <1>2, <1>3, PTL DEF InstallSpec
=============================================================================
