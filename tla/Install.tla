-------------------------------- MODULE Install --------------------------------
(***************************************************************************)
(* The command line: a prism's identity, and the bundles it has grounded.   *)
(* `init` writes three files one after the other; `install` fetches a       *)
(* bundle and its crystals one by one from a store others publish to,       *)
(* checks each, and records them together at the end.                       *)
(* (cli.py, crystal_model.py, capabilities.py)                              *)
(*                                                                          *)
(* A body stands for the canonical bytes of a crystal or a payload, and is  *)
(* its own sha256.  One command of each kind runs at a time.  Every file is *)
(* written in place: it is truncated, and then filled unless the process    *)
(* dies between.                                                            *)
(***************************************************************************)
EXTENDS Integers, Sequences, FiniteSets

CONSTANTS Capability, Known,    \* names; those a host may sign into a manifest
          Family,               \* capability |-> its open family, or Unset
          Requires,             \* crystal body |-> what its organons require
          ValidBody,            \* bodies that pass crystal_model.validate
          CrystalName, BundleName,
          Definition,           \* bundle definitions: [kind, crystals, body]
          Unset, Torn,          \* no file, no artifact, no pin; a file truncated
          MaxPosts              \* bound: artifacts posted

\* A crystal artifact is [body, sha]; a bundle artifact is a definition with
\* the sha its manifest claims, which covers the payload and not the manifest;
\* crystals is a sequence of <<name, pin>>.
Body == DOMAIN Requires

ASSUME InstallAssumption ==
  /\ MaxPosts \in Nat /\ Known \subseteq Capability /\ ValidBody \subseteq Body
  /\ \A b \in Body : Requires[b] \subseteq Capability
  /\ \A d \in Definition : d.crystals \in Seq(CrystalName \X (Body \cup {Unset}))

VARIABLES crystals, bundles,  \* the store: name |-> artifact
          posts,
          identity,           \* file |-> the identity it was written for
          generated,          \* how many keys were generated
          writing,            \* the init in progress: [id, next, open] or Unset
          work,               \* the install in progress, or Unset
          registry            \* KEYS_DIR/installed: bundle |-> record

identityVars == <<identity, generated, writing>>
installVars == <<crystals, bundles, posts, identityVars, work, registry>>

\* Mutant: the manifest is written before the keys it names.
MutManifestFirst == <<"manifest", "private", "public">>

\* host.private.pem, host.public.pem, prism.manifest.json, as they are written.
KeyFiles == <<"private", "public", "manifest">>
Whole(file) == file \notin {Unset, Torn}

InstallInit ==
  /\ crystals = [n \in CrystalName |-> Unset] /\ bundles = [n \in BundleName |-> Unset]
  /\ posts = 0 /\ generated = 0 /\ identity = [f \in {"private", "public", "manifest"} |-> Unset]
  /\ writing = Unset /\ work = Unset /\ registry = [n \in BundleName |-> Unset]

(***************************************************************************)
(* The contract: the shas, and the junction a crystal must fit.            *)
(***************************************************************************)
CrystalVerifies(a) == a.sha = a.body
VerifyBundleSha(a) == a.sha = a.def.body

\* The nearest thing advertised for one requirement, and how far it is.
CapabilityReach(r, advertised) ==
  IF r \in advertised THEN [matched |-> {r}, hops |-> 0]
  ELSE LET near == {a \in advertised : Family[r] # Unset /\ Family[a] = Family[r]} IN
       [matched |-> near, hops |-> IF near = {} THEN -1 ELSE 1]

ActivatesOn(body, advertised) ==
  \A r \in Requires[body] : CapabilityReach(r, advertised).hops = 0

(***************************************************************************)
(* publish, by this prism or another: the sha is computed from the payload. *)
(* The store may also come to hold an artifact that was altered.            *)
(***************************************************************************)
Posted == posts < MaxPosts /\ posts' = posts + 1 /\ UNCHANGED <<identityVars, work, registry>>

PublishCrystal(n, body) ==
  /\ body \in ValidBody
  /\ crystals' = [crystals EXCEPT ![n] = [body |-> body, sha |-> body]]
  /\ Posted /\ UNCHANGED bundles

PublishBundle(n, d) ==
  /\ bundles' = [bundles EXCEPT ![n] = [def |-> d, sha |-> d.body]]
  /\ Posted /\ UNCHANGED crystals

AlterCrystal(n, body) ==
  /\ crystals[n] # Unset /\ crystals[n].body # body
  /\ crystals' = [crystals EXCEPT ![n].body = body]
  /\ Posted /\ UNCHANGED bundles

AlterBundle(n, d) ==
  /\ bundles[n] # Unset /\ bundles' = [bundles EXCEPT ![n].def = d] /\ bundles' # bundles
  /\ Posted /\ UNCHANGED crystals

Publishing ==
  \/ \E n \in CrystalName, b \in Body : PublishCrystal(n, b) \/ AlterCrystal(n, b)
  \/ \E n \in BundleName, d \in Definition : PublishBundle(n, d) \/ AlterBundle(n, d)

(***************************************************************************)
(* init: refused for a capability outside the vocabulary and, without       *)
(* --force, for an identity that exists; then the three files of it, each   *)
(* truncated and filled.                                                    *)
(***************************************************************************)
InitStart(caps, force) ==
  /\ writing = Unset /\ caps \subseteq Known
  /\ identity["private"] = Unset \/ force
  /\ generated' = generated + 1 /\ generated' <= 2     \* bound: two identities
  /\ writing' = [id |-> [key |-> generated', caps |-> caps], next |-> 1, open |-> FALSE]
  /\ UNCHANGED identity

InitOpens ==
  /\ writing # Unset /\ ~writing.open
  /\ identity' = [identity EXCEPT ![KeyFiles[writing.next]] = Torn]
  /\ writing' = [writing EXCEPT !.open = TRUE] /\ UNCHANGED generated

InitFills ==
  /\ writing # Unset /\ writing.open
  /\ identity' = [identity EXCEPT ![KeyFiles[writing.next]] = writing.id]
  /\ writing' = IF writing.next = Len(KeyFiles) THEN Unset
                ELSE [writing EXCEPT !.next = @ + 1, !.open = FALSE]
  /\ UNCHANGED generated

\* The process dies: what it wrote stays.
InitDies == writing # Unset /\ writing' = Unset /\ UNCHANGED <<identity, generated>>

InitCommand ==
  /\ \/ \E caps \in SUBSET Capability, force \in BOOLEAN : InitStart(caps, force)
     \/ InitOpens \/ InitFills \/ InitDies
  /\ UNCHANGED <<crystals, bundles, posts, work, registry>>

(***************************************************************************)
(* install.  Every refusal ends the command and leaves the registry alone.  *)
(***************************************************************************)
\* The capabilities are read, the bundle fetched, its sha and kind checked; a
\* torn manifest raises.
InstallStart(n) ==
  /\ work = Unset /\ Whole(identity["manifest"]) /\ bundles[n] # Unset
  /\ VerifyBundleSha(bundles[n])
  /\ bundles[n].def.kind = "artifact" /\ bundles[n].def.crystals # <<>>
  /\ work' = [bundle |-> n, sha |-> bundles[n].sha, caps |-> identity["manifest"].caps,
              members |-> bundles[n].def.crystals, grounded |-> <<>>, open |-> FALSE]
  /\ UNCHANGED registry

\* Mutant: a member is not held against its pin.
MutMemberUnpinned(member) ==
  LET a == crystals[member[1]] IN
  a # Unset /\ CrystalVerifies(a) /\ ActivatesOn(a.body, work.caps)

\* One member: fetched, verified, held against its pin and the junction.
MemberGrounds(member) ==
  LET a == crystals[member[1]] IN
  /\ a # Unset /\ CrystalVerifies(a) /\ a.body = member[2]
  /\ ActivatesOn(a.body, work.caps)

InstallMember ==
  /\ work # Unset /\ Len(work.grounded) < Len(work.members)
  /\ LET member == work.members[Len(work.grounded) + 1] IN
     IF MemberGrounds(member)
     THEN work' = [work EXCEPT !.grounded = Append(@, crystals[member[1]])]
     ELSE work' = Unset
  /\ UNCHANGED registry

\* The record is written over an earlier one of the same bundle.
InstallOpens ==
  /\ work # Unset /\ ~work.open /\ Len(work.grounded) = Len(work.members)
  /\ registry' = [registry EXCEPT ![work.bundle] = Torn]
  /\ work' = [work EXCEPT !.open = TRUE]

InstallFills ==
  /\ work # Unset /\ work.open
  /\ registry' = [registry EXCEPT ![work.bundle] = work]
  /\ work' = Unset

InstallDies == work # Unset /\ work' = Unset /\ UNCHANGED registry

InstallCommand ==
  /\ (\E n \in BundleName : InstallStart(n)) \/ InstallMember
     \/ InstallOpens \/ InstallFills \/ InstallDies
  /\ UNCHANGED <<crystals, bundles, posts, identityVars>>

InstallNext == Publishing \/ InitCommand \/ InstallCommand

(***************************************************************************)
(* Properties.                                                              *)
(***************************************************************************)
\* A record that the registry holds, and that no death has torn, is whole: every
\* crystal the bundle's manifest lists, in its order, each the very structure it
\* pins, unaltered, and able to run on the recorded capabilities themselves, no
\* near one standing in, however the store changed between the fetches and
\* whichever installs of the bundle died before (cli.py 291-356).
GroundedAsPinned ==
  \A n \in BundleName : Whole(registry[n]) =>
    LET r == registry[n] IN
    /\ Len(r.grounded) = Len(r.members)
    /\ \A i \in DOMAIN r.members :
         /\ r.grounded[i] = [body |-> r.members[i][2], sha |-> r.members[i][2]]
         /\ Requires[r.grounded[i].body] \subseteq r.caps

\* The manifest that the other commands go by never speaks for an identity whose
\* keys were not written: wherever an init died, and whatever a later one with
\* --force replaced, both key files are there, and one that is whole is of the
\* manifest's identity or of a later one (cli.py 189-205).
ManifestComesLast ==
  Whole(identity["manifest"]) =>
    \A f \in {"private", "public"} :
      /\ identity[f] # Unset
      /\ Whole(identity[f]) => identity[f].key >= identity["manifest"].key
=============================================================================
