-------------------------------- MODULE Reach --------------------------------
(***************************************************************************)
(* The reach circuit (prism/reach.py) over one store-and-forward carrier.   *)
(*                                                                         *)
(* Every node is one Reactor: a requester inbox and the providers its      *)
(* process served, driven by Reactor.pump.  A need is a leaf put on the    *)
(* carrier; a provider that can open it runs its handler, discharges       *)
(* evidence onto the carrier and may relay a residual need one hop on; the *)
(* requester finds the evidence by the root its provenance names.          *)
(*                                                                         *)
(* The carrier is the durable append-only leaf feed the carriers of        *)
(* prism/carriers.py give: a leaf's position stands for its content hash   *)
(* (every leaf is sealed under a fresh nonce, so no two are equal).  All   *)
(* else a node holds is memory and is gone when its process stops.         *)
(***************************************************************************)
EXTENDS Naturals, Sequences, FiniteSets

CONSTANTS
  Node,        \* the principals, one Reactor each
  Cap,         \* the capabilities a need can be addressed to
  NoCap,       \* the handler names no next capability, or leaves no residual
  Serves,      \* Serves[n]: capabilities of n's providers, in serve() order
  Opens,       \* Opens[n]: the capabilities inside n's light-cone
  MaxAsks,     \* bound: needs placed by applications
  MaxCrashes,  \* MaxCrashes[n]: bound on the restarts of node n
  MaxFaults    \* bound: exceptions raised while a node pumps

ASSUME ReachAssumption ==
  /\ NoCap \notin Cap
  /\ Serves \in [Node -> Seq(Cap)]
  /\ Opens \in [Node -> SUBSET Cap]
  /\ MaxAsks \in Nat /\ MaxCrashes \in [Node -> Nat] /\ MaxFaults \in Nat

VARIABLES
  carrier,   \* the leaves, in the order they were put
  at,        \* at[n]: 0 when n is not pumping, else the consumer now polling
  todo,      \* todo[n]: leaves of the last poll that consumer has not visited
  residual,  \* residual[n]: the relay on_leaf still has to put
  seen,      \* seen[n][p]: Provider._seen, the needs provider p has taken
  inbox,     \* inbox[n]: the evidence leaves the requester has absorbed
  done,      \* history: <<n, p, i>> where on_leaf of need i ran to its end
  lost,      \* history: <<n, p, i>> where an exception cut on_leaf short
             \*   since n last started
  crashes,   \* crashes[n]: restarts so far
  faults     \* exceptions so far

vars == <<carrier, at, todo, residual, seen, inbox, done, lost, crashes, faults>>

Provider(n) == 1..Len(Serves[n])       \* Reactor._providers
Inbox(n)    == Len(Serves[n]) + 1      \* the consumer polled after them all

Leaf == [kind : {"need", "evidence"}, cap : Cap, origin : Node,
         root : Nat, parent : Nat, path : SUBSET Cap]

Ids          == DOMAIN carrier
Needs        == {i \in Ids : carrier[i].kind = "need"}
Evidence     == {i \in Ids : carrier[i].kind = "evidence"}
NoResidual   == [need |-> 0, cap |-> NoCap]

\* _need_artifact: a need without a root is its own root.
NeedArtifact(n, c, root, parent, path) ==
  [kind |-> "need", cap |-> c, origin |-> n,
   root |-> IF root = 0 THEN Len(carrier) + 1 ELSE root,
   parent |-> parent, path |-> path]

\* Mutant: the evidence is filed under the need it answers, not the root.
MutEvidenceUnderNeed(n, c, i) ==
  [kind |-> "evidence", cap |-> c, origin |-> n,
   root |-> i, parent |-> i, path |-> {}]

\* _evidence_artifact: what provider c of node n found for need i.
EvidenceArtifact(n, c, i) ==
  [kind |-> "evidence", cap |-> c, origin |-> n,
   root |-> carrier[i].root, parent |-> i, path |-> {}]

\* Mutants: no _seen check; no light-cone check.
MutAdmitsAgain(n, p, i) ==
  carrier[i].kind = "need" /\ carrier[i].cap = Serves[n][p] /\ Serves[n][p] \in Opens[n]
MutAdmitsUnopened(n, p, i) ==
  carrier[i].kind = "need" /\ carrier[i].cap = Serves[n][p] /\ i \notin seen[n][p]

\* Where Provider.on_leaf does not return early: a need for this capability,
\* inside the light-cone (so that the group key opens it), not yet taken.
Admits(n, p, i) ==
  /\ carrier[i].kind = "need"
  /\ carrier[i].cap = Serves[n][p]
  /\ Serves[n][p] \in Opens[n]
  /\ i \notin seen[n][p]

\* Mutant: only evidence for the need first placed is taken.
MutAwaitsFirstHop(n, i) ==
  /\ carrier[i].kind = "evidence" /\ i \notin inbox[n]
  /\ carrier[i].parent = carrier[i].root

\* Where Requester.on_leaf does not return early: evidence not yet absorbed
\* (every reactor joins the ground, so it opens all evidence).
Awaits(n, i) == carrier[i].kind = "evidence" /\ i \notin inbox[n]

\* Mutant: the hop is followed wherever the signal has been.
MutRelaysInCircles(i, to) == to \in Cap

\* Where a handled need leaves a relay to put: a next hop is named, and the
\* signal has not passed there.
Relays(i, to) == to \in Cap /\ to \notin carrier[i].path

\* The hop a handler names, or _route_next measures for the residual: any
\* capability, or none when there is no residual or nothing couples to it.
NextHops == Cap \cup {NoCap}

\* What carrier.poll() hands consumer k of node n, less what on_leaf skips.
Poll(n, k) == {i \in Ids : IF k = Inbox(n) THEN Awaits(n, i) ELSE Admits(n, k, i)}

Init ==
  /\ carrier = <<>>
  /\ at = [n \in Node |-> 0]
  /\ todo = [n \in Node |-> {}]
  /\ residual = [n \in Node |-> NoResidual]
  /\ seen = [n \in Node |-> [p \in Provider(n) |-> {}]]
  /\ inbox = [n \in Node |-> {}]
  /\ done = {} /\ lost = {}
  /\ crashes = [n \in Node |-> 0]
  /\ faults = 0

-----------------------------------------------------------------------------
(* The application's side.                                                 *)

\* reach(): place a need on the ground; its id is the handle.
Ask(n, c) ==
  /\ Cardinality({i \in Needs : carrier[i].parent = 0}) < MaxAsks
  /\ carrier' = Append(carrier, NeedArtifact(n, c, 0, 0, {c}))
  /\ UNCHANGED <<at, todo, residual, seen, inbox, done, lost, crashes, faults>>

-----------------------------------------------------------------------------
(* Reactor.pump: each provider polls and visits, then the inbox does.      *)

Idle(n) == todo[n] = {} /\ residual[n] = NoResidual

\* Mutant: one consumer too many is polled.
MutPollNextPast(n) ==
  /\ Idle(n) /\ at[n] <= Inbox(n)
  /\ at' = [at EXCEPT ![n] = @ + 1]
  /\ todo' = [todo EXCEPT ![n] = IF at[n] < Inbox(n) THEN Poll(n, at[n] + 1) ELSE {}]
  /\ UNCHANGED <<carrier, residual, seen, inbox, done, lost, crashes, faults>>

\* The next consumer polls, once the one before it has visited every leaf.
PollNext(n) ==
  /\ Idle(n) /\ at[n] < Inbox(n)
  /\ at' = [at EXCEPT ![n] = @ + 1]
  /\ todo' = [todo EXCEPT ![n] = Poll(n, at[n] + 1)]
  /\ UNCHANGED <<carrier, residual, seen, inbox, done, lost, crashes, faults>>

\* The inbox has visited every leaf: Reactor.pump returns.
EndPump(n) ==
  /\ Idle(n) /\ at[n] = Inbox(n)
  /\ at' = [at EXCEPT ![n] = 0]
  /\ UNCHANGED <<carrier, todo, residual, seen, inbox, done, lost, crashes, faults>>

\* Provider.on_leaf up to the evidence: take the need, run the handler, put
\* what it absorbed.  The hop the handler names (or _route_next measures) is
\* followed unless the signal has already passed there.
OnLeaf(n, i, absorbed, to) ==
  LET p == at[n]
  IN /\ p \in Provider(n) /\ i \in todo[n] /\ residual[n] = NoResidual
     /\ todo' = [todo EXCEPT ![n] = @ \ {i}]
     /\ seen' = [seen EXCEPT ![n][p] = @ \cup {i}]
     /\ carrier' = IF absorbed
                   THEN Append(carrier, EvidenceArtifact(n, Serves[n][p], i))
                   ELSE carrier
     /\ residual' = IF Relays(i, to)
                    THEN [residual EXCEPT ![n] = [need |-> i, cap |-> to]]
                    ELSE residual
     /\ done' = IF Relays(i, to) THEN done ELSE done \cup {<<n, p, i>>}
     /\ UNCHANGED <<at, inbox, lost, crashes, faults>>

\* Provider.on_leaf, its last part: the residual is put as a need derived
\* from the one just handled.
Relay(n) ==
  LET i == residual[n].need
      c == residual[n].cap
  IN /\ residual[n] # NoResidual
     /\ carrier' = Append(carrier, NeedArtifact(n, c, carrier[i].root, i,
                                                carrier[i].path \cup {c}))
     /\ residual' = [residual EXCEPT ![n] = NoResidual]
     /\ done' = done \cup {<<n, at[n], i>>}
     /\ UNCHANGED <<at, todo, seen, inbox, lost, crashes, faults>>

\* Requester.on_leaf: evidence is absorbed once, under the root it names.
Collect(n, i) ==
  /\ at[n] = Inbox(n) /\ i \in todo[n]
  /\ todo' = [todo EXCEPT ![n] = @ \ {i}]
  /\ inbox' = [inbox EXCEPT ![n] = @ \cup {i}]
  /\ UNCHANGED <<carrier, at, residual, seen, done, lost, crashes, faults>>

-----------------------------------------------------------------------------
(* Exceptions and restarts.  An exception leaves Reactor.pump and is       *)
(* swallowed by PumpLoop.tick: the rest of the pass does not happen.       *)

Abort(n) ==
  /\ faults < MaxFaults
  /\ faults' = faults + 1
  /\ at' = [at EXCEPT ![n] = 0]
  /\ todo' = [todo EXCEPT ![n] = {}]

\* The handler raises, or the carrier refuses its evidence: the need is
\* already in _seen.
OnLeafRaises(n, i) ==
  /\ at[n] \in Provider(n) /\ i \in todo[n] /\ residual[n] = NoResidual
  /\ Abort(n)
  /\ seen' = [seen EXCEPT ![n][at[n]] = @ \cup {i}]
  /\ lost' = lost \cup {<<n, at[n], i>>}
  /\ UNCHANGED <<carrier, residual, inbox, done, crashes>>

\* The carrier refuses the residual, or no instrument is there to measure its
\* hop: the evidence is out, the hop is not.
RelayRaises(n) ==
  /\ residual[n] # NoResidual
  /\ Abort(n)
  /\ residual' = [residual EXCEPT ![n] = NoResidual]
  /\ lost' = lost \cup {<<n, at[n], residual[n].need>>}
  /\ UNCHANGED <<carrier, seen, inbox, done, crashes>>

\* The next consumer's poll raises: the consumers after it are not reached.
PollRaises(n) ==
  /\ Idle(n) /\ at[n] < Inbox(n)
  /\ Abort(n)
  /\ UNCHANGED <<carrier, residual, seen, inbox, done, lost, crashes>>

\* Mutant: what has been taken outlives the process, the relay does not.
MutCrashKeepsSeen(n) ==
  /\ crashes[n] < MaxCrashes[n]
  /\ crashes' = [crashes EXCEPT ![n] = @ + 1]
  /\ at' = [at EXCEPT ![n] = 0]
  /\ todo' = [todo EXCEPT ![n] = {}]
  /\ residual' = [residual EXCEPT ![n] = NoResidual]
  /\ inbox' = [inbox EXCEPT ![n] = {}]
  /\ lost' = {x \in lost : x[1] # n}
  /\ UNCHANGED <<carrier, seen, done, faults>>

\* The process stops, at any point of a pump, and comes back with new
\* Provider and Requester objects over the same carrier.
Crash(n) ==
  /\ crashes[n] < MaxCrashes[n]
  /\ crashes' = [crashes EXCEPT ![n] = @ + 1]
  /\ at' = [at EXCEPT ![n] = 0]
  /\ todo' = [todo EXCEPT ![n] = {}]
  /\ residual' = [residual EXCEPT ![n] = NoResidual]
  /\ seen' = [seen EXCEPT ![n] = [p \in Provider(n) |-> {}]]
  /\ inbox' = [inbox EXCEPT ![n] = {}]
  /\ lost' = {x \in lost : x[1] # n}
  /\ UNCHANGED <<carrier, done, faults>>

-----------------------------------------------------------------------------
\* The steps the pump loop keeps taking on its own.
Pump(n) ==
  \/ PollNext(n)
  \/ EndPump(n)
  \/ \E i \in todo[n], absorbed \in BOOLEAN, to \in NextHops :
       OnLeaf(n, i, absorbed, to)
  \/ Relay(n)
  \/ \E i \in todo[n] : Collect(n, i)

Fault(n) ==
  \/ \E i \in todo[n] : OnLeafRaises(n, i)
  \/ RelayRaises(n)
  \/ PollRaises(n)
  \/ Crash(n)

Next == \E n \in Node : Pump(n) \/ Fault(n) \/ \E c \in Cap : Ask(n, c)

Spec == Init /\ [][Next]_vars

\* PumpLoop.tick runs again and again: no node's pump stops for ever.
FairSpec == Spec /\ \A n \in Node : WF_vars(Pump(n))

-----------------------------------------------------------------------------
(* Properties.                                                             *)

\* The values each variable ranges over.
TypeOK ==
  /\ carrier \in Seq(Leaf)
  /\ at \in [Node -> Nat] /\ \A n \in Node : at[n] <= Inbox(n)
  /\ todo \in [Node -> SUBSET Ids]
  /\ residual \in [Node -> [need : Nat, cap : Cap \cup {NoCap}]]
  /\ DOMAIN seen = Node
  /\ \A n \in Node : seen[n] \in [Provider(n) -> SUBSET Ids]
  /\ inbox \in [Node -> SUBSET Ids]
  /\ done \subseteq Node \X Nat \X Ids
  /\ lost \subseteq Node \X Nat \X Ids
  /\ crashes \in [Node -> Nat]
  /\ faults \in Nat

\* Provenance can be followed from any leaf back to the need an application
\* placed.  A relayed need hangs off an older need of the same root and adds
\* one capability its path had not met (the relay never runs in a circle);
\* evidence answers an older need, at that need's capability, under its root.
\* Both come from a node whose light-cone opens the need they hang off.
ProvenOf(i) ==
  LET l == carrier[i] IN
  IF l.kind = "need" /\ l.parent = 0
  THEN l.root = i /\ l.path = {l.cap}
  ELSE /\ l.parent \in Needs /\ l.parent < i
       /\ l.root = carrier[l.parent].root
       /\ carrier[l.parent].cap \in Opens[l.origin]
       /\ IF l.kind = "need"
          THEN /\ l.cap \notin carrier[l.parent].path
               /\ l.path = carrier[l.parent].path \cup {l.cap}
          ELSE l.cap = carrier[l.parent].cap

Provenance == \A i \in Ids : ProvenOf(i)

\* However often a need is polled, each provider answers it and relays it at
\* most once per life of its process: re-delivery makes no duplicate, only a
\* restart can.
ProvidersOf(n, c) == {p \in Provider(n) : Serves[n][p] = c}
Children(n, i, kind) ==
  {j \in Ids : carrier[j].kind = kind /\ carrier[j].origin = n /\ carrier[j].parent = i}

OncePerLife ==
  \A n \in Node, i \in Needs, kind \in {"need", "evidence"} :
    Cardinality(Children(n, i, kind))
      <= (crashes[n] + 1) * Cardinality(ProvidersOf(n, carrier[i].cap))

\* What a provider has taken is accounted for at every moment of a pump: it
\* ran to its end, or its residual is about to be put, or an exception cut it
\* short.  No restart leaves a need marked as taken with its relay unput.
Accounted ==
  \A n \in Node : \A p \in Provider(n) : \A i \in seen[n][p] :
    \/ <<n, p, i>> \in done \cup lost
    \/ at[n] = p /\ residual[n].need = i

\* What a requester holds for a handle is evidence under a need somebody
\* placed: walking up from it ends at the handle.
Grounded ==
  \A n \in Node : \A i \in inbox[n] :
    /\ i \in Evidence /\ carrier[i].root \in Needs
    /\ carrier[carrier[i].root].parent = 0

\* Every need a provider can open is in the end worked off by it, unless an
\* exception of its present life cut it short; restarts do not lose it.
Due(n, p, i) == i \in Needs /\ carrier[i].cap = Serves[n][p] /\ Serves[n][p] \in Opens[n]

WorkedOff ==
  <>[](\A n \in Node : \A p \in Provider(n) : \A i \in Ids :
         Due(n, p, i) => <<n, p, i>> \in done \cup lost)

\* Every evidence leaf reaches every requester on the ground, and the relay
\* comes to rest: from some time on every inbox holds all the evidence.
Collected == <>[](\A n \in Node : inbox[n] = Evidence)

\* The circuit implements its promise: forget leaf ids, polling and who put
\* what when, and what is left is a tree of hops that grows, is answered and
\* collected only as ReachPromise allows.
HopOf(i)    == [root |-> carrier[i].root, cap |-> carrier[i].cap, path |-> carrier[i].path]
AnswerOf(e) == [hop |-> HopOf(carrier[e].parent), by |-> carrier[e].origin]

Promise == INSTANCE ReachPromise WITH
  hops      <- {HopOf(i) : i \in Needs},
  answered  <- {AnswerOf(e) : e \in Evidence},
  collected <- [n \in Node |-> {AnswerOf(e) : e \in inbox[n]}]

KeepsPromise == Promise!Spec

\* The same with the promise's fairness: answers do not stay uncollected.
KeepsPromiseInTime == Promise!FairSpec
=============================================================================
