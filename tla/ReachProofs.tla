----------------------------- MODULE ReachProofs -----------------------------
(* Proofs about Reach: for any nodes, capabilities, providers, light-cones   *)
(* and bounds, the circuit keeps its types, its provenance and its handles,  *)
(* serves once per life, and implements ReachPromise.                       *)
EXTENDS Reach, FiniteSetTheorems, TLAPS

-----------------------------------------------------------------------------
(* The inductive invariant.                                                *)

\* Need i is one that provider p of n may work on.
Workable(n, p, i) ==
  i \in Needs /\ carrier[i].cap = Serves[n][p] /\ carrier[i].cap \in Opens[n]

\* What a node has in hand during a pump is what its current consumer may
\* work on, and the relay under way leads where the signal has not been.
InHand(n) ==
  /\ at[n] = 0 => todo[n] = {}
  /\ at[n] \in Provider(n) => \A i \in todo[n] : Workable(n, at[n], i)
  /\ at[n] = Inbox(n) => todo[n] \subseteq Evidence
  /\ residual[n] # NoResidual =>
       /\ at[n] \in Provider(n) /\ Workable(n, at[n], residual[n].need)
       /\ residual[n].cap \in Cap \ carrier[residual[n].need].path
WorkInHand == \A n \in Node : InHand(n)

\* Every leaf's root is a need that an application placed.
RootedOf(i) == carrier[i].root \in Needs /\ carrier[carrier[i].root].parent = 0
Rooted == \A i \in Ids : RootedOf(i)

InboxIsEvidence == \A n \in Node : inbox[n] \subseteq Evidence

IInv == TypeOK /\ WorkInHand /\ Rooted /\ Provenance /\ InboxIsEvidence

-----------------------------------------------------------------------------
(* The carrier only grows.                                                 *)

\* Appending a leaf adds one id and changes no leaf that was there.
LEMMA Append1 ==
  ASSUME TypeOK, NEW l \in Leaf, carrier' = Append(carrier, l)
  PROVE  /\ carrier' \in Seq(Leaf)
         /\ Len(carrier) \in Nat
         /\ Ids = 1..Len(carrier) /\ Ids' = 1..(Len(carrier) + 1)
         /\ \A i \in Ids : carrier'[i] = carrier[i] /\ carrier[i] \in Leaf
         /\ carrier'[Len(carrier) + 1] = l
<1>1. carrier \in Seq(Leaf)
  BY DEF TypeOK
<1> QED BY <1>1 DEF Ids

\* So what is a need stays one, evidence too, and what a leaf's provenance
\* says of it still holds.
LEMMA AppendKeeps ==
  ASSUME TypeOK, NEW l \in Leaf, carrier' = Append(carrier, l)
  PROVE  /\ Ids \subseteq Ids' /\ Needs \subseteq Needs' /\ Evidence \subseteq Evidence'
         /\ Provenance => \A i \in Ids : ProvenOf(i)'
         /\ Rooted => \A i \in Ids : RootedOf(i)'
<1>1. /\ Len(carrier) \in Nat
      /\ Ids = 1..Len(carrier) /\ Ids' = 1..(Len(carrier) + 1)
      /\ \A i \in Ids : carrier'[i] = carrier[i] /\ carrier[i] \in Leaf
  BY Append1
<1>2. Ids \subseteq Ids'
  BY <1>1
<1>3. Needs \subseteq Needs' /\ Evidence \subseteq Evidence'
  BY <1>1, <1>2 DEF Needs, Evidence
<1>4. ASSUME Provenance, NEW i \in Ids PROVE ProvenOf(i)'
  <2>1. ProvenOf(i) /\ carrier'[i] = carrier[i]
    BY <1>1, <1>4 DEF Provenance
  <2>2. CASE carrier[i].kind = "need" /\ carrier[i].parent = 0
    BY <2>1, <2>2 DEF ProvenOf
  <2>3. CASE ~(carrier[i].kind = "need" /\ carrier[i].parent = 0)
    <3>1. carrier[i].parent \in Needs
      BY <2>1, <2>3 DEF ProvenOf
    <3>2. carrier[i].parent \in Ids /\ carrier[i].parent \in Needs'
      BY <3>1, <1>3 DEF Needs
    <3>3. carrier'[carrier[i].parent] = carrier[carrier[i].parent]
      BY <3>2, <1>1
    <3> QED BY <2>1, <2>3, <3>2, <3>3 DEF ProvenOf
  <2> QED BY <2>2, <2>3
<1>5. ASSUME Rooted, NEW i \in Ids PROVE RootedOf(i)'
  <2>1. RootedOf(i) /\ carrier'[i] = carrier[i]
    BY <1>1, <1>5 DEF Rooted
  <2>2. carrier[i].root \in Ids /\ carrier[i].root \in Needs'
    BY <2>1, <1>3 DEF RootedOf, Needs
  <2>3. carrier'[carrier[i].root] = carrier[carrier[i].root]
    BY <2>2, <1>1
  <2> QED BY <2>1, <2>2, <2>3 DEF RootedOf
<1> QED BY <1>2, <1>3, <1>4, <1>5

\* Steps that put no leaf keep all that is said of leaves.
LEMMA SameCarrier ==
  ASSUME UNCHANGED carrier
  PROVE  /\ Ids' = Ids /\ Needs' = Needs /\ Evidence' = Evidence
         /\ Provenance' = Provenance /\ Rooted' = Rooted
         /\ \A n, p, i : Workable(n, p, i)' = Workable(n, p, i)
BY DEF Ids, Needs, Evidence, Provenance, ProvenOf, Rooted, RootedOf, Workable

\* A new leaf that is itself in order leaves every leaf in order.
LEMMA NewLeaf ==
  ASSUME TypeOK, Provenance, Rooted, NEW l \in Leaf, carrier' = Append(carrier, l),
         NEW k \in Nat, k = Len(carrier) + 1, ProvenOf(k)', RootedOf(k)'
  PROVE  Provenance' /\ Rooted'
<1>1. /\ Len(carrier) \in Nat
      /\ Ids = 1..Len(carrier) /\ Ids' = 1..(Len(carrier) + 1)
  BY Append1
<1>2. \A i \in Ids' : i \in Ids \/ i = k
  BY <1>1
<1>3. \A i \in Ids : ProvenOf(i)' /\ RootedOf(i)'
  BY AppendKeeps
<1>4. ASSUME NEW i \in Ids' PROVE ProvenOf(i)' /\ RootedOf(i)'
  <2>1. CASE i = k
    BY <2>1, Zenon
  <2>2. CASE i \in Ids
    BY <2>2, <1>3, Zenon
  <2> QED BY <1>2, <2>1, <2>2
<1> QED BY <1>4 DEF Provenance, Rooted

\* A need without a parent is in order: it is its own root.
LEMMA Opening ==
  ASSUME TypeOK, NEW n \in Node, NEW c \in Cap,
         NEW k \in Nat, k = Len(carrier) + 1,
         carrier' = Append(carrier, NeedArtifact(n, c, 0, 0, {c}))
  PROVE  /\ NeedArtifact(n, c, 0, 0, {c}) \in Leaf
         /\ ProvenOf(k)' /\ RootedOf(k)'
<1>1. /\ NeedArtifact(n, c, 0, 0, {c}) =
            [kind |-> "need", cap |-> c, origin |-> n, root |-> k, parent |-> 0, path |-> {c}]
      /\ NeedArtifact(n, c, 0, 0, {c}) \in Leaf
  BY DEF NeedArtifact, Leaf
<1>2. PICK l \in Leaf :
        l = [kind |-> "need", cap |-> c, origin |-> n, root |-> k, parent |-> 0, path |-> {c}]
  BY <1>1
<1>3. carrier' = Append(carrier, l)
  BY <1>1, <1>2
<1>4. k \in Ids' /\ carrier'[k] = l
  <2>1. Len(carrier) \in Nat /\ Ids' = 1..(Len(carrier) + 1) /\ carrier'[Len(carrier) + 1] = l
    BY <1>3, Append1, Zenon
  <2> QED BY <2>1
<1>5. l.kind = "need" /\ l.parent = 0 /\ l.root = k /\ l.path = {l.cap}
  BY <1>2
<1>6. k \in Needs'
  BY <1>4, <1>5 DEF Needs
<1>7. ProvenOf(k)'
  BY <1>4, <1>5 DEF ProvenOf
<1>8. RootedOf(k)'
  BY <1>4, <1>5, <1>6 DEF RootedOf
<1> QED BY <1>1, <1>7, <1>8

\* A leaf that hangs off a need its node may work on, under that need's root,
\* is in order: evidence at the need's capability, or a relay to one the
\* signal has not passed.
LEMMA Hanging ==
  ASSUME TypeOK, Rooted, NEW n \in Node, NEW p, NEW i, Workable(n, p, i),
         NEW l \in Leaf, carrier' = Append(carrier, l),
         NEW k \in Nat, k = Len(carrier) + 1,
         l.origin = n, l.parent = i, l.root = carrier[i].root,
         \/ l.kind = "evidence" /\ l.cap = carrier[i].cap
         \/ /\ l.kind = "need" /\ l.cap \notin carrier[i].path
            /\ l.path = carrier[i].path \cup {l.cap}
  PROVE  ProvenOf(k)' /\ RootedOf(k)'
<1>1. /\ Len(carrier) \in Nat
      /\ Ids = 1..Len(carrier) /\ Ids' = 1..(Len(carrier) + 1)
      /\ \A j \in Ids : carrier'[j] = carrier[j] /\ carrier[j] \in Leaf
      /\ carrier'[k] = l
  BY Append1
<1>2. Needs \subseteq Needs' /\ \A j \in Ids : RootedOf(j)'
  BY AppendKeeps
<1>3. i \in Needs /\ i \in Ids /\ carrier[i].cap \in Opens[n]
  BY DEF Workable, Needs
<1>4. /\ i \in Needs' /\ i < k /\ i # 0
      /\ carrier'[i] = carrier[i]
  BY <1>1, <1>2, <1>3
<1>5. l.root = carrier'[i].root /\ RootedOf(i)'
  BY <1>2, <1>3, <1>4
<1>6. RootedOf(k)'
  BY <1>1, <1>5 DEF RootedOf
<1>7. ProvenOf(k)'
  BY <1>1, <1>3, <1>4 DEF ProvenOf, Leaf
<1> QED BY <1>6, <1>7

\* Needs that may be worked on still may when a leaf is put.
LEMMA WorkableStays ==
  ASSUME TypeOK, NEW l \in Leaf, carrier' = Append(carrier, l),
         NEW n, NEW p, NEW i, Workable(n, p, i)
  PROVE  Workable(n, p, i)' /\ carrier'[i] = carrier[i] /\ i \in Ids
<1>1. i \in Ids
  BY DEF Workable, Needs
<1> QED BY <1>1, Append1, AppendKeeps DEF Workable

-----------------------------------------------------------------------------
(* What a node has in hand.                                                *)

\* The consumers of n: its providers, numbered from 1, and then the inbox.
LEMMA Consumers ==
  ASSUME ReachAssumption, NEW n \in Node
  PROVE  /\ Inbox(n) \in Nat /\ Provider(n) \subseteq Nat
         /\ 0 \notin Provider(n) /\ Inbox(n) \notin Provider(n) /\ Inbox(n) # 0
         /\ \A k \in Nat : k < Inbox(n) => k + 1 \in Provider(n) \cup {Inbox(n)}
         /\ \A p \in Provider(n) : Serves[n][p] \in Cap /\ p <= Inbox(n)
<1>1. Serves[n] \in Seq(Cap)
  BY DEF ReachAssumption
<1>2. Len(Serves[n]) \in Nat /\ \A p \in 1..Len(Serves[n]) : Serves[n][p] \in Cap
  BY <1>1
<1> QED BY <1>2 DEF Provider, Inbox

\* A node that takes no step keeps what it has in hand, whatever is put.
LEMMA OthersKeep ==
  ASSUME TypeOK, NEW m \in Node, InHand(m),
         \/ UNCHANGED carrier
         \/ \E l \in Leaf : carrier' = Append(carrier, l),
         at'[m] = at[m], todo'[m] = todo[m], residual'[m] = residual[m]
  PROVE  InHand(m)'
<1>1. CASE UNCHANGED carrier
  BY <1>1, SameCarrier DEF InHand, Provider, Inbox, NoResidual
<1>2. CASE \E l \in Leaf : carrier' = Append(carrier, l)
  <2>1. PICK l \in Leaf : carrier' = Append(carrier, l)
    BY <1>2
  <2>2. Evidence \subseteq Evidence'
    BY <2>1, AppendKeeps
  <2>3. \A p, i : Workable(m, p, i) => Workable(m, p, i)' /\ carrier'[i] = carrier[i]
    BY <2>1, WorkableStays
  <2> QED BY <2>2, <2>3 DEF InHand, Provider, Inbox, NoResidual
<1> QED BY <1>1, <1>2

-----------------------------------------------------------------------------
(* The initial state and the steps.                                        *)

LEMMA InitHolds == ReachAssumption /\ Init => IInv
<1> SUFFICES ASSUME ReachAssumption, Init PROVE IInv
  OBVIOUS
<1>1. Ids = {} /\ Needs = {} /\ Evidence = {}
  BY DEF Init, Ids, Needs, Evidence
<1>2. TypeOK
  BY <1>1, Consumers DEF Init, TypeOK, NoResidual
<1>3. WorkInHand
  BY Consumers DEF Init, WorkInHand, InHand
<1> QED BY <1>1, <1>2, <1>3 DEF IInv, Rooted, Provenance, InboxIsEvidence, Init

LEMMA PollNextKeeps ==
  ASSUME ReachAssumption, IInv, NEW n \in Node, PollNext(n)
  PROVE  IInv'
<1>1. TypeOK /\ WorkInHand /\ InboxIsEvidence /\ at[n] \in Nat
  BY DEF IInv, TypeOK
<1>2. /\ UNCHANGED <<carrier, residual, seen, inbox, done, lost, crashes, faults>>
      /\ residual[n] = NoResidual /\ at[n] < Inbox(n)
      /\ at' = [at EXCEPT ![n] = at[n] + 1]
      /\ todo' = [todo EXCEPT ![n] = Poll(n, at[n] + 1)]
  BY DEF PollNext, Idle
<1>3. at[n] + 1 \in Provider(n) \cup {Inbox(n)} /\ at[n] + 1 # 0
  BY <1>1, <1>2, Consumers
<1>4. /\ Poll(n, at[n] + 1) \subseteq Ids
      /\ at[n] + 1 \in Provider(n) =>
           \A i \in Poll(n, at[n] + 1) : Workable(n, at[n] + 1, i)
      /\ at[n] + 1 = Inbox(n) => Poll(n, at[n] + 1) \subseteq Evidence
  BY <1>3, Consumers DEF Poll, Admits, Awaits, Workable, Needs, Evidence
<1>5. TypeOK'
  <2>1. at' \in [Node -> Nat] /\ at'[n] <= Inbox(n) /\ todo' \in [Node -> SUBSET Ids]
    BY <1>1, <1>2, <1>3, <1>4, Consumers DEF TypeOK
  <2> QED BY <1>2, <2>1, SameCarrier DEF IInv, TypeOK, Provider, Inbox
<1>6. WorkInHand'
  <2> SUFFICES ASSUME NEW m \in Node PROVE InHand(m)'
    BY DEF WorkInHand
  <2>1. CASE m # n
    BY <2>1, <1>1, <1>2, OthersKeep DEF WorkInHand, TypeOK
  <2>2. CASE m = n
    <3>1. /\ at'[n] = at[n] + 1 /\ todo'[n] = Poll(n, at[n] + 1)
          /\ residual'[n] = NoResidual
      BY <1>1, <1>2 DEF TypeOK
    <3> QED BY <2>2, <3>1, <1>2, <1>3, <1>4, SameCarrier
            DEF InHand, Provider, Inbox, NoResidual
  <2> QED BY <2>1, <2>2
<1> QED BY <1>1, <1>2, <1>5, <1>6, SameCarrier DEF IInv, InboxIsEvidence

\* The conjuncts of TypeOK, by what a step touches together.
PumpTyped ==
  /\ at \in [Node -> Nat] /\ \A n \in Node : at[n] <= Inbox(n)
  /\ todo \in [Node -> SUBSET Ids]
  /\ residual \in [Node -> [need : Nat, cap : Cap \cup {NoCap}]]
MemoryTyped ==
  /\ DOMAIN seen = Node
  /\ \A n \in Node : seen[n] \in [Provider(n) -> SUBSET Ids]
  /\ inbox \in [Node -> SUBSET Ids]
HistoryTyped ==
  /\ done \subseteq Node \X Nat \X Ids
  /\ lost \subseteq Node \X Nat \X Ids
  /\ crashes \in [Node -> Nat]
  /\ faults \in Nat

\* What a provider has seen keeps its type as leaves are added to it.
LEMMA SeenMore ==
  ASSUME TypeOK, NEW n \in Node, NEW p \in Provider(n), NEW i \in Ids,
         UNCHANGED <<carrier, inbox>>,
         seen' = [seen EXCEPT ![n][p] = seen[n][p] \cup {i}]
  PROVE  MemoryTyped'
<1>1. Ids' = Ids
  BY SameCarrier
<1>2. DOMAIN seen' = Node /\ inbox' \in [Node -> SUBSET Ids]
  BY DEF TypeOK
<1>3. seen[n][p] \cup {i} \in SUBSET Ids
  BY DEF TypeOK
<1>4. \A m \in Node : seen'[m] \in [Provider(m) -> SUBSET Ids]
  <2> SUFFICES ASSUME NEW m \in Node
               PROVE  seen'[m] \in [Provider(m) -> SUBSET Ids]
    OBVIOUS
  <2>1. seen[m] \in [Provider(m) -> SUBSET Ids]
    BY DEF TypeOK
  <2>2. CASE m = n
    <3>1. seen'[m] = [seen[m] EXCEPT ![p] = seen[n][p] \cup {i}]
      BY <2>2 DEF TypeOK
    <3> QED BY <2>1, <3>1, <1>3
  <2>3. CASE m # n
    BY <2>1, <2>3 DEF TypeOK
  <2> QED BY <2>2, <2>3
<1> QED BY <1>1, <1>2, <1>4 DEF MemoryTyped, Provider

LEMMA EndPumpKeeps ==
  ASSUME ReachAssumption, IInv, NEW n \in Node, EndPump(n)
  PROVE  IInv'
<1>1. /\ UNCHANGED <<carrier, todo, residual, seen, inbox, done, lost, crashes, faults>>
      /\ residual[n] = NoResidual /\ todo[n] = {}
      /\ at' = [at EXCEPT ![n] = 0]
  BY DEF EndPump, Idle
<1>2. TypeOK /\ WorkInHand
  BY DEF IInv
<1>3. TypeOK'
  <2>1. Ids' = Ids
    BY <1>1, SameCarrier
  <2>2. PumpTyped'
    BY <1>1, <1>2, <2>1, Consumers DEF TypeOK, PumpTyped, Inbox
  <2>3. MemoryTyped'
    BY <1>1, <1>2, <2>1 DEF TypeOK, MemoryTyped, Provider
  <2>4. HistoryTyped'
    BY <1>1, <1>2, <2>1 DEF TypeOK, HistoryTyped
  <2> QED BY <1>1, <1>2, <2>2, <2>3, <2>4
          DEF TypeOK, PumpTyped, MemoryTyped, HistoryTyped
<1>4. WorkInHand'
  <2> SUFFICES ASSUME NEW m \in Node PROVE InHand(m)'
    BY DEF WorkInHand
  <2>1. CASE m # n
    BY <2>1, <1>1, <1>2, OthersKeep DEF WorkInHand, TypeOK
  <2>2. CASE m = n
    BY <2>2, <1>1, <1>2, Consumers, SameCarrier
    DEF TypeOK, InHand, Provider, Inbox, NoResidual
  <2> QED BY <2>1, <2>2
<1> QED BY <1>1, <1>3, <1>4, SameCarrier DEF IInv, InboxIsEvidence

LEMMA CollectKeeps ==
  ASSUME ReachAssumption, IInv, NEW n \in Node, NEW i, Collect(n, i)
  PROVE  IInv'
<1>1. /\ UNCHANGED <<carrier, at, residual, seen, done, lost, crashes, faults>>
      /\ at[n] = Inbox(n) /\ i \in todo[n]
      /\ todo' = [todo EXCEPT ![n] = todo[n] \ {i}]
      /\ inbox' = [inbox EXCEPT ![n] = inbox[n] \cup {i}]
  BY DEF Collect
<1>2. TypeOK /\ WorkInHand /\ InboxIsEvidence
  BY DEF IInv
<1>3. i \in Evidence /\ i \in Ids
  BY <1>1, <1>2 DEF WorkInHand, InHand, TypeOK
<1>4. TypeOK'
  BY <1>1, <1>2, <1>3, SameCarrier DEF TypeOK, Provider, Inbox
<1>5. WorkInHand'
  <2> SUFFICES ASSUME NEW m \in Node PROVE InHand(m)'
    BY DEF WorkInHand
  <2>1. CASE m # n
    BY <2>1, <1>1, <1>2, OthersKeep DEF WorkInHand, TypeOK
  <2>2. CASE m = n
    <3>1. todo'[n] = todo[n] \ {i} /\ InHand(n)
      BY <1>1, <1>2 DEF TypeOK, WorkInHand
    <3> QED BY <2>2, <3>1, <1>1, SameCarrier DEF InHand, Provider, Inbox, NoResidual
  <2> QED BY <2>1, <2>2
<1>6. InboxIsEvidence'
  BY <1>1, <1>2, <1>3, SameCarrier DEF InboxIsEvidence, TypeOK
<1> QED BY <1>1, <1>4, <1>5, <1>6, SameCarrier DEF IInv

\* However a pump is cut short, nothing stays in hand.
LEMMA Halting ==
  ASSUME ReachAssumption, TypeOK, WorkInHand, NEW n \in Node, UNCHANGED carrier,
         at' = [at EXCEPT ![n] = 0], todo' = [todo EXCEPT ![n] = {}],
         residual' = [residual EXCEPT ![n] = NoResidual]
  PROVE  WorkInHand' /\ PumpTyped'
<1>1. WorkInHand'
  <2> SUFFICES ASSUME NEW m \in Node PROVE InHand(m)'
    BY DEF WorkInHand
  <2>1. CASE m # n
    BY <2>1, OthersKeep DEF WorkInHand, TypeOK
  <2>2. CASE m = n
    BY <2>2, Consumers, SameCarrier DEF TypeOK, InHand, Provider, Inbox, NoResidual
  <2> QED BY <2>1, <2>2
<1>2. PumpTyped'
  BY Consumers, SameCarrier DEF TypeOK, PumpTyped, NoResidual, Inbox
<1> QED BY <1>1, <1>2

\* The triples the histories are made of.
LEMMA InHandTriple ==
  ASSUME ReachAssumption, TypeOK, WorkInHand, NEW n \in Node
  PROVE  /\ \A i \in todo[n] : <<n, at[n], i>> \in Node \X Nat \X Ids
         /\ residual[n] # NoResidual =>
              <<n, at[n], residual[n].need>> \in Node \X Nat \X Ids
BY DEF TypeOK, WorkInHand, InHand, Workable, Needs

\* The histories keep their type as a lost triple and a fault are added.
LEMMA HistoryMore ==
  ASSUME TypeOK, UNCHANGED <<carrier, done, crashes>>, NEW t \in Node \X Nat \X Ids,
         lost' = lost \cup {t}, faults' = faults + 1
  PROVE  HistoryTyped'
<1>1. Ids' = Ids
  BY SameCarrier
<1>2. /\ done \subseteq Node \X Nat \X Ids /\ lost \subseteq Node \X Nat \X Ids
      /\ crashes \in [Node -> Nat] /\ faults \in Nat
  BY DEF TypeOK
<1>3. lost' \subseteq Node \X Nat \X Ids
  BY <1>2
<1>4. faults' \in Nat
  BY <1>2
<1> QED BY <1>1, <1>2, <1>3, <1>4 DEF HistoryTyped

LEMMA OnLeafRaisesKeeps ==
  ASSUME ReachAssumption, IInv, NEW n \in Node, NEW i, OnLeafRaises(n, i)
  PROVE  IInv'
<1>1. /\ UNCHANGED <<carrier, residual, inbox, done, crashes>>
      /\ at[n] \in Provider(n) /\ i \in todo[n] /\ residual[n] = NoResidual
      /\ at' = [at EXCEPT ![n] = 0] /\ todo' = [todo EXCEPT ![n] = {}]
      /\ faults' = faults + 1
      /\ seen' = [seen EXCEPT ![n][at[n]] = seen[n][at[n]] \cup {i}]
      /\ lost' = lost \cup {<<n, at[n], i>>}
  BY DEF OnLeafRaises, Abort
<1>2. TypeOK /\ WorkInHand
  BY DEF IInv
<1>3. residual' = [residual EXCEPT ![n] = NoResidual]
  BY <1>1, <1>2 DEF TypeOK
<1>4. WorkInHand' /\ PumpTyped'
  BY <1>1, <1>2, <1>3, Halting
<1>5. i \in Ids /\ <<n, at[n], i>> \in Node \X Nat \X Ids
  BY <1>1, <1>2, InHandTriple DEF TypeOK
<1>6. MemoryTyped'
  BY <1>1, <1>2, <1>5, SeenMore
<1>7. HistoryTyped'
  BY <1>1, <1>2, <1>5, HistoryMore
<1>8. TypeOK'
  BY <1>1, <1>2, <1>4, <1>6, <1>7 DEF TypeOK, PumpTyped, MemoryTyped, HistoryTyped
<1> QED BY <1>1, <1>4, <1>8, SameCarrier DEF IInv, InboxIsEvidence

LEMMA RelayRaisesKeeps ==
  ASSUME ReachAssumption, IInv, NEW n \in Node, RelayRaises(n)
  PROVE  IInv'
<1>1. /\ UNCHANGED <<carrier, seen, inbox, done, crashes>>
      /\ residual[n] # NoResidual
      /\ at' = [at EXCEPT ![n] = 0] /\ todo' = [todo EXCEPT ![n] = {}]
      /\ residual' = [residual EXCEPT ![n] = NoResidual]
      /\ faults' = faults + 1
      /\ lost' = lost \cup {<<n, at[n], residual[n].need>>}
  BY DEF RelayRaises, Abort
<1>2. TypeOK /\ WorkInHand
  BY DEF IInv
<1>3. WorkInHand' /\ PumpTyped'
  BY <1>1, <1>2, Halting
<1>4. <<n, at[n], residual[n].need>> \in Node \X Nat \X Ids
  BY <1>1, <1>2, InHandTriple
<1>5. MemoryTyped'
  BY <1>1, <1>2, SameCarrier DEF TypeOK, MemoryTyped, Provider
<1>6. HistoryTyped'
  BY <1>1, <1>2, <1>4, HistoryMore
<1>7. TypeOK'
  BY <1>1, <1>2, <1>3, <1>5, <1>6 DEF TypeOK, PumpTyped, MemoryTyped, HistoryTyped
<1> QED BY <1>1, <1>3, <1>7, SameCarrier DEF IInv, InboxIsEvidence

LEMMA PollRaisesKeeps ==
  ASSUME ReachAssumption, IInv, NEW n \in Node, PollRaises(n)
  PROVE  IInv'
<1>1. /\ UNCHANGED <<carrier, residual, seen, inbox, done, lost, crashes>>
      /\ residual[n] = NoResidual
      /\ at' = [at EXCEPT ![n] = 0] /\ todo' = [todo EXCEPT ![n] = {}]
      /\ faults' = faults + 1
  BY DEF PollRaises, Abort, Idle
<1>2. TypeOK /\ WorkInHand
  BY DEF IInv
<1>3. residual' = [residual EXCEPT ![n] = NoResidual]
  BY <1>1, <1>2 DEF TypeOK
<1>4. WorkInHand' /\ PumpTyped'
  BY <1>1, <1>2, <1>3, Halting
<1>5. MemoryTyped' /\ HistoryTyped'
  <2>1. Ids' = Ids
    BY <1>1, SameCarrier
  <2>2. MemoryTyped'
    BY <1>1, <1>2, <2>1 DEF TypeOK, MemoryTyped, Provider
  <2>3. HistoryTyped'
    BY <1>1, <1>2, <2>1 DEF TypeOK, HistoryTyped
  <2> QED BY <2>2, <2>3
<1>6. TypeOK'
  BY <1>1, <1>2, <1>4, <1>5 DEF TypeOK, PumpTyped, MemoryTyped, HistoryTyped
<1> QED BY <1>1, <1>4, <1>6, SameCarrier DEF IInv, InboxIsEvidence

LEMMA CrashKeeps ==
  ASSUME ReachAssumption, IInv, NEW n \in Node, Crash(n)
  PROVE  IInv'
<1>1. /\ UNCHANGED <<carrier, done, faults>>
      /\ at' = [at EXCEPT ![n] = 0] /\ todo' = [todo EXCEPT ![n] = {}]
      /\ residual' = [residual EXCEPT ![n] = NoResidual]
      /\ crashes' = [crashes EXCEPT ![n] = crashes[n] + 1]
      /\ seen' = [seen EXCEPT ![n] = [p \in Provider(n) |-> {}]]
      /\ inbox' = [inbox EXCEPT ![n] = {}]
      /\ lost' \subseteq lost
  BY DEF Crash
<1>2. TypeOK /\ WorkInHand /\ InboxIsEvidence
  BY DEF IInv
<1>3. WorkInHand' /\ PumpTyped'
  BY <1>1, <1>2, Halting
<1>4. MemoryTyped'
  BY <1>1, <1>2, SameCarrier DEF TypeOK, MemoryTyped, Provider
<1>5. HistoryTyped'
  <2>1. Ids' = Ids
    BY <1>1, SameCarrier
  <2>2. crashes' \in [Node -> Nat] /\ lost' \subseteq Node \X Nat \X Ids
    BY <1>1, <1>2 DEF TypeOK
  <2> QED BY <1>1, <1>2, <2>1, <2>2 DEF TypeOK, HistoryTyped
<1>6. TypeOK'
  BY <1>1, <1>2, <1>3, <1>4, <1>5 DEF TypeOK, PumpTyped, MemoryTyped, HistoryTyped
<1>7. InboxIsEvidence'
  BY <1>1, <1>2, SameCarrier DEF InboxIsEvidence, TypeOK
<1> QED BY <1>1, <1>3, <1>6, <1>7, SameCarrier DEF IInv

\* What was typed before a leaf is put is typed after it.
LEMMA AppendTyped ==
  ASSUME TypeOK, NEW l \in Leaf, carrier' = Append(carrier, l)
  PROVE  /\ carrier' \in Seq(Leaf)
         /\ UNCHANGED <<at, todo>> => todo' \in [Node -> SUBSET Ids']
         /\ UNCHANGED <<seen, inbox>> => MemoryTyped'
         /\ UNCHANGED <<lost, crashes, faults>> /\ done' \subseteq Node \X Nat \X Ids'
              => HistoryTyped'
<1>1. Ids \subseteq Ids' /\ carrier' \in Seq(Leaf)
  BY AppendKeeps, Append1
<1>2. ASSUME UNCHANGED <<seen, inbox>> PROVE MemoryTyped'
  BY <1>1, <1>2 DEF TypeOK, MemoryTyped, Provider
<1>3. ASSUME UNCHANGED <<lost, crashes, faults>>, done' \subseteq Node \X Nat \X Ids'
      PROVE  HistoryTyped'
  BY <1>1, <1>3 DEF TypeOK, HistoryTyped
<1>4. ASSUME UNCHANGED <<at, todo>> PROVE todo' \in [Node -> SUBSET Ids']
  BY <1>1, <1>4 DEF TypeOK
<1> QED BY <1>1, <1>2, <1>3, <1>4

LEMMA AskKeeps ==
  ASSUME ReachAssumption, IInv, NEW n \in Node, NEW c \in Cap, Ask(n, c)
  PROVE  IInv'
<1>1. /\ TypeOK /\ WorkInHand /\ InboxIsEvidence /\ Rooted /\ Provenance
      /\ Len(carrier) \in Nat
  <2>1. carrier \in Seq(Leaf)
    BY DEF IInv, TypeOK
  <2> QED BY <2>1 DEF IInv
<1>2. /\ carrier' = Append(carrier, NeedArtifact(n, c, 0, 0, {c}))
      /\ UNCHANGED <<at, todo, residual, seen, inbox, done, lost, crashes, faults>>
  BY DEF Ask
<1>3. PICK k \in Nat : k = Len(carrier) + 1
  BY <1>1
<1>4. /\ NeedArtifact(n, c, 0, 0, {c}) \in Leaf
      /\ ProvenOf(k)' /\ RootedOf(k)'
  BY <1>1, <1>2, <1>3, Opening
<1>5. PICK l \in Leaf : carrier' = Append(carrier, l)
  BY <1>2, <1>4
<1>6. Provenance' /\ Rooted'
  BY <1>1, <1>3, <1>4, <1>5, NewLeaf
<1>7. Ids \subseteq Ids' /\ Evidence \subseteq Evidence'
  BY <1>1, <1>5, AppendKeeps
<1>8. WorkInHand'
  BY <1>1, <1>2, <1>5, OthersKeep DEF WorkInHand
<1>9. TypeOK'
  <2>1. PumpTyped'
    BY <1>1, <1>2, <1>7 DEF TypeOK, PumpTyped, Inbox
  <2>2. done' \subseteq Node \X Nat \X Ids'
    BY <1>1, <1>2, <1>7 DEF TypeOK
  <2>3. carrier' \in Seq(Leaf) /\ MemoryTyped' /\ HistoryTyped'
    BY <1>1, <1>2, <1>5, <2>2, AppendTyped
  <2> QED BY <2>1, <2>3 DEF TypeOK, PumpTyped, MemoryTyped, HistoryTyped
<1>10. InboxIsEvidence'
  BY <1>1, <1>2, <1>7 DEF InboxIsEvidence
<1> QED BY <1>6, <1>8, <1>9, <1>10 DEF IInv

LEMMA RelayKeeps ==
  ASSUME ReachAssumption, IInv, NEW n \in Node, Relay(n)
  PROVE  IInv'
<1>1. /\ TypeOK /\ WorkInHand /\ InboxIsEvidence /\ Rooted /\ Provenance
      /\ Len(carrier) \in Nat
  <2>1. carrier \in Seq(Leaf)
    BY DEF IInv, TypeOK
  <2> QED BY <2>1 DEF IInv
<1> DEFINE i == residual[n].need
           c == residual[n].cap
           hop == NeedArtifact(n, c, carrier[i].root, i, carrier[i].path \cup {c})
<1>2. /\ residual[n] # NoResidual
      /\ carrier' = Append(carrier, hop)
      /\ residual' = [residual EXCEPT ![n] = NoResidual]
      /\ done' = done \cup {<<n, at[n], i>>}
      /\ UNCHANGED <<at, todo, seen, inbox, lost, crashes, faults>>
  BY DEF Relay
<1>3. /\ at[n] \in Provider(n) /\ Workable(n, at[n], i)
      /\ c \in Cap \ carrier[i].path
  BY <1>1, <1>2 DEF WorkInHand, InHand
<1>4. /\ i \in Ids /\ i \in Nat /\ carrier[i] \in Leaf
      /\ carrier[i].root \in Nat \ {0} /\ carrier[i].path \subseteq Cap
  <2>1. i \in Ids /\ carrier[i] \in Leaf /\ Ids = 1..Len(carrier)
    BY <1>1, <1>3 DEF Workable, Needs, TypeOK, Ids
  <2>2. RootedOf(i)
    BY <1>1, <2>1 DEF Rooted
  <2>3. carrier[i].root \in 1..Len(carrier)
    BY <2>1, <2>2 DEF RootedOf, Needs
  <2> QED BY <2>1, <2>3 DEF Leaf
<1>5. /\ hop.origin = n /\ hop.parent = i /\ hop.root = carrier[i].root
      /\ hop.kind = "need" /\ hop.cap = c /\ hop.path = carrier[i].path \cup {c}
      /\ hop \in Leaf
  BY <1>3, <1>4 DEF NeedArtifact, Leaf
<1> HIDE DEF hop
<1>6. PICK l \in Leaf : l = hop
  BY <1>5
<1>7. carrier' = Append(carrier, l)
  BY <1>2, <1>6
<1>8. PICK k \in Nat : k = Len(carrier) + 1
  BY <1>1
<1>9. PICK j : j = i
  OBVIOUS
<1>10. ProvenOf(k)' /\ RootedOf(k)'
  <2>1. /\ l.origin = n /\ l.parent = j /\ l.root = carrier[j].root
        /\ l.kind = "need" /\ l.cap \notin carrier[j].path
        /\ l.path = carrier[j].path \cup {l.cap}
    BY <1>3, <1>5, <1>6, <1>9
  <2>2. PICK p : p = at[n]
    OBVIOUS
  <2>3. Workable(n, p, j)
    BY <1>3, <1>9, <2>2
  <2> QED BY <1>1, <1>7, <1>8, <2>1, <2>3, Hanging
<1>11. Provenance' /\ Rooted'
  BY <1>1, <1>7, <1>8, <1>10, NewLeaf
<1>12. Ids \subseteq Ids' /\ Evidence \subseteq Evidence'
  BY <1>1, <1>7, AppendKeeps
<1>13. WorkInHand'
  <2> SUFFICES ASSUME NEW m \in Node PROVE InHand(m)'
    BY DEF WorkInHand
  <2>1. CASE m # n
    BY <2>1, <1>1, <1>2, <1>7, OthersKeep DEF WorkInHand, TypeOK
  <2>2. CASE m = n
    <3>1. residual'[n] = NoResidual /\ InHand(n)
      BY <1>1, <1>2 DEF TypeOK, WorkInHand
    <3>2. \A p, x : Workable(n, p, x) => Workable(n, p, x)'
      BY <1>1, <1>7, WorkableStays
    <3> QED BY <2>2, <3>1, <3>2, <1>2, <1>3, <1>12 DEF InHand, Provider, Inbox, NoResidual
  <2> QED BY <2>1, <2>2
<1>14. TypeOK'
  <2>1. PumpTyped'
    BY <1>1, <1>2, <1>12 DEF TypeOK, PumpTyped, Inbox, NoResidual
  <2>2. done' \subseteq Node \X Nat \X Ids'
    BY <1>1, <1>2, <1>4, <1>12 DEF TypeOK
  <2>3. carrier' \in Seq(Leaf) /\ MemoryTyped' /\ HistoryTyped'
    BY <1>1, <1>2, <1>7, <2>2, AppendTyped
  <2> QED BY <2>1, <2>3 DEF TypeOK, PumpTyped, MemoryTyped, HistoryTyped
<1>15. InboxIsEvidence'
  BY <1>1, <1>2, <1>12 DEF InboxIsEvidence
<1> QED BY <1>11, <1>13, <1>14, <1>15 DEF IInv

\* The leaf on_leaf puts, if any, is in order.
LEMMA EvidenceInOrder ==
  ASSUME ReachAssumption, IInv, NEW n \in Node, NEW p \in Provider(n), NEW i, Workable(n, p, i),
         carrier' = Append(carrier, EvidenceArtifact(n, Serves[n][p], i))
  PROVE  Provenance' /\ Rooted' /\ \E l \in Leaf : carrier' = Append(carrier, l)
<1>1. TypeOK /\ Rooted /\ Provenance /\ carrier \in Seq(Leaf)
  BY DEF IInv, TypeOK
<1>2. /\ i \in Ids /\ i \in Nat /\ carrier[i] \in Leaf /\ Serves[n][p] = carrier[i].cap
      /\ carrier[i].cap \in Cap /\ carrier[i].root \in Nat
  <2>1. i \in Ids /\ Serves[n][p] = carrier[i].cap
    BY DEF Workable, Needs
  <2>2. i \in Nat /\ carrier[i] \in Leaf
    BY <1>1, <2>1 DEF Ids
  <2> QED BY <2>1, <2>2 DEF Leaf
<1>3. /\ EvidenceArtifact(n, Serves[n][p], i) =
            [kind |-> "evidence", cap |-> carrier[i].cap, origin |-> n,
             root |-> carrier[i].root, parent |-> i, path |-> {}]
      /\ EvidenceArtifact(n, Serves[n][p], i) \in Leaf
  BY <1>2 DEF EvidenceArtifact, Leaf
<1>4. PICK l \in Leaf : l = EvidenceArtifact(n, Serves[n][p], i)
  BY <1>3
<1>5. /\ l.kind = "evidence" /\ l.cap = carrier[i].cap /\ l.origin = n
      /\ l.root = carrier[i].root /\ l.parent = i
  BY <1>3, <1>4
<1>6. carrier' = Append(carrier, l)
  BY <1>4
<1>7. PICK k \in Nat : k = Len(carrier) + 1
  BY <1>1
<1>8. ProvenOf(k)' /\ RootedOf(k)'
  BY <1>1, <1>5, <1>6, <1>7, Hanging
<1>9. Provenance' /\ Rooted'
  BY <1>1, <1>6, <1>7, <1>8, NewLeaf
<1> QED BY <1>6, <1>9

LEMMA OnLeafKeeps ==
  ASSUME ReachAssumption, IInv, NEW n \in Node, NEW i, NEW absorbed \in BOOLEAN,
         NEW to \in NextHops, OnLeaf(n, i, absorbed, to)
  PROVE  IInv'
<1>1. TypeOK /\ WorkInHand /\ InboxIsEvidence /\ Rooted /\ Provenance
  BY DEF IInv
<1>2. /\ at[n] \in Provider(n) /\ i \in todo[n] /\ residual[n] = NoResidual
      /\ todo' = [todo EXCEPT ![n] = todo[n] \ {i}]
      /\ seen' = [seen EXCEPT ![n][at[n]] = seen[n][at[n]] \cup {i}]
      /\ carrier' = IF absorbed
                    THEN Append(carrier, EvidenceArtifact(n, Serves[n][at[n]], i))
                    ELSE carrier
      /\ residual' = IF Relays(i, to)
                     THEN [residual EXCEPT ![n] = [need |-> i, cap |-> to]]
                     ELSE residual
      /\ done' \subseteq done \cup {<<n, at[n], i>>}
      /\ UNCHANGED <<at, inbox, lost, crashes, faults>>
  BY DEF OnLeaf
<1>3. Workable(n, at[n], i) /\ InHand(n) /\ i \in Ids /\ i \in Nat
  <2>1. Workable(n, at[n], i) /\ InHand(n)
    BY <1>1, <1>2 DEF WorkInHand, InHand
  <2>2. i \in Ids /\ carrier \in Seq(Leaf)
    BY <2>1, <1>1 DEF Workable, Needs, TypeOK
  <2> QED BY <2>1, <2>2 DEF Ids
<1>4. Provenance' /\ Rooted' /\ (UNCHANGED carrier \/ \E l \in Leaf : carrier' = Append(carrier, l))
  <2>1. CASE absorbed
    <3>1. PICK p \in Provider(n) : p = at[n]
      BY <1>2
    <3>2. /\ Workable(n, p, i)
          /\ carrier' = Append(carrier, EvidenceArtifact(n, Serves[n][p], i))
      BY <1>2, <1>3, <2>1, <3>1
    <3> QED BY <3>2, EvidenceInOrder
  <2>2. CASE ~absorbed
    BY <2>2, <1>1, <1>2, SameCarrier
  <2> QED BY <2>1, <2>2
<1>5. /\ Ids \subseteq Ids' /\ Evidence \subseteq Evidence' /\ carrier' \in Seq(Leaf)
      /\ \A p, x : Workable(n, p, x) => Workable(n, p, x)' /\ carrier'[x] = carrier[x]
  <2>1. CASE UNCHANGED carrier
    BY <2>1, <1>1, SameCarrier DEF TypeOK
  <2>2. CASE \E l \in Leaf : carrier' = Append(carrier, l)
    BY <2>2, <1>1, Append1, AppendKeeps, WorkableStays
  <2> QED BY <1>4, <2>1, <2>2
<1>6. /\ residual' \in [Node -> [need : Nat, cap : Cap \cup {NoCap}]]
      /\ \A m \in Node \ {n} : residual'[m] = residual[m]
      /\ \/ residual'[n] = NoResidual
         \/ /\ residual'[n].need = i
            /\ residual'[n].cap \in Cap \ carrier[i].path
  BY <1>1, <1>2, <1>3 DEF TypeOK, Relays
<1>7. WorkInHand'
  <2> SUFFICES ASSUME NEW m \in Node PROVE InHand(m)'
    BY DEF WorkInHand
  <2>1. CASE m # n
    BY <2>1, <1>1, <1>2, <1>4, <1>6, OthersKeep DEF WorkInHand, TypeOK
  <2>2. CASE m = n
    <3>1. todo'[n] = todo[n] \ {i} /\ at'[n] = at[n] /\ at[n] # 0 /\ at[n] # Inbox(n)
      BY <1>1, <1>2, Consumers DEF TypeOK
    <3>2. carrier'[i] = carrier[i] /\ Workable(n, at[n], i)'
      BY <1>2, <1>3, <1>5
    <3> QED BY <2>2, <3>1, <3>2, <1>2, <1>3, <1>5, <1>6
        DEF InHand, Provider, Inbox, NoResidual
  <2> QED BY <2>1, <2>2
<1>8. PumpTyped'
  BY <1>1, <1>2, <1>5, <1>6 DEF TypeOK, PumpTyped, Inbox
<1>9. MemoryTyped'
  BY <1>1, <1>2, <1>3, <1>5 DEF TypeOK, MemoryTyped, Provider
<1>10. HistoryTyped'
  <2>1. <<n, at[n], i>> \in Node \X Nat \X Ids
    BY <1>1, <1>2, InHandTriple
  <2> QED BY <2>1, <1>1, <1>2, <1>5 DEF TypeOK, HistoryTyped
<1>11. TypeOK'
  BY <1>5, <1>8, <1>9, <1>10 DEF TypeOK, PumpTyped, MemoryTyped, HistoryTyped
<1>12. InboxIsEvidence'
  BY <1>1, <1>2, <1>5 DEF InboxIsEvidence
<1> QED BY <1>4, <1>7, <1>11, <1>12 DEF IInv

LEMMA StepKeeps == ReachAssumption /\ IInv /\ [Next]_vars => IInv'
<1> SUFFICES ASSUME ReachAssumption, IInv, [Next]_vars PROVE IInv'
  OBVIOUS
<1>1. ASSUME NEW n \in Node, Pump(n) PROVE IInv'
  BY <1>1, PollNextKeeps, EndPumpKeeps, OnLeafKeeps, RelayKeeps, CollectKeeps DEF Pump
<1>2. ASSUME NEW n \in Node, Fault(n) PROVE IInv'
  BY <1>2, OnLeafRaisesKeeps, RelayRaisesKeeps, PollRaisesKeeps, CrashKeeps DEF Fault
<1>3. ASSUME NEW n \in Node, NEW c \in Cap, Ask(n, c) PROVE IInv'
  BY <1>3, AskKeeps
<1>4. CASE UNCHANGED vars
  BY <1>4, SameCarrier
  DEF vars, IInv, TypeOK, WorkInHand, InHand, InboxIsEvidence, Provider, Inbox
<1> QED BY <1>1, <1>2, <1>3, <1>4 DEF Next

LEMMA Invariance == Spec => []IInv
BY InitHolds, StepKeeps, ReachAssumption, PTL DEF Spec

-----------------------------------------------------------------------------
(* The theorems.                                                           *)

\* Every reachable state is well typed, whatever the handlers do, however
\* often nodes raise or restart.
THEOREM TypeCorrect == Spec => []TypeOK
<1>1. IInv => TypeOK
  BY DEF IInv
<1> QED BY <1>1, Invariance, PTL

\* From any leaf the provenance leads, hop by hop, back to the need placed by
\* an application; each hop adds a capability the signal had not passed, and
\* was made by a node whose light-cone opens the hop before it.
THEOREM ProvenanceHolds == Spec => []Provenance
<1>1. IInv => Provenance
  BY DEF IInv
<1> QED BY <1>1, Invariance, PTL

\* What any requester collects for a handle answers a need placed under that
\* very handle.
THEOREM InboxGrounded == Spec => []Grounded
<1>1. IInv => Grounded
  <2> SUFFICES ASSUME IInv, NEW n \in Node, NEW i \in inbox[n]
               PROVE  i \in Evidence /\ RootedOf(i)
    BY DEF Grounded, RootedOf
  <2>1. i \in Evidence /\ i \in Ids
    BY DEF IInv, InboxIsEvidence, Evidence
  <2> QED BY <2>1 DEF IInv, Rooted
<1> QED BY <1>1, Invariance, PTL

-----------------------------------------------------------------------------
(* What a provider has taken is accounted for.                             *)

\* Accounted, of one provider and one need.
AccountedFor(n, p, i) ==
  \/ <<n, p, i>> \in done \cup lost
  \/ at[n] = p /\ residual[n].need = i

\* Between two leaves nothing is taken and unfinished.
LEMMA NoneInHand ==
  ASSUME TypeOK, Accounted, NEW n \in Node, residual[n] = NoResidual,
         NEW p \in Provider(n), NEW i \in seen[n][p]
  PROVE  <<n, p, i>> \in done \cup lost
<1>1. i \in Ids
  BY DEF TypeOK
<1>2. i # 0
  BY <1>1 DEF Ids, TypeOK
<1>3. residual[n].need = 0
  BY DEF NoResidual
<1>4. QED BY <1>2, <1>3 DEF Accounted

\* A provider that takes no leaf in a step stays accounted for.
LEMMA TakenStays ==
  ASSUME TypeOK, Accounted, NEW n \in Node, NEW p \in Provider(n), NEW i \in seen[n][p],
         done \subseteq done', lost \subseteq lost',
         (at'[n] = at[n] /\ residual'[n] = residual[n]) \/ residual[n] = NoResidual
  PROVE  AccountedFor(n, p, i)'
BY NoneInHand DEF Accounted, AccountedFor

LEMMA OnLeafAccounts ==
  ASSUME TypeOK, Accounted, NEW m \in Node, NEW j, NEW q \in Provider(m), residual[m] = NoResidual,
         seen' = [seen EXCEPT ![m][q] = @ \cup {j}], done \subseteq done', lost \subseteq lost',
         AccountedFor(m, q, j)',
         \A n \in Node : n # m => at'[n] = at[n] /\ residual'[n] = residual[n]
  PROVE  Accounted'
<1> SUFFICES ASSUME NEW n \in Node, NEW p \in Provider(n), NEW i \in seen'[n][p]
             PROVE  AccountedFor(n, p, i)'
  BY DEF Accounted, AccountedFor, Provider
<1>1. CASE n = m /\ p = q /\ i = j
  BY <1>1 DEF AccountedFor
<1>2. CASE ~(n = m /\ p = q /\ i = j)
  <2>1. DOMAIN seen = Node /\ DOMAIN seen[m] = Provider(m)
    BY DEF TypeOK
  <2>2. i \in seen[n][p]
    BY <1>2, <2>1
  <2>3. QED BY <2>2, TakenStays
<1>3. QED BY <1>1, <1>2

\* Every step keeps what was taken accounted for.
LEMMA StepAccounts == TypeOK /\ Accounted /\ [Next]_vars => Accounted'
<1> SUFFICES ASSUME TypeOK, Accounted, [Next]_vars PROVE Accounted'
  OBVIOUS
<1>1. ASSUME NEW m \in Node, PollNext(m) \/ EndPump(m) \/ PollRaises(m) PROVE Accounted'
  <2>1. /\ seen' = seen /\ done' = done /\ lost' = lost /\ residual' = residual
        /\ residual[m] = NoResidual /\ \A n \in Node : n # m => at'[n] = at[n]
    BY <1>1 DEF PollNext, EndPump, PollRaises, Abort, Idle, TypeOK
  <2>2. ASSUME NEW n \in Node, NEW p \in Provider(n), NEW i \in seen[n][p]
        PROVE  AccountedFor(n, p, i)'
    BY <2>1, TakenStays
  <2>3. QED BY <2>1, <2>2 DEF Accounted, AccountedFor, Provider
<1>2. ASSUME NEW m \in Node, NEW j \in todo[m], NEW absorbed \in BOOLEAN, NEW to \in NextHops,
             OnLeaf(m, j, absorbed, to)
      PROVE  Accounted'
  <2>1. PICK q \in Provider(m) : q = at[m]
    BY <1>2 DEF OnLeaf
  <2>2. /\ residual[m] = NoResidual /\ at' = at /\ lost' = lost
        /\ seen' = [seen EXCEPT ![m][q] = @ \cup {j}]
    BY <1>2, <2>1 DEF OnLeaf
  <2>3. /\ done \subseteq done' /\ \A n \in Node : n # m => residual'[n] = residual[n]
        /\ <<m, q, j>> \in done' \/ residual'[m].need = j
    BY <1>2, <2>1 DEF OnLeaf, TypeOK
  <2>4. AccountedFor(m, q, j)'
    BY <2>1, <2>2, <2>3 DEF AccountedFor
  <2>5. QED BY <2>2, <2>3, <2>4, OnLeafAccounts
<1>3. ASSUME NEW m \in Node, NEW j \in todo[m], OnLeafRaises(m, j) PROVE Accounted'
  <2>1. PICK q \in Provider(m) : q = at[m]
    BY <1>3 DEF OnLeafRaises
  <2>2. /\ residual[m] = NoResidual /\ residual' = residual
        /\ seen' = [seen EXCEPT ![m][q] = @ \cup {j}] /\ done' = done
        /\ lost' = lost \cup {<<m, q, j>>} /\ \A n \in Node : n # m => at'[n] = at[n]
    BY <1>3, <2>1 DEF OnLeafRaises, Abort, TypeOK
  <2>3. AccountedFor(m, q, j)'
    BY <2>2 DEF AccountedFor
  <2>4. QED BY <2>2, <2>3, OnLeafAccounts
<1>4. ASSUME NEW m \in Node, Relay(m) \/ RelayRaises(m) PROVE Accounted'
  <2>1. /\ seen' = seen /\ \A n \in Node : n # m => at'[n] = at[n] /\ residual'[n] = residual[n]
        /\ done \subseteq done' /\ lost \subseteq lost'
        /\ <<m, at[m], residual[m].need>> \in done' \cup lost'
    BY <1>4 DEF Relay, RelayRaises, Abort, TypeOK
  <2>2. ASSUME NEW n \in Node, NEW p \in Provider(n), NEW i \in seen[n][p]
        PROVE  AccountedFor(n, p, i)'
    <3>1. CASE n # m
      BY <2>1, <3>1, TakenStays
    <3>2. CASE n = m
      BY <2>1, <3>2 DEF Accounted, AccountedFor
    <3>3. QED BY <3>1, <3>2
  <2>3. QED BY <2>1, <2>2 DEF Accounted, AccountedFor, Provider
<1>5. ASSUME NEW m \in Node, Crash(m) PROVE Accounted'
  <2>1. /\ done' = done /\ lost' = {x \in lost : x[1] # m}
        /\ \A p \in Provider(m) : seen'[m][p] = {}
        /\ \A n \in Node : n # m => seen'[n] = seen[n] /\ at'[n] = at[n] /\ residual'[n] = residual[n]
    BY <1>5 DEF Crash, TypeOK
  <2>2. ASSUME NEW n \in Node, NEW p \in Provider(n), NEW i \in seen'[n][p]
        PROVE  AccountedFor(n, p, i)'
    <3>1. n # m
      BY <2>1, <2>2
    <3>2. <<n, p, i>> \in lost => <<n, p, i>> \in lost'
      BY <2>1, <3>1
    <3>3. QED BY <2>1, <3>1, <3>2 DEF Accounted, AccountedFor
  <2>3. QED BY <2>2 DEF Accounted, AccountedFor, Provider
<1>6. CASE UNCHANGED <<at, residual, seen, done, lost>>
  BY <1>6 DEF Accounted
<1>7. ASSUME NEW m \in Node, Pump(m) PROVE Accounted'
  BY <1>1, <1>2, <1>4, <1>6, <1>7 DEF Pump, Collect
<1>8. ASSUME NEW m \in Node, Fault(m) PROVE Accounted'
  BY <1>1, <1>3, <1>4, <1>5, <1>8 DEF Fault
<1>9. QED BY <1>6, <1>7, <1>8 DEF Next, Ask, vars

\* Nothing a provider has taken is ever lost from sight: it was worked off, is
\* in hand, or an exception of the present life cut it short, whatever raises
\* and restarts (reach.py 83-140).
THEOREM AccountedHolds == Spec => []Accounted
<1>1. Init => Accounted
  BY DEF Init, Accounted
<1> QED BY <1>1, StepAccounts, TypeCorrect, PTL DEF Spec

-----------------------------------------------------------------------------
(* The circuit implements its promise, step by step.                        *)

Hops       == {HopOf(i) : i \in Needs}
Answers    == {AnswerOf(e) : e \in Evidence}
Held       == [n \in Node |-> {AnswerOf(e) : e \in inbox[n]}]

\* The answers a requester holds are known by leaves that are there.
LEMMA AnswersAnswerNeeds ==
  ASSUME IInv, NEW e \in Evidence
  PROVE  e \in Ids /\ carrier[e].parent \in Needs /\ carrier[e].parent \in Ids
<1>1. e \in Ids /\ carrier[e].kind = "evidence"
  BY DEF Evidence
<1>2. ProvenOf(e)
  BY <1>1 DEF IInv, Provenance
<1>3. QED BY <1>1, <1>2 DEF ProvenOf, Needs

\* A leaf more: hops and answers that were there are the same, and there is
\* one more hop or one more answer.
LEMMA OneMore ==
  ASSUME IInv, NEW l \in Leaf, carrier' = Append(carrier, l), UNCHANGED inbox
  PROVE  /\ Held' = Held
         /\ l.kind = "need" =>
              /\ Answers' = Answers
              /\ Hops' = Hops \cup {[root |-> l.root, cap |-> l.cap, path |-> l.path]}
         /\ l.kind = "evidence" /\ l.parent \in Ids =>
              /\ Hops' = Hops
              /\ Answers' = Answers \cup {[hop |-> HopOf(l.parent), by |-> l.origin]}
<1>0. TypeOK /\ InboxIsEvidence
  BY DEF IInv
<1>0a. PICK k \in Nat : k = Len(carrier) + 1
  BY <1>0, Append1
<1>1. /\ Ids' = Ids \cup {k} /\ k \notin Ids
      /\ \A i \in Ids : carrier'[i] = carrier[i]
      /\ carrier'[k] = l
  BY <1>0, <1>0a, Append1
<1>2. \A i \in Ids : HopOf(i)' = HopOf(i)
  BY <1>1 DEF HopOf
<1>3. ASSUME NEW e \in Evidence PROVE AnswerOf(e)' = AnswerOf(e)
  <2>1. e \in Ids /\ carrier[e].parent \in Ids
    BY AnswersAnswerNeeds
  <2>2. carrier'[e] = carrier[e] /\ HopOf(carrier[e].parent)' = HopOf(carrier[e].parent)
    BY <1>1, <1>2, <2>1 DEF HopOf
  <2>3. QED BY <2>2 DEF AnswerOf, HopOf
<1>4. Held' = Held
  <2>1. ASSUME NEW n \in Node
        PROVE  {AnswerOf(e)' : e \in inbox'[n]} = {AnswerOf(e) : e \in inbox[n]}
    BY <1>0, <1>3 DEF InboxIsEvidence
  <2>2. QED BY <2>1 DEF Held
<1>5. ASSUME l.kind = "need"
      PROVE  /\ Answers' = Answers
             /\ Hops' = Hops \cup {[root |-> l.root, cap |-> l.cap, path |-> l.path]}
  <2>1. Needs' = Needs \cup {k} /\ Evidence' = Evidence
    BY <1>1, <1>5 DEF Needs, Evidence
  <2>2. HopOf(k)' = [root |-> l.root, cap |-> l.cap, path |-> l.path]
    BY <1>1 DEF HopOf
  <2>3. \A i \in Needs : HopOf(i)' = HopOf(i)
    BY <1>2 DEF Needs
  <2>4. Answers' = Answers
    BY <1>3, <2>1 DEF Answers
  <2>5. QED BY <2>1, <2>2, <2>3, <2>4 DEF Hops
<1>6. ASSUME l.kind = "evidence", l.parent \in Ids
      PROVE  /\ Hops' = Hops
             /\ Answers' = Answers \cup {[hop |-> HopOf(l.parent), by |-> l.origin]}
  <2>1. Evidence' = Evidence \cup {k} /\ Needs' = Needs
    BY <1>1, <1>6 DEF Needs, Evidence
  <2>2. AnswerOf(k)' = [hop |-> HopOf(l.parent), by |-> l.origin]
    BY <1>1, <1>6 DEF AnswerOf, HopOf
  <2>3. \A i \in Needs : HopOf(i)' = HopOf(i)
    BY <1>2 DEF Needs
  <2>4. Hops' = Hops
    BY <2>1, <2>3 DEF Hops
  <2>5. QED BY <1>3, <2>1, <2>2, <2>4 DEF Answers
<1>7. QED BY <1>4, <1>5, <1>6

\* No leaf more, and the requesters hold what they held.
LEMMA NoneMore ==
  ASSUME UNCHANGED <<carrier, inbox>>
  PROVE  Hops' = Hops /\ Answers' = Answers /\ Held' = Held
BY DEF Hops, Answers, Held, HopOf, AnswerOf, Needs, Evidence, Ids

PromiseVars == <<Hops, Answers, Held>>

\* A need placed opens a handle nobody has.
LEMMA AskOpens ==
  ASSUME IInv, NEW n \in Node, NEW c \in Cap, Ask(n, c)
  PROVE  Promise!Open(c)
<1>1. /\ TypeOK /\ Rooted /\ carrier \in Seq(Leaf)
      /\ carrier' = Append(carrier, NeedArtifact(n, c, 0, 0, {c})) /\ UNCHANGED inbox
  BY DEF IInv, TypeOK, Ask
<1> DEFINE l == NeedArtifact(n, c, 0, 0, {c})
           h == [root |-> Len(carrier) + 1, cap |-> c, path |-> {c}]
<1>2. /\ l \in Leaf /\ l.kind = "need" /\ l.root = Len(carrier) + 1 /\ l.cap = c /\ l.path = {c}
  BY <1>1 DEF NeedArtifact, Leaf
<1>3. carrier' = Append(carrier, l)
  BY <1>1
<1> HIDE DEF l
<1>4. Hops' = Hops \cup {h} /\ Answers' = Answers /\ Held' = Held
  BY <1>1, <1>2, <1>3, OneMore
<1>5. ASSUME NEW g \in Hops PROVE g.root # h.root
  <2>1. PICK i \in Needs : g = HopOf(i)
    BY DEF Hops
  <2>2. RootedOf(i)
    BY <1>1, <2>1 DEF Rooted, Needs
  <2>3. carrier[i].root \in 1..Len(carrier)
    BY <1>1, <2>2 DEF RootedOf, Needs, Ids
  <2>4. QED BY <1>1, <2>1, <2>3 DEF HopOf
<1>6. h \in Hops' /\ h.cap = c /\ h.path = {c}
  BY <1>4
<1> HIDE DEF h
<1>7. QED BY <1>4, <1>5, <1>6 DEF Promise!Open, Hops, Answers, Held

\* A relay passes the hop on, by a node that opens it, where it has not been.
LEMMA RelayPassesOn ==
  ASSUME ReachAssumption, IInv, NEW n \in Node, Relay(n)
  PROVE  \E h \in Hops, c \in Cap : Promise!PassOn(n, h, c)
<1> DEFINE i == residual[n].need
           c == residual[n].cap
           l == NeedArtifact(n, c, carrier[i].root, i, carrier[i].path \cup {c})
<1>1. /\ TypeOK /\ Rooted /\ WorkInHand /\ carrier \in Seq(Leaf)
      /\ residual[n] # NoResidual /\ carrier' = Append(carrier, l) /\ UNCHANGED inbox
  BY DEF IInv, TypeOK, Relay
<1>2. Workable(n, at[n], i) /\ c \in Cap \ carrier[i].path
  BY <1>1 DEF WorkInHand, InHand
<1>3. i \in Needs /\ i \in Ids /\ i \in Nat /\ carrier[i] \in Leaf /\ carrier[i].cap \in Opens[n]
  BY <1>1, <1>2 DEF Workable, Needs, Ids
<1>4. carrier[i].root \in Nat \ {0}
  <2>1. RootedOf(i)
    BY <1>1, <1>3 DEF Rooted
  <2>2. carrier[i].root \in 1..Len(carrier)
    BY <1>1, <2>1 DEF RootedOf, Needs, Ids
  <2>3. QED BY <1>1, <2>2
<1> DEFINE h == HopOf(i)
           more == [root |-> h.root, cap |-> c, path |-> h.path \cup {c}]
<1>5. h.root = carrier[i].root /\ h.cap = carrier[i].cap /\ h.path = carrier[i].path /\ h \in Hops
  BY <1>3 DEF HopOf, Hops
<1>6. /\ l \in Leaf /\ l.kind = "need" /\ l.root = carrier[i].root /\ l.cap = c
      /\ l.path = carrier[i].path \cup {c}
  BY <1>2, <1>3, <1>4 DEF NeedArtifact, Leaf
<1> HIDE DEF l
<1>7. Hops' = Hops \cup {more} /\ Answers' = Answers /\ Held' = Held
  BY <1>1, <1>5, <1>6, OneMore
<1>8. h.cap \in Opens[n] /\ c \in Cap /\ c \notin h.path
  BY <1>2, <1>3, <1>5
<1> HIDE DEF h, c
<1>9. Promise!PassOn(n, h, c)
  BY <1>7, <1>8 DEF Promise!PassOn, Hops, Answers, Held
<1>10. QED BY <1>5, <1>8, <1>9

\* Evidence discharged answers the hop, by a node that opens it.
LEMMA OnLeafGives ==
  ASSUME ReachAssumption, IInv, NEW n \in Node, NEW i \in todo[n], NEW absorbed \in BOOLEAN,
         NEW to \in NextHops, OnLeaf(n, i, absorbed, to)
  PROVE  (\E h \in Hops : Promise!Give(n, h)) \/ UNCHANGED PromiseVars
<1>1. /\ TypeOK /\ WorkInHand /\ carrier \in Seq(Leaf) /\ at[n] \in Provider(n) /\ UNCHANGED inbox
      /\ carrier' = IF absorbed
                    THEN Append(carrier, EvidenceArtifact(n, Serves[n][at[n]], i))
                    ELSE carrier
  BY DEF IInv, TypeOK, OnLeaf
<1>2. CASE ~absorbed
  <2>1. UNCHANGED <<carrier, inbox>>
    BY <1>1, <1>2
  <2>2. QED BY <2>1, NoneMore DEF PromiseVars
<1>3. CASE absorbed
  <2> DEFINE l == EvidenceArtifact(n, Serves[n][at[n]], i)
             h == HopOf(i)
  <2>1. Workable(n, at[n], i)
    BY <1>1 DEF WorkInHand, InHand
  <2>2. /\ i \in Needs /\ i \in Ids /\ i \in Nat /\ carrier[i] \in Leaf
        /\ carrier[i].cap \in Opens[n] /\ Serves[n][at[n]] = carrier[i].cap
    BY <1>1, <2>1 DEF Workable, Needs, Ids
  <2>3. l \in Leaf /\ l.kind = "evidence" /\ l.parent = i /\ l.origin = n
    BY <2>2 DEF EvidenceArtifact, Leaf
  <2>4. carrier' = Append(carrier, l)
    BY <1>1, <1>3
  <2> HIDE DEF l
  <2>5. /\ Hops' = Hops /\ Held' = Held
        /\ Answers' = Answers \cup {[hop |-> h, by |-> n]}
    BY <1>1, <2>2, <2>3, <2>4, OneMore
  <2>6. h \in Hops /\ h.cap \in Opens[n]
    BY <2>2 DEF HopOf, Hops
  <2> HIDE DEF h
  <2>7. Promise!Give(n, h)
    BY <2>5, <2>6 DEF Promise!Give, Hops, Answers, Held
  <2>8. QED BY <2>6, <2>7
<1>4. QED BY <1>2, <1>3

\* A requester that absorbs evidence comes to hold the answer, unless it holds
\* it already from another leaf.
LEMMA CollectHolds ==
  ASSUME IInv, NEW n \in Node, NEW i \in todo[n], Collect(n, i)
  PROVE  Promise!HoldSome(n) \/ UNCHANGED PromiseVars
<1>1. /\ TypeOK /\ WorkInHand /\ UNCHANGED carrier
      /\ at[n] = Inbox(n) /\ inbox' = [inbox EXCEPT ![n] = inbox[n] \cup {i}]
  BY DEF IInv, Collect
<1>2. i \in Evidence
  BY <1>1 DEF WorkInHand, InHand
<1>0a. PICK a : a = AnswerOf(i)
  OBVIOUS
<1>3. a \in Answers
  BY <1>2, <1>0a DEF Answers
<1>4. Hops' = Hops /\ Answers' = Answers /\ \A e : AnswerOf(e)' = AnswerOf(e)
  BY <1>1 DEF Hops, Answers, HopOf, AnswerOf, Needs, Evidence, Ids
<1>5. /\ \A m \in Node : inbox'[m] = IF m = n THEN inbox[n] \cup {i} ELSE inbox[m]
  BY <1>1 DEF TypeOK
<1>6. Held' = [Held EXCEPT ![n] = Held[n] \cup {a}]
  <2>1. ASSUME NEW m \in Node
        PROVE  {AnswerOf(e)' : e \in inbox'[m]} = IF m = n THEN Held[n] \cup {a} ELSE Held[m]
    <3>1. {AnswerOf(e)' : e \in inbox'[m]} = {AnswerOf(e) : e \in inbox'[m]}
      BY <1>4
    <3>2. QED BY <1>0a, <1>5, <3>1 DEF Held
  <2>2. QED BY <2>1 DEF Held
<1>7. CASE a \in Held[n]
  <2>1. Held[n] \cup {a} = Held[n] /\ Held = [m \in Node |-> Held[m]]
    BY <1>7 DEF Held
  <2>2. Held' = Held
    BY <1>6, <2>1
  <2>3. QED BY <1>4, <2>2 DEF PromiseVars
<1>8. CASE a \notin Held[n]
  <2>1. Promise!Hold(n, a)
    BY <1>4, <1>6, <1>8 DEF Promise!Hold, Hops, Answers, Held
  <2>2. QED BY <1>3, <2>1 DEF Promise!HoldSome, Answers
<1>9. QED BY <1>7, <1>8

\* A restarted requester forgets.
LEMMA CrashForgets ==
  ASSUME IInv, NEW n \in Node, Crash(n)
  PROVE  Promise!Forget(n)
<1>1. UNCHANGED carrier /\ inbox' = [inbox EXCEPT ![n] = {}] /\ TypeOK
  BY DEF IInv, Crash
<1>2. Hops' = Hops /\ Answers' = Answers /\ \A e : AnswerOf(e)' = AnswerOf(e)
  BY <1>1 DEF Hops, Answers, HopOf, AnswerOf, Needs, Evidence, Ids
<1>3. \A m \in Node : inbox'[m] = IF m = n THEN {} ELSE inbox[m]
  BY <1>1 DEF TypeOK
<1>4. Held' = [Held EXCEPT ![n] = {}]
  <2>1. ASSUME NEW m \in Node
        PROVE  {AnswerOf(e)' : e \in inbox'[m]} = IF m = n THEN {} ELSE Held[m]
    <3>1. {AnswerOf(e)' : e \in inbox'[m]} = {AnswerOf(e) : e \in inbox'[m]}
      BY <1>2
    <3>2. QED BY <1>3, <3>1 DEF Held
  <2>2. QED BY <2>1 DEF Held
<1>5. QED BY <1>2, <1>4 DEF Promise!Forget, Hops, Answers, Held

\* Every step of the circuit is one of the promise's, or changes nothing the
\* promise speaks of.
LEMMA StepKeepsPromise ==
  ReachAssumption /\ IInv /\ [Next]_vars => [Promise!Next]_(Promise!vars)
<1> SUFFICES ASSUME ReachAssumption, IInv, [Next]_vars
             PROVE  Promise!Next \/ UNCHANGED PromiseVars
  BY DEF Promise!vars, PromiseVars, Hops, Answers, Held
<1>1. CASE UNCHANGED <<carrier, inbox>>
  BY <1>1, NoneMore DEF PromiseVars
<1>2. ASSUME NEW n \in Node, NEW c \in Cap, Ask(n, c) PROVE Promise!Next
  BY <1>2, AskOpens DEF Promise!Next
<1>3. ASSUME NEW n \in Node, Relay(n) PROVE Promise!Next
  BY <1>3, RelayPassesOn DEF Promise!Next, Hops
<1>4. ASSUME NEW n \in Node, NEW i \in todo[n], NEW absorbed \in BOOLEAN,
             NEW to \in NextHops, OnLeaf(n, i, absorbed, to)
      PROVE  Promise!Next \/ UNCHANGED PromiseVars
  BY <1>4, OnLeafGives DEF Promise!Next, Hops
<1>5. ASSUME NEW n \in Node, NEW i \in todo[n], Collect(n, i)
      PROVE  Promise!Next \/ UNCHANGED PromiseVars
  BY <1>5, CollectHolds DEF Promise!Next
<1>6. ASSUME NEW n \in Node, Crash(n) PROVE Promise!Next
  BY <1>6, CrashForgets DEF Promise!Next
<1>7. ASSUME NEW n \in Node, Pump(n) PROVE Promise!Next \/ UNCHANGED PromiseVars
  <2>1. CASE PollNext(n) \/ EndPump(n)
    BY <1>1, <2>1 DEF PollNext, EndPump
  <2>2. QED BY <1>3, <1>4, <1>5, <1>7, <2>1 DEF Pump
<1>8. ASSUME NEW n \in Node, Fault(n) PROVE Promise!Next \/ UNCHANGED PromiseVars
  <2>1. CASE (\E i \in todo[n] : OnLeafRaises(n, i)) \/ RelayRaises(n) \/ PollRaises(n)
    BY <1>1, <2>1 DEF OnLeafRaises, RelayRaises, PollRaises
  <2>2. QED BY <1>6, <1>8, <2>1 DEF Fault
<1>9. CASE UNCHANGED vars
  BY <1>1, <1>9 DEF vars
<1>10. QED BY <1>2, <1>7, <1>8, <1>9 DEF Next

\* The circuit implements what reach.py promises: with leaf ids, polling and
\* restarts forgotten, hops are opened, passed on, answered and collected only
\* as ReachPromise allows, for any nodes, light-cones, handlers and faults.
THEOREM CircuitKeepsPromise == Spec => KeepsPromise
<1>1. Init => Promise!Init
  BY DEF Init, Promise!Init, Needs, Evidence, Ids
<1>2. QED BY <1>1, StepKeepsPromise, Invariance, ReachAssumption, PTL
          DEF Spec, KeepsPromise, Promise!Spec

-----------------------------------------------------------------------------
(* A provider answers and relays a need once per life.                      *)

\* The providers of n that have taken need i in this life and put what they
\* put for it: their evidence at once, their hop when its relay is out.
Taken(n, i, kind) ==
  {p \in ProvidersOf(n, carrier[i].cap) :
     i \in seen[n][p] /\ ~(kind = "need" /\ at[n] = p /\ residual[n].need = i)}

\* Every child of a need is owed to a provider that has taken the need in this
\* life, or to one of an earlier life.
TallyOf(n, i, kind) ==
  Cardinality(Children(n, i, kind))
    <= crashes[n] * Cardinality(ProvidersOf(n, carrier[i].cap))
         + Cardinality(Taken(n, i, kind))
Tally ==
  \A n \in Node, i \in Needs, kind \in {"need", "evidence"} : TallyOf(n, i, kind)

\* What is still to visit has not been taken, and a relay under way has.
Fresh ==
  \A n \in Node :
    /\ at[n] \in Provider(n) => todo[n] \cap seen[n][at[n]] = {}
    /\ residual[n] # NoResidual => residual[n].need \in seen[n][at[n]]

\* The sets that are counted are finite, and a node takes a need with no more
\* providers than serve it.
Countable(n, i, kind) ==
  /\ IsFiniteSet(Children(n, i, kind)) /\ Cardinality(Children(n, i, kind)) \in Nat
  /\ IsFiniteSet(Taken(n, i, kind)) /\ Cardinality(Taken(n, i, kind)) \in Nat
  /\ Cardinality(ProvidersOf(n, carrier[i].cap)) \in Nat
  /\ Cardinality(Taken(n, i, kind)) <= Cardinality(ProvidersOf(n, carrier[i].cap))

LEMMA Counting == TypeOK => \A n \in Node : \A i, kind : Countable(n, i, kind)
<1> SUFFICES ASSUME TypeOK, NEW n \in Node, NEW i, NEW kind PROVE Countable(n, i, kind)
  OBVIOUS
<1>1. Ids = 1..Len(carrier) /\ Len(carrier) \in Nat /\ Len(Serves[n]) \in Nat
  BY ReachAssumption DEF ReachAssumption, TypeOK, Ids
<1>2. IsFiniteSet(Ids) /\ IsFiniteSet(Provider(n))
  BY <1>1, FS_Interval DEF Provider
<1>3. Children(n, i, kind) \subseteq Ids
  BY DEF Children
<1>4. /\ ProvidersOf(n, carrier[i].cap) \subseteq Provider(n)
      /\ Taken(n, i, kind) \subseteq ProvidersOf(n, carrier[i].cap)
  BY DEF ProvidersOf, Taken
<1>5. /\ IsFiniteSet(Children(n, i, kind)) /\ IsFiniteSet(ProvidersOf(n, carrier[i].cap))
      /\ IsFiniteSet(Taken(n, i, kind))
      /\ Cardinality(Taken(n, i, kind)) <= Cardinality(ProvidersOf(n, carrier[i].cap))
  BY <1>2, <1>3, <1>4, FS_Subset
<1>6. QED BY <1>5, FS_CardinalityType DEF Countable

LEMMA CountingNext == TypeOK' => \A n \in Node : \A i, kind : Countable(n, i, kind)'
<1>1. TypeOK' => (\A n \in Node : \A i, kind : Countable(n, i, kind))'
  BY Counting, PTL
<1>2. QED BY <1>1

\* The arithmetic of a tally: lives times providers.
LEMMA Lives ==
  ASSUME NEW c \in Nat, NEW k \in Nat
  PROVE  c * k \in Nat /\ (c + 1) * k = c * k + k
OBVIOUS

\* A tally stands while no child is put and nothing taken is forgotten,
LEMMA TallyStands ==
  ASSUME TypeOK, TypeOK', NEW n \in Node, NEW i \in Needs,
         NEW kind \in {"need", "evidence"}, TallyOf(n, i, kind),
         carrier'[i] = carrier[i], crashes'[n] = crashes[n],
         Children(n, i, kind)' = Children(n, i, kind),
         Taken(n, i, kind) \subseteq Taken(n, i, kind)'
  PROVE  TallyOf(n, i, kind)'
<1> DEFINE base == crashes[n] * Cardinality(ProvidersOf(n, carrier[i].cap))
<1>1. Cardinality(Taken(n, i, kind)) \in Nat /\ Cardinality(Children(n, i, kind)) \in Nat
  BY Counting DEF Countable
<1>2. /\ IsFiniteSet(Taken(n, i, kind)') /\ Cardinality(Taken(n, i, kind)') \in Nat
  BY CountingNext DEF Countable
<1>3. Cardinality(Taken(n, i, kind)) <= Cardinality(Taken(n, i, kind)')
  BY <1>2, FS_Subset
<1>4. base \in Nat
  BY Counting, Lives DEF TypeOK, Countable
<1>5. base' = base
  BY DEF ProvidersOf, Provider
<1> HIDE DEF base
<1>6. Cardinality(Children(n, i, kind)) <= base + Cardinality(Taken(n, i, kind))
  BY DEF TallyOf, base
<1>7. Cardinality(Children(n, i, kind)') <= base' + Cardinality(Taken(n, i, kind)')
  BY <1>1, <1>2, <1>3, <1>4, <1>5, <1>6
<1>8. QED BY <1>7 DEF TallyOf, base

\* or while one child is put for a provider that had put none,
LEMMA TallyMore ==
  ASSUME TypeOK, TypeOK', NEW n \in Node, NEW i \in Needs,
         NEW kind \in {"need", "evidence"}, TallyOf(n, i, kind),
         carrier'[i] = carrier[i], crashes'[n] = crashes[n],
         NEW k, Children(n, i, kind)' \subseteq Children(n, i, kind) \cup {k},
         NEW p, p \notin Taken(n, i, kind), p \in Taken(n, i, kind)',
         Taken(n, i, kind) \subseteq Taken(n, i, kind)'
  PROVE  TallyOf(n, i, kind)'
<1> DEFINE base == crashes[n] * Cardinality(ProvidersOf(n, carrier[i].cap))
<1>1. /\ IsFiniteSet(Children(n, i, kind)) /\ Cardinality(Children(n, i, kind)) \in Nat
      /\ IsFiniteSet(Taken(n, i, kind)) /\ Cardinality(Taken(n, i, kind)) \in Nat
  BY Counting DEF Countable
<1>2. /\ IsFiniteSet(Taken(n, i, kind)') /\ Cardinality(Taken(n, i, kind)') \in Nat
      /\ IsFiniteSet(Children(n, i, kind)') /\ Cardinality(Children(n, i, kind)') \in Nat
  BY CountingNext DEF Countable
<1>3. Cardinality(Taken(n, i, kind)) + 1 <= Cardinality(Taken(n, i, kind)')
  <2>1. Cardinality(Taken(n, i, kind) \cup {p}) = Cardinality(Taken(n, i, kind)) + 1
    BY <1>1, FS_AddElement
  <2>2. Cardinality(Taken(n, i, kind) \cup {p}) <= Cardinality(Taken(n, i, kind)')
    <3>1. Taken(n, i, kind) \cup {p} \subseteq Taken(n, i, kind)'
      OBVIOUS
    <3>2. QED BY <1>2, <3>1, FS_Subset
  <2>3. QED BY <2>1, <2>2
<1>4. Cardinality(Children(n, i, kind)') <= Cardinality(Children(n, i, kind)) + 1
  <2>0. /\ IsFiniteSet(Children(n, i, kind) \cup {k})
        /\ Cardinality(Children(n, i, kind) \cup {k})
             = IF k \in Children(n, i, kind) THEN Cardinality(Children(n, i, kind))
               ELSE Cardinality(Children(n, i, kind)) + 1
    BY <1>1, FS_AddElement
  <2>1. /\ IsFiniteSet(Children(n, i, kind) \cup {k})
        /\ Cardinality(Children(n, i, kind) \cup {k}) <= Cardinality(Children(n, i, kind)) + 1
    BY <1>1, <2>0
  <2>2. Cardinality(Children(n, i, kind)') <= Cardinality(Children(n, i, kind) \cup {k})
    BY <2>1, FS_Subset
  <2>3. Cardinality(Children(n, i, kind) \cup {k}) \in Nat
    BY <2>1, FS_CardinalityType
  <2>4. QED BY <1>1, <1>2, <2>1, <2>2, <2>3
<1>5. base \in Nat
  BY Counting, Lives DEF TypeOK, Countable
<1>6. base' = base
  BY DEF ProvidersOf, Provider
<1> HIDE DEF base
<1>7. Cardinality(Children(n, i, kind)) <= base + Cardinality(Taken(n, i, kind))
  BY DEF TallyOf, base
<1>8. Cardinality(Children(n, i, kind)') <= base' + Cardinality(Taken(n, i, kind)')
  BY <1>1, <1>2, <1>3, <1>4, <1>5, <1>6, <1>7
<1>9. QED BY <1>8 DEF TallyOf, base

\* or while a new life begins,
LEMMA TallyRestarts ==
  ASSUME TypeOK, TypeOK', NEW n \in Node, NEW i \in Needs,
         NEW kind \in {"need", "evidence"}, TallyOf(n, i, kind),
         carrier'[i] = carrier[i], crashes'[n] = crashes[n] + 1,
         Children(n, i, kind)' = Children(n, i, kind)
  PROVE  TallyOf(n, i, kind)'
<1> DEFINE served == Cardinality(ProvidersOf(n, carrier[i].cap))
           base == crashes[n] * served
<1>1. /\ Cardinality(Children(n, i, kind)) \in Nat
      /\ Cardinality(Taken(n, i, kind)) \in Nat /\ served \in Nat
      /\ Cardinality(Taken(n, i, kind)) <= served
  BY Counting DEF Countable
<1>2. Cardinality(Taken(n, i, kind)') \in Nat
  BY CountingNext DEF Countable
<1>3. served' = served
  BY DEF ProvidersOf, Provider
<1>4. crashes[n] \in Nat
  BY DEF TypeOK
<1> HIDE DEF served
<1>5. base \in Nat /\ crashes'[n] * served' = base + served
  BY <1>1, <1>3, <1>4, Lives
<1>6. Cardinality(Children(n, i, kind)) <= base + Cardinality(Taken(n, i, kind))
  BY DEF TallyOf, served
<1> HIDE DEF base
<1>7. Cardinality(Children(n, i, kind)') <= base + served + Cardinality(Taken(n, i, kind)')
  BY <1>1, <1>2, <1>5, <1>6
<1>8. QED BY <1>5, <1>7 DEF TallyOf, served

\* and a need that has just been put has no children.
LEMMA TallyOpens ==
  ASSUME TypeOK', NEW n \in Node, NEW i,
         NEW kind \in {"need", "evidence"}, Children(n, i, kind)' = {}
  PROVE  TallyOf(n, i, kind)'
<1> DEFINE served == Cardinality(ProvidersOf(n, carrier[i].cap))
           base == crashes[n] * served
<1>1. Cardinality(Taken(n, i, kind)') \in Nat /\ served' \in Nat
  BY CountingNext DEF Countable
<1>2. base' \in Nat
  <2>1. crashes'[n] \in Nat
    BY DEF TypeOK
  <2> HIDE DEF served
  <2>2. QED BY <1>1, <2>1, Lives
<1>3. Cardinality(Children(n, i, kind)') = 0
  BY FS_EmptySet
<1> HIDE DEF base
<1>4. Cardinality(Children(n, i, kind)') <= base' + Cardinality(Taken(n, i, kind)')
  BY <1>1, <1>2, <1>3
<1>5. QED BY <1>4 DEF TallyOf, base

\* A step forgets nothing node m has taken and put: it leaves m alone, ends a
\* relay, or begins one for a need not taken before.
Remembers(m) ==
  /\ \A p \in Provider(m) : seen[m][p] \subseteq seen'[m][p]
  /\ \/ at'[m] = at[m] /\ residual'[m] = residual[m]
     \/ residual'[m] = NoResidual
     \/ /\ at'[m] = at[m] /\ at[m] \in Provider(m)
        /\ residual'[m].need \notin seen[m][at[m]]

LEMMA TakenGrows ==
  ASSUME TypeOK, NEW m \in Node, NEW i \in Needs, NEW kind,
         carrier'[i] = carrier[i], Remembers(m)
  PROVE  Taken(m, i, kind) \subseteq Taken(m, i, kind)'
<1> SUFFICES ASSUME NEW p \in Taken(m, i, kind) PROVE p \in Taken(m, i, kind)'
  OBVIOUS
<1>1. /\ p \in ProvidersOf(m, carrier[i].cap) /\ p \in Provider(m) /\ i \in seen[m][p]
      /\ ~(kind = "need" /\ at[m] = p /\ residual[m].need = i)
  BY DEF Taken, ProvidersOf
<1>2. i # 0
  BY DEF Needs, Ids, TypeOK
<1>3. p \in ProvidersOf(m, carrier'[i].cap) /\ i \in seen'[m][p]
  BY <1>1 DEF Remembers
<1>4. ~(kind = "need" /\ at'[m] = p /\ residual'[m].need = i)
  BY <1>1, <1>2 DEF Remembers, NoResidual
<1>5. QED BY <1>3, <1>4 DEF Taken, ProvidersOf, Provider

\* A leaf put is the child of the need it names and of no other,
ChildAtMost(n, i, kind, l, k) ==
  /\ carrier'[i] = carrier[i]
  /\ Children(n, i, kind)' \subseteq Children(n, i, kind) \cup {k}
  /\ \/ l.kind = kind /\ l.origin = n /\ l.parent = i
     \/ Children(n, i, kind)' = Children(n, i, kind)

LEMMA ChildPut ==
  ASSUME IInv, NEW l \in Leaf, carrier' = Append(carrier, l),
         NEW k \in Nat, k = Len(carrier) + 1,
         NEW n \in Node, NEW i \in Needs, NEW kind
  PROVE  ChildAtMost(n, i, kind, l, k)
<1>1. /\ Ids' = Ids \cup {k} /\ k \notin Ids
      /\ \A j \in Ids : carrier'[j] = carrier[j]
      /\ carrier'[k] = l
  BY Append1 DEF IInv
<1>2. QED BY <1>1 DEF ChildAtMost, Children, Needs

\* and nothing names a need before it is there.
LEMMA NoChildYet ==
  ASSUME IInv, NEW l \in Leaf, carrier' = Append(carrier, l),
         NEW k \in Nat, k = Len(carrier) + 1, l.parent # k,
         NEW n \in Node, NEW i \in Needs' \ Needs, NEW kind
  PROVE  Children(n, i, kind)' = {}
<1>1. /\ Ids' = Ids \cup {k} /\ k \notin Ids /\ k # 0
      /\ \A j \in Ids : carrier'[j] = carrier[j]
      /\ carrier'[k] = l
  BY Append1 DEF IInv
<1>2. i = k
  BY <1>1 DEF Needs
<1>3. ASSUME NEW j \in Ids PROVE carrier[j].parent # k
  <2>1. ProvenOf(j)
    BY DEF IInv, Provenance
  <2>2. QED BY <1>1, <2>1 DEF ProvenOf, Needs
<1>4. QED BY <1>1, <1>2, <1>3 DEF Children

\* A leaf that hangs off a need is put for a provider that had put none.
Owed(l) ==
  l.parent \in Needs =>
    \E p : /\ p \notin Taken(l.origin, l.parent, l.kind)
           /\ p \in Taken(l.origin, l.parent, l.kind)'

\* So a tally needs care only where the leaf hangs.
LEMMA PutTallies ==
  ASSUME IInv, TypeOK', Tally, NEW l \in Leaf, carrier' = Append(carrier, l),
         NEW k \in Nat, k = Len(carrier) + 1, l.parent # k, l.origin \in Node,
         UNCHANGED crashes, \A m \in Node : Remembers(m), Owed(l)
  PROVE  Tally'
<1> SUFFICES ASSUME NEW m \in Node, NEW i \in Needs', NEW kind \in {"need", "evidence"}
             PROVE  TallyOf(m, i, kind)'
  BY DEF Tally
<1>0. TypeOK
  BY DEF IInv
<1>1. CASE i \in Needs
  <2>0. ChildAtMost(m, i, kind, l, k)
    BY <1>1, ChildPut
  <2>1. /\ carrier'[i] = carrier[i]
        /\ Children(m, i, kind)' \subseteq Children(m, i, kind) \cup {k}
        /\ \/ l.kind = kind /\ l.origin = m /\ l.parent = i
           \/ Children(m, i, kind)' = Children(m, i, kind)
    BY <2>0 DEF ChildAtMost
  <2>2. Taken(m, i, kind) \subseteq Taken(m, i, kind)'
    BY <1>0, <1>1, <2>1, TakenGrows
  <2>3. TallyOf(m, i, kind)
    BY <1>1 DEF Tally
  <2>4. CASE ~(l.kind = kind /\ l.origin = m /\ l.parent = i)
    <3>1. Children(m, i, kind)' = Children(m, i, kind)
      BY <2>1, <2>4
    <3>2. crashes'[m] = crashes[m]
      OBVIOUS
    <3>3. QED BY <1>0, <1>1, <2>1, <2>2, <2>3, <3>1, <3>2, TallyStands
  <2>5. CASE l.kind = kind /\ l.origin = m /\ l.parent = i
    <3>1. PICK p : p \notin Taken(m, i, kind) /\ p \in Taken(m, i, kind)'
      BY <1>1, <2>5 DEF Owed
    <3>2. QED BY <1>0, <1>1, <2>1, <2>2, <2>3, <3>1, TallyMore
  <2>6. QED BY <2>4, <2>5
<1>2. CASE i \notin Needs
  <2>1. Children(m, i, kind)' = {}
    BY <1>2, NoChildYet
  <2>2. QED BY <2>1, TallyOpens
<1>3. QED BY <1>1, <1>2

\* Without a leaf no tally needs care.
LEMMA NoPutTallies ==
  ASSUME TypeOK, TypeOK', Tally, UNCHANGED <<carrier, crashes>>, \A m \in Node : Remembers(m)
  PROVE  Tally'
<1> SUFFICES ASSUME NEW m \in Node, NEW i \in Needs', NEW kind \in {"need", "evidence"}
             PROVE  TallyOf(m, i, kind)'
  BY DEF Tally
<1>1. i \in Needs
  BY SameCarrier
<1>2. carrier'[i] = carrier[i] /\ Children(m, i, kind)' = Children(m, i, kind)
  BY DEF Children, Ids
<1>3. Taken(m, i, kind) \subseteq Taken(m, i, kind)'
  BY <1>1, TakenGrows
<1>4. QED BY <1>1, <1>2, <1>3, TallyStands DEF Tally

-----------------------------------------------------------------------------
(* The steps.                                                              *)

FreshOf(n) ==
  /\ at[n] \in Provider(n) => todo[n] \cap seen[n][at[n]] = {}
  /\ residual[n] # NoResidual => residual[n].need \in seen[n][at[n]]

\* A step concerns one node's memory.
Elsewhere(n) ==
  \A m \in Node \ {n} :
    at'[m] = at[m] /\ todo'[m] = todo[m] /\ residual'[m] = residual[m] /\ seen'[m] = seen[m]

LEMMA FreshHere ==
  ASSUME Fresh, NEW n \in Node, Elsewhere(n), FreshOf(n)'
  PROVE  Fresh'
<1>1. ASSUME NEW m \in Node PROVE FreshOf(m)'
  <2>1. CASE m = n
    BY <2>1
  <2>2. CASE m # n
    BY <2>2 DEF Fresh, FreshOf, Elsewhere, Provider, NoResidual
  <2>3. QED BY <2>1, <2>2
<1>2. QED BY <1>1 DEF Fresh, FreshOf

LEMMA RemembersHere ==
  ASSUME NEW n \in Node, Elsewhere(n), Remembers(n)
  PROVE  \A m \in Node : Remembers(m)
BY DEF Elsewhere, Remembers

LEMMA PollNextTallies ==
  ASSUME TypeOK, TypeOK', Fresh, Tally, NEW n \in Node, PollNext(n)
  PROVE  Fresh' /\ Tally'
<1>1. /\ UNCHANGED <<carrier, residual, seen, crashes>> /\ residual[n] = NoResidual
      /\ at'[n] = at[n] + 1 /\ todo'[n] = Poll(n, at[n] + 1) /\ at[n] < Inbox(n)
      /\ Elsewhere(n)
  BY DEF PollNext, Idle, TypeOK, Elsewhere
<1>2. FreshOf(n)'
  <2>1. ASSUME at[n] + 1 \in Provider(n) PROVE Poll(n, at[n] + 1) \cap seen[n][at[n] + 1] = {}
    BY <2>1, ReachAssumption, Consumers DEF Poll, Admits
  <2>2. QED BY <1>1, <2>1 DEF FreshOf, Provider, NoResidual
<1>3. Remembers(n)
  BY <1>1 DEF Remembers
<1>4. QED BY <1>1, <1>2, <1>3, FreshHere, RemembersHere, NoPutTallies

\* Steps that leave nothing to visit and no relay under way.
LEMMA RestTallies ==
  ASSUME TypeOK, TypeOK', Fresh, Tally, NEW n \in Node, Elsewhere(n),
         UNCHANGED <<carrier, crashes>>, residual'[n] = NoResidual,
         at'[n] \in Provider(n) => todo'[n] = {},
         \A p \in Provider(n) : seen[n][p] \subseteq seen'[n][p]
  PROVE  Fresh' /\ Tally'
<1>1. FreshOf(n)'
  BY DEF FreshOf, Provider, NoResidual
<1>2. Remembers(n)
  BY DEF Remembers
<1>3. QED BY <1>1, <1>2, FreshHere, RemembersHere, NoPutTallies

LEMMA CollectTallies ==
  ASSUME ReachAssumption, IInv, TypeOK', Fresh, Tally, NEW n \in Node, NEW i, Collect(n, i)
  PROVE  Fresh' /\ Tally'
<1>0. TypeOK
  BY DEF IInv
<1>1. /\ UNCHANGED <<carrier, at, residual, seen, crashes>>
      /\ at[n] \notin Provider(n) /\ Elsewhere(n)
  BY <1>0, Consumers DEF Collect, TypeOK, Elsewhere
<1>2. FreshOf(n)'
  BY <1>1 DEF Fresh, FreshOf, Provider, NoResidual
<1>3. Remembers(n)
  BY <1>1 DEF Remembers
<1>4. QED BY <1>0, <1>1, <1>2, <1>3, FreshHere, RemembersHere, NoPutTallies

LEMMA CrashTallies ==
  ASSUME ReachAssumption, TypeOK, TypeOK', Fresh, Tally, NEW n \in Node, Crash(n)
  PROVE  Fresh' /\ Tally'
<1>1. /\ UNCHANGED carrier /\ residual'[n] = NoResidual /\ todo'[n] = {}
      /\ crashes'[n] = crashes[n] + 1 /\ Elsewhere(n)
      /\ \A m \in Node : m # n => crashes'[m] = crashes[m]
  BY DEF Crash, TypeOK, Elsewhere
<1>2. FreshOf(n)'
  BY <1>1 DEF FreshOf, Provider, NoResidual
<1>3. ASSUME NEW m \in Node, NEW i \in Needs', NEW kind \in {"need", "evidence"}
      PROVE  TallyOf(m, i, kind)'
  <2>1. i \in Needs /\ carrier'[i] = carrier[i] /\ Children(m, i, kind)' = Children(m, i, kind)
    BY <1>1, SameCarrier DEF Children, Ids
  <2>2. TallyOf(m, i, kind)
    BY <2>1 DEF Tally
  <2>3. CASE m = n
    BY <1>1, <2>1, <2>2, <2>3, TallyRestarts
  <2>4. CASE m # n
    <3>1. Remembers(m)
      BY <1>1, <2>4 DEF Elsewhere, Remembers
    <3>2. Taken(m, i, kind) \subseteq Taken(m, i, kind)'
      BY <2>1, <3>1, TakenGrows
    <3>3. QED BY <1>1, <2>1, <2>2, <2>4, <3>2, TallyStands
  <2>5. QED BY <2>3, <2>4
<1>4. QED BY <1>1, <1>2, <1>3, FreshHere DEF Tally

LEMMA AskTallies ==
  ASSUME IInv, TypeOK', Fresh, Tally, NEW n \in Node, NEW c \in Cap, Ask(n, c)
  PROVE  Fresh' /\ Tally'
<1>1. /\ carrier \in Seq(Leaf) /\ carrier' = Append(carrier, NeedArtifact(n, c, 0, 0, {c}))
      /\ UNCHANGED <<at, todo, residual, seen, crashes>>
  BY DEF IInv, TypeOK, Ask
<1>2. PICK k \in Nat : k = Len(carrier) + 1 /\ k # 0
  BY <1>1
<1>3. PICK l \in Leaf : /\ carrier' = Append(carrier, l)
                        /\ l.parent = 0 /\ l.origin = n
  <2>1. /\ NeedArtifact(n, c, 0, 0, {c}) \in Leaf
        /\ NeedArtifact(n, c, 0, 0, {c}).parent = 0 /\ NeedArtifact(n, c, 0, 0, {c}).origin = n
    BY <1>1 DEF NeedArtifact, Leaf
  <2>2. QED BY <1>1, <2>1
<1>4. 0 \notin Needs
  BY <1>1 DEF Needs, Ids
<1>5. \A m \in Node : Remembers(m)
  BY <1>1 DEF Remembers
<1>6. Tally'
  BY <1>1, <1>2, <1>3, <1>4, <1>5, PutTallies DEF Owed
<1>7. Fresh'
  BY <1>1 DEF Fresh, Provider, NoResidual
<1>8. QED BY <1>6, <1>7

\* What on_leaf takes it has not taken before; its evidence is owed for that.
LEMMA OnLeafTallies ==
  ASSUME ReachAssumption, IInv, IInv', Fresh, Tally, NEW n \in Node, NEW i \in todo[n],
         NEW absorbed \in BOOLEAN, NEW to \in NextHops, OnLeaf(n, i, absorbed, to)
  PROVE  Fresh' /\ Tally'
<1>0. TypeOK /\ TypeOK' /\ carrier \in Seq(Leaf) /\ Len(carrier) \in Nat
  <2>1. TypeOK /\ TypeOK'
    BY DEF IInv
  <2>2. carrier \in Seq(Leaf)
    BY <2>1 DEF TypeOK
  <2>3. QED BY <2>1, <2>2
<1>1. PICK p \in Provider(n) : p = at[n]
  BY DEF OnLeaf
<1>2. /\ residual[n] = NoResidual /\ at' = at /\ crashes' = crashes
      /\ todo' = [todo EXCEPT ![n] = todo[n] \ {i}]
      /\ seen' = [seen EXCEPT ![n][p] = seen[n][p] \cup {i}]
      /\ carrier' = IF absorbed THEN Append(carrier, EvidenceArtifact(n, Serves[n][p], i))
                    ELSE carrier
      /\ residual' = IF Relays(i, to) THEN [residual EXCEPT ![n] = [need |-> i, cap |-> to]]
                     ELSE residual
  BY <1>1 DEF OnLeaf
<1>3. Workable(n, p, i) /\ i \notin seen[n][p]
  BY <1>1 DEF IInv, WorkInHand, InHand, Fresh
<1>4. /\ i \in Needs /\ i \in Ids /\ i \in Nat /\ carrier[i] \in Leaf
      /\ Serves[n][p] = carrier[i].cap
  BY <1>0, <1>3 DEF Workable, Needs, Ids
<1>5. /\ todo'[n] = todo[n] \ {i}
      /\ seen'[n][p] = seen[n][p] \cup {i} /\ \A q \in Provider(n) : seen[n][q] \subseteq seen'[n][q]
      /\ residual'[n] = NoResidual \/ residual'[n].need = i
  <2>1. seen[n] \in [Provider(n) -> SUBSET Ids] /\ DOMAIN seen = Node
    BY <1>0 DEF TypeOK
  <2>2. seen'[n] = [seen[n] EXCEPT ![p] = seen[n][p] \cup {i}]
    BY <1>2, <2>1
  <2>3. QED BY <1>0, <1>2, <2>1, <2>2 DEF TypeOK
<1>6. Elsewhere(n)
  BY <1>0, <1>2 DEF TypeOK, Elsewhere
<1>7. FreshOf(n)'
  BY <1>1, <1>2, <1>5 DEF Fresh, FreshOf, Provider, NoResidual
<1>8. Remembers(n)
  BY <1>1, <1>2, <1>3, <1>5 DEF Remembers
<1>9. Fresh' /\ \A m \in Node : Remembers(m)
  BY <1>6, <1>7, <1>8, FreshHere, RemembersHere
<1>10. CASE ~absorbed
  BY <1>0, <1>2, <1>9, <1>10, NoPutTallies
<1>11. CASE absorbed
  <2>1. PICK l \in Leaf : /\ carrier' = Append(carrier, l)
                          /\ l.kind = "evidence" /\ l.parent = i /\ l.origin = n
    <3>1. /\ EvidenceArtifact(n, Serves[n][p], i) \in Leaf
          /\ EvidenceArtifact(n, Serves[n][p], i).kind = "evidence"
          /\ EvidenceArtifact(n, Serves[n][p], i).parent = i
          /\ EvidenceArtifact(n, Serves[n][p], i).origin = n
      BY <1>4 DEF EvidenceArtifact, Leaf
    <3>2. QED BY <1>2, <1>11, <3>1
  <2>2. PICK k \in Nat : k = Len(carrier) + 1 /\ l.parent # k
    BY <1>0, <1>4, <2>1 DEF Ids
  <2>3. carrier'[i] = carrier[i]
    BY <1>0, <1>4, <2>1, Append1
  <2>4. Owed(l)
    <3>1. p \notin Taken(n, i, "evidence")
      BY <1>3 DEF Taken
    <3>2. p \in Taken(n, i, "evidence")'
      BY <1>4, <1>5, <2>3 DEF Taken, ProvidersOf, Provider
    <3>3. QED BY <2>1, <3>1, <3>2 DEF Owed
  <2>5. Tally'
    BY <1>0, <1>2, <1>9, <2>1, <2>2, <2>4, PutTallies
  <2>6. QED BY <1>9, <2>5
<1>12. QED BY <1>10, <1>11

\* A relay is owed for the need its provider has taken, and ends.
LEMMA RelayTallies ==
  ASSUME ReachAssumption, IInv, IInv', Fresh, Tally, NEW n \in Node, Relay(n)
  PROVE  Fresh' /\ Tally'
<1>0. TypeOK /\ TypeOK' /\ carrier \in Seq(Leaf) /\ Len(carrier) \in Nat
  <2>1. TypeOK /\ TypeOK'
    BY DEF IInv
  <2>2. carrier \in Seq(Leaf)
    BY <2>1 DEF TypeOK
  <2>3. QED BY <2>1, <2>2
<1>1. PICK i : i = residual[n].need
  OBVIOUS
<1>2. PICK c : c = residual[n].cap
  OBVIOUS
<1>3. /\ residual[n] # NoResidual
      /\ carrier' = Append(carrier, NeedArtifact(n, c, carrier[i].root, i, carrier[i].path \cup {c}))
      /\ residual' = [residual EXCEPT ![n] = NoResidual]
      /\ UNCHANGED <<at, todo, seen, crashes>>
  BY <1>1, <1>2 DEF Relay
<1>4. PICK p \in Provider(n) : p = at[n]
  BY <1>3 DEF IInv, WorkInHand, InHand
<1>5. Workable(n, p, i) /\ c \in Cap /\ i \in seen[n][p]
  BY <1>1, <1>2, <1>3, <1>4 DEF IInv, WorkInHand, InHand, Fresh
<1>6. /\ i \in Needs /\ i \in Ids /\ i \in Nat /\ i # 0 /\ carrier[i] \in Leaf
      /\ Serves[n][p] = carrier[i].cap
  BY <1>0, <1>5 DEF Workable, Needs, Ids
<1>7. residual'[n] = NoResidual /\ Elsewhere(n)
  BY <1>0, <1>3 DEF TypeOK, Elsewhere
<1>8. FreshOf(n)'
  BY <1>3, <1>7 DEF Fresh, FreshOf, Provider, NoResidual
<1>9. Remembers(n)
  BY <1>3, <1>7 DEF Remembers
<1>10. Fresh' /\ \A m \in Node : Remembers(m)
  BY <1>7, <1>8, <1>9, FreshHere, RemembersHere
<1>11. PICK l \in Leaf : /\ carrier' = Append(carrier, l)
                         /\ l.kind = "need" /\ l.parent = i /\ l.origin = n
  <2> DEFINE hop == NeedArtifact(n, c, carrier[i].root, i, carrier[i].path \cup {c})
  <2>1. hop \in Leaf /\ hop.kind = "need" /\ hop.parent = i /\ hop.origin = n
    BY <1>0, <1>5, <1>6 DEF NeedArtifact, Leaf
  <2> HIDE DEF hop
  <2>2. carrier' = Append(carrier, hop)
    BY <1>3 DEF hop
  <2>3. QED BY <2>1, <2>2
<1>12. PICK k \in Nat : k = Len(carrier) + 1 /\ l.parent # k
  BY <1>0, <1>6, <1>11 DEF Ids
<1>13. carrier'[i] = carrier[i]
  BY <1>0, <1>6, <1>11, Append1
<1>14. Owed(l)
  <2>1. p \notin Taken(n, i, "need")
    BY <1>1, <1>4 DEF Taken
  <2>2. p \in Taken(n, i, "need")'
    <3>1. residual'[n].need # i
      BY <1>6, <1>7 DEF NoResidual
    <3>2. p \in ProvidersOf(n, carrier'[i].cap) /\ i \in seen'[n][p]
      BY <1>3, <1>5, <1>6, <1>13 DEF ProvidersOf
    <3>3. QED BY <3>1, <3>2 DEF Taken, ProvidersOf, Provider
  <2>3. QED BY <1>11, <2>1, <2>2 DEF Owed
<1>15. Tally'
  BY <1>0, <1>3, <1>10, <1>11, <1>12, <1>14, PutTallies
<1>16. QED BY <1>10, <1>15

LEMMA StepTallies ==
  ASSUME ReachAssumption, IInv, IInv', Fresh, Tally, [Next]_vars
  PROVE  Fresh' /\ Tally'
<1>0. TypeOK /\ TypeOK'
  BY DEF IInv
<1>1. ASSUME NEW n \in Node, EndPump(n) \/ PollRaises(n) PROVE Fresh' /\ Tally'
  <2>1. /\ UNCHANGED <<carrier, crashes, seen>> /\ residual'[n] = NoResidual
        /\ Elsewhere(n) /\ at'[n] = 0
    BY <1>0, <1>1 DEF EndPump, PollRaises, Abort, Idle, TypeOK, Elsewhere
  <2>2. QED BY <1>0, <2>1, ReachAssumption, Consumers, RestTallies
<1>2. ASSUME NEW n \in Node, RelayRaises(n) PROVE Fresh' /\ Tally'
  <2>1. /\ UNCHANGED <<carrier, crashes, seen>> /\ residual'[n] = NoResidual
        /\ Elsewhere(n) /\ at'[n] = 0
    BY <1>0, <1>2 DEF RelayRaises, Abort, TypeOK, Elsewhere
  <2>2. QED BY <1>0, <2>1, ReachAssumption, Consumers, RestTallies
<1>3. ASSUME NEW n \in Node, NEW i \in todo[n], OnLeafRaises(n, i) PROVE Fresh' /\ Tally'
  <2>1. /\ UNCHANGED <<carrier, crashes>> /\ residual'[n] = NoResidual
        /\ Elsewhere(n) /\ at'[n] = 0
        /\ seen' = [seen EXCEPT ![n][at[n]] = seen[n][at[n]] \cup {i}]
    BY <1>0, <1>3 DEF OnLeafRaises, Abort, TypeOK, Elsewhere
  <2>2. \A p \in Provider(n) : seen[n][p] \subseteq seen'[n][p]
    <3>1. seen[n] \in [Provider(n) -> SUBSET Ids] /\ DOMAIN seen = Node
      BY <1>0 DEF TypeOK
    <3>2. seen'[n] = [seen[n] EXCEPT ![at[n]] = seen[n][at[n]] \cup {i}]
      BY <2>1, <3>1
    <3>3. QED BY <3>1, <3>2
  <2>3. QED BY <1>0, <2>1, <2>2, ReachAssumption, Consumers, RestTallies
<1>4. ASSUME NEW n \in Node, Pump(n) PROVE Fresh' /\ Tally'
  BY <1>0, <1>1, <1>4, PollNextTallies, OnLeafTallies, RelayTallies, CollectTallies,
     ReachAssumption DEF Pump
<1>5. ASSUME NEW n \in Node, Fault(n) PROVE Fresh' /\ Tally'
  BY <1>0, <1>1, <1>2, <1>3, <1>5, CrashTallies, ReachAssumption DEF Fault
<1>6. ASSUME NEW n \in Node, NEW c \in Cap, Ask(n, c) PROVE Fresh' /\ Tally'
  BY <1>0, <1>6, AskTallies
<1>7. CASE UNCHANGED vars
  <2>1. UNCHANGED <<carrier, at, todo, residual, seen, crashes>>
    BY <1>7 DEF vars
  <2>2. Fresh'
    BY <2>1 DEF Fresh, Provider, NoResidual
  <2>3. \A m \in Node : Remembers(m)
    BY <2>1 DEF Remembers
  <2>4. QED BY <1>0, <2>1, <2>2, <2>3, NoPutTallies
<1>8. QED BY <1>4, <1>5, <1>6, <1>7 DEF Next

\* However often a need is polled, and whoever raises in between, each provider
\* answers it and relays it at most once per life of its process; only a
\* restart can make a duplicate (Provider.on_leaf, _seen).
THEOREM OncePerLifeHolds == Spec => []OncePerLife
<1>1. Init => Fresh /\ Tally
  BY DEF Init, Fresh, Tally, Needs, Ids, Provider
<1>2. IInv /\ Fresh /\ Tally => OncePerLife
  <2> SUFFICES ASSUME IInv, Tally, NEW n \in Node, NEW i \in Needs,
                      NEW kind \in {"need", "evidence"}
               PROVE  Cardinality(Children(n, i, kind))
                        <= (crashes[n] + 1) * Cardinality(ProvidersOf(n, carrier[i].cap))
    BY DEF OncePerLife
  <2> DEFINE served == Cardinality(ProvidersOf(n, carrier[i].cap))
             base == crashes[n] * served
  <2>1. /\ Cardinality(Children(n, i, kind)) \in Nat /\ Cardinality(Taken(n, i, kind)) \in Nat
        /\ served \in Nat /\ Cardinality(Taken(n, i, kind)) <= served
    BY Counting DEF IInv, Countable
  <2>2. crashes[n] \in Nat
    BY DEF IInv, TypeOK
  <2>3. TallyOf(n, i, kind)
    BY DEF Tally
  <2> HIDE DEF served
  <2>4. base \in Nat /\ (crashes[n] + 1) * served = base + served
    BY <2>1, <2>2, Lives
  <2>5. Cardinality(Children(n, i, kind)) <= base + Cardinality(Taken(n, i, kind))
    BY <2>3 DEF TallyOf, served
  <2> HIDE DEF base
  <2>6. Cardinality(Children(n, i, kind)) <= base + served
    BY <2>1, <2>4, <2>5
  <2>7. QED BY <2>4, <2>6 DEF served
<1>3. IInv /\ IInv' /\ Fresh /\ Tally /\ [Next]_vars => (Fresh /\ Tally)'
  BY StepTallies, ReachAssumption
<1>4. QED BY <1>1, <1>2, <1>3, Invariance, PTL DEF Spec
=============================================================================
