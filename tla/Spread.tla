--------------------------------- MODULE Spread ---------------------------------
(***************************************************************************)
(* The spread of a seeded field over a graph: breadth first from each seed, *)
(* a node fired whenever it is reached nearer than before.                  *)
(* (propagation.spread_graph)                                               *)
(*                                                                          *)
(* One step is one pop of the queue.  The energy of a node is a sum with a  *)
(* term, the seed's energy by the kernel of a distance, for every time it   *)
(* fires; the model keeps the distances of the terms, per seed, in order.   *)
(***************************************************************************)
EXTENDS Integers, Sequences, FiniteSetsExt, SequencesExt

CONSTANTS Vertex, Seeds,  \* the nodes, the sequence of seeds
          Edge,           \* the lengths an edge may have
          NoEdge,         \* no edge, or one of a length that is no length
          Horizons, Caps   \* the horizons and hop caps a caller may pass

ASSUME SpreadAssumption ==
  /\ IsFiniteSet(Vertex) /\ Seeds \in Seq(Vertex)
  /\ Edge \cup Horizons \cup Caps \subseteq Nat /\ NoEdge \notin Edge

VARIABLES edge, reach, cap,   \* the graph, reach and max_steps
          seeds,              \* the seeds still to spread, the current one first
          seen, queue,        \* the current seed's, empty between seeds
          fired               \* fired[k][n]: the terms added to n by the seed with
                              \* which k were still to spread

spreadVars == <<edge, reach, cap, seeds, seen, queue, fired>>

Nowhere == [n \in {} |-> 0]

SpreadInit ==
  /\ edge \in [{p \in Vertex \X Vertex : p[1] # p[2]} -> Edge \cup {NoEdge}]
  /\ reach \in Horizons /\ cap \in Caps
  /\ seeds = Seeds /\ seen = Nowhere /\ queue = <<>>
  /\ fired = [k \in 1..Len(Seeds) |-> [n \in Vertex |-> <<>>]]

\* The current seed adds a term to each node that has come to a distance.
Fire(dists) ==
  fired' = [fired EXCEPT ![Len(seeds)] =
              [n \in Vertex |-> IF n \in DOMAIN dists THEN Append(@[n], dists[n]) ELSE @[n]]]

\* The next seed fires at distance 0.
Seed ==
  /\ seeds # <<>> /\ queue = <<>> /\ seen = Nowhere
  /\ seen' = [n \in {Head(seeds)} |-> 0]
  /\ queue' = << [node |-> Head(seeds), dist |-> 0, steps |-> 0] >>
  /\ Fire([n \in {Head(seeds)} |-> 0])
  /\ UNCHANGED <<edge, reach, cap, seeds>>

\* Mutant: a node is reached once.
MutReachedOnce(q) ==
  {n \in Vertex \ ({q.node} \cup DOMAIN seen) :
     q.steps < cap /\ edge[<<q.node, n>>] # NoEdge /\ q.dist + edge[<<q.node, n>>] <= reach}

\* The neighbours that the entry reaches nearer than anything before.
Nearer(q) ==
  {n \in Vertex \ {q.node} :
     /\ q.steps < cap
     /\ edge[<<q.node, n>>] # NoEdge
     /\ q.dist + edge[<<q.node, n>>] <= reach
     /\ n \in DOMAIN seen => q.dist + edge[<<q.node, n>>] < seen[n]}

\* How far they are, and the entries that carry them on.
Arrivals(q) == [n \in Nearer(q) |-> q.dist + edge[<<q.node, n>>]]
Entries(q) ==
  {[node |-> n, dist |-> Arrivals(q)[n], steps |-> q.steps + 1] : n \in Nearer(q)}

Pop ==
  /\ queue # <<>>
  /\ LET q == Head(queue)
         at == Arrivals(q)
     IN  /\ seen' = [n \in DOMAIN seen \cup DOMAIN at |-> IF n \in DOMAIN at THEN at[n] ELSE seen[n]]
         /\ queue' = Tail(queue) \o SetToSeq(Entries(q))
         /\ Fire(at)
  /\ UNCHANGED <<edge, reach, cap, seeds>>

\* The queue has run dry: on to the next seed.
Dry ==
  /\ seeds # <<>> /\ queue = <<>> /\ seen # Nowhere
  /\ seeds' = Tail(seeds) /\ seen' = Nowhere
  /\ UNCHANGED <<edge, reach, cap, queue, fired>>

SpreadNext == Seed \/ Pop \/ Dry

(***************************************************************************)
(* Property.                                                                *)
(***************************************************************************)
\* The walks over the edges E one edge longer than those that end in W, each as
\* <<its last node, its length>>; the walks of at most k edges from a seed; a
\* node's distances.
Onward(E, W) ==
  {<<x[2], x[1][2] + E[<<x[1][1], x[2]>>]>> :
     x \in {x \in W \X Vertex : x[1][1] # x[2] /\ E[<<x[1][1], x[2]>>] # NoEdge}}
Walks(E, most, seed) ==
  LET w[k \in 0..most] == IF k = 0 THEN {<<seed, 0>>} ELSE w[k - 1] \cup Onward(E, w[k - 1])
  IN  w
Distances(seed, v) ==
  {p[2] : p \in {p \in Walks(edge, cap, seed)[cap] : p[1] = v /\ p[2] <= reach}}

\* When a seed has run dry, the nodes it has fired at are those within the
\* horizon and the hop cap; the last term of each is at its true distance from
\* the seed, also when the nearer way was found late, through nodes queued and
\* passed on before; and every earlier term, which stays in the sum, is of a
\* longer way, none counted twice (propagation.py 61-96).
FiresAtNearest ==
  queue = <<>> /\ seen # Nowhere =>
    \A v \in Vertex :
      LET terms == fired[Len(seeds)][v]
          ways  == Distances(Head(seeds), v)
      IN  /\ \A i \in DOMAIN terms : terms[i] \in ways
          /\ \A i, j \in DOMAIN terms : i < j => terms[j] < terms[i]
          /\ ways # {} => terms # <<>> /\ terms[Len(terms)] = Min(ways)
=============================================================================
