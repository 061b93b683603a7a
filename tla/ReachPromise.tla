---------------------------- MODULE ReachPromise ----------------------------
(***************************************************************************)
(* What a reach promises, without carrier, polling, ids or threads          *)
(* (prism/reach.py, the module docstring's "circuit").                      *)
(*                                                                         *)
(* A handle opens a tree of hops.  A hop is answered, or passed on to a    *)
(* capability its path has not met, only by a node whose light-cone holds   *)
(* the hop's capability.  Requesters collect answers that were given, each  *)
(* known by the hop it answers and the node that gave it.  A restarted      *)
(* requester forgets what it collected and may collect it again.           *)
(***************************************************************************)
EXTENDS Naturals

CONSTANTS
  Node,    \* the principals
  Cap,     \* the capabilities
  Opens    \* Opens[n]: the capabilities inside n's light-cone

VARIABLES
  hops,      \* the needs that exist, each by its handle, capability and path
  answered,  \* the answers given: which hop, by whom
  collected  \* collected[n]: the answers requester n holds

vars == <<hops, answered, collected>>

Hop    == [root : Nat, cap : Cap, path : SUBSET Cap]
Answer == [hop : Hop, by : Node]

Init == hops = {} /\ answered = {} /\ collected = [n \in Node |-> {}]

\* A new handle is opened at capability c: the new hop is read off hops', so
\* that TLC need not enumerate the handles.
Open(c) ==
  \E h \in hops' :
    /\ h.cap = c /\ h.path = {c}
    /\ \A g \in hops : g.root # h.root
    /\ hops' = hops \cup {h}
    /\ UNCHANGED <<answered, collected>>

\* Node n, which can open the hop, passes its residual on to c.
PassOn(n, h, c) ==
  /\ h.cap \in Opens[n] /\ c \notin h.path
  /\ hops' = hops \cup {[root |-> h.root, cap |-> c, path |-> h.path \cup {c}]}
  /\ UNCHANGED <<answered, collected>>

\* Node n, which can open the hop, answers it.
Give(n, h) ==
  /\ h.cap \in Opens[n]
  /\ answered' = answered \cup {[hop |-> h, by |-> n]}
  /\ UNCHANGED <<hops, collected>>

\* Requester n comes to hold an answer.
Hold(n, a) ==
  /\ a \notin collected[n]
  /\ collected' = [collected EXCEPT ![n] = @ \cup {a}]
  /\ UNCHANGED <<hops, answered>>

\* Requester n is restarted.
Forget(n) ==
  /\ collected' = [collected EXCEPT ![n] = {}]
  /\ UNCHANGED <<hops, answered>>

HoldSome(n) == \E a \in answered : Hold(n, a)

Next ==
  \/ \E c \in Cap : Open(c)
  \/ \E n \in Node, h \in hops : Give(n, h) \/ \E c \in Cap : PassOn(n, h, c)
  \/ \E n \in Node : HoldSome(n) \/ Forget(n)

Spec == Init /\ [][Next]_vars

\* Answers that exist do not stay uncollected.
FairSpec == Spec /\ \A n \in Node : WF_vars(HoldSome(n))
=============================================================================
