-------------------------------- MODULE Plane --------------------------------
(***************************************************************************)
(* Planes over shared folders: Plane.send, reconcile and receive            *)
(* (prism/plane.py), the LocalDirCarrier they go to and reconcile(a, b)      *)
(* (prism/carriers.py).                                                    *)
(*                                                                         *)
(* A leaf is a file.  Writing it is not one step: write_text truncates or   *)
(* creates the file and then fills it, and whoever lists the folder in     *)
(* between sees the name, and whoever reads it finds no leaf.  Several     *)
(* nodes may write one folder; a node does one thing at a time.             *)
(***************************************************************************)
EXTENDS Naturals, Sequences, FiniteSets

CONSTANTS
  Node,        \* the nodes, one Plane each
  Folder,      \* the LocalDirCarriers
  Leaf,        \* the leaves that may be sent, one file name each
  Carriers,    \* Carriers[n]: n's carriers in cost order, Plane.carriers
  MaxCrashes   \* bound: crashes over all nodes

ASSUME PlaneAssumption ==
  /\ Carriers \in [Node -> Seq(Folder) \ {<<>>}]
  /\ MaxCrashes \in Nat

VARIABLES
  file,     \* file[f][l]: "absent", "torn" or "whole"
  sent,     \* the leaves some node has sent
  doing,    \* doing[n]: "nothing", "send", "ids", "copy" or "receive"
  other,    \* other[n]: index of the carrier reconciled with the first, or
            \*   polled by receive
  listed,   \* listed[n]: ids() of the first carrier, as reconcile read it
  jobs,     \* jobs[n]: the transfers reconcile still has to make
  write,    \* write[n]: the put under way, {} or one [to, leaf, open]
  due,      \* history: due[n], the leaves n's reconcile or receive owes, each
            \*   [at: the folder it could be read in when that began, leaf]
  got,      \* got[n]: what receive has merged so far
  crashes   \* crashes so far

vars == <<file, sent, doing, other, listed, jobs, write, due, got, crashes>>

First(n)  == Carriers[n][1]
Second(n) == Carriers[n][other[n]]

\* LocalDirCarrier.ids(): every file name, torn or not; poll() and get()
\* read only what parses.
Listed(f) == {l \in Leaf : file[f][l] # "absent"}
Whole(f)  == {l \in Leaf : file[f][l] = "whole"}
Torn(f)   == {l \in Leaf : file[f][l] = "torn"}

\* What could be read in some folders, and what is found torn in one of them.
Holdings(F) == {h \in [at : F, leaf : Leaf] : h.leaf \in Whole(h.at)}
FoundTorn(f, L) == [at : {f}, leaf : L \cap Torn(f)]

Init ==
  /\ file = [f \in Folder |-> [l \in Leaf |-> "absent"]]
  /\ sent = {}
  /\ doing = [n \in Node |-> "nothing"]
  /\ other = [n \in Node |-> 1]
  /\ listed = [n \in Node |-> {}]
  /\ jobs = [n \in Node |-> {}]
  /\ write = [n \in Node |-> {}]
  /\ due = [n \in Node |-> {}] /\ got = [n \in Node |-> {}]
  /\ crashes = 0

-----------------------------------------------------------------------------
(* LocalDirCarrier.put: look whether the file is there, open it, fill it.   *)

\* The outcome of `if not p.exists()`: nothing to do, or a put under way.
Put(n, f, l) ==
  write' = [write EXCEPT ![n] =
              IF l \in Listed(f) THEN {} ELSE {[to |-> f, leaf |-> l, open |-> FALSE]}]

\* write_text opens the file: created, or truncated when another node made
\* it since the look.
OpenFile(n) ==
  \E w \in write[n] :
    /\ ~w.open
    /\ file' = [file EXCEPT ![w.to][w.leaf] = "torn"]
    /\ write' = [write EXCEPT ![n] = {[w EXCEPT !.open = TRUE]}]
    /\ UNCHANGED <<sent, doing, other, listed, jobs, due, got, crashes>>

\* The bytes are in the file and it is closed.
FillFile(n) ==
  \E w \in write[n] :
    /\ w.open
    /\ file' = [file EXCEPT ![w.to][w.leaf] = "whole"]
    /\ write' = [write EXCEPT ![n] = {}]
    /\ UNCHANGED <<sent, doing, other, listed, jobs, due, got, crashes>>

-----------------------------------------------------------------------------
(* Plane.send.                                                             *)

Send(n, l) ==
  /\ doing[n] = "nothing" /\ l \notin sent
  /\ sent' = sent \cup {l}
  /\ doing' = [doing EXCEPT ![n] = "send"]
  /\ Put(n, First(n), l)
  /\ UNCHANGED <<file, other, listed, jobs, due, got, crashes>>

Sent(n) ==
  /\ doing[n] = "send" /\ write[n] = {}
  /\ doing' = [doing EXCEPT ![n] = "nothing"]
  /\ UNCHANGED <<file, sent, other, listed, jobs, write, due, got, crashes>>

-----------------------------------------------------------------------------
(* Plane.reconcile: reconcile(first, c) for each further carrier c.         *)

\* reconcile(a, b) is entered for carrier k: a.ids().
ListFirst(n, k) ==
  /\ k \in 2..Len(Carriers[n])
  /\ doing' = [doing EXCEPT ![n] = "ids"]
  /\ other' = [other EXCEPT ![n] = k]
  /\ listed' = [listed EXCEPT ![n] = Listed(First(n))]
  /\ due' = [due EXCEPT ![n] = Holdings({First(n), Carriers[n][k]})]
  /\ UNCHANGED <<file, sent, jobs, write, got, crashes>>

BeginReconcile(n) == doing[n] = "nothing" /\ ListFirst(n, 2)

\* Mutant: only what the second carrier is missing.
MutListSecondOneWay(n) ==
  LET a == First(n)
      b == Second(n)
  IN /\ doing[n] = "ids"
     /\ doing' = [doing EXCEPT ![n] = "copy"]
     /\ jobs' = [jobs EXCEPT ![n] =
                   {[from |-> a, to |-> b, leaf |-> l] : l \in listed[n] \ Listed(b)}]
     /\ listed' = [listed EXCEPT ![n] = {}]
     /\ UNCHANGED <<file, sent, other, write, due, got, crashes>>

\* b.ids(), and with it what is missing on either side.
ListSecond(n) ==
  LET a == First(n)
      b == Second(n)
  IN /\ doing[n] = "ids"
     /\ doing' = [doing EXCEPT ![n] = "copy"]
     /\ jobs' = [jobs EXCEPT ![n] =
                   {[from |-> a, to |-> b, leaf |-> l] : l \in listed[n] \ Listed(b)} \cup
                   {[from |-> b, to |-> a, leaf |-> l] : l \in Listed(b) \ listed[n]}]
     /\ listed' = [listed EXCEPT ![n] = {}]
     /\ UNCHANGED <<file, sent, other, write, due, got, crashes>>

\* One transfer, those from the first carrier before those to it: get the
\* leaf, and put it unless it does not parse.
Transfer(n) ==
  \E j \in jobs[n] :
    /\ doing[n] = "copy" /\ write[n] = {}
    /\ j.from = First(n) \/ \A k \in jobs[n] : k.from # First(n)
    /\ jobs' = [jobs EXCEPT ![n] = @ \ {j}]
    /\ IF j.leaf \in Whole(j.from) THEN Put(n, j.to, j.leaf) ELSE UNCHANGED write
    /\ due' = [due EXCEPT ![n] = @ \ FoundTorn(j.from, {j.leaf})]
    /\ UNCHANGED <<file, sent, doing, other, listed, got, crashes>>

Copied(n) == doing[n] = "copy" /\ jobs[n] = {} /\ write[n] = {}

NextPair(n) == Copied(n) /\ ListFirst(n, other[n] + 1)

\* The last carrier is reconciled.
EndReconcile(n) ==
  /\ Copied(n) /\ other[n] = Len(Carriers[n])
  /\ doing' = [doing EXCEPT ![n] = "nothing"]
  /\ other' = [other EXCEPT ![n] = 1]
  /\ due' = [due EXCEPT ![n] = {}]
  /\ UNCHANGED <<file, sent, listed, jobs, write, got, crashes>>

-----------------------------------------------------------------------------
(* Plane.receive: poll every carrier, merge by id.                         *)

BeginReceive(n) ==
  /\ doing[n] = "nothing"
  /\ doing' = [doing EXCEPT ![n] = "receive"]
  /\ due' = [due EXCEPT ![n] =
               Holdings({Carriers[n][k] : k \in 1..Len(Carriers[n])})]
  /\ UNCHANGED <<file, sent, other, listed, jobs, write, got, crashes>>

PollFolder(n) ==
  /\ doing[n] = "receive" /\ other[n] <= Len(Carriers[n])
  /\ got' = [got EXCEPT ![n] = @ \cup Whole(Second(n))]
  /\ other' = [other EXCEPT ![n] = @ + 1]
  /\ due' = [due EXCEPT ![n] = @ \ FoundTorn(Second(n), Leaf)]
  /\ UNCHANGED <<file, sent, doing, listed, jobs, write, crashes>>

\* Mutant: the last carrier is not polled.
MutEndReceiveEarly(n) ==
  /\ doing[n] = "receive" /\ other[n] >= Len(Carriers[n])
  /\ doing' = [doing EXCEPT ![n] = "nothing"]
  /\ other' = [other EXCEPT ![n] = 1]
  /\ due' = [due EXCEPT ![n] = {}] /\ got' = [got EXCEPT ![n] = {}]
  /\ UNCHANGED <<file, sent, listed, jobs, write, crashes>>

\* Every carrier was polled: the merged leaves are returned.
EndReceive(n) ==
  /\ doing[n] = "receive" /\ other[n] > Len(Carriers[n])
  /\ doing' = [doing EXCEPT ![n] = "nothing"]
  /\ other' = [other EXCEPT ![n] = 1]
  /\ due' = [due EXCEPT ![n] = {}] /\ got' = [got EXCEPT ![n] = {}]
  /\ UNCHANGED <<file, sent, listed, jobs, write, crashes>>

-----------------------------------------------------------------------------
\* The node stops; an open file stays as far as it got.
Crash(n) ==
  /\ crashes < MaxCrashes /\ crashes' = crashes + 1
  /\ doing' = [doing EXCEPT ![n] = "nothing"]
  /\ other' = [other EXCEPT ![n] = 1]
  /\ listed' = [listed EXCEPT ![n] = {}]
  /\ jobs' = [jobs EXCEPT ![n] = {}]
  /\ write' = [write EXCEPT ![n] = {}]
  /\ due' = [due EXCEPT ![n] = {}] /\ got' = [got EXCEPT ![n] = {}]
  /\ UNCHANGED <<file, sent>>

Working(n) ==
  \/ OpenFile(n) \/ FillFile(n) \/ Sent(n)
  \/ ListSecond(n) \/ Transfer(n) \/ NextPair(n) \/ EndReconcile(n)
  \/ PollFolder(n) \/ EndReceive(n)

Next ==
  \E n \in Node :
    \/ Working(n) \/ BeginReconcile(n) \/ BeginReceive(n) \/ Crash(n)
    \/ \E l \in Leaf : Send(n, l)

Spec == Init /\ [][Next]_vars

-----------------------------------------------------------------------------
(* Properties.                                                             *)

\* reconcile(a, b): "both end holding the union" - every leaf one of them
\* held when it began can be read from both when it returns.
Reconciled(n) == NextPair(n) \/ EndReconcile(n)

BothHoldTheUnion ==
  [][\A n \in Node : Reconciled(n)
       => \A d \in due[n] : d.leaf \in Whole(First(n)) \cap Whole(Second(n))]_vars

\* What reconcile does give, whoever else writes the folders and wherever a
\* node crashes: a leaf it could read when it began has a file on both sides,
\* whole or torn, unless it was torn when reconcile came to copy it.
UnionButTorn ==
  [][\A n \in Node : Reconciled(n)
       => \A d \in due[n] : d.leaf \in Listed(First(n)) \cap Listed(Second(n))]_vars

\* receive: "a leaf on any carrier is delivered", also when other nodes are
\* writing the folders meanwhile, unless that carrier's file of it is torn
\* when receive comes to read it.
Delivered == [][\A n \in Node : EndReceive(n) => \A d \in due[n] : d.leaf \in got[n]]_vars

\* A node that reconciles again and again brings a leaf from any of its
\* folders to its first, and from there to all the others: at rest they hold
\* the same leaves, save those that have a torn file in the way.
SameButTorn(f, g) ==
  /\ Whole(f) \subseteq Whole(g) \cup Torn(g)
  /\ Whole(g) \subseteq Whole(f) \cup Torn(f)

Converges ==
  <>[](\A n \in Node : \A k \in 2..Len(Carriers[n]) :
         SameButTorn(First(n), Carriers[n][k]))
=============================================================================
