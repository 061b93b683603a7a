----------------------------- MODULE PlaneProofs -----------------------------
(***************************************************************************)
(* Proofs about planes over shared folders, for any number of nodes, folders *)
(* and leaves, any carriers and any crashes: what reconcile and receive may  *)
(* be relied on for while others write the same folders.                    *)
(***************************************************************************)
EXTENDS Plane, TLAPS

Holding == [at : Folder, leaf : Leaf]
Job     == [from : Folder, to : Folder, leaf : Leaf]
Writing == [to : Folder, leaf : Leaf, open : BOOLEAN]

PlaneTypes ==
  /\ file \in [Folder -> [Leaf -> {"absent", "torn", "whole"}]]
  /\ doing \in [Node -> {"nothing", "send", "ids", "copy", "receive"}]
  /\ other \in [Node -> Nat]
  /\ listed \in [Node -> SUBSET Leaf] /\ got \in [Node -> SUBSET Leaf]
  /\ jobs \in [Node -> SUBSET Job] /\ write \in [Node -> SUBSET Writing]
  /\ due \in [Node -> SUBSET Holding]

\* A node writes one file at a time, and reconciles its first folder with a
\* further one; what it owes has a file where it was read, and what it read
\* the first folder to hold is there.
Busy(n) ==
  /\ \A v, w \in write[n] : v = w
  /\ doing[n] \in {"ids", "copy"} =>
       /\ other[n] \in 2..Len(Carriers[n])
       /\ \A d \in due[n] : d.at \in {First(n), Second(n)}
  /\ doing[n] \in {"nothing", "send"} => other[n] = 1
  /\ listed[n] \subseteq Listed(First(n))
  /\ \A d \in due[n] : d.leaf \in Listed(d.at)

\* A leaf owed is on either side, or a transfer or a put will bring it there.
Brought(n, d, f) ==
  \/ d.leaf \in Listed(f)
  \/ [from |-> d.at, to |-> f, leaf |-> d.leaf] \in jobs[n]
  \/ \E w \in write[n] : w.to = f /\ w.leaf = d.leaf

Reconciling(n) ==
  /\ doing[n] = "ids" => \A d \in due[n] : d.at = First(n) => d.leaf \in listed[n]
  /\ doing[n] = "copy" =>
       \A d \in due[n] : Brought(n, d, First(n)) /\ Brought(n, d, Second(n))

\* A leaf owed is on a folder still to be polled, or merged.
Receiving(n) ==
  doing[n] = "receive" =>
    \A d \in due[n] : \E k \in 1..Len(Carriers[n]) :
      Carriers[n][k] = d.at /\ (k < other[n] => d.leaf \in got[n])

NodeOk(n) == Busy(n) /\ Reconciling(n) /\ Receiving(n)

IInv == PlaneTypes /\ \A n \in Node : NodeOk(n)

-----------------------------------------------------------------------------
LEMMA Folders ==
  ASSUME NEW n \in Node
  PROVE  /\ Carriers[n] \in Seq(Folder) /\ Len(Carriers[n]) \in Nat \ {0}
         /\ First(n) \in Folder /\ \A k \in 1..Len(Carriers[n]) : Carriers[n][k] \in Folder
<1>1. Carriers[n] \in Seq(Folder) /\ Carriers[n] # <<>>
  BY PlaneAssumption
<1>2. QED BY <1>1 DEF First

LEMMA InitHolds == Init => IInv
<1> SUFFICES ASSUME Init PROVE IInv
  OBVIOUS
<1>1. PlaneTypes
  BY DEF Init, PlaneTypes
<1>2. ASSUME NEW n \in Node PROVE NodeOk(n)
  BY DEF Init, NodeOk, Busy, Reconciling, Receiving
<1>3. QED BY <1>1, <1>2 DEF IInv

\* Whatever happens, a file there stays there, whole or torn.
Grow == \A f \in Folder : Listed(f) \subseteq Listed(f)'

LEMMA FilesStay ==
  ASSUME PlaneTypes, Next
  PROVE  Grow
<1>1. CASE file' = file
  BY <1>1 DEF Grow, Listed
<1>2. CASE \E n \in Node : OpenFile(n) \/ FillFile(n)
  <2>1. PICK g \in Folder, l \in Leaf, v \in {"torn", "whole"} :
               file' = [file EXCEPT ![g][l] = v]
    <3>1. PICK n \in Node : OpenFile(n) \/ FillFile(n)
      BY <1>2
    <3>2. PICK w \in write[n] : \E v \in {"torn", "whole"} : file' = [file EXCEPT ![w.to][w.leaf] = v]
      BY <3>1 DEF OpenFile, FillFile
    <3>3. w.to \in Folder /\ w.leaf \in Leaf
      BY DEF PlaneTypes, Writing
    <3>4. QED BY <3>2, <3>3
  <2>2. QED BY <2>1 DEF Grow, Listed, PlaneTypes
<1>3. QED
  BY <1>1, <1>2 DEF Next, Working, Sent, ListSecond, Transfer, NextPair, EndReconcile,
     PollFolder, EndReceive, BeginReconcile, BeginReceive, ListFirst, Crash, Send

\* A node stays in order whose own variables stay as they are, but for a put
\* that goes on or leaves a file behind.
LEMMA Bystander ==
  ASSUME PlaneTypes, Grow, NEW m \in Node, NodeOk(m),
         doing'[m] = doing[m], other'[m] = other[m], listed'[m] = listed[m],
         jobs'[m] = jobs[m], due'[m] = due[m], got'[m] = got[m],
         \A v, w \in write'[m] : v = w,
         \A w \in write[m] : \/ w.leaf \in Listed(w.to)'
                             \/ \E v \in write'[m] : v.to = w.to /\ v.leaf = w.leaf
  PROVE  NodeOk(m)'
<1>1. /\ First(m) \in Folder /\ First(m)' = First(m) /\ Second(m)' = Second(m)
      /\ other[m] \in 1..Len(Carriers[m]) => Second(m) \in Folder
      /\ \A d \in due[m] : d.at \in Folder
  BY Folders DEF First, Second, PlaneTypes, Holding
<1>2. /\ Listed(First(m)) \subseteq Listed(First(m))'
      /\ \A d \in due[m] : Listed(d.at) \subseteq Listed(d.at)'
  BY <1>1 DEF Grow
<1>3. Busy(m)'
  BY <1>1, <1>2 DEF NodeOk, Busy
<1>4. Reconciling(m)'
  <2>1. ASSUME doing[m] = "ids" PROVE \A d \in due[m] : d.at = First(m) => d.leaf \in listed[m]
    BY <2>1 DEF NodeOk, Reconciling
  <2>2. ASSUME doing[m] = "copy", NEW d \in due[m], NEW f \in Folder, Brought(m, d, f)
        PROVE  Brought(m, d, f)'
    BY <2>2 DEF Brought, Grow
  <2>3. doing[m] = "copy" => Second(m) \in Folder
    BY <1>1 DEF NodeOk, Busy
  <2>4. QED BY <1>1, <2>1, <2>2, <2>3 DEF NodeOk, Reconciling
<1>5. Receiving(m)'
  BY DEF NodeOk, Receiving
<1>6. QED BY <1>3, <1>4, <1>5 DEF NodeOk

\* The other nodes, in a step of n's.
Only(n) ==
  \A m \in Node \ {n} :
    /\ doing'[m] = doing[m] /\ other'[m] = other[m] /\ listed'[m] = listed[m]
    /\ jobs'[m] = jobs[m] /\ write'[m] = write[m] /\ due'[m] = due[m] /\ got'[m] = got[m]

LEMMA OneNode ==
  ASSUME IInv, Grow, NEW n \in Node, PlaneTypes', Only(n), NodeOk(n)'
  PROVE  IInv'
<1>1. ASSUME NEW m \in Node PROVE NodeOk(m)'
  <2>1. CASE m = n
    BY <2>1
  <2>2. CASE m # n
    <3>1. NodeOk(m) /\ m \in Node \ {n} /\ PlaneTypes
      BY <2>2 DEF IInv
    <3>2. \A v, w \in write[m] : v = w
      BY <3>1 DEF NodeOk, Busy
    <3>3. QED BY <3>1, <3>2, Bystander DEF Only
  <2>3. QED BY <2>1, <2>2
<1>2. QED BY <1>1 DEF IInv

-----------------------------------------------------------------------------
(* The steps.                                                              *)

\* What a put leaves behind.
LEMMA PutFacts ==
  ASSUME PlaneTypes, NEW n \in Node, NEW f \in Folder, NEW l \in Leaf, Put(n, f, l)
  PROVE  /\ write' \in [Node -> SUBSET Writing]
         /\ \A m \in Node \ {n} : write'[m] = write[m]
         /\ \A v, w \in write'[n] : v = w
         /\ l \in Listed(f) \/ \E w \in write'[n] : w.to = f /\ w.leaf = l
<1>1. [to |-> f, leaf |-> l, open |-> FALSE] \in Writing
  BY DEF Writing
<1>2. PICK w \in Writing : w = [to |-> f, leaf |-> l, open |-> FALSE] /\ w.to = f /\ w.leaf = l
  BY <1>1
<1>3. write' = [write EXCEPT ![n] = IF l \in Listed(f) THEN {} ELSE {w}]
  BY <1>2 DEF Put
<1>4. QED BY <1>2, <1>3 DEF PlaneTypes

LEMMA OpenKeeps ==
  ASSUME IInv, Grow, NEW n \in Node, OpenFile(n)
  PROVE  IInv'
<1>1. PICK w \in write[n] :
        /\ file' = [file EXCEPT ![w.to][w.leaf] = "torn"]
        /\ write' = [write EXCEPT ![n] = {[w EXCEPT !.open = TRUE]}]
        /\ UNCHANGED <<doing, other, listed, jobs, due, got>>
  BY DEF OpenFile
<1>2. w \in Writing /\ write[n] = {w} /\ PlaneTypes
  BY DEF IInv, PlaneTypes, NodeOk, Busy
<1>3. [w EXCEPT !.open = TRUE] \in Writing
  BY <1>2 DEF Writing
<1>4. PICK v \in Writing : v = [w EXCEPT !.open = TRUE] /\ v.to = w.to /\ v.leaf = w.leaf
  BY <1>2, <1>3 DEF Writing
<1>5. write' = [write EXCEPT ![n] = {v}]
  BY <1>1, <1>4
<1>6. PlaneTypes'
  BY <1>1, <1>2, <1>5 DEF PlaneTypes, Writing
<1>7. Only(n) /\ write'[n] = {v}
  BY <1>1, <1>2, <1>5 DEF Only, PlaneTypes
<1>8. NodeOk(n)'
  BY <1>1, <1>2, <1>4, <1>7, Bystander DEF IInv
<1>9. QED BY <1>6, <1>7, <1>8, OneNode

LEMMA FillKeeps ==
  ASSUME IInv, Grow, NEW n \in Node, FillFile(n)
  PROVE  IInv'
<1>1. PICK w \in write[n] :
        /\ file' = [file EXCEPT ![w.to][w.leaf] = "whole"]
        /\ write' = [write EXCEPT ![n] = {}]
        /\ UNCHANGED <<doing, other, listed, jobs, due, got>>
  BY DEF FillFile
<1>2. w \in Writing /\ write[n] = {w} /\ PlaneTypes
  BY DEF IInv, PlaneTypes, NodeOk, Busy
<1>3. PlaneTypes'
  BY <1>1, <1>2 DEF PlaneTypes, Writing
<1>4. Only(n) /\ write'[n] = {}
  BY <1>1, <1>2 DEF Only, PlaneTypes
<1>5. w.leaf \in Listed(w.to)'
  BY <1>1, <1>2 DEF PlaneTypes, Writing, Listed
<1>6. NodeOk(n)'
  BY <1>1, <1>2, <1>4, <1>5, Bystander DEF IInv
<1>7. QED BY <1>3, <1>4, <1>6, OneNode

\* A node that owes nothing afterwards, and writes at most one file.
LEMMA OwesNothing ==
  ASSUME IInv, Grow, NEW n \in Node, PlaneTypes', Only(n), due'[n] = {},
         doing'[n] = "nothing", other'[n] = 1, listed'[n] \subseteq Listed(First(n))',
         \A v, w \in write'[n] : v = w
  PROVE  IInv'
<1>1. NodeOk(n)'
  BY DEF NodeOk, Busy, Reconciling, Receiving
<1>2. QED BY <1>1, OneNode

LEMMA SendKeeps ==
  ASSUME IInv, Grow, NEW n \in Node, NEW l \in Leaf, Send(n, l)
  PROVE  IInv'
<1>1. /\ Put(n, First(n), l) /\ doing' = [doing EXCEPT ![n] = "send"]
      /\ UNCHANGED <<file, other, listed, jobs, due, got>> /\ doing[n] = "nothing"
  BY DEF Send
<1>2. /\ write' \in [Node -> SUBSET Writing]
      /\ \A m \in Node \ {n} : write'[m] = write[m]
      /\ \A v, w \in write'[n] : v = w
  BY <1>1, Folders, PutFacts DEF IInv
<1>3. PlaneTypes' /\ Only(n)
  BY <1>1, <1>2 DEF IInv, PlaneTypes, Only
<1>4. NodeOk(n)'
  BY <1>1, <1>2, <1>3 DEF IInv, PlaneTypes, NodeOk, Busy, Reconciling, Receiving, Listed, First
<1>5. QED BY <1>3, <1>4, OneNode

LEMMA SentKeeps ==
  ASSUME IInv, Grow, NEW n \in Node, Sent(n)
  PROVE  IInv'
<1>1. PlaneTypes' /\ Only(n)
  BY DEF Sent, IInv, PlaneTypes, Only
<1>2. NodeOk(n)'
  BY DEF Sent, IInv, PlaneTypes, NodeOk, Busy, Reconciling, Receiving, Listed, First
<1>3. QED BY <1>1, <1>2, OneNode

LEMMA HoldingsFacts ==
  ASSUME NEW F, F \subseteq Folder
  PROVE  /\ Holdings(F) \in SUBSET Holding
         /\ \A d \in Holdings(F) : d.at \in F /\ d.leaf \in Whole(d.at)
BY DEF Holdings, Holding

\* reconcile is entered for a further carrier.
LEMMA ListFirstKeeps ==
  ASSUME IInv, Grow, NEW n \in Node, NEW k \in Nat, ListFirst(n, k)
  PROVE  IInv'
<1>1. /\ First(n) \in Folder /\ Carriers[n][k] \in Folder /\ k \in 2..Len(Carriers[n])
      /\ PlaneTypes /\ NodeOk(n)
  BY Folders DEF ListFirst, IInv
<1>2. PICK h \in SUBSET Holding :
        /\ h = Holdings({First(n), Carriers[n][k]})
        /\ \A d \in h : d.at \in {First(n), Carriers[n][k]} /\ d.leaf \in Whole(d.at)
  BY <1>1, HoldingsFacts
<1>3. /\ doing' = [doing EXCEPT ![n] = "ids"] /\ other' = [other EXCEPT ![n] = k]
      /\ listed' = [listed EXCEPT ![n] = Listed(First(n))]
      /\ due' = [due EXCEPT ![n] = h] /\ UNCHANGED <<file, jobs, write, got>>
  BY <1>2 DEF ListFirst
<1>4. \A f \in Folder : Whole(f) \subseteq Listed(f) /\ Listed(f) \subseteq Leaf
  BY DEF Whole, Listed
<1>5. PlaneTypes' /\ Only(n)
  BY <1>1, <1>3, <1>4 DEF PlaneTypes, Only
<1>6. /\ doing'[n] = "ids" /\ other'[n] = k /\ listed'[n] = Listed(First(n)) /\ due'[n] = h
      /\ First(n)' = First(n) /\ Second(n)' = Carriers[n][k]
      /\ write'[n] = write[n] /\ \A f \in Folder : Listed(f)' = Listed(f)
  BY <1>1, <1>3 DEF PlaneTypes, First, Second, Listed
<1>7. \A d \in h : d.at \in Folder
  BY DEF Holding
<1>8. Busy(n)'
  BY <1>1, <1>2, <1>4, <1>6, <1>7 DEF NodeOk, Busy
<1>9. Reconciling(n)' /\ Receiving(n)'
  BY <1>1, <1>2, <1>4, <1>6 DEF Reconciling, Receiving
<1>10. QED BY <1>5, <1>8, <1>9, OneNode DEF NodeOk

\* What is missing on either side becomes a transfer.
LEMMA ListSecondKeeps ==
  ASSUME IInv, Grow, NEW n \in Node, ListSecond(n)
  PROVE  IInv'
<1>1. /\ First(n) \in Folder /\ Second(n) \in Folder /\ PlaneTypes /\ NodeOk(n)
      /\ doing[n] = "ids"
  BY Folders DEF ListSecond, IInv, Second, NodeOk, Busy
<1> DEFINE J == {[from |-> First(n), to |-> Second(n), leaf |-> l] :
                   l \in listed[n] \ Listed(Second(n))} \cup
                {[from |-> Second(n), to |-> First(n), leaf |-> l] :
                   l \in Listed(Second(n)) \ listed[n]}
<1>2. /\ doing' = [doing EXCEPT ![n] = "copy"] /\ jobs' = [jobs EXCEPT ![n] = J]
      /\ listed' = [listed EXCEPT ![n] = {}]
      /\ UNCHANGED <<file, other, write, due, got>>
  BY DEF ListSecond
<1>3. J \in SUBSET Job
  BY <1>1 DEF Job, PlaneTypes, Listed
<1>4. \A d \in due[n] : \A f \in {First(n), Second(n)} :
        d.leaf \in Listed(f) \/ [from |-> d.at, to |-> f, leaf |-> d.leaf] \in J
  <2> SUFFICES ASSUME NEW d \in due[n], NEW f \in {First(n), Second(n)}, d.leaf \notin Listed(f)
      PROVE  [from |-> d.at, to |-> f, leaf |-> d.leaf] \in J
    OBVIOUS
  <2>1. /\ d.at \in {First(n), Second(n)} /\ d.leaf \in Listed(d.at)
        /\ d.at = First(n) => d.leaf \in listed[n]
        /\ listed[n] \subseteq Listed(First(n))
    BY <1>1 DEF NodeOk, Busy, Reconciling
  <2>2. CASE d.at = First(n) /\ f = Second(n)
    BY <2>1, <2>2
  <2>3. CASE d.at = Second(n) /\ f = First(n)
    BY <2>1, <2>3
  <2>4. QED BY <2>1, <2>2, <2>3
<1> HIDE DEF J
<1>5. PlaneTypes' /\ Only(n)
  BY <1>1, <1>2, <1>3 DEF PlaneTypes, Only
<1>6. /\ doing'[n] = "copy" /\ jobs'[n] = J /\ listed'[n] = {} /\ due'[n] = due[n]
      /\ other'[n] = other[n] /\ write'[n] = write[n]
      /\ First(n)' = First(n) /\ Second(n)' = Second(n) /\ \A f : Listed(f)' = Listed(f)
  BY <1>1, <1>2 DEF PlaneTypes, First, Second, Listed
<1>7. Busy(n)'
  BY <1>1, <1>6 DEF NodeOk, Busy
<1>8. Reconciling(n)' /\ Receiving(n)'
  BY <1>4, <1>6 DEF Reconciling, Receiving, Brought
<1>9. QED BY <1>5, <1>7, <1>8, OneNode DEF NodeOk

\* A leaf still owed after a transfer was not found torn: it is being put.
LEMMA TransferKeeps ==
  ASSUME IInv, Grow, NEW n \in Node, Transfer(n)
  PROVE  IInv'
<1>1. /\ First(n) \in Folder /\ Second(n) \in Folder /\ PlaneTypes /\ NodeOk(n)
      /\ doing[n] = "copy" /\ write[n] = {}
  BY Folders DEF Transfer, IInv, Second, NodeOk, Busy
<1>2. PICK j \in jobs[n] :
        /\ jobs' = [jobs EXCEPT ![n] = @ \ {j}]
        /\ IF j.leaf \in Whole(j.from) THEN Put(n, j.to, j.leaf) ELSE UNCHANGED write
        /\ due' = [due EXCEPT ![n] = @ \ FoundTorn(j.from, {j.leaf})]
        /\ UNCHANGED <<file, doing, other, listed, got>>
  BY DEF Transfer
<1>3. j \in Job /\ j.from \in Folder /\ j.to \in Folder /\ j.leaf \in Leaf
  BY <1>1 DEF PlaneTypes, Job
<1>4. /\ write' \in [Node -> SUBSET Writing]
      /\ \A m \in Node \ {n} : write'[m] = write[m]
      /\ \A v, w \in write'[n] : v = w
      /\ j.leaf \in Whole(j.from) =>
           j.leaf \in Listed(j.to) \/ \E w \in write'[n] : w.to = j.to /\ w.leaf = j.leaf
  <2>1. CASE j.leaf \in Whole(j.from)
    BY <1>1, <1>2, <1>3, <2>1, PutFacts
  <2>2. CASE j.leaf \notin Whole(j.from)
    BY <1>1, <1>2, <2>2 DEF PlaneTypes
  <2>3. QED BY <2>1, <2>2
<1>5. PlaneTypes' /\ Only(n)
  BY <1>1, <1>2, <1>4 DEF PlaneTypes, Only
<1>6. /\ doing'[n] = "copy" /\ jobs'[n] = jobs[n] \ {j} /\ listed'[n] = listed[n]
      /\ due'[n] = due[n] \ FoundTorn(j.from, {j.leaf}) /\ other'[n] = other[n]
      /\ First(n)' = First(n) /\ Second(n)' = Second(n) /\ \A f : Listed(f)' = Listed(f)
  BY <1>1, <1>2 DEF PlaneTypes, First, Second, Listed
<1>7. Busy(n)'
  BY <1>1, <1>4, <1>6 DEF NodeOk, Busy
<1>8. ASSUME NEW d \in due'[n], NEW f \in {First(n), Second(n)}, Brought(n, d, f)
      PROVE  Brought(n, d, f)'
  <2>1. d \in Holding /\ d.at \in Folder /\ d.leaf \in Leaf /\ d.leaf \in Listed(d.at)
    BY <1>1, <1>6 DEF PlaneTypes, Holding, NodeOk, Busy
  <2>2. CASE [from |-> d.at, to |-> f, leaf |-> d.leaf] = j
    <3>1. j.from = d.at /\ j.to = f /\ j.leaf = d.leaf
      BY <2>2
    <3>2. d.leaf \notin Torn(d.at)
      <4>1. d = [at |-> d.at, leaf |-> d.leaf]
        BY <2>1 DEF Holding
      <4>2. QED BY <1>6, <3>1, <4>1 DEF FoundTorn
    <3>3. d.leaf \in Whole(d.at)
      BY <1>1, <2>1, <3>2 DEF Torn, Whole, Listed, PlaneTypes
    <3>4. QED BY <1>4, <1>6, <3>1, <3>3 DEF Brought
  <2>3. CASE [from |-> d.at, to |-> f, leaf |-> d.leaf] # j
    BY <1>1, <1>6, <1>8, <2>3 DEF Brought
  <2>4. QED BY <2>2, <2>3
<1>9. Reconciling(n)' /\ Receiving(n)'
  <2>1. \A d \in due'[n] : Brought(n, d, First(n)) /\ Brought(n, d, Second(n))
    BY <1>1, <1>6 DEF NodeOk, Reconciling
  <2>2. \A d \in due'[n] : Brought(n, d, First(n))' /\ Brought(n, d, Second(n))'
    <3>1. PICK a, b : a = First(n) /\ b = Second(n) /\ First(n)' = a /\ Second(n)' = b
      BY <1>6
    <3>2. \A d \in due'[n] : Brought(n, d, a)' /\ Brought(n, d, b)'
      BY <1>8, <2>1, <3>1
    <3>3. QED BY <3>1, <3>2 DEF Brought
  <2>3. QED BY <1>6, <2>2 DEF Reconciling, Receiving, Brought
<1>10. QED BY <1>5, <1>7, <1>9, OneNode DEF NodeOk

LEMMA EndReconcileKeeps ==
  ASSUME IInv, Grow, NEW n \in Node, EndReconcile(n)
  PROVE  IInv'
<1>1. PlaneTypes' /\ Only(n)
  BY DEF EndReconcile, IInv, PlaneTypes, Only
<1>2. /\ due'[n] = {} /\ doing'[n] = "nothing" /\ other'[n] = 1 /\ listed'[n] = listed[n]
      /\ write'[n] = write[n] /\ Listed(First(n))' = Listed(First(n))
  BY DEF EndReconcile, IInv, PlaneTypes, Listed, First
<1>3. listed[n] \subseteq Listed(First(n)) /\ \A v, w \in write[n] : v = w
  BY DEF IInv, NodeOk, Busy
<1>4. QED BY <1>1, <1>2, <1>3, OwesNothing

-----------------------------------------------------------------------------
LEMMA BeginReceiveKeeps ==
  ASSUME IInv, Grow, NEW n \in Node, BeginReceive(n)
  PROVE  IInv'
<1>1. /\ PlaneTypes /\ NodeOk(n) /\ doing[n] = "nothing" /\ other[n] = 1
      /\ {Carriers[n][k] : k \in 1..Len(Carriers[n])} \subseteq Folder
  BY Folders DEF BeginReceive, IInv, NodeOk, Busy
<1>2. PICK h \in SUBSET Holding :
        /\ h = Holdings({Carriers[n][k] : k \in 1..Len(Carriers[n])})
        /\ \A d \in h : /\ \E k \in 1..Len(Carriers[n]) : Carriers[n][k] = d.at
                        /\ d.leaf \in Listed(d.at)
  <2>1. \A f : Whole(f) \subseteq Listed(f)
    BY DEF Whole, Listed
  <2>2. PICK F : F = {Carriers[n][k] : k \in 1..Len(Carriers[n])}
    OBVIOUS
  <2>3. F \subseteq Folder /\ \A f \in F : \E k \in 1..Len(Carriers[n]) : Carriers[n][k] = f
    BY <1>1, <2>2
  <2>4. Holdings(F) \in SUBSET Holding /\ \A d \in Holdings(F) : d.at \in F /\ d.leaf \in Whole(d.at)
    BY <2>3, HoldingsFacts
  <2>5. QED BY <2>1, <2>2, <2>3, <2>4
<1>3. /\ doing' = [doing EXCEPT ![n] = "receive"] /\ due' = [due EXCEPT ![n] = h]
      /\ UNCHANGED <<file, other, listed, jobs, write, got>>
  BY <1>2 DEF BeginReceive
<1>4. PlaneTypes' /\ Only(n)
  BY <1>1, <1>3 DEF PlaneTypes, Only
<1>5. /\ doing'[n] = "receive" /\ listed'[n] = listed[n] /\ due'[n] = h /\ other'[n] = 1
      /\ write'[n] = write[n] /\ First(n)' = First(n) /\ \A f : Listed(f)' = Listed(f)
  BY <1>1, <1>3 DEF PlaneTypes, First, Listed
<1>6. Busy(n)'
  BY <1>1, <1>2, <1>5 DEF NodeOk, Busy
<1>7. Reconciling(n)' /\ Receiving(n)'
  BY <1>2, <1>5 DEF Reconciling, Receiving
<1>8. QED BY <1>4, <1>6, <1>7, OneNode DEF NodeOk

\* A leaf still owed after a poll of its folder was not found torn: it is merged.
LEMMA PollFolderKeeps ==
  ASSUME IInv, Grow, NEW n \in Node, PollFolder(n)
  PROVE  IInv'
<1>1. /\ PlaneTypes /\ NodeOk(n) /\ doing[n] = "receive" /\ other[n] \in Nat
      /\ First(n) \in Folder
  BY Folders DEF PollFolder, IInv, PlaneTypes
<1>2. /\ got' = [got EXCEPT ![n] = @ \cup Whole(Second(n))]
      /\ other' = [other EXCEPT ![n] = @ + 1]
      /\ due' = [due EXCEPT ![n] = @ \ FoundTorn(Second(n), Leaf)]
      /\ UNCHANGED <<file, doing, listed, jobs, write>>
  BY DEF PollFolder
<1>3. Whole(Second(n)) \subseteq Leaf
  BY DEF Whole
<1>4. PlaneTypes' /\ Only(n)
  BY <1>1, <1>2, <1>3 DEF PlaneTypes, Only
<1>5. /\ doing'[n] = "receive" /\ listed'[n] = listed[n] /\ write'[n] = write[n]
      /\ got'[n] = got[n] \cup Whole(Second(n)) /\ other'[n] = other[n] + 1
      /\ due'[n] = due[n] \ FoundTorn(Second(n), Leaf)
      /\ First(n)' = First(n) /\ \A f : Listed(f)' = Listed(f)
  BY <1>1, <1>2 DEF PlaneTypes, First, Listed
<1>6. Busy(n)'
  BY <1>1, <1>5 DEF NodeOk, Busy
<1>7. ASSUME NEW d \in due'[n]
      PROVE  \E k \in 1..Len(Carriers[n]) :
               Carriers[n][k] = d.at /\ (k < other'[n] => d.leaf \in got'[n])
  <2>1. d \in due[n] /\ d \in Holding /\ d.at \in Folder /\ d.leaf \in Leaf
        /\ d.leaf \in Listed(d.at)
    BY <1>1, <1>5 DEF PlaneTypes, Holding, NodeOk, Busy
  <2>2. PICK k \in 1..Len(Carriers[n]) :
               Carriers[n][k] = d.at /\ (k < other[n] => d.leaf \in got[n])
    BY <1>1, <2>1 DEF NodeOk, Receiving
  <2>3. CASE k = other[n]
    <3>1. d.at = Second(n)
      BY <2>2, <2>3 DEF Second
    <3>2. d.leaf \notin Torn(d.at)
      <4>1. d = [at |-> d.at, leaf |-> d.leaf]
        BY <2>1 DEF Holding
      <4>2. QED BY <1>5, <2>1, <3>1, <4>1 DEF FoundTorn
    <3>3. d.leaf \in Whole(d.at)
      BY <1>1, <2>1, <3>2 DEF Torn, Whole, Listed, PlaneTypes
    <3>4. d.leaf \in got'[n]
      BY <1>5, <3>1, <3>3
    <3>5. QED BY <2>2, <3>4
  <2>4. CASE k # other[n]
    <3>1. k < other'[n] => k < other[n]
      BY <1>1, <1>5, <2>4, Folders
    <3>2. QED BY <1>5, <2>2, <3>1
  <2>5. QED BY <2>3, <2>4
<1>8. Reconciling(n)' /\ Receiving(n)'
  BY <1>5, <1>7 DEF Reconciling, Receiving
<1>9. QED BY <1>4, <1>6, <1>8, OneNode DEF NodeOk

LEMMA EndReceiveKeeps ==
  ASSUME IInv, Grow, NEW n \in Node, EndReceive(n)
  PROVE  IInv'
<1>1. PlaneTypes' /\ Only(n)
  BY DEF EndReceive, IInv, PlaneTypes, Only
<1>2. /\ due'[n] = {} /\ doing'[n] = "nothing" /\ other'[n] = 1 /\ listed'[n] = listed[n]
      /\ write'[n] = write[n] /\ Listed(First(n))' = Listed(First(n))
  BY DEF EndReceive, IInv, PlaneTypes, Listed, First
<1>3. listed[n] \subseteq Listed(First(n)) /\ \A v, w \in write[n] : v = w
  BY DEF IInv, NodeOk, Busy
<1>4. QED BY <1>1, <1>2, <1>3, OwesNothing

LEMMA CrashKeeps ==
  ASSUME IInv, Grow, NEW n \in Node, Crash(n)
  PROVE  IInv'
<1>1. PlaneTypes' /\ Only(n)
  BY DEF Crash, IInv, PlaneTypes, Only
<1>2. /\ due'[n] = {} /\ doing'[n] = "nothing" /\ other'[n] = 1
      /\ listed'[n] = {} /\ write'[n] = {}
  BY DEF Crash, IInv, PlaneTypes
<1>3. QED BY <1>1, <1>2, OwesNothing

LEMMA StepKeeps == IInv /\ [Next]_vars => IInv'
<1> SUFFICES ASSUME IInv, [Next]_vars PROVE IInv'
  OBVIOUS
<1>1. CASE UNCHANGED vars
  <2>1. PlaneTypes'
    BY <1>1 DEF IInv, PlaneTypes, vars
  <2>2. \A f \in Folder : Listed(f)' = Listed(f)
    BY <1>1 DEF Listed, vars
  <2>3. ASSUME NEW n \in Node PROVE NodeOk(n)'
    <3>1. NodeOk(n) /\ First(n)' = First(n) /\ Second(n)' = Second(n)
      BY <1>1 DEF IInv, First, Second, vars
    <3>2. Listed(First(n))' = Listed(First(n)) /\ Listed(Second(n))' = Listed(Second(n))
      BY <1>1 DEF Listed, First, Second, vars
    <3>3. Busy(n)'
      BY <1>1, <3>1, <3>2 DEF NodeOk, Busy, Listed, vars
    <3>4. Reconciling(n)'
      BY <1>1, <3>1, <3>2 DEF NodeOk, Reconciling, Brought, vars
    <3>5. Receiving(n)'
      BY <1>1, <3>1 DEF NodeOk, Receiving, vars
    <3>6. QED BY <3>3, <3>4, <3>5 DEF NodeOk
  <2>4. QED BY <2>1, <2>3 DEF IInv
<1>2. CASE Next
  <2>1. Grow
    BY <1>2, FilesStay DEF IInv
  <2>2. PICK n \in Node : \/ Working(n) \/ BeginReconcile(n) \/ BeginReceive(n) \/ Crash(n)
                          \/ \E l \in Leaf : Send(n, l)
    BY <1>2 DEF Next
  <2>3. CASE BeginReconcile(n) \/ NextPair(n)
    <3>1. 2 \in Nat /\ other[n] + 1 \in Nat
      BY DEF IInv, PlaneTypes
    <3>2. QED BY <2>1, <2>3, <3>1, ListFirstKeeps DEF BeginReconcile, NextPair
  <2>4. CASE Working(n) /\ ~NextPair(n)
    BY <2>1, <2>4, OpenKeeps, FillKeeps, SentKeeps, ListSecondKeeps, TransferKeeps,
       EndReconcileKeeps, PollFolderKeeps, EndReceiveKeeps DEF Working
  <2>5. CASE BeginReceive(n) \/ Crash(n) \/ \E l \in Leaf : Send(n, l)
    BY <2>1, <2>5, BeginReceiveKeeps, CrashKeeps, SendKeeps
  <2>6. QED BY <2>2, <2>3, <2>4, <2>5
<1>3. QED BY <1>1, <1>2

\* The invariant that carries the results.
THEOREM PlaneInvariant == Spec => []IInv
BY InitHolds, StepKeeps, PTL DEF Spec

\* carriers.reconcile, however many nodes write its two folders and wherever
\* they crash: when it returns, each leaf it could read when it began has a
\* file on both sides, save those it found torn when it came to copy them.
THEOREM OnlyTornIsMissing == Spec => UnionButTorn
<1>1. ASSUME IInv, NEW n \in Node, Reconciled(n), NEW d \in due[n]
      PROVE  d.leaf \in Listed(First(n)) \cap Listed(Second(n))
  <2>1. doing[n] = "copy" /\ jobs[n] = {} /\ write[n] = {}
    BY <1>1 DEF Reconciled, NextPair, EndReconcile, Copied
  <2>2. Brought(n, d, First(n)) /\ Brought(n, d, Second(n))
    BY <1>1, <2>1 DEF IInv, NodeOk, Reconciling
  <2>3. QED BY <2>1, <2>2 DEF Brought
<1>2. IInv => \A n \in Node : Reconciled(n)
        => \A d \in due[n] : d.leaf \in Listed(First(n)) \cap Listed(Second(n))
  BY <1>1
<1>3. QED BY PlaneInvariant, <1>2, PTL DEF UnionButTorn

\* Plane.receive, under the same conditions: a leaf that could be read on a
\* carrier when receive began is among those it returns, unless that carrier's
\* file of it was torn when it was polled.
THEOREM ReceiveDelivers == Spec => Delivered
<1>1. ASSUME IInv, NEW n \in Node, EndReceive(n), NEW d \in due[n]
      PROVE  d.leaf \in got[n]
  <2>1. doing[n] = "receive" /\ other[n] > Len(Carriers[n]) /\ other[n] \in Nat
    BY <1>1 DEF EndReceive, IInv, PlaneTypes
  <2>2. PICK k \in 1..Len(Carriers[n]) : k < other[n] => d.leaf \in got[n]
    BY <1>1, <2>1 DEF IInv, NodeOk, Receiving
  <2>3. QED BY <2>1, <2>2, Folders
<1>2. IInv => \A n \in Node : EndReceive(n) => \A d \in due[n] : d.leaf \in got[n]
  BY <1>1
<1>3. QED BY PlaneInvariant, <1>2, PTL DEF Delivered
=============================================================================
