----------------------------- MODULE StoreProofs -----------------------------
(***************************************************************************)
(* Proofs about the carrier over a lattice store, for any rows, threads,    *)
(* page size and kind of store: the watermark the threads share never       *)
(* passes a leaf that is not in the index, and a poll without company       *)
(* returns every leaf that was on the plane when it was called.             *)
(***************************************************************************)
EXTENDS StoreCarrier, FiniteSetTheorems, TLAPS

PageRow == [row : Row, seq : Nat]

\* No leaf numbered s or less is missing from the index.
Settled(s) == \A r \in Leaves : disk[r] <= s => r \in index

\* The page in hand has no holes: a leaf numbered below one of its rows is in
\* the index or on the page too, and a number stands for one row.
NoHoles(t) ==
  \A p \in page[t] :
    /\ \A r \in Leaves : disk[r] < p.seq =>
         r \in index \/ \E q \in page[t] : q.row = r /\ q.seq = disk[r]
    /\ \A r \in Leaves : disk[r] = p.seq => r = p.row

StoreTypes ==
  /\ numbered \in BOOLEAN
  /\ disk \in [Row -> Nat] /\ written \in Nat
  /\ \A w \in Writer : putting[w] \subseteq Row
  /\ putting = [w \in Writer |-> putting[w]]
  /\ index \subseteq Row /\ seq \in Nat

PollTypes ==
  /\ pc \in [Poller -> {"idle", "asked", "folding", "marking"}]
  /\ page \in [Poller -> SUBSET PageRow]
  /\ start \in [Poller -> Nat] /\ mark \in [Poller -> Nat]
  /\ owed \in [Poller -> SUBSET Row] /\ alone \subseteq Poller

\* A number is given out once.
Numbers ==
  /\ \A r \in Row : disk[r] <= written
  /\ \A r, q \in Stored : disk[r] = disk[q] => r = q

\* No cursor, page or mark of a poller runs ahead of the store, and a store
\* without numbers moves none of them.
Bounded ==
  /\ seq <= written
  /\ \A t \in Poller : start[t] <= written /\ mark[t] <= written
  /\ \A t \in Poller : \A p \in page[t] : p.seq <= written

Cursors ==
  /\ Settled(seq)
  /\ \A t \in Poller : Settled(start[t]) /\ Settled(mark[t]) /\ NoHoles(t)

\* A poller without company: its cursor is the watermark until the store
\* answers, and behind the watermark once a page is folded.
InStep(t) ==
  /\ pc[t] # "idle" /\ \A u \in Poller \ {t} : pc[u] = "idle"
  /\ numbered =>
       /\ pc[t] = "asked" => start[t] = seq
       /\ pc[t] \in {"folding", "marking"} => \A p \in page[t] : p.seq > start[t]
       /\ pc[t] = "folding" /\ page[t] = {} => seq > start[t]
       /\ pc[t] = "marking" => mark[t] > start[t]

Company ==
  /\ \A t \in Poller : owed[t] \subseteq Leaves
  /\ \A t \in alone : InStep(t)

IInv == StoreTypes /\ PollTypes /\ Numbers /\ Bounded /\ Cursors /\ Company

-----------------------------------------------------------------------------
(* The page the store hands back.                                          *)

\* Ranks follow numbers.
LEMMA RanksFollowNumbers ==
  ASSUME StoreTypes, NEW rows, rows \subseteq Row,
         NEW p \in rows, NEW r \in rows, disk[r] <= disk[p]
  PROVE  /\ Cardinality({q \in rows : disk[q] < disk[r]}) \in Nat
         /\ Cardinality({q \in rows : disk[q] < disk[p]}) \in Nat
         /\ Cardinality({q \in rows : disk[q] < disk[r]})
              <= Cardinality({q \in rows : disk[q] < disk[p]})
<1> DEFINE below(x) == {q \in rows : disk[q] < disk[x]}
<1>1. disk[p] \in Nat /\ disk[r] \in Nat /\ \A q \in rows : disk[q] \in Nat
  BY DEF StoreTypes
<1>2. below(p) \subseteq Row /\ below(r) \subseteq below(p)
  BY <1>1
<1>3. IsFiniteSet(below(p)) /\ IsFiniteSet(below(r))
  BY <1>2, StoreCarrierAssumption, FS_Subset
<1>4. Cardinality(below(p)) \in Nat /\ Cardinality(below(r)) \in Nat
  BY <1>3, FS_CardinalityType
<1>5. Cardinality(below(r)) <= Cardinality(below(p))
  BY <1>2, <1>3, FS_Subset
<1>6. QED BY <1>4, <1>5

\* A page holds stored rows past the cursor under their numbers, and with a
\* row every row past the cursor numbered below it.
LEMMA PageIsPrefix ==
  ASSUME StoreTypes, Numbers, NEW after \in Nat, NEW size \in Nat
  PROVE  /\ PageAfter(after, size) \subseteq PageRow
         /\ \A p \in PageAfter(after, size) :
              /\ p.row \in Stored /\ p.seq <= written
              /\ numbered => p.seq = disk[p.row] /\ p.seq > after
              /\ ~numbered => p.seq = 0
         /\ numbered => \A p \in PageAfter(after, size), r \in Stored :
              after < disk[r] /\ disk[r] <= p.seq =>
                \E q \in PageAfter(after, size) : q.row = r /\ q.seq = disk[r]
<1> DEFINE rows    == {r \in Stored : disk[r] > after \/ ~numbered}
           rank(r) == Cardinality({q \in rows : disk[q] < disk[r]})
           atop    == {q \in rows : rank(q) < size}
           number(r) == IF numbered THEN disk[r] ELSE 0
<1>1. PageAfter(after, size) = {[row |-> r, seq |-> number(r)] : r \in atop}
  BY DEF PageAfter
<1>2. rows \subseteq Stored /\ Stored \subseteq Row
  BY DEF Stored
<1>3. \A r \in Row : number(r) \in Nat /\ number(r) <= written
  BY DEF StoreTypes, Numbers
<1>4. \A r \in Stored : disk[r] \in Nat /\ disk[r] > 0
  BY DEF Stored, StoreTypes
<1>5. \A p \in PageAfter(after, size) :
        \E r \in atop : p = [row |-> r, seq |-> number(r)]
  BY <1>1
<1>6. atop \subseteq rows
  OBVIOUS
<1>7. ASSUME numbered, NEW p \in PageAfter(after, size), NEW r \in Stored,
             after < disk[r], disk[r] <= p.seq
      PROVE  \E q \in PageAfter(after, size) : q.row = r /\ q.seq = disk[r]
  <2>1. PICK x \in atop : p = [row |-> x, seq |-> disk[x]]
    BY <1>5, <1>7
  <2>2. r \in rows /\ x \in rows /\ disk[r] <= disk[x]
    BY <1>4, <1>6, <1>7, <2>1
  <2>3. rank(r) \in Nat /\ rank(x) \in Nat /\ rank(r) <= rank(x)
    <3>1. rows \subseteq Row
      BY <1>2
    <3> HIDE DEF rows
    <3>2. QED BY <2>2, <3>1, RanksFollowNumbers
  <2>4. rank(x) < size
    BY <2>1
  <2>5. r \in atop
    <3> HIDE DEF rows, rank
    <3>1. QED BY <2>2, <2>3, <2>4
  <2>6. [row |-> r, seq |-> disk[r]] \in PageAfter(after, size)
    BY <1>1, <1>7, <2>5
  <2>7. QED BY <2>6
<1>8. PageAfter(after, size) \subseteq PageRow
  <2> SUFFICES ASSUME NEW p \in PageAfter(after, size) PROVE p \in PageRow
    OBVIOUS
  <2>1. PICK x \in atop : p = [row |-> x, seq |-> number(x)]
    BY <1>5
  <2>2. x \in Row
    BY <1>2, <1>6
  <2>3. number(x) \in Nat
    BY <1>3, <2>2
  <2> HIDE DEF number
  <2>4. QED BY <2>1, <2>2, <2>3 DEF PageRow
<1>9. ASSUME NEW p \in PageAfter(after, size)
      PROVE  /\ p.row \in Stored /\ p.seq <= written
             /\ numbered => p.seq = disk[p.row] /\ p.seq > after
             /\ ~numbered => p.seq = 0
  <2>1. PICK x \in atop : p = [row |-> x, seq |-> number(x)]
    BY <1>5
  <2>2. x \in rows /\ p.row = x /\ p.seq = number(x)
    BY <1>6, <2>1
  <2>3. numbered => disk[x] > after
    BY <2>2
  <2>4. QED BY <1>2, <1>3, <2>2, <2>3
<1>10. QED BY <1>7, <1>8, <1>9

\* A page is empty only when nothing is stored past the cursor.
LEMMA EmptyPageIsTheEnd ==
  ASSUME StoreTypes, numbered, NEW after \in Nat, PageAfter(after, 1) = {}
  PROVE  \A r \in Stored : disk[r] <= after
<1> SUFFICES ASSUME NEW r \in Stored, disk[r] > after PROVE FALSE
  BY DEF Stored, StoreTypes
<1> DEFINE rows   == {q \in Stored : disk[q] > after \/ ~numbered}
           seqs   == {disk[q] : q \in rows}
           rank(q) == Cardinality({s \in rows : disk[s] < disk[q]})
<1>1. seqs \subseteq Nat /\ seqs # {}
  BY DEF Stored, StoreTypes
<1>2. PICK m \in seqs : \A k \in seqs : ~ (<<k, m>> \in OpToRel(<, Nat))
  BY <1>1, NatLessThanWellFounded, WFMin
<1>3. \A k \in seqs : ~ (k < m)
  BY <1>1, <1>2 DEF OpToRel
<1>4. PICK x \in rows : disk[x] = m
  BY <1>2
<1>5. {q \in rows : disk[q] < disk[x]} = {}
  BY <1>3, <1>4
<1>6. rank(x) < 1
  BY <1>5, FS_EmptySet
<1>7. [row |-> x, seq |-> IF numbered THEN disk[x] ELSE 0] \in PageAfter(after, 1)
  BY <1>6 DEF PageAfter
<1>8. QED BY <1>7

\* A larger page holds the smaller one.
LEMMA PagesGrow ==
  ASSUME StoreTypes, NEW after \in Nat, NEW size \in Nat \ {0},
         PageAfter(after, 1) # {}
  PROVE  PageAfter(after, size) # {}
<1> DEFINE rows    == {r \in Stored : disk[r] > after \/ ~numbered}
           rank(r) == Cardinality({q \in rows : disk[q] < disk[r]})
<1>1. PICK p \in PageAfter(after, 1) : TRUE
  OBVIOUS
<1>2. PICK x \in rows : /\ p = [row |-> x, seq |-> IF numbered THEN disk[x] ELSE 0]
                        /\ rank(x) < 1
  BY <1>1 DEF PageAfter
<1>3. rank(x) \in Nat
  <2>1. rows \subseteq Row /\ disk[x] <= disk[x]
    BY DEF Stored, StoreTypes
  <2> HIDE DEF rows
  <2>2. QED BY <2>1, RanksFollowNumbers
<1>4. rank(x) < size
  <2> HIDE DEF rank
  <2>1. QED BY <1>2, <1>3
<1>5. p \in PageAfter(after, size)
  BY <1>2, <1>4 DEF PageAfter
<1>6. QED BY <1>5

-----------------------------------------------------------------------------
(* One lemma per action.                                                    *)

LEMMA InitHolds == StoreInit => IInv
<1> SUFFICES ASSUME StoreInit PROVE IInv
  OBVIOUS
<1>1. Stored = {} /\ Leaves = {}
  BY DEF StoreInit, Stored, Leaves
<1>2. StoreTypes
  BY StoreCarrierAssumption DEF StoreInit, StoreTypes
<1>3. PollTypes
  BY DEF StoreInit, PollTypes
<1>4. Numbers /\ Bounded
  BY <1>1 DEF StoreInit, Numbers, Bounded
<1>5. Cursors /\ Company
  BY <1>1 DEF StoreInit, Cursors, Company, Settled, NoHoles
<1>6. QED BY <1>2, <1>3, <1>4, <1>5 DEF IInv

\* A writer that looks changes nothing a poller reads.
LEMMA CheckAbsentKeeps ==
  ASSUME IInv, NEW w \in Writer, NEW r \in Row, CheckAbsent(w, r)
  PROVE  IInv'
<1> USE DEF CheckAbsent, pollVars
<1>1. StoreTypes'
  BY DEF IInv, StoreTypes
<1>2. Stored' = Stored /\ Leaves' = Leaves
  BY DEF Stored, Leaves
<1>3. PollTypes' /\ Numbers' /\ Bounded'
  BY <1>2 DEF IInv, PollTypes, Numbers, Bounded
<1>4. Cursors' /\ Company'
  BY <1>2 DEF IInv, Cursors, Company, Settled, NoHoles, InStep
<1>5. QED BY <1>1, <1>3, <1>4 DEF IInv

\* A write takes a number past every cursor.
LEMMA PutArtifactKeeps ==
  ASSUME IInv, NEW w \in Writer, NEW r \in Row, PutArtifact(w, r)
  PROVE  IInv'
<1> USE DEF PutArtifact, pollVars
<1>0. StoreTypes /\ PollTypes /\ Numbers /\ Bounded /\ Cursors /\ Company
  BY DEF IInv
<1>1. StoreTypes'
  <2>1. disk' \in [Row -> Nat] /\ written' \in Nat
    BY <1>0 DEF StoreTypes
  <2>2. putting' = [x \in Writer |-> putting'[x]] /\ \A x \in Writer : putting'[x] \subseteq Row
    BY <1>0 DEF StoreTypes
  <2>3. QED BY <1>0, <2>1, <2>2 DEF StoreTypes
<1>2. /\ disk'[r] = written + 1 /\ \A q \in Row \ {r} : disk'[q] = disk[q]
      /\ Stored' = Stored \cup {r} /\ Leaves \subseteq Leaves'
      /\ \A q \in Leaves' : q # r => q \in Leaves /\ disk'[q] = disk[q]
  <2>1. disk'[r] = written + 1 /\ \A q \in Row \ {r} : disk'[q] = disk[q]
    BY <1>0 DEF StoreTypes
  <2>2. written + 1 > 0
    BY <1>0 DEF StoreTypes
  <2>3. Stored' = Stored \cup {r}
    BY <2>1, <2>2 DEF Stored
  <2>4. QED BY <2>1, <2>3 DEF Leaves, Stored
<1>3. PollTypes'
  BY <1>0 DEF PollTypes
<1>4. Numbers'
  <2>1. ASSUME NEW q \in Row PROVE disk'[q] <= written'
    BY <1>0, <1>2 DEF StoreTypes, Numbers
  <2>2. ASSUME NEW x \in Stored', NEW y \in Stored', disk'[x] = disk'[y] PROVE x = y
    <3>1. x \in Row /\ y \in Row
      BY DEF Stored
    <3>2. disk[x] <= written /\ disk[y] <= written
      BY <1>0, <3>1 DEF Numbers
    <3>3. disk[x] \in Nat /\ disk[y] \in Nat /\ written \in Nat
      BY <1>0, <3>1 DEF StoreTypes
    <3>4. x # r => x \in Stored /\ disk'[x] = disk[x]
      BY <1>2, <3>1
    <3>5. y # r => y \in Stored /\ disk'[y] = disk[y]
      BY <1>2, <3>1
    <3>6. QED BY <1>0, <1>2, <2>2, <3>2, <3>3, <3>4, <3>5 DEF Numbers
  <2>3. QED BY <2>1, <2>2 DEF Numbers
<1>5. Bounded'
  BY <1>0 DEF Bounded, StoreTypes, PollTypes, PageRow
<1>6. ASSUME NEW s \in Nat, s <= written, Settled(s)
      PROVE  \A q \in Leaves' : disk'[q] <= s => q \in index
  <2>1. written + 1 > s
    BY <1>0, <1>6 DEF StoreTypes
  <2>2. QED BY <1>2, <1>6, <2>1 DEF Settled, StoreTypes
<1>7. Cursors'
  <2>1. Settled(seq)'
    BY <1>0, <1>6 DEF Cursors, Bounded, StoreTypes, Settled
  <2>2. ASSUME NEW t \in Poller PROVE Settled(start[t])' /\ Settled(mark[t])'
    BY <1>0, <1>6 DEF Cursors, Bounded, PollTypes, Settled
  <2>3. ASSUME NEW t \in Poller PROVE NoHoles(t)'
    <3> SUFFICES ASSUME NEW p \in page[t], NEW q \in Leaves'
        PROVE  /\ disk'[q] < p.seq => q \in index \/ \E z \in page[t] : z.row = q /\ z.seq = disk'[q]
               /\ disk'[q] = p.seq => q = p.row
      BY DEF NoHoles
    <3>1. p.seq \in Nat /\ p.seq <= written
      BY <1>0 DEF PollTypes, PageRow, Bounded
    <3>2. CASE q = r
      BY <1>0, <1>2, <3>1, <3>2 DEF StoreTypes
    <3>3. CASE q # r
      <4>1. q \in Leaves /\ disk'[q] = disk[q]
        BY <1>2, <3>3
      <4>2. NoHoles(t)
        BY <1>0 DEF Cursors
      <4>3. QED BY <4>1, <4>2 DEF NoHoles
    <3>4. QED BY <3>2, <3>3
  <2>4. QED BY <2>1, <2>2, <2>3 DEF Cursors
<1>8. Company'
  BY <1>0, <1>2 DEF Company, InStep
<1>9. QED BY <1>1, <1>3, <1>4, <1>5, <1>7, <1>8 DEF IInv

\* What a step of a poller leaves alone.
LEMMA StoreStands ==
  ASSUME IInv, UNCHANGED storeVars, index' \in SUBSET Row, seq' \in Nat
  PROVE  StoreTypes' /\ Numbers' /\ Stored' = Stored /\ Leaves' = Leaves
<1>1. numbered' = numbered /\ disk' = disk /\ written' = written /\ putting' = putting
  BY DEF storeVars
<1>2. StoreTypes'
  BY <1>1 DEF IInv, StoreTypes
<1>3. Stored' = Stored /\ Leaves' = Leaves
  BY <1>1 DEF Stored, Leaves
<1>4. Numbers'
  BY <1>1, <1>3 DEF IInv, Numbers
<1>5. QED BY <1>2, <1>3, <1>4

LEMMA AskKeeps ==
  ASSUME IInv, NEW t \in Poller, Ask(t)
  PROVE  IInv'
<1> USE DEF Ask, Goto
<1>0. StoreTypes /\ PollTypes /\ Numbers /\ Bounded /\ Cursors /\ Company
  BY DEF IInv
<1>1. StoreTypes' /\ Numbers' /\ Stored' = Stored /\ Leaves' = Leaves
  BY <1>0, StoreStands DEF StoreTypes
<1>2. Leaves \subseteq Row
  BY DEF Leaves, Stored
<1>3. PollTypes'
  BY <1>0, <1>2 DEF PollTypes, StoreTypes
<1>4. \A u \in Poller : start'[u] = IF u = t THEN seq ELSE start[u]
  BY <1>0 DEF PollTypes
<1>5. Bounded'
  BY <1>0, <1>4 DEF Bounded, storeVars
<1>6. Cursors'
  BY <1>0, <1>1, <1>4 DEF Cursors, Settled, NoHoles, storeVars
<1>7. Company'
  <2>1. ASSUME NEW u \in Poller PROVE owed'[u] \subseteq Leaves'
    BY <1>0, <1>1 DEF Company, PollTypes
  <2>2. ASSUME NEW u \in alone' PROVE InStep(u)'
    <3>1. u = t /\ \A v \in Poller : pc[v] = "idle"
      BY <2>2
    <3>2. pc'[t] = "asked" /\ \A v \in Poller \ {t} : pc'[v] = "idle"
      BY <1>0, <3>1 DEF PollTypes
    <3>3. start'[t] = seq'
      BY <1>4
    <3>4. QED BY <3>1, <3>2, <3>3 DEF InStep
  <2>3. QED BY <2>1, <2>2 DEF Company
<1>8. QED BY <1>1, <1>3, <1>5, <1>6, <1>7 DEF IInv

\* The rest of a poller's steps: another poller without company keeps its
\* own, and so does this one if what it is owed at its new place holds.
LEMMA CompanyKept ==
  ASSUME IInv, NEW t \in Poller, pc[t] # "idle", UNCHANGED <<storeVars, owed>>,
         alone' \subseteq alone,
         \A u \in Poller \ {t} : pc'[u] = pc[u],
         t \in alone' => InStep(t)'
  PROVE  Company'
<1>1. Leaves' = Leaves
  BY DEF storeVars, Leaves, Stored
<1>2. ASSUME NEW u \in alone' PROVE u = t
  <2>1. u \in alone
    BY <1>2
  <2>2. InStep(u) /\ u \in Poller
    BY <2>1 DEF IInv, Company, PollTypes
  <2>3. QED BY <2>2 DEF InStep
<1>3. QED BY <1>1, <1>2 DEF IInv, Company

LEMMA FetchPageKeeps ==
  ASSUME IInv, NEW t \in Poller, FetchPage(t)
  PROVE  IInv'
<1> USE DEF FetchPage, Goto
<1>0. StoreTypes /\ PollTypes /\ Numbers /\ Bounded /\ Cursors /\ Company
  BY DEF IInv
<1>1. StoreTypes' /\ Numbers' /\ Stored' = Stored /\ Leaves' = Leaves
  BY <1>0, StoreStands DEF StoreTypes
<1>2. PICK size \in 1..PageSize : page' = [page EXCEPT ![t] = PageAfter(start[t], size)]
  OBVIOUS
<1>3. size \in Nat \ {0} /\ start[t] \in Nat
  BY <1>0, StoreCarrierAssumption DEF PollTypes
<1> DEFINE fetched == PageAfter(start[t], size)
<1>4. /\ fetched \subseteq PageRow
      /\ \A p \in fetched :
           /\ p.row \in Stored /\ p.seq <= written
           /\ numbered => p.seq = disk[p.row] /\ p.seq > start[t]
           /\ ~numbered => p.seq = 0
      /\ numbered => \A p \in fetched, r \in Stored :
           start[t] < disk[r] /\ disk[r] <= p.seq =>
             \E q \in fetched : q.row = r /\ q.seq = disk[r]
  BY <1>0, <1>3, PageIsPrefix
<1>5. fetched # {}
  BY <1>0, <1>3, PagesGrow
<1> HIDE DEF fetched
<1>6. /\ \A u \in Poller : page'[u] = IF u = t THEN fetched ELSE page[u]
      /\ \A u \in Poller : start'[u] = IF u = t THEN seq ELSE start[u]
      /\ \A u \in Poller : pc'[u] = IF u = t THEN "folding" ELSE pc[u]
  BY <1>0, <1>2 DEF PollTypes, fetched
<1>7. PollTypes'
  <2>1. page' \in [Poller -> SUBSET PageRow]
    BY <1>0, <1>2, <1>4 DEF PollTypes, fetched
  <2>2. QED BY <1>0, <2>1 DEF PollTypes, StoreTypes
<1>8. Bounded'
  BY <1>0, <1>4, <1>6 DEF Bounded, storeVars
<1>9. Cursors'
  <2>1. Settled(seq)'
    BY <1>0, <1>1 DEF Cursors, Settled, storeVars
  <2>2. ASSUME NEW u \in Poller PROVE Settled(start[u])' /\ Settled(mark[u])'
    BY <1>0, <1>1, <1>6 DEF Cursors, Settled, storeVars
  <2>3. ASSUME NEW u \in Poller PROVE NoHoles(u)'
    <3>1. CASE u # t
      BY <1>0, <1>1, <1>6, <3>1 DEF Cursors, NoHoles, storeVars
    <3>2. CASE u = t
      <4> SUFFICES ASSUME NEW p \in fetched, NEW r \in Leaves
          PROVE  /\ disk[r] < p.seq => r \in index \/ \E q \in fetched : q.row = r /\ q.seq = disk[r]
                 /\ disk[r] = p.seq => r = p.row
        BY <1>1, <1>6, <3>2 DEF NoHoles, storeVars
      <4>1. r \in Stored /\ disk[r] \in Nat /\ disk[r] > 0 /\ p.seq \in Nat
        BY <1>0, <1>4 DEF Leaves, Stored, StoreTypes, PageRow
      <4>2. numbered /\ disk[r] <= start[t] => r \in index
        BY <1>0 DEF Cursors, Settled
      <4>3. numbered /\ disk[r] > start[t] /\ disk[r] <= p.seq =>
              \E q \in fetched : q.row = r /\ q.seq = disk[r]
        BY <1>3, <1>4, <4>1
      <4>4. disk[r] = p.seq => r = p.row
        BY <1>0, <1>4, <4>1 DEF Numbers
      <4>5. QED BY <1>3, <1>4, <4>1, <4>2, <4>3, <4>4
    <3>3. QED BY <3>1, <3>2
  <2>4. QED BY <2>1, <2>2, <2>3 DEF Cursors
<1>10. Company'
  <2>1. t \in alone' => InStep(t)'
    <3> SUFFICES ASSUME t \in alone PROVE InStep(t)'
      OBVIOUS
    <3>1. InStep(t)
      BY <1>0 DEF Company
    <3>2. numbered => start[t] = seq
      BY <3>1 DEF InStep
    <3>3. pc'[t] = "folding" /\ page'[t] = fetched /\ start'[t] = seq
      BY <1>6
    <3>4. numbered' = numbered /\ seq' = seq
      BY DEF storeVars
    <3>5. numbered => \A p \in page'[t] : p.seq > start'[t]
      BY <1>4, <3>2, <3>3
    <3>6. \A u \in Poller \ {t} : pc'[u] = "idle"
      BY <1>6, <3>1 DEF InStep
    <3>7. QED BY <1>5, <3>3, <3>4, <3>5, <3>6 DEF InStep
  <2>2. QED BY <1>6, <2>1, CompanyKept
<1>11. QED BY <1>1, <1>7, <1>8, <1>9, <1>10 DEF IInv

LEMMA ReturnKeeps ==
  ASSUME IInv, NEW t \in Poller, pc[t] # "idle", Return(t)
  PROVE  IInv'
<1> USE DEF Return
<1>0. StoreTypes /\ PollTypes /\ Numbers /\ Bounded /\ Cursors /\ Company
  BY DEF IInv
<1>1. StoreTypes' /\ Numbers' /\ Stored' = Stored /\ Leaves' = Leaves
  BY <1>0, StoreStands DEF StoreTypes
<1>2. PollTypes'
  BY <1>0 DEF PollTypes
<1>3. \A u \in Poller : start'[u] = IF u = t THEN 0 ELSE start[u]
  BY <1>0 DEF PollTypes
<1>4. Bounded'
  BY <1>0, <1>3 DEF Bounded, StoreTypes, storeVars
<1>5. \A r \in Leaves : ~(disk[r] <= 0)
  BY <1>0 DEF Leaves, Stored, StoreTypes
<1>6. Cursors'
  BY <1>0, <1>1, <1>3, <1>5 DEF Cursors, Settled, NoHoles, storeVars
<1>7. Company'
  <2>1. ASSUME NEW u \in Poller PROVE owed'[u] \subseteq Leaves'
    BY <1>0, <1>1 DEF Company, PollTypes
  <2>2. alone' = {}
    <3>1. ASSUME NEW u \in alone, u # t PROVE FALSE
      BY <1>0, <3>1 DEF Company, InStep, PollTypes
    <3>2. QED BY <3>1
  <2>3. QED BY <2>1, <2>2 DEF Company
<1>8. QED BY <1>1, <1>2, <1>4, <1>6, <1>7 DEF IInv

LEMMA FoldRowKeeps ==
  ASSUME IInv, NEW t \in Poller, FoldRow(t)
  PROVE  IInv'
<1> USE DEF Goto
<1>0. StoreTypes /\ PollTypes /\ Numbers /\ Bounded /\ Cursors /\ Company
  BY DEF IInv
<1>1. PICK p \in page[t] :
        /\ \A q \in page[t] : p.seq <= q.seq
        /\ Goto(t, "folding", "marking")
        /\ page' = [page EXCEPT ![t] = @ \ {p}]
        /\ index' = IF p.row \in Junk THEN index ELSE index \cup {p.row}
        /\ mark' = [mark EXCEPT ![t] = IF p.seq > seq THEN p.seq ELSE seq]
        /\ UNCHANGED <<storeVars, seq, start, owed, alone, restarts>>
  BY DEF FoldRow
<1>2. p.row \in Row /\ p.seq \in Nat /\ p.seq <= written
  BY <1>0 DEF PollTypes, PageRow, Bounded
<1>3. index \subseteq index' /\ index' \in SUBSET Row /\ seq' \in Nat
  BY <1>0, <1>1, <1>2 DEF StoreTypes
<1>4. StoreTypes' /\ Numbers' /\ Stored' = Stored /\ Leaves' = Leaves
  BY <1>1, <1>3, StoreStands
<1>5. /\ \A u \in Poller : page'[u] = IF u = t THEN page[t] \ {p} ELSE page[u]
      /\ \A u \in Poller : mark'[u] = IF u = t THEN IF p.seq > seq THEN p.seq ELSE seq ELSE mark[u]
      /\ \A u \in Poller : pc'[u] = IF u = t THEN "marking" ELSE pc[u]
  BY <1>0, <1>1 DEF PollTypes
<1>6. PollTypes'
  BY <1>0, <1>1, <1>2 DEF PollTypes, StoreTypes
<1>7. Bounded'
  BY <1>0, <1>1, <1>2, <1>5 DEF Bounded, storeVars
<1>8. NoHoles(t)
  BY <1>0 DEF Cursors
<1>9. \A r \in Leaves : disk[r] <= p.seq => r \in index'
  <2> SUFFICES ASSUME NEW r \in Leaves, disk[r] <= p.seq, r \notin index PROVE r \in index'
    BY <1>3
  <2>1. disk[r] \in Nat /\ r \notin Junk
    BY <1>0 DEF Leaves, Stored, StoreTypes
  <2>2. CASE disk[r] = p.seq
    BY <1>1, <1>8, <2>1, <2>2 DEF NoHoles
  <2>3. CASE disk[r] # p.seq
    <3>1. PICK q \in page[t] : q.row = r /\ q.seq = disk[r]
      BY <1>2, <1>8, <2>1, <2>3 DEF NoHoles
    <3>2. p.seq <= q.seq
      BY <1>1
    <3>3. QED BY <1>2, <2>1, <2>3, <3>1, <3>2
  <2>4. QED BY <2>2, <2>3
<1>10. Cursors'
  <2>1. Settled(seq)'
    BY <1>0, <1>1, <1>3, <1>4 DEF Cursors, Settled, storeVars
  <2>2. ASSUME NEW u \in Poller PROVE Settled(start[u])'
    BY <1>0, <1>1, <1>3, <1>4 DEF Cursors, Settled, storeVars
  <2>3. ASSUME NEW u \in Poller PROVE Settled(mark[u])'
    <3>1. CASE u # t
      BY <1>0, <1>1, <1>3, <1>4, <1>5, <3>1 DEF Cursors, Settled, storeVars
    <3>2. CASE u = t
      <4>1. mark'[t] = p.seq \/ mark'[t] = seq
        BY <1>5
      <4>2. QED BY <1>0, <1>1, <1>3, <1>4, <1>9, <3>2, <4>1 DEF Cursors, Settled, storeVars
    <3>3. QED BY <3>1, <3>2
  <2>4. ASSUME NEW u \in Poller PROVE NoHoles(u)'
    <3>1. CASE u # t
      BY <1>0, <1>1, <1>3, <1>4, <1>5, <3>1 DEF Cursors, NoHoles, storeVars
    <3>2. CASE u = t
      <4> SUFFICES ASSUME NEW x \in page[t] \ {p}, NEW r \in Leaves
          PROVE  /\ disk[r] < x.seq => r \in index' \/ \E q \in page[t] \ {p} : q.row = r /\ q.seq = disk[r]
                 /\ disk[r] = x.seq => r = x.row
        BY <1>1, <1>4, <1>5, <3>2 DEF NoHoles, storeVars
      <4>1. r \notin Junk
        BY DEF Leaves
      <4>2. QED BY <1>1, <1>3, <1>8, <4>1 DEF NoHoles
    <3>3. QED BY <3>1, <3>2
  <2>5. QED BY <2>1, <2>2, <2>3, <2>4 DEF Cursors
<1>11. Company'
  <2>1. t \in alone' => InStep(t)'
    <3> SUFFICES ASSUME t \in alone PROVE InStep(t)'
      BY <1>1
    <3>1. InStep(t)
      BY <1>0 DEF Company
    <3>2. numbered' = numbered /\ seq' = seq /\ start' = start
      BY <1>1 DEF storeVars
    <3>3. numbered => p.seq > start[t] /\ \A q \in page'[t] : q.seq > start[t]
      BY <1>1, <1>5, <3>1 DEF InStep
    <3>4. mark'[t] >= p.seq
      BY <1>0, <1>2, <1>5 DEF StoreTypes
    <3>5. mark'[t] \in Nat /\ start[t] \in Nat
      BY <1>0, <1>6 DEF PollTypes
    <3>6. numbered => mark'[t] > start[t]
      BY <1>2, <3>3, <3>4, <3>5
    <3>7. pc'[t] = "marking" /\ \A u \in Poller \ {t} : pc'[u] = "idle"
      BY <1>5, <3>1 DEF InStep
    <3>8. QED BY <3>2, <3>3, <3>6, <3>7 DEF InStep
  <2>2. QED BY <1>1, <1>5, <2>1, CompanyKept
<1>12. QED BY <1>4, <1>6, <1>7, <1>10, <1>11 DEF IInv

LEMMA AdvanceSeqKeeps ==
  ASSUME IInv, NEW t \in Poller, AdvanceSeq(t)
  PROVE  IInv'
<1> USE DEF AdvanceSeq, Goto
<1>0. StoreTypes /\ PollTypes /\ Numbers /\ Bounded /\ Cursors /\ Company
  BY DEF IInv
<1>1. seq' \in Nat /\ seq' <= written
  BY <1>0 DEF PollTypes, Bounded
<1>2. StoreTypes' /\ Numbers' /\ Stored' = Stored /\ Leaves' = Leaves
  BY <1>0, <1>1, StoreStands DEF StoreTypes
<1>3. /\ \A u \in Poller : mark'[u] = IF u = t THEN 0 ELSE mark[u]
      /\ \A u \in Poller : pc'[u] = IF u = t THEN "folding" ELSE pc[u]
  BY <1>0 DEF PollTypes
<1>4. PollTypes'
  BY <1>0 DEF PollTypes
<1>5. Bounded'
  BY <1>0, <1>1, <1>3 DEF Bounded, StoreTypes, storeVars
<1>6. \A r \in Leaves : ~(disk[r] <= 0)
  BY <1>0 DEF Leaves, Stored, StoreTypes
<1>7. Cursors'
  BY <1>0, <1>2, <1>3, <1>6 DEF Cursors, Settled, NoHoles, storeVars
<1>8. Company'
  <2>1. t \in alone' => InStep(t)'
    <3> SUFFICES ASSUME t \in alone PROVE InStep(t)'
      OBVIOUS
    <3>1. InStep(t)
      BY <1>0 DEF Company
    <3>2. numbered' = numbered /\ page' = page /\ start' = start /\ seq' = mark[t]
      BY DEF storeVars
    <3>3. pc'[t] = "folding" /\ \A u \in Poller \ {t} : pc'[u] = "idle"
      BY <1>3, <3>1 DEF InStep
    <3>4. QED BY <3>1, <3>2, <3>3 DEF InStep
  <2>2. QED BY <1>3, <2>1, CompanyKept
<1>9. QED BY <1>2, <1>4, <1>5, <1>7, <1>8 DEF IInv

LEMMA AskAgainKeeps ==
  ASSUME IInv, NEW t \in Poller, AskAgain(t)
  PROVE  IInv'
<1> USE DEF AskAgain, Goto
<1>0. StoreTypes /\ PollTypes /\ Numbers /\ Bounded /\ Cursors /\ Company
  BY DEF IInv
<1>1. StoreTypes' /\ Numbers' /\ Stored' = Stored /\ Leaves' = Leaves
  BY <1>0, StoreStands DEF StoreTypes
<1>2. PollTypes'
  BY <1>0 DEF PollTypes, StoreTypes
<1>3. /\ \A u \in Poller : start'[u] = IF u = t THEN seq ELSE start[u]
      /\ \A u \in Poller : pc'[u] = IF u = t THEN "asked" ELSE pc[u]
  BY <1>0 DEF PollTypes
<1>4. Bounded'
  BY <1>0, <1>3 DEF Bounded, storeVars
<1>5. Cursors'
  BY <1>0, <1>1, <1>3 DEF Cursors, Settled, NoHoles, storeVars
<1>6. Company'
  <2>1. t \in alone' => InStep(t)'
    <3> SUFFICES ASSUME t \in alone PROVE InStep(t)'
      OBVIOUS
    <3>1. InStep(t)
      BY <1>0 DEF Company
    <3>2. pc'[t] = "asked" /\ \A u \in Poller \ {t} : pc'[u] = "idle"
      BY <1>3, <3>1 DEF InStep
    <3>3. start'[t] = seq'
      BY <1>3
    <3>4. QED BY <3>2, <3>3 DEF InStep
  <2>2. QED BY <1>3, <2>1, CompanyKept
<1>7. QED BY <1>1, <1>2, <1>4, <1>5, <1>6 DEF IInv

LEMMA RestartKeeps ==
  ASSUME IInv, Restart
  PROVE  IInv'
<1> USE DEF Restart
<1>0. StoreTypes /\ PollTypes /\ Numbers /\ Bounded /\ Cursors /\ Company
  BY DEF IInv
<1>1. StoreTypes' /\ Numbers' /\ Stored' = Stored /\ Leaves' = Leaves
  BY <1>0, StoreStands
<1>2. PollTypes'
  BY DEF PollTypes
<1>3. Bounded'
  BY <1>0 DEF Bounded, StoreTypes, storeVars
<1>4. \A r \in Leaves : ~(disk[r] <= 0)
  BY <1>0 DEF Leaves, Stored, StoreTypes
<1>5. Cursors'
  BY <1>1, <1>4 DEF Cursors, Settled, NoHoles, storeVars
<1>6. Company'
  BY DEF Company
<1>7. QED BY <1>1, <1>2, <1>3, <1>5, <1>6 DEF IInv

LEMMA NextKeeps == IInv /\ [StoreNext]_carrierVars => IInv'
<1> SUFFICES ASSUME IInv, [StoreNext]_carrierVars PROVE IInv'
  OBVIOUS
<1>1. ASSUME NEW w \in Writer, PutStep(w) PROVE IInv'
  BY <1>1, CheckAbsentKeeps, PutArtifactKeeps DEF PutStep
<1>2. ASSUME NEW t \in Poller, Ask(t) PROVE IInv'
  BY <1>2, AskKeeps
<1>3. ASSUME NEW t \in Poller, PollStep(t) PROVE IInv'
  <2>1. CASE FetchPage(t)
    BY <2>1, FetchPageKeeps
  <2>2. CASE FetchNothing(t)
    BY <2>2, ReturnKeeps DEF FetchNothing
  <2>3. CASE FoldRow(t)
    BY <2>3, FoldRowKeeps
  <2>4. CASE AdvanceSeq(t)
    BY <2>4, AdvanceSeqKeeps
  <2>5. CASE AskAgain(t)
    BY <2>5, AskAgainKeeps
  <2>6. CASE StandStill(t)
    BY <2>6, ReturnKeeps DEF StandStill
  <2>7. QED BY <1>3, <2>1, <2>2, <2>3, <2>4, <2>5, <2>6 DEF PollStep
<1>4. CASE Restart
  BY <1>4, RestartKeeps
<1>5. CASE UNCHANGED carrierVars
  <2>1. Stored' = Stored /\ Leaves' = Leaves
    BY <1>5 DEF carrierVars, storeVars, Stored, Leaves
  <2>2. QED
    BY <1>5, <2>1 DEF carrierVars, storeVars, pollVars, IInv, StoreTypes, PollTypes, Numbers,
      Bounded, Cursors, Company, Settled, NoHoles, InStep
<1>6. QED BY <1>1, <1>2, <1>3, <1>4, <1>5 DEF StoreNext

\* Every reachable state satisfies the invariant.
THEOREM StoreInvariant == StoreSpec => []IInv
<1>1. StoreInit => IInv
  BY InitHolds
<1>2. IInv /\ [StoreNext]_carrierVars => IInv'
  BY NextKeeps
<1>3. QED BY <1>1, <1>2, PTL DEF StoreSpec

\* The watermark never skips: whichever threads poll, whatever pages the store
\* hands out and wherever a restart falls, no leaf at or below it is missing
\* from the index (StoreCarrier.poll).
THEOREM CursorNeverSkips == StoreSpec => []NeverSkip
<1>1. IInv => NeverSkip
  BY DEF IInv, Cursors, Settled, NeverSkip
<1>2. QED BY <1>1, StoreInvariant, PTL

\* A poll of a store that numbers its rows, with no other thread polling the
\* same carrier meanwhile, returns every leaf that was there when it was
\* called: it ends only on an answer with nothing past the watermark, since
\* each page it folds moves the watermark (StoreCarrier.poll).
THEOREM PollAloneReturnsThePlane == StoreSpec => WholePlaneAlone
<1> DEFINE Whole == \A t \in alone : numbered /\ Returns(t) => owed[t] \subseteq index
<1>1. IInv => Whole
  <2> SUFFICES ASSUME IInv, NEW t \in alone, numbered, Returns(t) PROVE owed[t] \subseteq index
    OBVIOUS
  <2>0. StoreTypes /\ PollTypes /\ Cursors /\ Company /\ t \in Poller /\ InStep(t)
    BY DEF IInv, Company, PollTypes
  <2>1. owed[t] \subseteq Leaves /\ Leaves \subseteq Stored
    BY <2>0 DEF Company, Leaves
  <2>2. CASE FetchNothing(t)
    <3>1. start[t] \in Nat /\ start[t] = seq
      BY <2>0, <2>2 DEF FetchNothing, InStep, PollTypes
    <3>2. \A r \in Stored : disk[r] <= seq
      BY <2>0, <2>2, <3>1, EmptyPageIsTheEnd DEF FetchNothing
    <3>3. QED BY <2>0, <2>1, <3>2 DEF Cursors, Settled
  <2>3. CASE StandStill(t)
    BY <2>0, <2>3 DEF StandStill, InStep, PollTypes, StoreTypes
  <2>4. QED BY <2>2, <2>3 DEF Returns
<1>2. QED BY <1>1, StoreInvariant, PTL DEF WholePlaneAlone
=============================================================================
