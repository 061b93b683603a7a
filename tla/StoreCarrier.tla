----------------------------- MODULE StoreCarrier -----------------------------
(***************************************************************************)
(* The carrier over a lattice store (prism/carriers.py, StoreCarrier).      *)
(*                                                                         *)
(* Writers of any process put leaves into the store, which numbers every   *)
(* write with a fresh _seq.  One carrier object reads it for the threads   *)
(* of its process: poll() asks only for rows past the watermark _seq,      *)
(* folds them into the in-memory index and returns the whole index.        *)
(*                                                                         *)
(* The two threads share _seq and _index without a lock.  A step is what   *)
(* happens between two calls out of the method: the store query, and each  *)
(* row's max(...), after which another thread may run.                     *)
(***************************************************************************)
EXTENDS Naturals, FiniteSets

CONSTANTS
  Row,          \* artifact ids carrying CARRIER_LEAF_CT
  Junk,         \* those rows whose document has no leaf
  Writer,       \* threads, of any process, that put
  Poller,       \* threads that poll this carrier object
  PageSize,     \* rows in one page of page_by_ct, at most
  Stores,       \* whether the store at hand numbers its rows: TRUE, FALSE or both
  MaxSeq,       \* bound: writes to the store
  MaxRestarts   \* bound: restarts of the polling process

ASSUME StoreCarrierAssumption ==
  /\ Junk \subseteq Row /\ IsFiniteSet(Row)
  /\ PageSize \in Nat \ {0} /\ Stores \subseteq BOOLEAN
  /\ MaxSeq \in Nat /\ MaxRestarts \in Nat

VARIABLES
  numbered,  \* FALSE when the store hands back rows without a _seq
  disk,      \* disk[r]: the _seq of row r in the store, 0 when absent
  written,   \* the last _seq the store gave out
  putting,   \* putting[w]: rows writer w found absent and is about to write
  index,     \* StoreCarrier._index: the rows folded in
  seq,       \* StoreCarrier._seq: the watermark
  pc,        \* pc[t]: where poller t is inside poll()
  page,      \* page[t]: rows of the page in hand, with the _seq they came with
  start,     \* start[t]: the watermark t compares against after its page
  mark,      \* mark[t]: the watermark t computed and is about to assign
  owed,       \* history: owed[t], the leaves in the store when t's poll began
  alone,     \* history: the thread that has polled without company so far
  restarts   \* restarts so far

storeVars == <<numbered, disk, written, putting>>
pollVars  == <<pc, page, start, mark, owed, alone>>
carrierVars == <<storeVars, index, seq, pollVars, restarts>>

Stored == {r \in Row : disk[r] > 0}
Leaves == Stored \ Junk

\* page_by_ct(after_seq): the next rows past the cursor, `size` of them if
\* there are; a store without _seq cannot filter and leaves the number out
\* (0 here).
PageAfter(after, size) ==
  LET rows   == {r \in Stored : disk[r] > after \/ ~numbered}
      rank(r) == Cardinality({q \in rows : disk[q] < disk[r]})
  IN {[row |-> r, seq |-> IF numbered THEN disk[r] ELSE 0] :
        r \in {q \in rows : rank(q) < size}}

StoreInit ==
  /\ numbered \in Stores
  /\ disk = [r \in Row |-> 0] /\ written = 0
  /\ putting = [w \in Writer |-> {}]
  /\ index = {} /\ seq = 0
  /\ pc = [t \in Poller |-> "idle"]
  /\ page = [t \in Poller |-> {}]
  /\ start = [t \in Poller |-> 0] /\ mark = [t \in Poller |-> 0]
  /\ owed = [t \in Poller |-> {}] /\ alone = {}
  /\ restarts = 0

-----------------------------------------------------------------------------
(* put(): look, then write.  Junk rows are other writers' documents.       *)

CheckAbsent(w, r) ==
  /\ putting[w] = {} /\ disk[r] = 0
  /\ putting' = [putting EXCEPT ![w] = {r}]
  /\ UNCHANGED <<numbered, disk, written, index, seq, pollVars, restarts>>

\* put_artifact is an upsert: a row written twice moves to the newer number.
PutArtifact(w, r) ==
  /\ r \in putting[w] /\ written < MaxSeq
  /\ written' = written + 1
  /\ disk' = [disk EXCEPT ![r] = written']
  /\ putting' = [putting EXCEPT ![w] = {}]
  /\ UNCHANGED <<numbered, index, seq, pollVars, restarts>>

-----------------------------------------------------------------------------
(* poll().                                                                 *)

Goto(t, from, to) == pc[t] = from /\ pc' = [pc EXCEPT ![t] = to]

\* poll() is called, or its loop comes round: the cursor is read.  start[t]
\* holds it until the page is there.
Ask(t) ==
  /\ Goto(t, "idle", "asked")
  /\ start' = [start EXCEPT ![t] = seq]
  /\ owed' = [owed EXCEPT ![t] = Leaves]
  /\ alone' = IF \A u \in Poller : pc[u] = "idle" THEN {t} ELSE {}
  /\ UNCHANGED <<storeVars, index, seq, page, mark, restarts>>

\* The store answers with rows: the watermark is read again, as `start`.
FetchPage(t) ==
  /\ PageAfter(start[t], 1) # {}
  /\ Goto(t, "asked", "folding")
  /\ \E size \in 1..PageSize : page' = [page EXCEPT ![t] = PageAfter(start[t], size)]
  /\ start' = [start EXCEPT ![t] = seq]
  /\ UNCHANGED <<storeVars, index, seq, mark, owed, alone, restarts>>

\* poll() leaves its loop and returns the whole index.
Return(t) ==
  /\ pc' = [pc EXCEPT ![t] = "idle"]
  /\ start' = [start EXCEPT ![t] = 0]
  /\ owed' = [owed EXCEPT ![t] = {}]
  /\ alone' = alone \ {t}
  /\ UNCHANGED <<storeVars, index, seq, page, mark, restarts>>

\* The store has nothing past the cursor.
FetchNothing(t) == pc[t] = "asked" /\ PageAfter(start[t], 1) = {} /\ Return(t)

\* Mutant: a row without a leaf holds the watermark back.
MutJunkHoldsCursor(t) ==
  \E p \in page[t] :
    /\ \A q \in page[t] : p.seq <= q.seq
    /\ Goto(t, "folding", "marking")
    /\ page' = [page EXCEPT ![t] = @ \ {p}]
    /\ index' = IF p.row \in Junk THEN index ELSE index \cup {p.row}
    /\ mark' = [mark EXCEPT ![t] =
                  IF p.seq > seq /\ p.row \notin Junk THEN p.seq ELSE seq]
    /\ UNCHANGED <<storeVars, seq, start, owed, alone, restarts>>

\* One row, lowest number first: its leaf goes into the index, and the
\* watermark it raises is computed.
FoldRow(t) ==
  \E p \in page[t] :
    /\ \A q \in page[t] : p.seq <= q.seq
    /\ Goto(t, "folding", "marking")
    /\ page' = [page EXCEPT ![t] = @ \ {p}]
    /\ index' = IF p.row \in Junk THEN index ELSE index \cup {p.row}
    /\ mark' = [mark EXCEPT ![t] = IF p.seq > seq THEN p.seq ELSE seq]
    /\ UNCHANGED <<storeVars, seq, start, owed, alone, restarts>>

\* The watermark is assigned: another thread may have moved it meanwhile.
AdvanceSeq(t) ==
  /\ Goto(t, "marking", "folding")
  /\ seq' = mark[t]
  /\ mark' = [mark EXCEPT ![t] = 0]
  /\ UNCHANGED <<storeVars, index, page, start, owed, alone, restarts>>

\* Mutant: ask again even when the cursor stood still.
MutAskAgainAlways(t) ==
  /\ page[t] = {}
  /\ Goto(t, "folding", "asked")
  /\ start' = [start EXCEPT ![t] = seq]
  /\ UNCHANGED <<storeVars, index, seq, page, mark, owed, alone, restarts>>

\* The page is folded and the cursor moved: ask again.
AskAgain(t) ==
  /\ page[t] = {} /\ seq > start[t]
  /\ Goto(t, "folding", "asked")
  /\ start' = [start EXCEPT ![t] = seq]
  /\ UNCHANGED <<storeVars, index, seq, page, mark, owed, alone, restarts>>

\* Mutant: stop after any page.
MutStopAfterPage(t) == pc[t] = "folding" /\ page[t] = {} /\ Return(t)

\* Rows came and the cursor stood still: stop.
StandStill(t) == pc[t] = "folding" /\ page[t] = {} /\ seq <= start[t] /\ Return(t)

\* Mutant: the watermark outlives the process.
MutRestartKeepsSeq ==
  /\ restarts < MaxRestarts
  /\ restarts' = restarts + 1
  /\ index' = {}
  /\ pc' = [t \in Poller |-> "idle"]
  /\ page' = [t \in Poller |-> {}]
  /\ start' = [t \in Poller |-> 0] /\ mark' = [t \in Poller |-> 0]
  /\ owed' = [t \in Poller |-> {}] /\ alone' = {}
  /\ UNCHANGED <<storeVars, seq>>

\* The process restarts: the watermark and the index start over.
Restart ==
  /\ restarts < MaxRestarts
  /\ restarts' = restarts + 1
  /\ index' = {} /\ seq' = 0
  /\ pc' = [t \in Poller |-> "idle"]
  /\ page' = [t \in Poller |-> {}]
  /\ start' = [t \in Poller |-> 0] /\ mark' = [t \in Poller |-> 0]
  /\ owed' = [t \in Poller |-> {}] /\ alone' = {}
  /\ UNCHANGED storeVars

-----------------------------------------------------------------------------
PutStep(w) == \E r \in Row : CheckAbsent(w, r) \/ PutArtifact(w, r)

PollStep(t) ==
  \/ FetchPage(t) \/ FetchNothing(t) \/ FoldRow(t)
  \/ AdvanceSeq(t) \/ AskAgain(t) \/ StandStill(t)

StoreNext == (\E w \in Writer : PutStep(w)) \/ (\E t \in Poller : Ask(t) \/ PollStep(t)) \/ Restart

StoreSpec == StoreInit /\ [][StoreNext]_carrierVars

-----------------------------------------------------------------------------
(* Properties.                                                             *)

\* "The one invariant a cursor must hold: it may never skip."  No leaf sits
\* at or below the watermark without being in the index, whichever threads
\* poll and wherever a restart falls.
NeverSkip == \A r \in Leaves : disk[r] <= seq => r \in index

\* "Every leaf on the plane ... the whole set, on every call": a poll of a
\* store that numbers its rows returns every leaf that was there when it was
\* called.
Returns(t) == FetchNothing(t) \/ StandStill(t)
WholePlane ==
  [][\A t \in Poller : numbered /\ Returns(t) => owed[t] \subseteq index]_carrierVars

\* The same for a poll during which no other thread polls this carrier.
WholePlaneAlone ==
  [][\A t \in alone : numbered /\ Returns(t) => owed[t] \subseteq index]_carrierVars

\* Every poll that was called returns, also on a store without _seq.
PollReturns == \A t \in Poller : pc[t] # "idle" ~> pc[t] = "idle"

\* Whatever the pollers' steps, a leaf of a store that numbers its rows is in
\* the index for good in the end: an early return is made up for later.
EventuallyFolded == numbered => <>[](Leaves \subseteq index)
=============================================================================
