--------------------------------- MODULE HLC ---------------------------------
(***************************************************************************)
(* The hybrid logical clock every leaf is stamped with (prism/plane.py,     *)
(* class HLC) and the order a requester reads a handle's bands in           *)
(* (prism/reach.py, Requester.bands and first).                             *)
(*                                                                         *)
(* A node has one clock, ticked by its pump thread and by application      *)
(* threads.  tick() reads the wall clock, which may step back, and then,    *)
(* without giving up the interpreter lock again, updates the clock and      *)
(* formats it.  A stamp is compared as text: %020d.%06d.node, here with     *)
(* Width digits in base Base for the counter.                               *)
(*                                                                         *)
(* One relay is followed: hop after hop, a node stamps the evidence it      *)
(* absorbs, and only then can the next hop be handled, by any node.         *)
(***************************************************************************)
EXTENDS Integers, Sequences

CONSTANTS
  Node,       \* the nodes, one HLC object each
  Thread,     \* the threads that tick
  Home,       \* Home[t]: the node thread t runs on
  Base,       \* digits are 0 .. Base - 1 (ten in the code)
  Width,      \* digits the counter is padded to (six in the code)
  MaxWall,    \* bound: wall clock readings are 1 .. MaxWall
  MaxStamps   \* bound: stamps issued

ASSUME HLCAssumption ==
  /\ Home \in [Thread -> Node]
  /\ Base \in Nat \ {0, 1} /\ Width \in Nat \ {0}
  /\ MaxWall \in Nat /\ MaxStamps \in Nat

VARIABLES
  last, ctr,   \* last[n], ctr[n]: HLC._last and HLC._ctr of node n
  wall,        \* wall[t]: the reading thread t's tick holds, 0 outside tick
  hop,         \* the thread (or none) stamping the relay's next evidence
  issued,      \* history: every stamp, in the order tick() returned them
  bands        \* history: the relay's evidence stamps, in coupling order

clockVars == <<last, ctr, wall, hop, issued, bands>>

Stamps == [last : Nat, ctr : Nat, node : Node]

ClockInit ==
  /\ last = [n \in Node |-> 0] /\ ctr = [n \in Node |-> 0]
  /\ wall = [t \in Thread |-> 0]
  /\ hop = {}
  /\ issued = <<>> /\ bands = <<>>

\* tick(), first half: wall = int(self._clock()), for the relay's next hop
\* or for any other leaf.
ReadClock(t, w, forHop) ==
  /\ wall[t] = 0 /\ Len(issued) < MaxStamps
  /\ forHop => hop = {}
  /\ wall' = [wall EXCEPT ![t] = w]
  /\ hop' = IF forHop THEN {t} ELSE hop
  /\ UNCHANGED <<last, ctr, issued, bands>>

\* Mutants: the reading is taken even when it is behind; the first count of a
\* new reading is one too low.
MutAdvanceFollowsWall(n, w) == [last |-> w, ctr |-> 0, node |-> n]
MutAdvanceBelowZero(n, w) ==
  IF w > last[n] THEN [last |-> w, ctr |-> 0 - 1, node |-> n]
                 ELSE [last |-> last[n], ctr |-> ctr[n] + 1, node |-> n]

\* The next stamp of n: advance to the reading, or count within the last one.
Advance(n, w) ==
  IF w > last[n] THEN [last |-> w, ctr |-> 0, node |-> n]
                 ELSE [last |-> last[n], ctr |-> ctr[n] + 1, node |-> n]

\* tick(), second half.
Tick(t) ==
  LET n == Home[t]
      stamp == Advance(n, wall[t])
  IN /\ wall[t] > 0
     /\ last' = [last EXCEPT ![n] = stamp.last]
     /\ ctr' = [ctr EXCEPT ![n] = stamp.ctr]
     /\ issued' = Append(issued, stamp)
     /\ bands' = IF t \in hop THEN Append(bands, stamp) ELSE bands
     /\ hop' = hop \ {t}
     /\ wall' = [wall EXCEPT ![t] = 0]

ClockNext ==
  \E t \in Thread :
    \/ \E w \in 1..MaxWall, forHop \in BOOLEAN : ReadClock(t, w, forHop)
    \/ Tick(t)

ClockSpec == ClockInit /\ [][ClockNext]_clockVars

-----------------------------------------------------------------------------
(* The order of stamps.                                                    *)

\* The numbers of up to d digits are those below Power[d].
Power[d \in Nat] == IF d = 0 THEN 1 ELSE Base * Power[d - 1]

\* Mutant: "%d", not padded.
MutDigitsUnpadded(x) == CHOOSE d \in 1..(1 + x) :
                          x < Power[d] /\ (d > 1 => x >= Power[d - 1])

\* "%0<Width>d" % x: the digits of x, most significant first, zero-padded to
\* Width; a counter that outgrows Width gets a longer text.
Digits(x) == CHOOSE d \in Width..(Width + x) :
               /\ x < Power[d]
               /\ d > Width => x >= Power[d - 1]
Text(x) == [k \in 1..Digits(x) |-> (x \div Power[Digits(x) - k]) % Base]

\* Text comparison; the '.' after the digits sorts below every digit.
TextBelow(s, t) ==
  \E k \in 1..(Len(s) + 1) :
    /\ k <= Len(t)
    /\ \A j \in 1..(k - 1) : s[j] = t[j]
    /\ k <= Len(s) => s[k] < t[k]

\* sorted(..., key=hlc): the order of stamps as text.  Nanoseconds never
\* outgrow their twenty digits, so the first field compares as a number; the
\* node decides between equal fields, which SortsBelow leaves open.
SortsBelow(a, b) ==
  \/ a.last < b.last
  \/ a.last = b.last /\ TextBelow(Text(a.ctr), Text(b.ctr))

-----------------------------------------------------------------------------
(* Properties.                                                             *)

\* The values each variable ranges over.
ClockTypeOK ==
  /\ last \in [Node -> Nat] /\ ctr \in [Node -> Nat]
  /\ wall \in [Thread -> Nat]
  /\ hop \subseteq Thread
  /\ issued \in Seq(Stamps) /\ bands \in Seq(Stamps)

\* A node's clock only moves forward, whichever threads tick it and wherever
\* the wall clock steps: of two stamps of one node the later is larger, so no
\* two are equal.
Rises(a, b) == a.last < b.last \/ (a.last = b.last /\ a.ctr < b.ctr)
StampsRise ==
  \A i, j \in 1..Len(issued) :
    i < j /\ issued[i].node = issued[j].node => Rises(issued[i], issued[j])

\* ... and the order survives formatting: text order is issue order, as long
\* as the counter fits its Width digits.
Fits(a) == a.ctr < Power[Width]
SortsAsIssued ==
  \A i, j \in 1..Len(issued) :
    i < j /\ issued[i].node = issued[j].node /\ Fits(issued[i]) /\ Fits(issued[j])
      => SortsBelow(issued[i], issued[j])

\* Requester.first: of the bands collected for a handle, the one that sorts
\* first was coupled first.
FirstIsFirstCoupled ==
  \A k \in 2..Len(bands) : ~SortsBelow(bands[k], bands[1])
=============================================================================
