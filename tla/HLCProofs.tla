------------------------------ MODULE HLCProofs ------------------------------
(* Proofs about HLC: for any nodes, threads and wall clock readings, the    *)
(* stamps of one node rise, their text sorts as they were issued, and what  *)
(* one node relays is read in the order it was coupled.                    *)
EXTENDS HLC, WellFoundedInduction, SequenceTheorems, TLAPS

\* What every tick keeps: no stamp a node issued lies above its clock, and
\* stamps of one node rise.
NotAbove(a, n) == a.last < last[n] \/ (a.last = last[n] /\ a.ctr <= ctr[n])
BelowClock == \A i \in 1..Len(issued) : NotAbove(issued[i], issued[i].node)

IInv == ClockTypeOK /\ BelowClock /\ StampsRise

LEMMA InitHolds == ClockInit => IInv
BY DEF ClockInit, IInv, ClockTypeOK, BelowClock, StampsRise

\* What Advance yields is a stamp of n, strictly above n's clock.
LEMMA AdvanceRises ==
  ASSUME ClockTypeOK, NEW n \in Node, NEW w \in Nat
  PROVE  /\ Advance(n, w) \in Stamps /\ Advance(n, w).node = n
         /\ Rises([last |-> last[n], ctr |-> ctr[n], node |-> n], Advance(n, w))
BY DEF ClockTypeOK, Advance, Stamps, Rises

\* The clock of the ticking node ends at the new stamp, the others stand.
LEMMA TickAdvances ==
  ASSUME HLCAssumption, ClockTypeOK, NEW t \in Thread, Tick(t)
  PROVE  LET n == Home[t]
             stamp == [last |-> last'[n], ctr |-> ctr'[n], node |-> n]
         IN /\ issued' = Append(issued, stamp)
            /\ stamp \in Stamps
            /\ Rises([last |-> last[n], ctr |-> ctr[n], node |-> n], stamp)
            /\ \A m \in Node \ {n} : last'[m] = last[m] /\ ctr'[m] = ctr[m]
            /\ bands' = IF t \in hop THEN Append(bands, stamp) ELSE bands
<1> DEFINE n == Home[t]
<1>1. n \in Node /\ wall[t] \in Nat
  BY DEF HLCAssumption, ClockTypeOK
<1>2. /\ Advance(n, wall[t]) \in Stamps /\ Advance(n, wall[t]).node = n
      /\ Rises([last |-> last[n], ctr |-> ctr[n], node |-> n], Advance(n, wall[t]))
  BY <1>1, AdvanceRises
<1>3. last'[n] = Advance(n, wall[t]).last /\ ctr'[n] = Advance(n, wall[t]).ctr
  BY <1>1 DEF Tick, ClockTypeOK
<1>4. Advance(n, wall[t]) = [last |-> last'[n], ctr |-> ctr'[n], node |-> n]
  BY <1>2, <1>3 DEF Stamps
<1>5. issued' = Append(issued, Advance(n, wall[t]))
  BY DEF Tick
<1>6. \A m \in Node \ {n} : last'[m] = last[m] /\ ctr'[m] = ctr[m]
  BY DEF Tick, ClockTypeOK
<1>7. bands' = IF t \in hop THEN Append(bands, Advance(n, wall[t])) ELSE bands
  BY DEF Tick
<1> QED BY <1>2, <1>4, <1>5, <1>6, <1>7

LEMMA TickKeeps == ASSUME HLCAssumption, IInv, NEW t \in Thread, Tick(t) PROVE IInv'
<1> DEFINE n == Home[t]
           stamp == [last |-> last'[n], ctr |-> ctr'[n], node |-> n]
<1>1. /\ issued' = Append(issued, stamp) /\ stamp \in Stamps
      /\ Rises([last |-> last[n], ctr |-> ctr[n], node |-> n], stamp)
      /\ \A m \in Node \ {n} : last'[m] = last[m] /\ ctr'[m] = ctr[m]
  BY TickAdvances DEF IInv
<1>2. n \in Node
  BY DEF HLCAssumption
<1>3. ClockTypeOK'
  <2>1. last' \in [Node -> Nat] /\ ctr' \in [Node -> Nat]
    BY <1>1, <1>2 DEF IInv, ClockTypeOK, Tick, Stamps
  <2>2. Advance(n, wall[t]) \in Stamps
    BY <1>2, AdvanceRises DEF IInv, ClockTypeOK
  <2>3. wall' \in [Thread -> Nat] /\ hop' \subseteq Thread /\ bands' \in Seq(Stamps)
    BY <2>2 DEF IInv, ClockTypeOK, Tick
  <2> QED BY <1>1, <2>1, <2>3 DEF IInv, ClockTypeOK
<1>4. issued \in Seq(Stamps) /\ last \in [Node -> Nat] /\ ctr \in [Node -> Nat]
  BY DEF IInv, ClockTypeOK
<1>5. /\ Len(issued') = Len(issued) + 1 /\ Len(issued) \in Nat
      /\ \A i \in 1..Len(issued) : issued'[i] = issued[i] /\ issued[i] \in Stamps
      /\ issued'[Len(issued')] = stamp
  BY <1>1, <1>4
<1>6. ASSUME NEW i \in 1..Len(issued), issued[i].node = n
      PROVE  Rises(issued[i], stamp)
  <2>1. NotAbove(issued[i], n)
    BY <1>6 DEF IInv, BelowClock
  <2>2. last[n] \in Nat /\ ctr[n] \in Nat /\ issued[i] \in Stamps
    BY <1>2, <1>4, <1>5
  <2> QED BY <2>1, <2>2, <1>1 DEF NotAbove, Rises, Stamps
<1>7. BelowClock'
  <2> SUFFICES ASSUME NEW i \in 1..Len(issued')
               PROVE  NotAbove(issued[i], issued[i].node)'
    BY DEF BelowClock
  <2>1. CASE i = Len(issued')
    BY <2>1, <1>1, <1>5 DEF Stamps, NotAbove
  <2>2. CASE i # Len(issued') /\ issued[i].node = n
    <3>1. i \in 1..Len(issued) /\ issued'[i] = issued[i] /\ issued[i] \in Stamps
      BY <2>2, <1>5
    <3> QED BY <2>2, <3>1, <1>1, <1>6 DEF Stamps, Rises, NotAbove
  <2>3. CASE i # Len(issued') /\ issued[i].node # n
    <3>1. i \in 1..Len(issued) /\ issued'[i] = issued[i] /\ issued[i] \in Stamps
      BY <2>3, <1>5
    <3>2. NotAbove(issued[i], issued[i].node)
      BY <3>1 DEF IInv, BelowClock
    <3>3. last'[issued[i].node] = last[issued[i].node] /\ ctr'[issued[i].node] = ctr[issued[i].node]
      BY <2>3, <3>1, <1>1 DEF Stamps
    <3> QED BY <3>1, <3>2, <3>3 DEF NotAbove
  <2> QED BY <2>1, <2>2, <2>3
<1>8. StampsRise'
  BY <1>1, <1>5, <1>6 DEF IInv, StampsRise
<1> QED BY <1>3, <1>7, <1>8 DEF IInv

LEMMA StepKeeps == ASSUME HLCAssumption, IInv, [ClockNext]_clockVars PROVE IInv'
<1>1. ASSUME NEW t \in Thread, NEW w \in 1..MaxWall, NEW forHop \in BOOLEAN,
             ReadClock(t, w, forHop)
      PROVE  IInv'
  <2>1. ClockTypeOK'
    BY <1>1 DEF HLCAssumption, IInv, ClockTypeOK, ReadClock
  <2>2. UNCHANGED <<last, ctr, issued>>
    BY <1>1 DEF ReadClock
  <2> QED BY <2>1, <2>2 DEF IInv, BelowClock, NotAbove, StampsRise
<1>2. ASSUME NEW t \in Thread, Tick(t) PROVE IInv'
  BY <1>2, TickKeeps
<1>3. CASE UNCHANGED clockVars
  BY <1>3 DEF IInv, ClockTypeOK, BelowClock, NotAbove, StampsRise, clockVars
<1> QED BY <1>1, <1>2, <1>3 DEF ClockNext

\* Clocks, readings and stamps stay within their types, for any base, width and
\* wall clock.
THEOREM TypeCorrect == ClockSpec => []ClockTypeOK
<1>1. IInv => ClockTypeOK
  BY DEF IInv
<1> QED BY InitHolds, StepKeeps, HLCAssumption, <1>1, PTL DEF ClockSpec

\* The clock of a node never runs backwards and never repeats a stamp, for any
\* number of threads ticking it and any behaviour of the wall clock.
THEOREM ClockRises == ClockSpec => []StampsRise
<1>1. IInv => StampsRise
  BY DEF IInv
<1> QED BY InitHolds, StepKeeps, HLCAssumption, <1>1, PTL DEF ClockSpec

-----------------------------------------------------------------------------
(* Induction on numbers, and functions defined by it.                      *)

\* A set of numbers has a least.
LEMMA LeastNat ==
  ASSUME NEW T \in SUBSET Nat, T # {}
  PROVE  \E m \in T : \A k \in T : m <= k
<1>1. PICK R : R = OpToRel(<, Nat)
  BY Zenon
<1>2. R = {p \in Nat \X Nat : p[1] < p[2]}
  BY <1>1, Zenon DEF OpToRel
<1>3. IsWellFoundedOn(R, Nat)
  BY <1>1, NatLessThanWellFounded, Zenon
<1>4. PICK m \in T : \A k \in T : ~(<<k, m>> \in R)
  BY <1>3, WFMin
<1>5. ASSUME NEW k \in T PROVE ~(k < m)
  <2>1. k \in Nat /\ m \in Nat
    OBVIOUS
  <2>2. k < m => <<k, m>> \in R
    BY <1>2, <2>1
  <2>3. QED BY <1>4, <2>2
<1>6. QED BY <1>4, <1>5

\* A set that holds zero and every successor of its members holds them all.
LEMMA AllNat ==
  ASSUME NEW S \in SUBSET Nat, 0 \in S, \A n \in S : n + 1 \in S
  PROVE  S = Nat
<1>1. ASSUME Nat \ S # {} PROVE FALSE
  <2>1. PICK m \in Nat \ S : \A k \in Nat \ S : m <= k
    BY <1>1, LeastNat
  <2>2. m - 1 \in S
    BY <2>1
  <2>3. QED BY <2>1, <2>2
<1>2. QED BY <1>1

\* The values up to n of the function that starts at z and goes on by step.
Starts(z, step, n, g) == g[0] = z /\ \A k \in 1..n : g[k] = step[g[k - 1]]

\* Two such agree, and there is one for every n, so there is one for all.
LEMMA Recursion ==
  ASSUME NEW D, NEW z \in D, NEW step \in [D -> D]
  PROVE  \E f \in [Nat -> D] : f = [n \in Nat |-> IF n = 0 THEN z ELSE step[f[n - 1]]]
<1>1. PICK Same : Same = {n \in Nat : \A g, h \in [0..n -> D] :
                            Starts(z, step, n, g) /\ Starts(z, step, n, h) => g[n] = h[n]}
  OBVIOUS
<1>2. Same = Nat
  <2>1. 0 \in Same
    BY <1>1 DEF Starts
  <2>2. ASSUME NEW n \in Same PROVE n + 1 \in Same
    <3>1. n \in Nat /\ n + 1 \in Nat
      BY <1>1
    <3>2. SUFFICES ASSUME NEW g \in [0..(n + 1) -> D], NEW h \in [0..(n + 1) -> D],
                          Starts(z, step, n + 1, g), Starts(z, step, n + 1, h)
                   PROVE  g[n + 1] = h[n + 1]
      BY <1>1, <3>1
    <3>3. PICK a, b : a = [k \in 0..n |-> g[k]] /\ b = [k \in 0..n |-> h[k]]
      OBVIOUS
    <3>4. /\ a \in [0..n -> D] /\ b \in [0..n -> D]
          /\ \A k \in 0..n : a[k] = g[k] /\ b[k] = h[k]
      BY <3>1, <3>3
    <3>5. Starts(z, step, n, a) /\ Starts(z, step, n, b)
      BY <3>1, <3>2, <3>4 DEF Starts
    <3>6. a[n] = b[n]
      BY <1>1, <3>4, <3>5
    <3>7. g[n + 1] = step[g[n]] /\ h[n + 1] = step[h[n]] /\ g[n] = h[n]
      BY <3>1, <3>2, <3>4, <3>6 DEF Starts
    <3>8. QED BY <3>7
  <2>3. QED BY <1>1, <2>1, <2>2, AllNat
<1>3. PICK Is : Is = {n \in Nat : \E g \in [0..n -> D] : Starts(z, step, n, g)}
  OBVIOUS
<1>4. Is = Nat
  <2>1. 0 \in Is
    <3>1. PICK g : g = [k \in 0..0 |-> z]
      OBVIOUS
    <3>2. g \in [0..0 -> D] /\ Starts(z, step, 0, g)
      BY <3>1 DEF Starts
    <3>3. QED BY <1>3, <3>2
  <2>2. ASSUME NEW n \in Is PROVE n + 1 \in Is
    <3>1. n \in Nat
      BY <1>3
    <3>2. PICK g \in [0..n -> D] : Starts(z, step, n, g)
      BY <1>3
    <3>3. PICK h : h = [k \in 0..(n + 1) |-> IF k = n + 1 THEN step[g[n]] ELSE g[k]]
      OBVIOUS
    <3>4. h \in [0..(n + 1) -> D]
      BY <3>1, <3>3
    <3>5. h[n + 1] = step[g[n]] /\ \A k \in 0..n : h[k] = g[k]
      BY <3>1, <3>3
    <3>6. Starts(z, step, n + 1, h)
      <4>1. h[0] = z
        BY <3>1, <3>2, <3>5 DEF Starts
      <4>2. ASSUME NEW k \in 1..(n + 1) PROVE h[k] = step[h[k - 1]]
        <5>1. CASE k = n + 1
          BY <3>1, <3>5, <5>1
        <5>2. CASE k \in 1..n
          BY <3>1, <3>2, <3>5, <5>2 DEF Starts
        <5>3. QED BY <3>1, <5>1, <5>2
      <4>3. QED BY <4>1, <4>2 DEF Starts
    <3>7. QED BY <1>3, <3>1, <3>4, <3>6
  <2>3. QED BY <1>3, <2>1, <2>2, AllNat
<1>5. PICK G : G = [n \in Nat |-> CHOOSE g \in [0..n -> D] : Starts(z, step, n, g)]
  OBVIOUS
<1>6. ASSUME NEW n \in Nat PROVE G[n] \in [0..n -> D] /\ Starts(z, step, n, G[n])
  <2>1. \E g \in [0..n -> D] : Starts(z, step, n, g)
    BY <1>3, <1>4
  <2>2. QED BY <1>5, <2>1
<1>7. PICK f : f = [n \in Nat |-> G[n][n]]
  OBVIOUS
<1>8. f \in [Nat -> D]
  BY <1>6, <1>7
<1>9. ASSUME NEW n \in Nat PROVE f[n] = IF n = 0 THEN z ELSE step[f[n - 1]]
  <2>1. CASE n = 0
    BY <1>6, <1>7, <2>1 DEF Starts
  <2>2. CASE n # 0
    <3>1. PICK m \in Nat : m = n - 1
      BY <2>2
    <3>2. PICK g : g = [k \in 0..m |-> G[n][k]]
      OBVIOUS
    <3>3. g \in [0..m -> D] /\ \A k \in 0..m : g[k] = G[n][k]
      BY <1>6, <3>1, <3>2
    <3>4. Starts(z, step, m, g)
      <4>1. Starts(z, step, n, G[n])
        BY <1>6
      <4>2. ASSUME NEW k \in 1..m PROVE g[k] = step[g[k - 1]]
        <5>1. k \in 1..n /\ k \in 0..m /\ k - 1 \in 0..m
          BY <3>1
        <5>2. G[n][k] = step[G[n][k - 1]]
          BY <4>1, <5>1 DEF Starts
        <5>3. QED BY <3>3, <5>1, <5>2
      <4>3. g[0] = z
        BY <3>1, <3>3, <4>1 DEF Starts
      <4>4. QED BY <4>2, <4>3 DEF Starts
    <3>5. g[m] = G[m][m]
      BY <1>1, <1>2, <1>6, <3>3, <3>4
    <3>6. G[n][n] = step[G[n][m]] /\ G[n][m] = g[m]
      BY <1>6, <2>2, <3>1, <3>3 DEF Starts
    <3>7. QED BY <1>7, <2>2, <3>1, <3>5, <3>6
  <2>3. QED BY <2>1, <2>2
<1>10. QED BY <1>7, <1>8, <1>9

-----------------------------------------------------------------------------
(* The text of a number, for any base and width.                           *)

LEMMA PowerGrows ==
  /\ Power[0] = 1
  /\ \A d \in Nat : Power[d] \in Nat \ {0} /\ Power[d + 1] = Base * Power[d]
<1>1. Base \in Nat \ {0}
  BY HLCAssumption
<1>2. PICK step : step = [x \in Nat \ {0} |-> Base * x]
  OBVIOUS
<1>3. step \in [Nat \ {0} -> Nat \ {0}]
  BY <1>1, <1>2
<1>4. PICK f \in [Nat -> Nat \ {0}] : f = [d \in Nat |-> IF d = 0 THEN 1 ELSE step[f[d - 1]]]
  <2>1. PICK D : D = Nat \ {0}
    OBVIOUS
  <2>2. 1 \in D /\ step \in [D -> D]
    BY <1>3, <2>1
  <2>3. \E f \in [Nat -> D] : f = [d \in Nat |-> IF d = 0 THEN 1 ELSE step[f[d - 1]]]
    <3>1. PICK z \in D : z = 1
      BY <2>2
    <3>2. \E f \in [Nat -> D] : f = [d \in Nat |-> IF d = 0 THEN z ELSE step[f[d - 1]]]
      BY <2>2, Recursion
    <3>3. QED BY <3>1, <3>2
  <2>4. QED BY <2>1, <2>3
<1>5. f = [d \in Nat |-> IF d = 0 THEN 1 ELSE Base * f[d - 1]]
  <2>1. ASSUME NEW d \in Nat PROVE f[d] = IF d = 0 THEN 1 ELSE Base * f[d - 1]
    <3>1. CASE d = 0
      BY <1>4, <3>1
    <3>2. CASE d # 0
      <4>1. d - 1 \in Nat
        BY <3>2
      <4>2. f[d - 1] \in Nat \ {0}
        BY <4>1
      <4>3. QED BY <1>2, <1>4, <3>2, <4>2
    <3>3. QED BY <3>1, <3>2
  <2>2. QED BY <2>1
<1>6. Power = [d \in Nat |-> IF d = 0 THEN 1 ELSE Base * Power[d - 1]]
  BY <1>5 DEF Power
<1>7. Power[0] = 1 /\ \A d \in Nat : Power[d + 1] = Base * Power[d]
  BY <1>6
<1>8. PICK S : S = {d \in Nat : Power[d] \in Nat \ {0}}
  OBVIOUS
<1>9. S = Nat
  <2>1. 0 \in S
    BY <1>7, <1>8
  <2>2. ASSUME NEW d \in S PROVE d + 1 \in S
    <3>1. PICK p \in Nat \ {0} : p = Power[d]
      BY <1>8
    <3>2. Base * p \in Nat \ {0}
      BY <1>1
    <3>3. QED BY <1>7, <1>8, <3>1, <3>2
  <2>3. QED BY <1>8, <2>1, <2>2, AllNat
<1>10. \A d \in Nat : Power[d] \in Nat \ {0}
  BY <1>8, <1>9
<1>11. QED BY <1>7, <1>10

LEMMA PowerMonotone ==
  ASSUME NEW d \in Nat, NEW e \in Nat, d <= e
  PROVE  Power[d] <= Power[e]
<1>1. PICK S : S = {k \in Nat : Power[d] <= Power[d + k]}
  OBVIOUS
<1>2. S = Nat
  <2>1. 0 \in S
    BY <1>1, PowerGrows
  <2>2. ASSUME NEW k \in S PROVE k + 1 \in S
    <3>1. PICK p \in Nat \ {0}, q \in Nat \ {0} : p = Power[d] /\ q = Power[d + k]
      BY <1>1, PowerGrows
    <3>2. p <= q
      BY <1>1, <3>1
    <3>3. d + k \in Nat /\ d + (k + 1) = (d + k) + 1
      BY <1>1
    <3>4. Power[d + (k + 1)] = Base * q
      BY <3>1, <3>3, PowerGrows
    <3>5. q <= Base * q
      BY HLCAssumption
    <3>6. Base * q \in Nat
      BY HLCAssumption
    <3>7. QED BY <1>1, <3>1, <3>2, <3>4, <3>5, <3>6
  <2>3. QED BY <1>1, <2>1, <2>2, AllNat
<1>3. e - d \in S /\ d + (e - d) = e
  BY <1>2
<1>4. QED BY <1>1, <1>3

\* A number that fits is written with Width digits.
LEMMA TextOfFitting ==
  ASSUME NEW x \in Nat, x < Power[Width]
  PROVE  Text(x) = [k \in 1..Width |-> (x \div Power[Width - k]) % Base]
<1>1. Width \in Nat \ {0}
  BY HLCAssumption
<1>2. ASSUME NEW d \in Width..(Width + x), d > Width PROVE ~(x >= Power[d - 1])
  <2>1. d - 1 \in Nat /\ Width <= d - 1
    BY <1>1, <1>2
  <2>2. Power[Width] <= Power[d - 1] /\ Power[Width] \in Nat /\ Power[d - 1] \in Nat
    BY <1>1, <2>1, PowerMonotone, PowerGrows
  <2>3. QED BY <2>2
<1>3. Width \in Width..(Width + x) /\ ~(Width > Width)
  BY <1>1
<1>4. \A d \in Width..(Width + x) : (d > Width) \/ d = Width
  BY <1>1
<1>5. Digits(x) = Width
  BY <1>2, <1>3, <1>4 DEF Digits
<1>6. QED BY <1>5 DEF Text

LEMMA TextIsSeq ==
  ASSUME NEW x \in Nat, x < Power[Width]
  PROVE  Text(x) \in Seq(Int) /\ Len(Text(x)) = Width
<1>1. Width \in Nat /\ Base \in Nat \ {0}
  BY HLCAssumption
<1>2. PICK s : s = [k \in 1..Width |-> (x \div Power[Width - k]) % Base] /\ s = Text(x)
  BY TextOfFitting
<1>3. ASSUME NEW k \in 1..Width PROVE s[k] \in Int
  <2>1. Width - k \in Nat
    BY <1>1
  <2>2. PICK p \in Nat \ {0} : p = Power[Width - k]
    BY <2>1, PowerGrows
  <2>3. (x \div p) % Base \in Int
    BY <1>1
  <2>4. QED BY <1>2, <2>2, <2>3
<1>4. s \in [1..Width -> Int]
  BY <1>2, <1>3
<1>5. s \in Seq(Int)
  BY <1>1, <1>4
<1>6. QED BY <1>1, <1>2, <1>4, <1>5, LenProperties

\* Dividing by p and then by b is dividing by b * p.
LEMMA DivideTwice ==
  ASSUME NEW x \in Nat, NEW p \in Nat \ {0}, NEW b \in Nat \ {0}
  PROVE  (x \div p) \div b = x \div (b * p)
<1>1. (x \div p) \div b = x \div (p * b)
  OBVIOUS
<1>2. p * b = b * p
  OBVIOUS
<1>3. QED BY <1>1, <1>2

LEMMA DivideMonotone ==
  ASSUME NEW x \in Nat, NEW y \in Nat, x <= y, NEW p \in Nat \ {0}
  PROVE  x \div p \in Nat /\ y \div p \in Nat /\ x \div p <= y \div p
OBVIOUS

\* Of two numbers with the same quotient the lesser has the lesser remainder.
LEMMA LastDigitDecides ==
  ASSUME NEW x \in Nat, NEW y \in Nat, x < y, NEW b \in Nat \ {0}, x \div b = y \div b
  PROVE  x % b < y % b
<1>1. PICK q \in Nat, r \in Nat, t \in Nat :
        q = x \div b /\ r = x % b /\ t = y % b /\ x = q * b + r /\ y = q * b + t
  OBVIOUS
<1>2. q * b \in Nat
  OBVIOUS
<1>3. QED BY <1>1, <1>2

\* Text that fits sorts as the numbers do: at the first place where the two
\* differ the lesser number has the lesser digit.
LEMMA TextSorts ==
  ASSUME NEW x \in Nat, NEW y \in Nat, x < y, y < Power[Width]
  PROVE  TextBelow(Text(x), Text(y))
<1>1. Width \in Nat \ {0} /\ Base \in Nat \ {0} /\ Power[Width] \in Nat \ {0}
  BY HLCAssumption, PowerGrows
<1>2. x < Power[Width]
  BY <1>1
<1>3. PICK s, t : s = Text(x) /\ t = Text(y)
  OBVIOUS
<1>4. /\ s = [k \in 1..Width |-> (x \div Power[Width - k]) % Base]
      /\ t = [k \in 1..Width |-> (y \div Power[Width - k]) % Base]
  BY <1>2, <1>3, TextOfFitting
<1>5. ASSUME NEW k \in 1..Width
      PROVE  /\ Power[Width - k] \in Nat \ {0}
             /\ x \div Power[Width - k] \in Nat /\ y \div Power[Width - k] \in Nat
             /\ x \div Power[Width - k] <= y \div Power[Width - k]
  <2>1. Width - k \in Nat
    BY <1>1
  <2>2. PICK p \in Nat \ {0} : p = Power[Width - k]
    BY <2>1, PowerGrows
  <2>3. QED BY <2>2, DivideMonotone
<1>6. Len(s) = Width /\ Len(t) = Width
  BY <1>2, <1>3, TextIsSeq
<1>7. PICK T : T = {k \in 1..Width : x \div Power[Width - k] < y \div Power[Width - k]}
  OBVIOUS
<1>8. Width \in T
  <2>1. Width \in 1..Width /\ Width - Width = 0 /\ Power[0] = 1
    BY <1>1, PowerGrows
  <2>2. x \div 1 = x /\ y \div 1 = y
    OBVIOUS
  <2>3. QED BY <1>7, <2>1, <2>2
<1>9. PICK m \in T : \A k \in T : m <= k
  <2>1. T \in SUBSET Nat
    BY <1>1, <1>7
  <2>2. QED BY <1>8, <2>1, LeastNat
<1>10. m \in 1..Width /\ x \div Power[Width - m] < y \div Power[Width - m]
  BY <1>7, <1>9
<1>11. ASSUME NEW k \in 1..(m - 1)
       PROVE  k \in 1..Width /\ x \div Power[Width - k] = y \div Power[Width - k]
  <2>1. k \in 1..Width /\ ~(m <= k)
    BY <1>1, <1>10
  <2>2. ~(x \div Power[Width - k] < y \div Power[Width - k])
    BY <1>7, <1>9, <2>1
  <2>3. QED BY <1>5, <2>1, <2>2
<1>12. PICK p \in Nat \ {0}, u \in Nat, v \in Nat :
         p = Power[Width - m] /\ u = x \div p /\ v = y \div p /\ u < v
  BY <1>5, <1>10
<1>13. u \div Base = v \div Base
  <2>1. Width - m \in Nat
    BY <1>1, <1>10
  <2>2. Power[(Width - m) + 1] = Base * p
    BY <1>12, <2>1, PowerGrows
  <2>3. u \div Base = x \div (Base * p) /\ v \div Base = y \div (Base * p)
    BY <1>1, <1>12, DivideTwice
  <2>4. CASE m = 1
    <3>1. Power[Width] = Base * p
      BY <1>1, <2>2, <2>4
    <3>2. PICK z \in Nat \ {0} : z = Power[Width]
      BY <1>1
    <3>3. x < z /\ y < z
      BY <1>2, <3>2
    <3>4. x \div z = 0 /\ y \div z = 0
      BY <3>3
    <3>5. QED BY <2>3, <3>1, <3>2, <3>4
  <2>5. CASE m # 1
    <3>1. m - 1 \in 1..(m - 1) /\ (Width - m) + 1 = Width - (m - 1)
      BY <1>1, <1>10, <2>5
    <3>2. x \div Power[Width - (m - 1)] = y \div Power[Width - (m - 1)]
      BY <1>11, <3>1
    <3>3. QED BY <2>2, <2>3, <3>1, <3>2
  <2>6. QED BY <2>4, <2>5
<1>14. u % Base < v % Base
  BY <1>1, <1>12, <1>13, LastDigitDecides
<1>15. s[m] = u % Base /\ t[m] = v % Base
  BY <1>4, <1>10, <1>12
<1>16. \A k \in 1..(m - 1) : s[k] = t[k]
  BY <1>4, <1>11
<1>17. m \in 1..(Len(s) + 1) /\ m <= Len(t)
  BY <1>1, <1>6, <1>10
<1>18. TextBelow(s, t)
  BY <1>14, <1>15, <1>16, <1>17 DEF TextBelow
<1>19. QED BY <1>3, <1>18

\* Text order is issue order for the stamps of one node, for any base and
\* width, as long as their counters fit (plane.py 39-66).
THEOREM TextSortsAsIssued == ClockSpec => []SortsAsIssued
<1>1. IInv => SortsAsIssued
  <2> SUFFICES ASSUME IInv, NEW i \in 1..Len(issued), NEW j \in 1..Len(issued),
                      i < j, issued[i].node = issued[j].node, Fits(issued[i]), Fits(issued[j])
               PROVE  SortsBelow(issued[i], issued[j])
    BY DEF SortsAsIssued
  <2>1. PICK a, b : a = issued[i] /\ b = issued[j]
    OBVIOUS
  <2>2. Rises(a, b)
    BY <2>1 DEF IInv, StampsRise
  <2>3. a \in Stamps /\ b \in Stamps
    BY <2>1 DEF IInv, ClockTypeOK
  <2>4. a.ctr \in Nat /\ b.ctr \in Nat /\ b.ctr < Power[Width]
    BY <2>1, <2>3 DEF Stamps, Fits
  <2>5. CASE a.last < b.last
    BY <2>1, <2>5 DEF SortsBelow
  <2>6. CASE a.last = b.last /\ a.ctr < b.ctr
    <3>1. TextBelow(Text(a.ctr), Text(b.ctr))
      BY <2>4, <2>6, TextSorts
    <3>2. QED BY <2>1, <2>6, <3>1 DEF SortsBelow
  <2>7. QED BY <2>2, <2>5, <2>6 DEF Rises
<1> QED BY InitHolds, StepKeeps, HLCAssumption, <1>1, PTL DEF ClockSpec

-----------------------------------------------------------------------------
(* The bands of one relay.                                                 *)

\* Nothing sorts both below and above another.
LEMMA TextBelowOneWay ==
  ASSUME NEW s \in Seq(Int), NEW t \in Seq(Int), TextBelow(s, t)
  PROVE  ~TextBelow(t, s)
<1> SUFFICES ASSUME TextBelow(t, s) PROVE FALSE
  OBVIOUS
<1>1. /\ Len(s) \in Nat /\ Len(t) \in Nat
      /\ \A k \in 1..Len(s) : s[k] \in Int
      /\ \A k \in 1..Len(t) : t[k] \in Int
  OBVIOUS
<1>2. PICK k \in 1..(Len(s) + 1) :
        k <= Len(t) /\ (\A j \in 1..(k - 1) : s[j] = t[j]) /\ (k <= Len(s) => s[k] < t[k])
  BY DEF TextBelow
<1>3. PICK i \in 1..(Len(t) + 1) :
        i <= Len(s) /\ (\A j \in 1..(i - 1) : t[j] = s[j]) /\ (i <= Len(t) => t[i] < s[i])
  BY DEF TextBelow
<1>4. CASE k < i
  <2>1. k \in 1..(i - 1) /\ k <= Len(s) /\ k \in 1..Len(s) /\ k \in 1..Len(t)
    BY <1>1, <1>2, <1>3, <1>4
  <2>2. QED BY <1>1, <1>2, <1>3, <2>1
<1>5. CASE i < k
  <2>1. i \in 1..(k - 1) /\ i <= Len(t) /\ i \in 1..Len(s) /\ i \in 1..Len(t)
    BY <1>1, <1>2, <1>3, <1>5
  <2>2. QED BY <1>1, <1>2, <1>3, <2>1
<1>6. CASE i = k
  <2>1. i \in 1..Len(s) /\ i \in 1..Len(t)
    BY <1>1, <1>2, <1>3, <1>6
  <2>2. QED BY <1>1, <1>2, <1>3, <1>6, <2>1
<1>7. QED BY <1>1, <1>2, <1>3, <1>4, <1>5, <1>6

OneNode == \A t, u \in Thread : Home[t] = Home[u]

\* The bands of one node rise, and none lies above its clock.
BandsRise ==
  /\ \A k \in 1..Len(bands) : bands[k].node \in {Home[t] : t \in Thread} /\ NotAbove(bands[k], bands[k].node)
  /\ \A i, k \in 1..Len(bands) : i < k => Rises(bands[i], bands[k])

Under(a, b) == a.last < b.last \/ (a.last = b.last /\ a.ctr <= b.ctr)

LEMMA BandsKeep ==
  ASSUME OneNode, IInv, BandsRise, [ClockNext]_clockVars
  PROVE  BandsRise'
<1>1. ASSUME NEW t \in Thread, NEW w \in 1..MaxWall, NEW forHop \in BOOLEAN,
             ReadClock(t, w, forHop)
      PROVE  BandsRise'
  BY <1>1 DEF ReadClock, BandsRise, NotAbove
<1>2. ASSUME NEW t \in Thread, Tick(t) PROVE BandsRise'
  <2>1. PICK n, stamp : n = Home[t] /\ stamp = [last |-> last'[n], ctr |-> ctr'[n], node |-> n]
    OBVIOUS
  <2>2. /\ stamp \in Stamps /\ Rises([last |-> last[n], ctr |-> ctr[n], node |-> n], stamp)
        /\ bands' = IF t \in hop THEN Append(bands, stamp) ELSE bands
    BY <1>2, <2>1, HLCAssumption, TickAdvances DEF IInv
  <2>3. /\ stamp.last = last'[n] /\ stamp.ctr = ctr'[n] /\ stamp.node = n
        /\ stamp.last \in Nat /\ stamp.ctr \in Nat
        /\ n \in {Home[u] : u \in Thread} /\ n \in Node
    BY <2>1, <2>2, HLCAssumption DEF Stamps
  <2>4. last[n] \in Nat /\ ctr[n] \in Nat
    BY <2>3 DEF IInv, ClockTypeOK
  <2>5. PICK q \in Seq(Stamps), m \in Nat : q = bands /\ m = Len(q)
    BY DEF IInv, ClockTypeOK
  <2>6. ASSUME NEW k \in 1..m
        PROVE  q[k] \in Stamps /\ q[k].node = n /\ Rises(q[k], stamp)
    <3>1. q[k] \in Stamps /\ q[k].node = n /\ NotAbove(q[k], n)
      BY <2>1, <2>5 DEF BandsRise, OneNode
    <3>2. q[k].last \in Nat /\ q[k].ctr \in Nat
      BY <3>1 DEF Stamps
    <3>3. last[n] < stamp.last \/ (last[n] = stamp.last /\ ctr[n] < stamp.ctr)
      BY <2>2 DEF Rises
    <3>4. QED BY <2>3, <2>4, <3>1, <3>2, <3>3 DEF NotAbove, Rises
  <2>7. Under(stamp, stamp) /\ \A k \in 1..m : Under(q[k], stamp)
    <3>1. ASSUME NEW k \in 1..m PROVE Under(q[k], stamp)
      <4>1. q[k].last \in Nat /\ q[k].ctr \in Nat
        BY <2>6 DEF Stamps
      <4>2. QED BY <2>3, <2>6, <4>1 DEF Under, Rises
    <3>2. QED BY <2>3, <3>1 DEF Under
  <2>8. PICK p, l : p = bands' /\ l = Len(p)
    OBVIOUS
  <2>9. /\ \A k \in 1..l : p[k].node = n /\ Under(p[k], stamp)
        /\ \A i, k \in 1..l : i < k => Rises(p[i], p[k])
    <3>1. \A i, k \in 1..m : i < k => Rises(q[i], q[k])
      BY <2>5 DEF BandsRise
    <3>2. CASE t \in hop
      <4>1. p = Append(q, stamp)
        BY <2>2, <2>5, <2>8, <3>2
      <4>2. l = m + 1 /\ p[m + 1] = stamp /\ \A k \in 1..m : p[k] = q[k]
        BY <2>2, <2>5, <2>8, <4>1
      <4>3. \A k \in 1..(m + 1) : k = m + 1 \/ k \in 1..m
        OBVIOUS
      <4>4. \A k \in 1..(m + 1) : p[k].node = n /\ Under(p[k], stamp)
        BY <2>3, <2>6, <2>7, <4>2, <4>3
      <4>5. ASSUME NEW i \in 1..(m + 1), NEW k \in 1..(m + 1), i < k PROVE Rises(p[i], p[k])
        <5>1. i \in 1..m
          BY <4>5
        <5>2. QED BY <2>6, <3>1, <4>2, <4>3, <4>5, <5>1
      <4>6. QED BY <4>2, <4>4, <4>5
    <3>3. CASE t \notin hop
      <4>1. p = q /\ l = m
        BY <2>2, <2>5, <2>8, <3>3
      <4>2. QED BY <2>6, <2>7, <3>1, <4>1
    <3>4. QED BY <3>2, <3>3
  <2>10. \A k \in 1..l : /\ p[k].node \in {Home[u] : u \in Thread}
                         /\ NotAbove(p[k], p[k].node)'
    BY <2>3, <2>9 DEF NotAbove, Under
  <2>11. QED BY <2>8, <2>9, <2>10 DEF BandsRise, NotAbove
<1>3. CASE UNCHANGED clockVars
  BY <1>3 DEF clockVars, BandsRise, NotAbove
<1>4. QED BY <1>1, <1>2, <1>3 DEF ClockNext

\* Where every element of a relay runs on one node, the band that sorts first
\* was coupled first, as long as the counters fit; across nodes it need not be,
\* whatever the docstring of `first` says (reach.py 372-396).
THEOREM OneNodeReadsInOrder ==
  ASSUME OneNode
  PROVE  ClockSpec => []((\A k \in 1..Len(bands) : Fits(bands[k])) => FirstIsFirstCoupled)
<1>1. ClockInit => BandsRise
  BY DEF ClockInit, BandsRise
<1>2. IInv /\ BandsRise /\ [ClockNext]_clockVars => BandsRise'
  BY BandsKeep
<1>3. IInv /\ BandsRise => ((\A k \in 1..Len(bands) : Fits(bands[k])) => FirstIsFirstCoupled)
  <2> SUFFICES ASSUME IInv, BandsRise, \A k \in 1..Len(bands) : Fits(bands[k]),
                      NEW k \in 2..Len(bands)
               PROVE  ~SortsBelow(bands[k], bands[1])
    BY DEF FirstIsFirstCoupled
  <2>1. PICK a, b : a = bands[1] /\ b = bands[k]
    OBVIOUS
  <2>2. Len(bands) \in Nat
    BY DEF IInv, ClockTypeOK
  <2>3. 1 \in 1..Len(bands) /\ k \in 1..Len(bands) /\ 1 < k
    BY <2>2
  <2>4. a \in Stamps /\ b \in Stamps /\ Rises(a, b) /\ b.ctr < Power[Width]
    BY <2>1, <2>3 DEF IInv, ClockTypeOK, BandsRise, Fits
  <2>5. a.last \in Nat /\ b.last \in Nat /\ a.ctr \in Nat /\ b.ctr \in Nat
    BY <2>4 DEF Stamps
  <2>6. CASE a.last < b.last
    BY <2>1, <2>5, <2>6 DEF SortsBelow
  <2>7. CASE a.last = b.last /\ a.ctr < b.ctr
    <3>1. TextBelow(Text(a.ctr), Text(b.ctr))
      BY <2>4, <2>5, <2>7, TextSorts
    <3>2. a.ctr < Power[Width]
      BY <2>1, <2>3 DEF Fits
    <3>3. Text(a.ctr) \in Seq(Int) /\ Text(b.ctr) \in Seq(Int)
      BY <2>4, <2>5, <3>2, TextIsSeq
    <3>4. ~TextBelow(Text(b.ctr), Text(a.ctr))
      BY <3>1, <3>3, TextBelowOneWay
    <3>5. QED BY <2>1, <2>5, <2>7, <3>4 DEF SortsBelow
  <2>8. QED BY <2>4, <2>6, <2>7 DEF Rises
<1> QED BY InitHolds, StepKeeps, HLCAssumption, <1>1, <1>2, <1>3, PTL DEF ClockSpec
=============================================================================
