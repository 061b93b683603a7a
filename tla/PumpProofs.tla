------------------------------ MODULE PumpProofs ------------------------------
(***************************************************************************)
(* Proofs about the pump loop, for any threads, reactors, nesting of ticks  *)
(* and number of runners (so also when a join timed out and two runners     *)
(* live): while a provider pumps, its _outbound is the carrier, and         *)
(* afterwards it is what it was.                                            *)
(***************************************************************************)
EXTENDS PumpLoop, TLAPS

Frame == [at : 1..(NReactors + 1), pumping : BOOLEAN, saved : BOOLEAN]
Place == {"idle", "clear", "make", "go", "grab", "join", "forget", "resolve", "look",
          "check", "enter", "wait", "end"}

LoopTypes ==
  /\ stack \in [Thread -> Seq(Frame)]
  /\ outbound \in [Reactor -> BOOLEAN]
  /\ pc \in [Thread -> Place]

\* A tick is under way only in the thread that holds _pumping, and a caller
\* between two calls of tick() has none under way.
Owned ==
  /\ \A t \in Thread : Depth(t) > 0 => owner = t
  /\ \A c \in Control : pc[c] # "look" => Depth(c) = 0

\* A tick within a tick was entered from a pump; a pump knows whether an outer
\* tick of its thread is pumping the same reactor.
FramesOf(s) ==
  \A k \in 1..Len(s) :
    /\ k < Len(s) => s[k].pumping
    /\ s[k].pumping =>
         /\ s[k].at \in Reactor
         /\ s[k].saved <=> \E j \in 1..(k - 1) : s[j].at = s[k].at
Frames == \A t \in Thread : FramesOf(stack[t])

\* Whether a thread with these ticks is inside reactor x's pump.
Pumps(s, x) == \E k \in 1..Len(s) : s[k].at = x /\ s[k].pumping

Outbound == \A x \in Reactor : outbound[x] <=> \E t \in Thread : Pumps(stack[t], x)

IInv == LoopTypes /\ Owned /\ Frames /\ Outbound

-----------------------------------------------------------------------------
(* What a tick does to its thread's frames.                                 *)

\* q is s with its last frame replaced by f.
Replaced(s, q, f) ==
  /\ q \in Seq(Frame) /\ Len(q) = Len(s) /\ q[Len(s)] = f
  /\ \A k \in 1..(Len(s) - 1) : q[k] = s[k]

\* Replacing or dropping the last element of a sequence leaves those before it.
LEMMA LastReplaced ==
  ASSUME NEW s \in Seq(Frame), Len(s) > 0, NEW f \in Frame,
         NEW q, q = [s EXCEPT ![Len(s)] = f]
  PROVE  Replaced(s, q, f)
<1>1. Len(s) \in Nat /\ Len(s) \in 1..Len(s)
  OBVIOUS
<1>2. q \in Seq(Frame) /\ Len(q) = Len(s)
  OBVIOUS
<1>3. q[Len(s)] = f
  BY <1>1
<1>4. \A k \in 1..(Len(s) - 1) : q[k] = s[k]
  BY <1>1
<1>5. QED BY <1>2, <1>3, <1>4 DEF Replaced

LEMMA LastDropped ==
  ASSUME NEW s \in Seq(Frame), Len(s) > 0, NEW q, q = SubSeq(s, 1, Len(s) - 1)
  PROVE  /\ q \in Seq(Frame) /\ Len(q) = Len(s) - 1
         /\ \A k \in 1..(Len(s) - 1) : q[k] = s[k]
<1>1. PICK n \in Nat : n = Len(s) - 1 /\ Len(s) = n + 1
  OBVIOUS
<1>2. q = SubSeq(s, 1, n) /\ \A k \in 1..n : s[k] \in Frame
  BY <1>1
<1>3. Len(q) = n
  BY <1>1, <1>2
<1>4. \A k \in 1..n : q[k] = s[k]
  BY <1>1, <1>2
<1>5. q \in Seq(Frame)
  BY <1>1, <1>2
<1>6. QED BY <1>1, <1>3, <1>4, <1>5

\* A tick begins, at top level or inside a pump: nothing pumps that did not.
LEMMA PushFrame ==
  ASSUME NEW s \in Seq(Frame), FramesOf(s), Len(s) > 0 => s[Len(s)].pumping,
         NEW q, q = Append(s, [at |-> 1, pumping |-> FALSE, saved |-> FALSE])
  PROVE  q \in Seq(Frame) /\ FramesOf(q) /\ \A x : Pumps(q, x) <=> Pumps(s, x)
<1> DEFINE f == [at |-> 1, pumping |-> FALSE, saved |-> FALSE]
<1>1. f \in Frame /\ ~f.pumping
  BY PumpLoopAssumption DEF Frame
<1> HIDE DEF f
<1>2. q \in Seq(Frame) /\ Len(q) = Len(s) + 1 /\ Len(s) \in Nat
      /\ q[Len(q)] = f /\ \A k \in 1..Len(s) : q[k] = s[k]
  BY <1>1 DEF f
<1>3. FramesOf(q)
  BY <1>1, <1>2 DEF FramesOf
<1>4. \A x : Pumps(q, x) <=> Pumps(s, x)
  BY <1>1, <1>2 DEF Pumps
<1>5. QED BY <1>2, <1>3, <1>4

\* A pump begins: it notes whether its reactor was being pumped, and pumps it.
Begun(s, q, at) ==
  /\ q \in Seq(Frame) /\ FramesOf(q)
  /\ \A x : Pumps(q, x) <=> Pumps(s, x) \/ x = at

LEMMA BeginFrame ==
  ASSUME NEW s \in Seq(Frame), FramesOf(s), Len(s) > 0,
         ~s[Len(s)].pumping, NEW f \in Frame,
         f.pumping, f.at = s[Len(s)].at, f.at \in Reactor, f.saved <=> Pumps(s, f.at),
         NEW q, Replaced(s, q, f)
  PROVE  Begun(s, q, f.at)
<1>1. PICK n \in Nat : n = Len(s) /\ n > 0
  OBVIOUS
<1>2. q \in Seq(Frame) /\ Len(q) = n /\ q[n] = f /\ \A k \in 1..(n - 1) : q[k] = s[k]
  BY <1>1 DEF Replaced
<1>3. \A k \in 1..(n - 1) : s[k].pumping
  BY <1>1 DEF FramesOf
<1>4. Pumps(s, f.at) <=> \E j \in 1..(n - 1) : q[j].at = f.at
  BY <1>1, <1>2, <1>3 DEF Pumps
<1>5. FramesOf(q)
  <2>1. ASSUME NEW k \in 1..n
        PROVE  /\ k < n => q[k].pumping
               /\ q[k].pumping =>
                    /\ q[k].at \in Reactor
                    /\ q[k].saved <=> \E j \in 1..(k - 1) : q[j].at = q[k].at
    <3>1. CASE k = n
      <4>1. q[k] = f /\ ~(k < n) /\ k - 1 = n - 1
        BY <1>1, <1>2, <3>1
      <4>2. f.saved <=> \E j \in 1..(n - 1) : q[j].at = f.at
        BY <1>4
      <4>3. QED BY <4>1, <4>2
    <3>2. CASE k # n
      <4>1. q[k] = s[k] /\ k < n /\ k \in 1..Len(s) /\ \A j \in 1..(k - 1) : q[j] = s[j]
        <5>1. k < n /\ k \in 1..(n - 1) /\ 1..(k - 1) \subseteq 1..(n - 1)
          BY <1>1, <3>2
        <5>2. QED BY <1>1, <1>2, <5>1
      <4>2. QED BY <1>1, <4>1 DEF FramesOf
    <3>3. QED BY <3>1, <3>2
  <2>2. QED BY <1>2, <2>1 DEF FramesOf
<1>6. \A x : Pumps(q, x) <=> Pumps(s, x) \/ x = f.at
  <2>1. q[n].pumping /\ q[n].at = f.at /\ ~s[n].pumping
    BY <1>1, <1>2
  <2>2. Len(s) = n /\ Len(q) = n /\ \A k \in 1..n : k # n => k \in 1..(n - 1) /\ q[k] = s[k]
    BY <1>1, <1>2
  <2>3. ASSUME NEW x, Pumps(q, x) PROVE Pumps(s, x) \/ x = f.at
    BY <2>1, <2>2, <2>3 DEF Pumps
  <2>4. ASSUME NEW x, Pumps(s, x) PROVE Pumps(q, x)
    BY <2>1, <2>2, <2>4 DEF Pumps
  <2>5. Pumps(q, f.at)
    BY <1>1, <2>1, <2>2 DEF Pumps
  <2>6. QED BY <2>3, <2>4, <2>5
<1>7. QED BY <1>2, <1>5, <1>6 DEF Begun

\* A pump ends: its reactor is pumped by this thread if an outer tick's pump
\* is of that reactor, and the next reactor's turn comes.
Ended(s, q, top) ==
  /\ q \in Seq(Frame) /\ FramesOf(q)
  /\ \A x : Pumps(q, x) <=> IF x = top.at THEN top.saved ELSE Pumps(s, x)

LEMMA EndFrame ==
  ASSUME NEW s \in Seq(Frame), FramesOf(s), Len(s) > 0, NEW top \in Frame, top = s[Len(s)],
         top.pumping, NEW f \in Frame, ~f.pumping, NEW q, Replaced(s, q, f)
  PROVE  Ended(s, q, top)
<1>1. PICK n \in Nat : n = Len(s) /\ n > 0
  OBVIOUS
<1>2. q \in Seq(Frame) /\ Len(q) = n /\ q[n] = f /\ \A k \in 1..(n - 1) : q[k] = s[k]
  BY <1>1 DEF Replaced
<1>3. \A k \in 1..(n - 1) : s[k].pumping
  BY <1>1 DEF FramesOf
<1>4. top.saved <=> \E j \in 1..(n - 1) : s[j].at = top.at
  BY <1>1 DEF FramesOf
<1>5. FramesOf(q)
  <2>1. ASSUME NEW k \in 1..n
        PROVE  /\ k < n => q[k].pumping
               /\ q[k].pumping =>
                    /\ q[k].at \in Reactor
                    /\ q[k].saved <=> \E j \in 1..(k - 1) : q[j].at = q[k].at
    <3>1. CASE k = n
      BY <1>1, <1>2, <3>1
    <3>2. CASE k # n
      <4>1. q[k] = s[k] /\ k < n /\ k \in 1..Len(s) /\ \A j \in 1..(k - 1) : q[j] = s[j]
        <5>1. k < n /\ k \in 1..(n - 1) /\ 1..(k - 1) \subseteq 1..(n - 1)
          BY <1>1, <3>2
        <5>2. QED BY <1>1, <1>2, <5>1
      <4>2. QED BY <1>1, <4>1 DEF FramesOf
    <3>3. QED BY <3>1, <3>2
  <2>2. QED BY <1>2, <2>1 DEF FramesOf
<1>6. ASSUME NEW x PROVE Pumps(q, x) <=> IF x = top.at THEN top.saved ELSE Pumps(s, x)
  <2>1. Pumps(q, x) <=> \E k \in 1..(n - 1) : s[k].at = x
    BY <1>1, <1>2, <1>3 DEF Pumps
  <2>2. x # top.at => (Pumps(s, x) <=> \E k \in 1..(n - 1) : s[k].at = x)
    BY <1>1, <1>3 DEF Pumps
  <2>3. QED BY <1>4, <2>1, <2>2
<1>7. QED BY <1>2, <1>5, <1>6 DEF Ended

\* A pass is over: its frame was past the last reactor and pumped none.
LEMMA PopFrame ==
  ASSUME NEW s \in Seq(Frame), FramesOf(s), Len(s) > 0, s[Len(s)].at = NReactors + 1,
         NEW q, q = SubSeq(s, 1, Len(s) - 1)
  PROVE  /\ q \in Seq(Frame) /\ Len(q) = Len(s) - 1 /\ FramesOf(q)
         /\ \A x : Pumps(q, x) <=> Pumps(s, x)
<1>1. /\ Len(s) \in Nat /\ q \in Seq(Frame) /\ Len(q) = Len(s) - 1
      /\ \A k \in 1..(Len(s) - 1) : q[k] = s[k]
  <2>1. Len(s) \in Nat
    OBVIOUS
  <2>2. QED BY <2>1, LastDropped
<1>2. ~s[Len(s)].pumping
  BY <1>1, PumpLoopAssumption DEF FramesOf, Reactor
<1>3. FramesOf(q)
  <2> SUFFICES ASSUME NEW k \in 1..Len(q)
      PROVE  /\ k < Len(q) => q[k].pumping
             /\ q[k].pumping =>
                  /\ q[k].at \in Reactor
                  /\ q[k].saved <=> \E j \in 1..(k - 1) : q[j].at = q[k].at
    BY DEF FramesOf
  <2>1. \A j \in 1..(k - 1) : q[j] = s[j]
    BY <1>1
  <2>2. k \in 1..Len(s) /\ q[k] = s[k] /\ k < Len(s)
    BY <1>1
  <2>3. QED BY <1>1, <2>1, <2>2 DEF FramesOf
<1>4. \A x : Pumps(q, x) <=> Pumps(s, x)
  BY <1>1, <1>2 DEF Pumps
<1>5. QED BY <1>1, <1>3, <1>4

-----------------------------------------------------------------------------
(* The steps.                                                              *)

LEMMA InitHolds == Init => IInv
<1> SUFFICES ASSUME Init PROVE IInv
  OBVIOUS
<1>1. LoopTypes
  BY DEF Init, LoopTypes, Place
<1>2. \A t \in Thread : stack[t] = <<>> /\ Len(stack[t]) = 0
  BY DEF Init
<1>3. Owned /\ Frames /\ Outbound
  BY <1>2 DEF Init, Owned, Frames, FramesOf, Outbound, Pumps, Depth, Thread
<1>4. QED BY <1>1, <1>3 DEF IInv

\* Only the holder of _pumping has ticks, so only it pumps.
LEMMA OnlyHolder ==
  ASSUME IInv, NEW t \in Thread, owner = t \/ owner = Nobody
  PROVE  /\ \A u \in Thread \ {t} : stack[u] = <<>> /\ \A x : ~Pumps(stack[u], x)
         /\ \A x \in Reactor : outbound[x] <=> Pumps(stack[t], x)
<1>1. Nobody \notin Thread
  BY PumpLoopAssumption DEF Thread, Runner
<1>2. ASSUME NEW u \in Thread \ {t} PROVE stack[u] = <<>> /\ \A x : ~Pumps(stack[u], x)
  <2>1. stack[u] \in Seq(Frame) /\ ~(Len(stack[u]) > 0)
    BY <1>1 DEF IInv, LoopTypes, Owned, Depth
  <2>2. QED BY <2>1 DEF Pumps
<1>3. QED BY <1>2 DEF IInv, Outbound

\* A step of t's ticks that keeps its frames in order and outbound in step.
LEMMA TickKeeps ==
  ASSUME IInv, NEW t \in Thread, owner = t \/ owner = Nobody,
         owner' = t \/ (owner' = Nobody /\ stack'[t] = <<>>),
         NEW q \in Seq(Frame), stack' = [stack EXCEPT ![t] = q], FramesOf(q),
         outbound' \in [Reactor -> BOOLEAN],
         \A x \in Reactor : outbound'[x] <=> Pumps(q, x),
         pc' \in [Thread -> Place], \A u \in Thread \ {t} : pc'[u] = pc[u],
         t \in Control => pc'[t] = "look" \/ q = <<>>
  PROVE  IInv'
<1>1. \A u \in Thread : stack'[u] = IF u = t THEN q ELSE stack[u]
  BY DEF IInv, LoopTypes
<1>2. LoopTypes'
  BY DEF IInv, LoopTypes
<1>3. \A u \in Thread \ {t} : stack'[u] = <<>> /\ \A x : ~Pumps(stack'[u], x)
  BY <1>1, OnlyHolder
<1>4. Owned'
  <2>1. ASSUME NEW u \in Thread, Depth(u)' > 0 PROVE owner' = u
    BY <1>1, <1>3, <2>1 DEF Depth
  <2>2. ASSUME NEW c \in Control, pc'[c] # "look" PROVE Depth(c)' = 0
    <3>1. c \in Thread
      BY DEF Thread
    <3>2. QED BY <1>1, <1>3, <2>2, <3>1 DEF Depth
  <2>3. QED BY <2>1, <2>2 DEF Owned
<1>5. Frames'
  <2>1. ASSUME NEW u \in Thread PROVE FramesOf(stack'[u])
    BY <1>1 DEF IInv, Frames
  <2>2. QED BY <2>1 DEF Frames
<1>6. Outbound'
  <2>1. ASSUME NEW x \in Reactor
        PROVE  outbound'[x] <=> \E u \in Thread : Pumps(stack'[u], x)
    BY <1>1, <1>3
  <2>2. QED BY <2>1 DEF Outbound
<1>7. QED BY <1>2, <1>4, <1>5, <1>6 DEF IInv

\* A step outside any tick.
LEMMA OutsideKeeps ==
  ASSUME IInv, UNCHANGED <<owner, stack, outbound>>, pc' \in [Thread -> Place],
         \A c \in Control : pc[c] = "look" => pc'[c] = "look" \/ Depth(c) = 0
  PROVE  IInv'
BY DEF IInv, LoopTypes, Owned, Frames, Outbound, Depth, Thread

LEMMA EnterKeeps ==
  ASSUME IInv, NEW t \in Thread, EnterTick(t), UNCHANGED outbound,
         Depth(t) > 0 => Top(t).pumping,
         pc' \in [Thread -> Place], \A u \in Thread \ {t} : pc'[u] = pc[u],
         t \in Control => pc'[t] = "look"
  PROVE  IInv'
<1> DEFINE q == Append(stack[t], [at |-> 1, pumping |-> FALSE, saved |-> FALSE])
<1>1. /\ stack[t] \in Seq(Frame) /\ FramesOf(stack[t])
      /\ Len(stack[t]) > 0 => stack[t][Len(stack[t])].pumping
  BY DEF IInv, LoopTypes, Frames, Depth, Top
<1>2. q \in Seq(Frame) /\ FramesOf(q) /\ \A x : Pumps(q, x) <=> Pumps(stack[t], x)
  BY <1>1, PushFrame
<1>3. stack' = [stack EXCEPT ![t] = q] /\ owner' = t /\ (owner = t \/ owner = Nobody)
  BY DEF EnterTick
<1> HIDE DEF q
<1>4. \A x \in Reactor : outbound'[x] <=> Pumps(q, x)
  BY <1>2, <1>3, OnlyHolder
<1>5. outbound' \in [Reactor -> BOOLEAN]
  BY DEF IInv, LoopTypes
<1>6. QED BY <1>2, <1>3, <1>4, <1>5, TickKeeps

\* A thread in a tick holds _pumping; an application thread in one is
\* between tick() and the look at its evidence.
LEMMA InTickFacts ==
  ASSUME IInv, NEW t \in Thread, Depth(t) > 0
  PROVE  /\ owner = t /\ stack[t] \in Seq(Frame) /\ FramesOf(stack[t]) /\ Len(stack[t]) > 0
         /\ t \in Control => pc[t] = "look"
         /\ Top(t) = stack[t][Len(stack[t])]
BY DEF IInv, LoopTypes, Owned, Frames, Depth, Top

LEMMA BeginPumpKeeps ==
  ASSUME IInv, NEW t \in Thread, BeginPump(t)
  PROVE  IInv'
<1>1. PICK s \in Seq(Frame) : s = stack[t] /\ FramesOf(s) /\ Len(s) > 0
  BY InTickFacts DEF BeginPump
<1>2. PICK top \in Frame : top = s[Len(s)] /\ top = Top(t)
  <2>1. s[Len(s)] \in Frame
    BY <1>1
  <2>2. QED BY <1>1, <2>1, InTickFacts DEF BeginPump
<1>3. /\ owner = t /\ (t \in Control => pc[t] = "look")
      /\ ~top.pumping /\ top.at \in Reactor /\ owner' = owner /\ pc' = pc
      /\ outbound' = [outbound EXCEPT ![top.at] = TRUE]
  BY <1>2, InTickFacts DEF BeginPump
<1>4. outbound \in [Reactor -> BOOLEAN] /\ \A x \in Reactor : outbound[x] <=> Pumps(s, x)
  BY <1>1, <1>3, OnlyHolder DEF IInv, LoopTypes
<1>5. PICK f \in Frame : /\ f = [top EXCEPT !.pumping = TRUE, !.saved = outbound[top.at]]
                         /\ f.pumping /\ f.at = top.at /\ f.saved = outbound[top.at]
  <2>1. outbound[top.at] \in BOOLEAN
    BY <1>3, <1>4
  <2>2. PICK b \in BOOLEAN : b = outbound[top.at]
    BY <2>1
  <2>3. [top EXCEPT !.pumping = TRUE, !.saved = b] \in Frame
    BY DEF Frame
  <2>4. PICK g \in Frame : g = [top EXCEPT !.pumping = TRUE, !.saved = b]
    BY <2>3
  <2>5. g.pumping /\ g.at = top.at /\ g.saved = b
    BY <2>4 DEF Frame
  <2>6. QED BY <2>2, <2>4, <2>5
<1>6. PICK q : q = [s EXCEPT ![Len(s)] = f]
  OBVIOUS
<1>7. stack' = [stack EXCEPT ![t] = q]
  <2>1. stack' = [stack EXCEPT ![t][Len(s)] = f]
    BY <1>1, <1>2, <1>5 DEF BeginPump, SetTop, Depth
  <2>2. QED BY <1>1, <1>6, <2>1
<1>8. Replaced(s, q, f)
  BY <1>1, <1>6, LastReplaced
<1>9. ~s[Len(s)].pumping /\ f.at = s[Len(s)].at /\ f.at \in Reactor /\ (f.saved <=> Pumps(s, f.at))
  BY <1>2, <1>3, <1>4, <1>5
<1>10. Begun(s, q, top.at)
  <2>1. Begun(s, q, f.at)
    BY <1>1, <1>5, <1>8, <1>9, BeginFrame
  <2>2. QED BY <1>5, <2>1
<1>11. outbound' \in [Reactor -> BOOLEAN] /\ \A x \in Reactor : outbound'[x] <=> Pumps(q, x)
  BY <1>3, <1>4, <1>10 DEF Begun
<1>12. pc' \in [Thread -> Place] /\ \A u \in Thread \ {t} : pc'[u] = pc[u]
  BY <1>3 DEF IInv, LoopTypes
<1>13. QED BY <1>3, <1>7, <1>10, <1>11, <1>12, TickKeeps DEF Begun

LEMMA EndPumpKeeps ==
  ASSUME IInv, NEW t \in Thread, EndPump(t)
  PROVE  IInv'
<1>1. PICK s \in Seq(Frame) : s = stack[t] /\ FramesOf(s) /\ Len(s) > 0
  BY InTickFacts DEF EndPump
<1>2. PICK top \in Frame : top = s[Len(s)] /\ top = Top(t)
  <2>1. s[Len(s)] \in Frame
    BY <1>1
  <2>2. QED BY <1>1, <2>1, InTickFacts DEF EndPump
<1>3. /\ owner = t /\ (t \in Control => pc[t] = "look")
      /\ top.pumping /\ owner' = owner /\ pc' = pc
      /\ outbound' = [outbound EXCEPT ![top.at] = top.saved]
  BY <1>2, InTickFacts DEF EndPump
<1>4. top.at \in Reactor /\ top.saved \in BOOLEAN
  <2>1. Len(s) \in 1..Len(s)
    BY <1>1
  <2>2. QED BY <1>1, <1>2, <1>3, <2>1 DEF FramesOf, Frame
<1>5. PICK f \in Frame : f = [at |-> top.at + 1, pumping |-> FALSE, saved |-> FALSE] /\ ~f.pumping
  <2>1. top.at + 1 \in 1..(NReactors + 1)
    BY <1>4, PumpLoopAssumption DEF Reactor
  <2>2. [at |-> top.at + 1, pumping |-> FALSE, saved |-> FALSE] \in Frame
    BY <2>1 DEF Frame
  <2>3. QED BY <2>2
<1>6. PICK q : q = [s EXCEPT ![Len(s)] = f]
  OBVIOUS
<1>7. stack' = [stack EXCEPT ![t] = q]
  <2>1. stack' = [stack EXCEPT ![t][Len(s)] = f]
    BY <1>1, <1>2, <1>5 DEF EndPump, SetTop, Depth
  <2>2. QED BY <1>1, <1>6, <2>1
<1>8. Replaced(s, q, f)
  BY <1>1, <1>6, LastReplaced
<1>9. Ended(s, q, top)
  BY <1>1, <1>2, <1>3, <1>5, <1>8, EndFrame
<1>10. outbound' \in [Reactor -> BOOLEAN] /\ \A x \in Reactor : outbound'[x] <=> Pumps(q, x)
  <2>1. outbound \in [Reactor -> BOOLEAN] /\ \A x \in Reactor : outbound[x] <=> Pumps(s, x)
    BY <1>1, <1>3, OnlyHolder DEF IInv, LoopTypes
  <2>2. QED BY <1>3, <1>4, <1>9, <2>1 DEF Ended
<1>11. pc' \in [Thread -> Place] /\ \A u \in Thread \ {t} : pc'[u] = pc[u]
  BY <1>3 DEF IInv, LoopTypes
<1>12. QED BY <1>3, <1>7, <1>9, <1>10, <1>11, TickKeeps DEF Ended

LEMMA ExitTickKeeps ==
  ASSUME IInv, NEW t \in Thread, ExitTick(t)
  PROVE  IInv'
<1>1. PICK s \in Seq(Frame) : s = stack[t] /\ FramesOf(s) /\ Len(s) > 0
  BY InTickFacts DEF ExitTick
<1>2. PICK q : q = SubSeq(s, 1, Len(s) - 1)
  OBVIOUS
<1>3. /\ owner = t /\ (t \in Control => pc[t] = "look") /\ pc' = pc /\ outbound' = outbound
      /\ s[Len(s)].at = NReactors + 1
      /\ stack' = [stack EXCEPT ![t] = q]
      /\ owner' = IF Len(s) = 1 THEN Nobody ELSE owner
  BY <1>1, <1>2, InTickFacts DEF ExitTick, Depth, Top
<1>4. /\ q \in Seq(Frame) /\ Len(q) = Len(s) - 1 /\ FramesOf(q)
      /\ \A x : Pumps(q, x) <=> Pumps(s, x)
  <2>1. FramesOf(s) /\ Len(s) > 0 /\ s[Len(s)].at = NReactors + 1
    BY <1>1, <1>3
  <2>2. QED BY <1>2, <2>1, PopFrame
<1>5. Len(s) = 1 => stack'[t] = <<>>
  BY <1>3, <1>4 DEF IInv, LoopTypes
<1>6. outbound' \in [Reactor -> BOOLEAN] /\ \A x \in Reactor : outbound'[x] <=> Pumps(q, x)
  BY <1>1, <1>3, <1>4, OnlyHolder DEF IInv, LoopTypes
<1>7. pc' \in [Thread -> Place] /\ \A u \in Thread \ {t} : pc'[u] = pc[u]
  BY <1>3 DEF IInv, LoopTypes
<1>8. QED BY <1>3, <1>4, <1>5, <1>6, <1>7, TickKeeps

\* The steps that begin a tick: from inside a pump, from the runner's loop and
\* from resolve().
LEMMA EnteringKeeps ==
  ASSUME IInv, NEW t \in Thread,
         \/ NestTick(t)
         \/ t \in Runner /\ Depth(t) = 0 /\ RunnerTick(t)
         \/ t \in Control /\ ResolveTick(t)
  PROVE  IInv'
<1>1. pc \in [Thread -> Place] /\ Depth(t) \in Nat
  BY DEF IInv, LoopTypes, Depth
<1>2. CASE NestTick(t)
  <2>1. Depth(t) > 0 /\ Top(t).pumping /\ EnterTick(t) /\ pc' = pc /\ outbound' = outbound
    BY <1>1, <1>2 DEF NestTick
  <2>2. t \in Control => pc'[t] = "look"
    BY <2>1, InTickFacts
  <2>3. QED BY <1>1, <2>1, <2>2, EnterKeeps
<1>3. CASE t \in Runner /\ Depth(t) = 0 /\ RunnerTick(t)
  <2>1. /\ EnterTick(t) /\ outbound' = outbound /\ pc' = [pc EXCEPT ![t] = "wait"]
        /\ t \notin Control
    BY <1>3, PumpLoopAssumption DEF RunnerTick, Goto, Runner
  <2>2. pc' \in [Thread -> Place] /\ \A u \in Thread \ {t} : pc'[u] = pc[u]
    BY <1>1, <2>1 DEF Place
  <2>3. QED BY <1>3, <2>1, <2>2, EnterKeeps
<1>4. CASE t \in Control /\ ResolveTick(t)
  <2>1. /\ EnterTick(t) /\ outbound' = outbound /\ pc' = [pc EXCEPT ![t] = "look"]
        /\ pc[t] = "resolve"
    BY <1>4 DEF ResolveTick, Goto
  <2>2. /\ pc' \in [Thread -> Place] /\ \A u \in Thread \ {t} : pc'[u] = pc[u]
        /\ pc'[t] = "look"
    BY <1>1, <2>1 DEF Place
  <2>3. Depth(t) = 0
    BY <1>4, <2>1 DEF IInv, Owned
  <2>4. QED BY <2>1, <2>2, <2>3, EnterKeeps
<1>5. QED BY <1>2, <1>3, <1>4

\* The runner's other steps and the control methods' leave every tick alone.
LEMMA OutsideSteps ==
  ASSUME IInv, NEW t \in Thread,
         \/ t \in Runner /\ Depth(t) = 0 /\ (CheckStop(t) \/ Wait(t))
         \/ t \in Control /\ (Call(t) \/ Continue(t))
  PROVE  IInv'
<1>1. pc \in [Thread -> Place]
  BY DEF IInv, LoopTypes
<1>2. UNCHANGED <<owner, stack, outbound>>
  BY DEF CheckStop, Wait, Call, CallStart, CallStop, CallResolve, Continue, ClearStop,
         MakeThread, StartThread, TakeThread, Join, JoinRaises, ForgetThread, Look, loopVars
<1>3. (\E p \in Place : pc' = [pc EXCEPT ![t] = p]) /\ (pc[t] = "look" => Depth(t) = 0)
  <2>1. CASE t \in Runner /\ Depth(t) = 0 /\ (CheckStop(t) \/ Wait(t))
    BY <2>1 DEF CheckStop, Wait, Goto, Place
  <2>2. CASE t \in Control /\ Call(t)
    BY <2>2 DEF Call, CallStart, CallStop, CallResolve, Goto, Place
  <2>3. CASE t \in Control /\ Continue(t)
    <3>1. CASE \E found \in BOOLEAN : Look(t, found)
      BY <3>1 DEF Look, Goto, Place
    <3>2. CASE ClearStop(t) \/ MakeThread(t) \/ StartThread(t) \/ TakeThread(t) \/ Join(t)
                 \/ JoinRaises(t) \/ ForgetThread(t)
      BY <3>2 DEF ClearStop, MakeThread, StartThread, TakeThread, Join, JoinRaises, ForgetThread,
                  Goto, Place
    <3>3. QED BY <2>3, <3>1, <3>2 DEF Continue
  <2>4. QED BY <2>1, <2>2, <2>3
<1>4. /\ pc' \in [Thread -> Place]
      /\ \A c \in Control : pc[c] = "look" => pc'[c] = "look" \/ Depth(c) = 0
  BY <1>1, <1>3 DEF Thread
<1>5. QED BY <1>2, <1>4, OutsideKeeps

LEMMA StutterKeeps == IInv /\ UNCHANGED vars => IInv'
BY DEF IInv, LoopTypes, Owned, Frames, FramesOf, Outbound, Pumps, Depth, vars

LEMMA NextKeeps == IInv /\ Next => IInv'
<1> SUFFICES ASSUME IInv, Next PROVE IInv'
  OBVIOUS
<1>1. ASSUME NEW t \in Thread, Inside(t) PROVE IInv'
  BY <1>1, BeginPumpKeeps, EndPumpKeeps, ExitTickKeeps, EnteringKeeps DEF Inside, InTick
<1>2. ASSUME NEW r \in Runner, Run(r) PROVE IInv'
  <2>1. r \in Thread
    BY DEF Thread
  <2>2. QED BY <1>2, <2>1, EnteringKeeps, OutsideSteps DEF Run
<1>3. ASSUME NEW c \in Control, Call(c) \/ Continue(c) \/ ResolveTick(c) PROVE IInv'
  <2>1. c \in Thread
    BY DEF Thread
  <2>2. QED BY <1>3, <2>1, EnteringKeeps, OutsideSteps
<1>4. QED BY <1>1, <1>2, <1>3 DEF Next

\* The invariant that carries the result.
THEOREM PumpInvariant == Spec => []IInv
<1>1. IInv /\ [Next]_vars => IInv'
  BY NextKeeps, StutterKeeps
<1>2. QED BY InitHolds, <1>1, PTL DEF Spec

\* Provider.pump's try/finally under the reentrant _pumping: however threads
\* interleave and handlers drive the loop from inside their own pump, a
\* provider's _outbound is the carrier exactly while some thread is in its
\* pump, so no handler's evidence is dropped and no pump leaves the carrier
\* behind.
THEOREM OutboundAlwaysHolds == Spec => []OutboundHolds
<1>1. IInv => OutboundHolds
  BY DEF IInv, Outbound, Pumps, OutboundHolds, Depth
<1>2. QED BY PumpInvariant, <1>1, PTL
=============================================================================
