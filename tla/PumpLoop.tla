------------------------------- MODULE PumpLoop -------------------------------
(***************************************************************************)
(* The cadence that drives reactors over a carrier (prism/pump.py): tick()  *)
(* under _pumping, the background runner with start() and stop(), and       *)
(* resolve(), which ticks on its caller's thread.  Of a reactor only its    *)
(* provider's _outbound is kept (prism/reach.py, Provider.pump): saved and  *)
(* pointed at the carrier for the length of a pump, and put back.           *)
(*                                                                         *)
(* Control threads belong to the application; start() makes runner threads. *)
(* Any thread may be suspended between two steps.                           *)
(***************************************************************************)
EXTENDS Naturals, Sequences, FiniteSets

CONSTANTS
  Control,     \* application threads
  NReactors,   \* reactors registered with the loop, driven in this order
  MaxTicks,    \* resolve()'s max_ticks
  MaxDepth,    \* bound: ticks nested in each other through handlers
  JoinTimesOut,\* whether a join may run into its timeout
  MaxRunners,  \* bound: threads start() makes
  Nobody       \* no thread: _thread is None, _pumping is free

ASSUME PumpLoopAssumption ==
  /\ NReactors \in Nat \ {0} /\ MaxTicks \in Nat \ {0}
  /\ MaxDepth \in Nat \ {0} /\ MaxRunners \in Nat
  /\ JoinTimesOut \in BOOLEAN
  /\ Nobody \notin Control \cup 1..MaxRunners
  /\ Control \cap 1..MaxRunners = {}

Runner  == 1..MaxRunners
Thread  == Control \cup Runner
Reactor == 1..NReactors

VARIABLES
  stop,      \* the _stop event
  thread,    \* _thread: the runner start() last made, or Nobody
  life,      \* life[r]: "unborn", "made" (not started), "alive" or "dead"
  pc,        \* pc[t]: where thread t is in its method
  mine,      \* mine[c]: the thread start() made or stop() joins
  ticks,     \* ticks[c]: passes resolve() has driven
  owner,     \* the thread holding _pumping
  stack,     \* stack[t]: t's ticks, innermost last, each [at: the reactor that is
             \* next or whose pump runs, pumping, saved: the _outbound to put back]
  outbound   \* outbound[x]: Provider._outbound of reactor x is the carrier

vars == <<stop, thread, life, pc, mine, ticks, owner, stack, outbound>>
loopVars == <<stop, thread, life, mine>>

Init ==
  /\ stop = FALSE /\ thread = Nobody
  /\ life = [r \in Runner |-> "unborn"]
  /\ pc = [t \in Thread |-> IF t \in Control THEN "idle" ELSE "check"]
  /\ mine = [c \in Control |-> Nobody]
  /\ ticks = [c \in Control |-> 0]
  /\ owner = Nobody
  /\ stack = [t \in Thread |-> <<>>]
  /\ outbound = [x \in Reactor |-> FALSE]

Goto(t, from, to) == pc[t] = from /\ pc' = [pc EXCEPT ![t] = to]

-----------------------------------------------------------------------------
(* tick(): one pass over the reactors.                                     *)

Depth(t) == Len(stack[t])
Top(t)   == stack[t][Depth(t)]
SetTop(t, frame) == stack' = [stack EXCEPT ![t][Depth(t)] = frame]

\* Mutant: a tick does not wait for _pumping.
MutEnterAnyway(t) ==
  /\ owner' = t
  /\ stack' = [stack EXCEPT ![t] = Append(@, [at |-> 1, pumping |-> FALSE, saved |-> FALSE])]

\* Begin a pass: _pumping is free, or t holds it already (it is reentrant).
EnterTick(t) ==
  /\ owner \in {Nobody, t}
  /\ owner' = t
  /\ stack' = [stack EXCEPT ![t] = Append(@, [at |-> 1, pumping |-> FALSE, saved |-> FALSE])]

\* Reactor.pump -> Provider.pump: save _outbound and point it at the carrier.
BeginPump(t) ==
  /\ Depth(t) > 0 /\ ~Top(t).pumping /\ Top(t).at \in Reactor
  /\ SetTop(t, [Top(t) EXCEPT !.pumping = TRUE, !.saved = outbound[Top(t).at]])
  /\ outbound' = [outbound EXCEPT ![Top(t).at] = TRUE]
  /\ UNCHANGED <<loopVars, pc, ticks, owner>>

\* A handler reaches again and drives the loop from inside its own pump.
NestTick(t) ==
  /\ Depth(t) \in 1..(MaxDepth - 1) /\ Top(t).pumping
  /\ EnterTick(t)
  /\ UNCHANGED <<loopVars, pc, ticks, outbound>>

\* The pump ends, by return or by an exception tick() swallows: `finally`
\* puts _outbound back, and the next reactor's turn comes.
EndPump(t) ==
  /\ Depth(t) > 0 /\ Top(t).pumping
  /\ SetTop(t, [at |-> Top(t).at + 1, pumping |-> FALSE, saved |-> FALSE])
  /\ outbound' = [outbound EXCEPT ![Top(t).at] = Top(t).saved]
  /\ UNCHANGED <<loopVars, pc, ticks, owner>>

\* The pass is over: _pumping is released with the outermost tick.
ExitTick(t) ==
  /\ Depth(t) > 0 /\ Top(t).at = NReactors + 1
  /\ stack' = [stack EXCEPT ![t] = SubSeq(@, 1, Depth(t) - 1)]
  /\ owner' = IF Depth(t) = 1 THEN Nobody ELSE owner
  /\ UNCHANGED <<loopVars, pc, ticks, outbound>>

InTick(t) == BeginPump(t) \/ EndPump(t) \/ ExitTick(t)

-----------------------------------------------------------------------------
(* _run(): the background thread.                                          *)

\* Mutant: while True.
MutCheckNothing(r) ==
  /\ life[r] = "alive" /\ pc[r] = "check"
  /\ pc' = [pc EXCEPT ![r] = "enter"]
  /\ UNCHANGED <<loopVars, ticks, owner, stack, outbound>>

\* while not self._stop.is_set()
CheckStop(r) ==
  /\ life[r] = "alive" /\ pc[r] = "check"
  /\ pc' = [pc EXCEPT ![r] = IF stop THEN "end" ELSE "enter"]
  /\ life' = IF stop THEN [life EXCEPT ![r] = "dead"] ELSE life
  /\ UNCHANGED <<stop, thread, mine, ticks, owner, stack, outbound>>

RunnerTick(r) ==
  /\ Goto(r, "enter", "wait")
  /\ EnterTick(r)
  /\ UNCHANGED <<loopVars, ticks, outbound>>

\* self._stop.wait(interval) returns, after the interval or at once when set.
Wait(r) ==
  /\ Depth(r) = 0 /\ Goto(r, "wait", "check")
  /\ UNCHANGED <<loopVars, ticks, owner, stack, outbound>>

-----------------------------------------------------------------------------
(* start() and stop().                                                     *)

\* A thread not yet started, or finished, is not alive.
Running == thread # Nobody /\ life[thread] = "alive"

\* start() is called: it returns at once while the loop is running.  (The
\* bound MaxRunners leaves a thread for every start() under way.)
CallStart(c) ==
  /\ ~Running
  /\ Cardinality({r \in Runner : life[r] = "unborn"})
       > Cardinality({d \in Control : pc[d] \in {"clear", "make"}})
  /\ Goto(c, "idle", "clear")
  /\ UNCHANGED <<loopVars, ticks, owner, stack, outbound>>

ClearStop(c) ==
  /\ Goto(c, "clear", "make")
  /\ stop' = FALSE
  /\ UNCHANGED <<thread, life, mine, ticks, owner, stack, outbound>>

\* A new Thread object becomes _thread (bounded by MaxRunners).
MakeThread(c) ==
  /\ Goto(c, "make", "go")
  /\ \E r \in Runner :
       /\ life[r] = "unborn" /\ \A q \in 1..(r - 1) : life[q] # "unborn"
       /\ life' = [life EXCEPT ![r] = "made"]
       /\ thread' = r
       /\ mine' = [mine EXCEPT ![c] = r]
  /\ UNCHANGED <<stop, ticks, owner, stack, outbound>>

StartThread(c) ==
  /\ Goto(c, "go", "idle")
  /\ life' = [life EXCEPT ![mine[c]] = "alive"]
  /\ mine' = [mine EXCEPT ![c] = Nobody]
  /\ UNCHANGED <<stop, thread, ticks, owner, stack, outbound>>

CallStop(c) ==
  /\ Goto(c, "idle", "grab")
  /\ stop' = TRUE
  /\ UNCHANGED <<thread, life, mine, ticks, owner, stack, outbound>>

\* t = self._thread: another stop() or start() may have come in between.
TakeThread(c) ==
  /\ Goto(c, "grab", "join")
  /\ mine' = [mine EXCEPT ![c] = thread]
  /\ UNCHANGED <<stop, thread, life, ticks, owner, stack, outbound>>

\* join(timeout): the thread has ended, or the time is up while it has not.
Join(c) ==
  /\ Goto(c, "join", "forget")
  /\ mine[c] \in Runner =>
       life[mine[c]] = "dead" \/ (JoinTimesOut /\ life[mine[c]] = "alive")
  /\ UNCHANGED <<loopVars, ticks, owner, stack, outbound>>

\* Joining a thread another start() has not started yet raises: stop() ends
\* there and _thread stays.
JoinRaises(c) ==
  /\ Goto(c, "join", "idle")
  /\ mine[c] \in Runner /\ life[mine[c]] = "made"
  /\ mine' = [mine EXCEPT ![c] = Nobody]
  /\ UNCHANGED <<stop, thread, life, ticks, owner, stack, outbound>>

ForgetThread(c) ==
  /\ Goto(c, "forget", "idle")
  /\ thread' = Nobody
  /\ mine' = [mine EXCEPT ![c] = Nobody]
  /\ UNCHANGED <<stop, life, ticks, owner, stack, outbound>>

-----------------------------------------------------------------------------
(* resolve(): reach, then tick until the evidence is there or max_ticks.    *)

CallResolve(c) ==
  /\ Goto(c, "idle", "resolve")
  /\ ticks' = [ticks EXCEPT ![c] = 0]
  /\ UNCHANGED <<loopVars, owner, stack, outbound>>

ResolveTick(c) ==
  /\ Goto(c, "resolve", "look")
  /\ EnterTick(c)
  /\ ticks' = [ticks EXCEPT ![c] = @ + 1]
  /\ UNCHANGED <<loopVars, outbound>>

\* Mutant: the count starts over and resolve never gives up.
MutLookStartsOver(c, found) ==
  /\ Depth(c) = 0
  /\ Goto(c, "look", IF found THEN "idle" ELSE "resolve")
  /\ ticks' = [ticks EXCEPT ![c] = IF @ = MaxTicks THEN 0 ELSE @]
  /\ UNCHANGED <<loopVars, owner, stack, outbound>>

\* requester.evidence(handle): found, or not yet; None after the last tick.
Look(c, found) ==
  /\ Depth(c) = 0
  /\ Goto(c, "look", IF found \/ ticks[c] = MaxTicks THEN "idle" ELSE "resolve")
  /\ UNCHANGED <<loopVars, ticks, owner, stack, outbound>>

-----------------------------------------------------------------------------
Inside(t) == InTick(t) \/ NestTick(t)

Run(r) == Depth(r) = 0 /\ (CheckStop(r) \/ RunnerTick(r) \/ Wait(r))

Call(c) == CallStart(c) \/ CallStop(c) \/ CallResolve(c)

Continue(c) ==
  \/ ClearStop(c) \/ MakeThread(c) \/ StartThread(c)
  \/ TakeThread(c) \/ Join(c) \/ JoinRaises(c) \/ ForgetThread(c)
  \/ \E found \in BOOLEAN : Look(c, found)

Next ==
  \/ \E t \in Thread : Inside(t)
  \/ \E r \in Runner : Run(r)
  \/ \E c \in Control : Call(c) \/ Continue(c) \/ ResolveTick(c)

Spec == Init /\ [][Next]_vars

\* Threads are scheduled; a handler returns, however often it drives the loop
\* before (only the holder of _pumping is in one); and a caller of resolve gets _pumping in the end: the runner leaves
\* it free for every wait(interval).
FairSpec ==
  /\ Spec
  /\ WF_vars(\E t \in Thread : InTick(t))
  /\ \A d \in 1..(MaxDepth - 1) : SF_vars(\E t \in Thread : Depth(t) = d /\ EndPump(t))
  /\ \A r \in Runner : SF_vars(Run(r))
  /\ \A c \in Control : WF_vars(Continue(c)) /\ SF_vars(ResolveTick(c))

-----------------------------------------------------------------------------
(* Properties.                                                             *)

\* While any thread is inside a provider's pump, that provider's _outbound is
\* the carrier - the evidence its handler yields is put, not dropped - and
\* when no thread is, it is back to what it was before any pump.
OutboundHolds ==
  \A x \in Reactor :
    outbound[x] <=> \E t \in Thread : \E k \in 1..Depth(t) :
                      stack[t][k].at = x /\ stack[t][k].pumping

\* start() is idempotent while the loop runs: one runner drives the cadence.
OneRunner == Cardinality({r \in Runner : life[r] = "alive"}) <= 1

\* resolve() returns, with the evidence or with None.
ResolveReturns == \A c \in Control : pc[c] \in {"resolve", "look"} ~> pc[c] = "idle"

\* Once stop() was called and no start() clears the event again, every
\* background thread ends, joined or not.
StopEnds == <>[]stop => <>[](\A r \in Runner : life[r] # "alive")
=============================================================================
