-------------------------------- MODULE Fabric --------------------------------
(***************************************************************************)
(* Live streams: frames stamped by their sender's clock, carried to every   *)
(* subscriber of their target at once, or left on a fallback carrier when   *)
(* nobody is subscribed.  (streams.py; plane.Lightcone; reach._propagate)   *)
(*                                                                          *)
(* Delivery is synchronous: a frame reaches the subscribers one after the   *)
(* other within the sender's call, and a handler that raises ends the call. *)
(***************************************************************************)
EXTENDS Integers, Sequences, FiniteSets

CONSTANTS Sender, Receiver,
          Principal,        \* receiver |-> whom it receives for
          Target,        \* targets: groups, and principals' own addresses
          Nested,         \* group |-> the groups it contains
          Fallback,         \* has the fabric a fallback carrier?
          MaxTick, MaxFrames \* bounds: readings of a clock, frames sent

ASSUME FabricAssumption ==
  /\ {MaxTick, MaxFrames} \subseteq Nat /\ Fallback \in BOOLEAN /\ IsFiniteSet(Sender)
  /\ Nested \in [Target -> SUBSET Target] /\ DOMAIN Principal = Receiver

VARIABLES member,   \* the light-cone: principal |-> the groups joined
          receiver, \* receiver |-> its reach when it was made, and its frames
          subs,     \* target |-> the receivers subscribed, in order
          clock,    \* the last reading of each sender's clock
          open,     \* senders whose streams are open
          letters,  \* frames on the fallback carrier
          sent      \* history: every frame, and what became of the call

fabricVars == <<member, receiver, subs, clock, open, letters, sent>>

People == {Principal[r] : r \in Receiver}
NotMade == [made |-> FALSE, reach |-> {}, frames |-> <<>>]

FabricInit ==
  /\ member = [p \in People |-> {}] /\ receiver = [r \in Receiver |-> NotMade]
  /\ subs = [a \in Target |-> <<>>] /\ clock = [s \in Sender |-> 0]
  /\ open = Sender /\ letters = {} /\ sent = {}

\* Lightcone.reaches: its own address, and all that the groups joined contain.
Closed(S) == \A a \in S : Nested[a] \subseteq S
ReachesOf(r) ==
  {Principal[r]} \cup
  {a \in Target : \A S \in SUBSET Target : (member[Principal[r]] \subseteq S /\ Closed(S)) => a \in S}

Join(p, g) ==
  /\ g \notin member[p] /\ member' = [member EXCEPT ![p] = @ \cup {g}]
  /\ UNCHANGED <<receiver, subs, clock, open, letters, sent>>

\* Reach and keys are computed once, when the receiver is made.
MakeReceiver(r) ==
  /\ ~receiver[r].made
  /\ receiver' = [receiver EXCEPT ![r] = [made |-> TRUE, reach |-> ReachesOf(r), frames |-> <<>>]]
  /\ UNCHANGED <<member, subs, clock, open, letters, sent>>

Subscribe(r, a) ==
  /\ receiver[r].made /\ \A i \in DOMAIN subs[a] : subs[a][i] # r
  /\ subs' = [subs EXCEPT ![a] = Append(@, r)]
  /\ UNCHANGED <<member, receiver, clock, open, letters, sent>>

\* Stamps order as their ticks do, and by the sender within one tick.
Before(f, g) == f.tick < g.tick \/ (f.tick = g.tick /\ f.rank < g.rank)

\* Mutant: frames are kept in the order they arrive.
MutAsArrived(frames, f) == Append(frames, f)

Sorted(frames, f) ==
  LET later == {i \in DOMAIN frames : Before(f, frames[i])}
      k == Len(frames) - Cardinality(later) IN
  SubSeq(frames, 1, k) \o <<f>> \o SubSeq(frames, k + 1, Len(frames))

\* StreamReceiver.on_leaf: kept if it is addressed within the reach.
OnFrame(rec, f) ==
  IF f.to \in rec.reach THEN [rec EXCEPT !.frames = Sorted(@, f)] ELSE rec

\* Stream.send_frame: the first n handlers return and the next, if any, raises.
SendFrame(s, rank, to, tick, n) ==
  LET f == [to |-> to, tick |-> tick, rank |-> rank]
      heard == {subs[to][i] : i \in 1..n} IN
  /\ s \in open /\ Cardinality(sent) < MaxFrames
  /\ clock[s] < tick /\ clock' = [clock EXCEPT ![s] = tick]
  /\ receiver' = [r \in Receiver |-> IF r \in heard THEN OnFrame(receiver[r], f) ELSE receiver[r]]
  /\ letters' = IF subs[to] = <<>> /\ Fallback THEN letters \cup {f} ELSE letters
  /\ sent' = sent \cup {[frame |-> f, returned |-> n = Len(subs[to]),
                         subscribed |-> {subs[to][i] : i \in DOMAIN subs[to]}]}
  /\ UNCHANGED <<member, subs, open>>

Close(s) ==
  /\ s \in open /\ open' = open \ {s}
  /\ UNCHANGED <<member, receiver, subs, clock, letters, sent>>

Rank == CHOOSE rank \in [Sender -> 1..Cardinality(Sender)] :
               \A a, b \in Sender : rank[a] = rank[b] => a = b

FabricNext ==
  \/ \E p \in People, g \in Target : Join(p, g)
  \/ \E r \in Receiver : MakeReceiver(r) \/ \E a \in Target : Subscribe(r, a)
  \/ \E s \in Sender : \/ Close(s)
                       \/ \E to \in Target, tick \in 1..MaxTick :
                            \E n \in 0..Len(subs[to]) : SendFrame(s, Rank[s], to, tick, n)

(***************************************************************************)
(* Property.                                                                *)
(***************************************************************************)
\* A frame whose call returned is with every subscriber that could open it
\* when it was made, or is a letter when nobody was subscribed, never both;
\* and what a receiver holds is in the senders' clock order, however the
\* frames of several senders arrived (streams.py 36-40, 80-88).
LiveOrLetter ==
  /\ \A e \in sent : e.returned =>
       IF e.subscribed = {} THEN Fallback => e.frame \in letters
       ELSE /\ e.frame \notin letters
            /\ \A r \in e.subscribed : e.frame.to \in receiver[r].reach =>
                 \E i \in DOMAIN receiver[r].frames : receiver[r].frames[i] = e.frame
  /\ \A r \in Receiver : \A i, j \in DOMAIN receiver[r].frames :
       i < j => Before(receiver[r].frames[i], receiver[r].frames[j])
=============================================================================
