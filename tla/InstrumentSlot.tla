---------------------------- MODULE InstrumentSlot ----------------------------
(***************************************************************************)
(* The process defaults of the instrument contracts: one slot for each, an  *)
(* instrument or a factory that is run when the slot is first read, under   *)
(* the slot's own lock.  (instrument.py)                                    *)
(*                                                                          *)
(* A factory is code of the host: it may raise, and it may reach for the    *)
(* slots itself (importing a package that registers one).  The locks are    *)
(* not reentrant.                                                           *)
(***************************************************************************)
EXTENDS Integers, Sequences

CONSTANTS Caller,       \* threads
          Contract,     \* "embodiment" and "read": the contracts with a slot
          Instrument, Factory,
          Makes,        \* factory |-> what it returns, Empty included
          Reaches,      \* factory |-> the contracts whose slots it touches
          Fills,        \* instrument |-> the members it provides
          Member,       \* contract |-> the members it names
          Empty         \* no instrument, no factory, no holder

ASSUME SlotAssumption ==
  /\ Makes \in [Factory -> Instrument \cup {Empty}]
  /\ Reaches \in [Factory -> SUBSET Contract]
  /\ Empty \notin Caller

VARIABLES default, factory, \* _default and _factory, for each contract
          holder,           \* who holds the slot's lock
          runs,             \* per thread, the factories it is running, outermost first
          registered        \* history: the last registration, <<instrument, factory>>

slotVars == <<default, factory, holder, runs, registered>>

SlotInit ==
  /\ default = [c \in Contract |-> Empty] /\ factory = [c \in Contract |-> Empty]
  /\ holder = [c \in Contract |-> Empty] /\ runs = [th \in Caller |-> <<>>]
  /\ registered = [c \in Contract |-> <<Empty, Empty>>]

Innermost(th) == runs[th][Len(runs[th])]
MayReach(th, c) == runs[th] # <<>> => c \in Reaches[Innermost(th).factory]

\* Mutant: a registration does not wait for the lock.
MutSetUnlocked(th, c, i, f) ==
  /\ MayReach(th, c) /\ (i = Empty \/ f = Empty)
  /\ default' = [default EXCEPT ![c] = i] /\ factory' = [factory EXCEPT ![c] = f]
  /\ registered' = [registered EXCEPT ![c] = <<i, f>>]
  /\ UNCHANGED <<holder, runs>>

\* set_default, and clear_default when both are Empty; never both given.
SetDefault(th, c, i, f) ==
  /\ MayReach(th, c) /\ holder[c] = Empty
  /\ i = Empty \/ f = Empty
  /\ default' = [default EXCEPT ![c] = i] /\ factory' = [factory EXCEPT ![c] = f]
  /\ registered' = [registered EXCEPT ![c] = <<i, f>>]
  /\ UNCHANGED <<holder, runs>>

\* get_default.  A filled or empty slot is answered at once and changes
\* nothing; otherwise the factory runs while the lock is held.
GetDefault(th, c) ==
  /\ MayReach(th, c) /\ holder[c] = Empty
  /\ default[c] = Empty /\ factory[c] # Empty
  /\ holder' = [holder EXCEPT ![c] = th]
  /\ runs' = [runs EXCEPT ![th] = Append(@, [contract |-> c, factory |-> factory[c]])]
  /\ UNCHANGED <<default, factory, registered>>

Leaves(th) ==
  /\ runs' = [runs EXCEPT ![th] = SubSeq(@, 1, Len(@) - 1)]
  /\ holder' = [holder EXCEPT ![Innermost(th).contract] = Empty]

FactoryReturns(th) ==
  LET c == Innermost(th).contract IN
  /\ runs[th] # <<>>
  /\ default' = [default EXCEPT ![c] = Makes[Innermost(th).factory]]
  /\ factory' = [factory EXCEPT ![c] = Empty]
  /\ Leaves(th) /\ UNCHANGED registered

\* The exception leaves get_default: the factory stays, to be tried again.
FactoryRaises(th) ==
  /\ runs[th] # <<>> /\ Leaves(th) /\ UNCHANGED <<default, factory, registered>>

SlotNext ==
  \E th \in Caller :
    \/ FactoryReturns(th) \/ FactoryRaises(th)
    \/ \E c \in Contract :
         \/ GetDefault(th, c)
         \/ \E i \in Instrument \cup {Empty}, f \in Factory \cup {Empty} :
              SetDefault(th, c, i, f)

(***************************************************************************)
(* Reaching for a measurement: the caller's own instrument, else the slot;  *)
(* refused (InstrumentRequired) by an empty slot and, member by member, by  *)
(* a partial one.                                                           *)
(***************************************************************************)
MembersOf(i, c) == IF i = Empty THEN {} ELSE Fills[i] \cap Member[c]

Require(i, member, c) == member \in MembersOf(i, c)

\* What get_default answers when nobody holds the lock.
Answers(c) == IF default[c] = Empty /\ factory[c] # Empty THEN Makes[factory[c]] ELSE default[c]

Resolve(own, member, c) ==
  Require(IF own # Empty THEN own ELSE Answers(c), member, c)

(***************************************************************************)
(* Property.                                                                *)
(***************************************************************************)
\* A measurement is answered by the last registration and by nothing older:
\* a factory that is still running when another host registers, that raises,
\* or that was run already never displaces it, in whatever order the threads
\* and the factories within factories come (instrument.py 731-753).
LastRegistrationAnswers ==
  \A c \in Contract : holder[c] = Empty =>
    LET r == registered[c]
        i == IF r[2] # Empty THEN Makes[r[2]] ELSE r[1] IN
    \A m \in Member[c] : Resolve(Empty, m, c) <=> Require(i, m, c)
=============================================================================
