------------------------------- MODULE Demurrage -------------------------------
(***************************************************************************)
(* The energy of an artifact: heat deposited by work, cooled between the    *)
(* deposits, and the value it earned while it was warm.                     *)
(* (demurrage.py, law.py)                                                   *)
(*                                                                          *)
(* The decay exp(-dt/tau) is modelled by a table: a unit survives dt frames *)
(* as one part in Cooling[tau][dt], and a unit lost is worth tau, as the    *)
(* closed form of the integral says.  A deposit is a number of Units, so    *)
(* many that no division need round; the six decimals of the stored fields  *)
(* are left out.                                                            *)
(***************************************************************************)
EXTENDS Integers

CONSTANTS Taus,         \* the measurements of the clock
          Cooling,      \* tau |-> dt |-> what exp(dt/tau) is rounded to
          Unit,         \* the heat of a full deposit of mass one
          Unmeasured,   \* slow_rate() is None
          Mass, Work,   \* what a caller may pass as rest_mass and as work
          MaxFrame, MaxUses   \* bounds: the change feed, the uses recorded

ASSUME DemurrageAssumption ==
  /\ {Unit, MaxFrame, MaxUses} \subseteq Nat /\ Mass \subseteq Int /\ Work \subseteq Int
  /\ Taus \subseteq Nat \ {0} /\ Unmeasured \notin Taus
  /\ Cooling \in [Taus -> [0..MaxFrame -> Nat \ {0}]] /\ \A tau \in Taus : Cooling[tau][0] = 1

VARIABLES rate,         \* the measured slow rate, or Unmeasured
          heat, frame,  \* energy_heat, energy_frame
          booked,       \* energy_earned
          uses,         \* history: uses recorded
          gone          \* history: the heat gone by the last use, [worth: each part
                        \* at the rate that stood when it went, unpaid: without one]

demurrageVars == <<rate, heat, frame, booked, uses, gone>>

Clamp(x) == IF x < 0 THEN 0 ELSE x

DemurrageInit ==
  /\ rate = Unmeasured /\ heat = 0 /\ frame = 0 /\ booked = 0 /\ uses = 0
  /\ gone = [worth |-> 0, unpaid |-> 0]

\* law.cool: a travel backwards survives whole.
Survives(h, dt, tau) == h \div Cooling[tau][Clamp(dt)]

\* cool, and accrue on the heat the span began with; no clock, no change.
Cool(h, dt, tau) == IF tau = Unmeasured THEN h ELSE Survives(h, dt, tau)
Accrue(h, dt, e, tau) ==
  IF tau = Unmeasured THEN e ELSE e + tau * (h - Survives(h, dt, tau))

Deposit(mass, work) == Clamp(mass) * (IF work > 1 THEN 1 ELSE Clamp(work)) * Unit

\* History: what the heat of this use lacks of the last one's and its deposit.
Book(deposit) ==
  LET less == heat + deposit - heat' IN
  gone' = IF rate = Unmeasured THEN [gone EXCEPT !.unpaid = @ + less]
          ELSE [gone EXCEPT !.worth = @ + rate * less]

\* Mutant: the span is settled on the heat that the new work has raised.
MutWitnessDepositsFirst(now, mass, work) ==
  LET dt == IF uses = 0 THEN 0 ELSE now - frame
      raised == heat + Deposit(mass, work) IN
  /\ uses < MaxUses /\ uses' = uses + 1
  /\ booked' = Accrue(raised, dt, booked, rate)
  /\ heat' = Cool(heat, dt, rate) + Deposit(mass, work)
  /\ frame' = now /\ Book(Deposit(mass, work))
  /\ UNCHANGED rate

\* witness, at any frame a caller believes it is: an artifact never used takes
\* its first frame from it.
Witness(now, mass, work) ==
  LET dt == IF uses = 0 THEN 0 ELSE now - frame IN
  /\ uses < MaxUses /\ uses' = uses + 1
  /\ booked' = Accrue(heat, dt, booked, rate)
  /\ heat' = Cool(heat, dt, rate) + Deposit(mass, work)
  /\ frame' = now
  /\ Book(Deposit(mass, work))
  /\ UNCHANGED rate

\* The runner's source measures a rate, another one, or none any more.
Measured(tau) == rate # tau /\ rate' = tau /\ UNCHANGED <<heat, frame, booked, uses, gone>>

DemurrageNext ==
  \/ \E now \in 0..MaxFrame, mass \in Mass, work \in Work : Witness(now, mass, work)
  \/ \E tau \in Taus \cup {Unmeasured} : Measured(tau)

\* The reads, at frame `now`.
Energy(now) == Cool(heat, now - frame, rate)
Earned(now) == Accrue(heat, now - frame, booked, rate)

(***************************************************************************)
(* Properties.                                                              *)
(***************************************************************************)
\* Stock and realised value are one curve: at every read the value earned is
\* that of the heat gone, each part of it at the rate that stood when it was
\* settled and the part since the last use, all of it, at the rate of the
\* read; and no heat goes while nobody has measured a rate.  In whatever order
\* uses, clock skew and measurements come (demurrage.py 145-170, 246-294).
EarnedIsHeatLost ==
  /\ gone.unpaid = 0
  /\ \A now \in 0..MaxFrame :
       IF rate = Unmeasured THEN Energy(now) = heat /\ Earned(now) = gone.worth
       ELSE Earned(now) = gone.worth + rate * (heat - Energy(now))

\* "Monotone non-decreasing - what is earned stays earned" (demurrage.py 281):
\* what has once been read as earned through a frame is not less at a later
\* reading for that frame.
StaysEarned == [][\A now \in 0..MaxFrame : Earned(now) <= Earned(now)']_demurrageVars
=============================================================================
