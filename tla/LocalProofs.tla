----------------------------- MODULE LocalProofs ----------------------------
(***************************************************************************)
(* Proofs about the parts that share nothing with another: the instrument  *)
(* slots, the attestation ledger, the channel of an artifact, live streams,*)
(* the energy of an artifact, the certificate of a signal's journey, the   *)
(* mint of an act and the spread of a field.                               *)
(***************************************************************************)
EXTENDS InstrumentSlot, Agreement, Provenance, Fabric, Demurrage, PathLedger,
        Minting, Spread, FiniteSetTheorems, SequenceTheorems, WellFoundedInduction, TLAPS

-----------------------------------------------------------------------------
(* The instrument slots, for any threads, contracts and factories.         *)

SlotSpec == SlotInit /\ [][SlotNext]_slotVars

SlotFrame == [contract : Contract, factory : Factory]

SlotTypeOK ==
  /\ DOMAIN default = Contract
  /\ factory \in [Contract -> Factory \cup {Empty}]
  /\ holder \in [Contract -> Caller \cup {Empty}]
  /\ runs \in [Caller -> Seq(SlotFrame)]
  /\ DOMAIN registered = Contract

\* A factory that runs is still the one in its slot, which is unfilled, and
\* its thread holds the slot's lock; no thread runs two for one slot.
RunsAreHeld ==
  \A th \in Caller : \A i \in DOMAIN runs[th] :
    LET f == runs[th][i] IN
    /\ holder[f.contract] = th
    /\ factory[f.contract] = f.factory
    /\ f.factory # Empty
    /\ \A j \in DOMAIN runs[th] : runs[th][j].contract = f.contract => i = j

\* A slot holds the last registration: as given, or as its factory made it.
\* Never both an instrument and a factory.
Recalls(c) ==
  LET r == registered[c] IN
  /\ r[1] = Empty \/ r[2] = Empty
  /\ \/ default[c] = r[1] /\ factory[c] = r[2]
     \/ r[2] # Empty /\ factory[c] = Empty /\ default[c] = Makes[r[2]]

SlotIInv == SlotTypeOK /\ RunsAreHeld /\ \A c \in Contract : Recalls(c)

LEMMA RecallsAnswers == SlotIInv => LastRegistrationAnswers
<1> SUFFICES ASSUME SlotIInv, NEW c \in Contract
             PROVE  Answers(c) = IF registered[c][2] # Empty THEN Makes[registered[c][2]]
                                 ELSE registered[c][1]
  BY DEF LastRegistrationAnswers, Resolve
<1>1. Recalls(c)
  BY DEF SlotIInv
<1>2. CASE default[c] = registered[c][1] /\ factory[c] = registered[c][2]
  BY <1>1, <1>2 DEF Recalls, Answers
<1>3. CASE registered[c][2] # Empty /\ factory[c] = Empty /\ default[c] = Makes[registered[c][2]]
  BY <1>3 DEF Answers
<1>4. QED BY <1>1, <1>2, <1>3 DEF Recalls

\* A sequence without its last element is the rest, untouched.
LEMMA FrontIsRest ==
  ASSUME NEW S, NEW s \in Seq(S), s # <<>>, NEW t, t = SubSeq(s, 1, Len(s) - 1)
  PROVE  /\ Len(s) \in DOMAIN s /\ DOMAIN t = DOMAIN s \ {Len(s)} /\ t \in Seq(S)
         /\ \A i \in DOMAIN t : t[i] = s[i]
<1> DEFINE n == Len(s)
<1>1. n \in Nat \ {0} /\ DOMAIN s = 1..n
  OBVIOUS
<1>2. \A i \in 1..(n - 1) : s[i] \in S
  BY <1>1
<1>3. t \in Seq(S) /\ Len(t) = n - 1 /\ \A i \in 1..(n - 1) : t[i] = s[i]
  BY <1>1, <1>2, SubSeqProperties
<1>4. DOMAIN t = 1..(n - 1)
  BY <1>3
<1>5. QED BY <1>1, <1>3, <1>4

LEMMA SetKeeps ==
  ASSUME SlotIInv, NEW th \in Caller, NEW c \in Contract,
         NEW i \in Instrument \cup {Empty}, NEW f \in Factory \cup {Empty}, SetDefault(th, c, i, f)
  PROVE  SlotIInv'
<1> USE DEF SlotIInv
<1>1. /\ holder' = holder /\ runs' = runs /\ holder[c] = Empty /\ (i = Empty \/ f = Empty)
      /\ default' = [default EXCEPT ![c] = i] /\ factory' = [factory EXCEPT ![c] = f]
      /\ registered' = [registered EXCEPT ![c] = <<i, f>>]
  BY DEF SetDefault
<1>2. SlotTypeOK'
  BY <1>1 DEF SlotTypeOK
<1>3. ASSUME NEW t \in Caller, NEW k \in DOMAIN runs[t]
      PROVE  runs[t][k].contract # c /\ runs[t][k].contract \in Contract
  <2>1. runs[t][k] \in SlotFrame
    BY DEF SlotTypeOK
  <2>2. holder[runs[t][k].contract] # Empty
    BY SlotAssumption DEF RunsAreHeld
  <2>3. QED BY <2>1, <2>2, <1>1 DEF SlotFrame
<1>4. \A d \in Contract : d # c => factory'[d] = factory[d] /\ default'[d] = default[d]
                                     /\ registered'[d] = registered[d]
  BY <1>1 DEF SlotTypeOK
<1>5. RunsAreHeld'
  BY <1>1, <1>3, <1>4 DEF RunsAreHeld
<1>6. Recalls(c)'
  BY <1>1 DEF SlotTypeOK, Recalls
<1>7. \A d \in Contract : Recalls(d)'
  BY <1>4, <1>6 DEF Recalls
<1>8. QED BY <1>2, <1>5, <1>7

LEMMA GetKeeps ==
  ASSUME SlotIInv, NEW th \in Caller, NEW c \in Contract, GetDefault(th, c)
  PROVE  SlotIInv'
<1> DEFINE fr == [contract |-> c, factory |-> factory[c]]
           n == Len(runs[th])
<1> USE DEF SlotIInv
<1>1. /\ holder[c] = Empty /\ factory[c] # Empty /\ default' = default /\ factory' = factory
      /\ registered' = registered /\ holder' = [holder EXCEPT ![c] = th]
      /\ runs' = [runs EXCEPT ![th] = Append(@, fr)]
  BY DEF GetDefault
<1>2. fr \in SlotFrame
  BY <1>1 DEF SlotTypeOK, SlotFrame
<1>3. runs[th] \in Seq(SlotFrame) /\ n \in Nat /\ DOMAIN runs[th] = 1..n
  BY DEF SlotTypeOK
<1>4. runs'[th] = Append(runs[th], fr) /\ \A t \in Caller : t # th => runs'[t] = runs[t]
  BY <1>1 DEF SlotTypeOK
<1>5. /\ DOMAIN runs'[th] = DOMAIN runs[th] \cup {n + 1} /\ n + 1 \notin DOMAIN runs[th]
      /\ runs'[th][n + 1] = fr /\ \A k \in DOMAIN runs[th] : runs'[th][k] = runs[th][k]
      /\ runs'[th] \in Seq(SlotFrame)
  BY <1>2, <1>3, <1>4
<1>6. runs' \in [Caller -> Seq(SlotFrame)]
  BY <1>1, <1>4, <1>5 DEF SlotTypeOK
<1>7. SlotTypeOK'
  BY <1>1, <1>6 DEF SlotTypeOK
<1>8. ASSUME NEW t \in Caller, NEW k \in DOMAIN runs[t]
      PROVE  runs[t][k].contract # c /\ runs[t][k].contract \in Contract
  <2>1. runs[t][k] \in SlotFrame
    BY DEF SlotTypeOK
  <2>2. holder[runs[t][k].contract] # Empty
    BY SlotAssumption DEF RunsAreHeld
  <2>3. QED BY <2>1, <2>2, <1>1 DEF SlotFrame
<1>9. holder'[c] = th /\ \A d \in Contract : d # c => holder'[d] = holder[d]
  BY <1>1 DEF SlotTypeOK
<1>10. RunsAreHeld'
  <2> SUFFICES ASSUME NEW t \in Caller, NEW k \in DOMAIN runs'[t]
               PROVE  /\ holder'[runs'[t][k].contract] = t
                      /\ factory[runs'[t][k].contract] = runs'[t][k].factory
                      /\ runs'[t][k].factory # Empty
                      /\ \A j \in DOMAIN runs'[t] : runs'[t][j].contract = runs'[t][k].contract => k = j
    BY <1>1 DEF RunsAreHeld
  <2>1. CASE t # th
    BY <2>1, <1>4, <1>8, <1>9 DEF RunsAreHeld
  <2>2. CASE t = th /\ k = n + 1
    BY <2>2, <1>1, <1>5, <1>8, <1>9
  <2>3. CASE t = th /\ k \in DOMAIN runs[th]
    BY <2>3, <1>5, <1>8, <1>9 DEF RunsAreHeld
  <2>4. QED BY <2>1, <2>2, <2>3, <1>5
<1>11. \A d \in Contract : Recalls(d)'
  BY <1>1 DEF Recalls
<1>12. QED BY <1>7, <1>10, <1>11

\* A factory that leaves, by whatever way: it was the one in the slot, the
\* lock is free, and the thread's other factories are where they were.
LEMMA LeavesRest ==
  ASSUME SlotIInv, NEW th \in Caller, runs[th] # <<>>, Leaves(th)
  PROVE  /\ Innermost(th) \in SlotFrame /\ factory[Innermost(th).contract] = Innermost(th).factory
         /\ factory[Innermost(th).contract] # Empty
         /\ runs' \in [Caller -> Seq(SlotFrame)] /\ holder' \in [Contract -> Caller \cup {Empty}]
         /\ \A t \in Caller : \A k \in DOMAIN runs'[t] :
              /\ k \in DOMAIN runs[t] /\ runs'[t][k] = runs[t][k]
              /\ runs[t][k].contract # Innermost(th).contract
              /\ runs[t][k].contract \in Contract
         /\ \A d \in Contract : d # Innermost(th).contract => holder'[d] = holder[d]
<1> DEFINE n == Len(runs[th])
           c == Innermost(th).contract
<1> USE DEF SlotIInv
<1>1. runs[th] \in Seq(SlotFrame)
  BY DEF SlotTypeOK
<1>2. runs'[th] = SubSeq(runs[th], 1, n - 1) /\ \A t \in Caller : t # th => runs'[t] = runs[t]
  BY DEF Leaves, SlotTypeOK
<1>3. /\ n \in DOMAIN runs[th] /\ DOMAIN runs'[th] = DOMAIN runs[th] \ {n}
      /\ runs'[th] \in Seq(SlotFrame) /\ \A k \in DOMAIN runs'[th] : runs'[th][k] = runs[th][k]
  BY <1>1, <1>2, FrontIsRest
<1>4. Innermost(th) = runs[th][n]
  BY DEF Innermost
<1>5. Innermost(th) \in SlotFrame /\ c \in Contract
  <2>1. Innermost(th) \in SlotFrame
    BY <1>1, <1>3, <1>4
  <2>2. QED BY <2>1 DEF SlotFrame
<1>6. holder[c] = th /\ factory[c] = Innermost(th).factory /\ factory[c] # Empty
  BY <1>3, <1>4 DEF RunsAreHeld
<1>7. \A t \in Caller : \A k \in DOMAIN runs[t] : runs[t][k].contract \in Contract
  <2> SUFFICES ASSUME NEW t \in Caller, NEW k \in DOMAIN runs[t] PROVE runs[t][k].contract \in Contract
    OBVIOUS
  <2>1. runs[t][k] \in SlotFrame
    BY DEF SlotTypeOK
  <2>2. QED BY <2>1 DEF SlotFrame
<1>8. ASSUME NEW t \in Caller, NEW k \in DOMAIN runs'[t]
      PROVE  k \in DOMAIN runs[t] /\ runs'[t][k] = runs[t][k] /\ runs[t][k].contract # c
  <2>1. CASE t = th
    BY <2>1, <1>3, <1>4 DEF RunsAreHeld
  <2>2. CASE t # th
    BY <2>2, <1>2, <1>6 DEF RunsAreHeld
  <2>3. QED BY <2>1, <2>2
<1>9. runs' \in [Caller -> Seq(SlotFrame)]
  BY <1>2, <1>3 DEF SlotTypeOK, Leaves
<1>10. holder' \in [Contract -> Caller \cup {Empty}] /\ \A d \in Contract : d # c => holder'[d] = holder[d]
  BY DEF SlotTypeOK, Leaves
<1>11. QED BY <1>5, <1>6, <1>7, <1>8, <1>9, <1>10

LEMMA LeaveKeeps ==
  ASSUME SlotIInv, NEW th \in Caller, FactoryReturns(th) \/ FactoryRaises(th)
  PROVE  SlotIInv'
<1> DEFINE c == Innermost(th).contract
<1> USE DEF SlotIInv
<1>1. runs[th] # <<>> /\ Leaves(th) /\ registered' = registered
  BY DEF FactoryReturns, FactoryRaises
<1>2. c \in Contract /\ factory[c] = Innermost(th).factory /\ factory[c] # Empty
  BY <1>1, LeavesRest DEF SlotFrame
<1>3. \/ /\ default' = [default EXCEPT ![c] = Makes[factory[c]]]
         /\ factory' = [factory EXCEPT ![c] = Empty]
      \/ default' = default /\ factory' = factory
  BY <1>2 DEF FactoryReturns, FactoryRaises
<1>4. \A d \in Contract : d # c => default'[d] = default[d] /\ factory'[d] = factory[d]
  BY <1>3 DEF SlotTypeOK
<1>5. SlotTypeOK'
  BY <1>1, <1>3, LeavesRest DEF SlotTypeOK
<1>6. RunsAreHeld'
  BY <1>1, <1>4, LeavesRest DEF RunsAreHeld
<1>7. ASSUME NEW d \in Contract, d = c PROVE Recalls(d)'
  <2>1. Recalls(d) /\ DOMAIN default = Contract /\ DOMAIN factory = Contract
    BY DEF SlotTypeOK
  <2>2. QED BY <2>1, <1>1, <1>2, <1>3, <1>7 DEF Recalls
<1>8. ASSUME NEW d \in Contract, d # c PROVE Recalls(d)'
  BY <1>1, <1>4, <1>8 DEF Recalls
<1>9. QED BY <1>5, <1>6, <1>7, <1>8

\* A measurement is answered by the last registration, whatever factories were
\* running, raised or registered others in between (instrument.py 731-753).
THEOREM TheLastAnswers == SlotSpec => []LastRegistrationAnswers
<1>1. SlotInit => SlotIInv
  BY DEF SlotInit, SlotIInv, SlotTypeOK, RunsAreHeld, Recalls
<1>2. SlotIInv /\ [SlotNext]_slotVars => SlotIInv'
  <2> SUFFICES ASSUME SlotIInv, [SlotNext]_slotVars PROVE SlotIInv'
    OBVIOUS
  <2>1. CASE SlotNext
    BY <2>1, SetKeeps, GetKeeps, LeaveKeeps DEF SlotNext
  <2>2. CASE UNCHANGED slotVars
    BY <2>2 DEF slotVars, SlotIInv, SlotTypeOK, RunsAreHeld, Recalls
  <2>3. QED BY <2>1, <2>2
<1>3. QED BY <1>1, <1>2, RecallsAnswers, PTL DEF SlotSpec

-----------------------------------------------------------------------------
(* The attestation ledger, for any items, hashes and authorities.          *)

AgreementSpec == AgreementInit /\ [][AgreementNext]_rows

\* The ledger is finite, so that its origins can be counted.
AgreementIInv == IsFiniteSet(rows)

\* What EchoesAddNothing says of one step and one item.
Unmoved(item) ==
  /\ (\A h \in Hash : ByHash(item, h)' = ByHash(item, h)) =>
       Agreed(item)' = Agreed(item) /\ Agreeing(item)' = Agreeing(item)
  /\ (\A r \in Rows(item)' \ Rows(item) :
        ~Attributed(r) \/ \E q \in Rows(item) : q.hash = r.hash /\ q.origin = r.origin)
       => Agreed(item)' = Agreed(item) /\ Agreeing(item)' = Agreeing(item)
  /\ Cardinality(Agreed(item)') <= 1

LEMMA OriginsFinite ==
  ASSUME IsFiniteSet(rows), NEW item \in Item, NEW h \in Hash
  PROVE  IsFiniteSet(ByHash(item, h)) /\ Cardinality(ByHash(item, h)) \in Nat
<1> DEFINE heard == {q \in Rows(item) : q.hash = h /\ Attributed(q)}
<1>1. heard \subseteq rows
  BY DEF Rows
<1>2. IsFiniteSet(heard)
  BY <1>1, FS_Subset
<1> DEFINE origins == {r.origin : r \in heard}
           originOf == [r \in heard |-> r.origin]
<1> HIDE DEF heard
<1>3. IsFiniteSet(origins)
  <2>1. originOf \in Surjection(heard, origins)
    BY DEF Surjection
  <2>2. QED BY <1>2, <2>1, FS_Surjection
<1>4. ByHash(item, h) = origins
  BY DEF ByHash, heard
<1>5. QED BY <1>3, <1>4, FS_CardinalityType

\* The plurality is strict: at most one hash is agreed on.
LEMMA OneIsAgreed ==
  ASSUME IsFiniteSet(rows), NEW item \in Item
  PROVE  Cardinality(Agreed(item)) <= 1
<1>1. ASSUME NEW h \in Agreed(item), NEW k \in Agreed(item) PROVE h = k
  <2> SUFFICES ASSUME h # k PROVE FALSE
    OBVIOUS
  <2>1. h \in Hash /\ k \in Hash
    BY DEF Agreed
  <2>2. /\ Cardinality(ByHash(item, h)) > Cardinality(ByHash(item, k))
        /\ Cardinality(ByHash(item, k)) > Cardinality(ByHash(item, h))
    BY <2>1 DEF Agreed
  <2>3. QED BY <2>1, <2>2, OriginsFinite
<1>2. CASE Agreed(item) = {}
  BY <1>2, FS_EmptySet
<1>3. CASE Agreed(item) # {}
  <2>1. PICK h \in Agreed(item) : TRUE
    BY <1>3
  <2>2. Agreed(item) = {h}
    BY <1>1, <2>1
  <2>3. Cardinality({h}) = 1
    BY FS_Singleton
  <2>4. QED BY <2>2, <2>3
<1>4. QED BY <1>2, <1>3

AtMostOne == \A item \in Item : Cardinality(Agreed(item)) <= 1

\* The agreement is a function of whose origins stand behind each hash.
LEMMA SameOriginsSameAgreement ==
  ASSUME NEW item \in Item, \A h \in Hash : ByHash(item, h)' = ByHash(item, h)
  PROVE  Agreed(item)' = Agreed(item) /\ Agreeing(item)' = Agreeing(item)
<1>1. Agreed(item)' = Agreed(item)
  BY DEF Agreed
<1>2. \A h \in Agreed(item) : h \in Hash
  BY DEF Agreed
<1>3. Agreeing(item)' = Agreeing(item)
  BY <1>1, <1>2 DEF Agreeing
<1>4. QED BY <1>1, <1>3

\* Rows whose origins were heard for those bytes bring no origin.
LEMMA EchoesBringNoOrigin ==
  ASSUME NEW item \in Item, rows \subseteq rows',
         \A r \in Rows(item)' \ Rows(item) :
           ~Attributed(r) \/ \E q \in Rows(item) : q.hash = r.hash /\ q.origin = r.origin
  PROVE  \A h \in Hash : ByHash(item, h)' = ByHash(item, h)
BY DEF ByHash, Rows, Attributed

\* Only a new witness moves the agreement, and no read is ever two, for every
\* order of attestations (attestation.py 113-145, 192-212).
THEOREM OnlyWitnessesMove == AgreementSpec => EchoesAddNothing
<1>1. AgreementInit => AgreementIInv
  BY FS_EmptySet DEF AgreementInit, AgreementIInv
<1>2. AgreementIInv /\ [AgreementNext]_rows => AgreementIInv' /\ rows \subseteq rows'
  <2> SUFFICES ASSUME AgreementIInv, [AgreementNext]_rows PROVE AgreementIInv' /\ rows \subseteq rows'
    OBVIOUS
  <2>1. ASSUME NEW authority \in Authority, NEW item \in Item, NEW hash \in Hash,
               NEW origin \in Authority \cup {Self, NoOrigin}, Observe(authority, item, hash, origin)
        PROVE  AgreementIInv' /\ rows \subseteq rows'
    BY <2>1, FS_AddElement DEF Observe, AgreementIInv
  <2>2. QED BY <2>1 DEF AgreementNext, AgreementIInv
<1>3. AgreementIInv => AtMostOne
  BY OneIsAgreed DEF AgreementIInv, AtMostOne
<1>4. AtMostOne' /\ rows \subseteq rows' => \A item \in Item : Unmoved(item)
  <2> SUFFICES ASSUME AtMostOne', rows \subseteq rows', NEW item \in Item PROVE Unmoved(item)
    OBVIOUS
  <2>1. Cardinality(Agreed(item)') <= 1
    BY DEF AtMostOne
  <2>2. QED BY <2>1, SameOriginsSameAgreement, EchoesBringNoOrigin DEF Unmoved
<1>5. (\A item \in Item : Unmoved(item)) =>
        \A item \in Item :
          /\ (\A h \in Hash : ByHash(item, h)' = ByHash(item, h)) =>
               Agreed(item)' = Agreed(item) /\ Agreeing(item)' = Agreeing(item)
          /\ (\A r \in Rows(item)' \ Rows(item) :
                ~Attributed(r) \/ \E q \in Rows(item) : q.hash = r.hash /\ q.origin = r.origin)
               => Agreed(item)' = Agreed(item) /\ Agreeing(item)' = Agreeing(item)
          /\ Cardinality(Agreed(item)') <= 1
  BY DEF Unmoved
<1>6. QED BY <1>1, <1>2, <1>3, <1>4, <1>5, PTL DEF AgreementSpec, EchoesAddNothing

-----------------------------------------------------------------------------
(* The channel of an artifact, for any number of writes.                    *)

ProvenanceSpec == ProvenanceInit /\ [][ProvenanceNext]_provenanceVars

\* Where a sequence of channels moved from one to another.
MovedAt(p) == {i \in 1..(Len(p) - 1) : p[i] \notin {NoChannel, p[i + 1]}}

\* The stored channel is the last of `past`; before the first write there is none.
Follows ==
  /\ past \in Seq(Claim) /\ context.history \in Seq(Claim) /\ context.provenance \in Claim
  /\ DOMAIN context = {"provenance", "history"}
  /\ IF past = <<>> THEN context.provenance = NoChannel ELSE context.provenance = past[Len(past)]

\* The trail is what the channel moved from, in order.
UpTo(S, i) == {j \in S : j <= i}
Trails(h, p) ==
  /\ IsFiniteSet(MovedAt(p)) /\ Len(h) = Cardinality(MovedAt(p))
  /\ \A i \in MovedAt(p) : h[Cardinality(UpTo(MovedAt(p), i))] = p[i]

\* A channel with a referent was earned by the write that set it.
Entitled ==
  HasReferent => CASE ProvenanceOf = "human_validated" -> Person
                   [] ProvenanceOf = "span_cited" -> Span
                   [] OTHER -> Trusted

ProvenanceIInv == Follows /\ Trails(context.history, past) /\ Entitled

\* Another channel after the last: the trail grows exactly if it moved.
LEMMA TrailGrows ==
  ASSUME NEW p \in Seq(Claim), p # <<>>, NEW h \in Seq(Claim), Trails(h, p), NEW c \in Claim,
         NEW q, q = Append(p, c), NEW g,
         g = IF p[Len(p)] \in {NoChannel, c} THEN h ELSE Append(h, p[Len(p)])
  PROVE  Trails(g, q) /\ g \in Seq(Claim)
<1>1. PICK n \in Nat \ {0} : n = Len(p)
  OBVIOUS
<1>2. Len(q) = n + 1 /\ q[n + 1] = c /\ \A i \in 1..n : q[i] = p[i]
  BY <1>1
<1>3. p[n] \in Claim /\ n \notin MovedAt(p)
  BY <1>1 DEF MovedAt
<1>4. MovedAt(q) = MovedAt(p) \cup (IF p[n] \in {NoChannel, c} THEN {} ELSE {n})
  BY <1>1, <1>2 DEF MovedAt
<1>5. \A i \in MovedAt(p) : i \in 1..n /\ q[i] = p[i]
  BY <1>1, <1>2 DEF MovedAt
<1>6. CASE p[n] \in {NoChannel, c}
  <2>1. MovedAt(q) = MovedAt(p) /\ g = h
    BY <1>1, <1>4, <1>6
  <2>2. QED BY <1>5, <2>1 DEF Trails
<1>7. CASE p[n] \notin {NoChannel, c}
  <2>1. MovedAt(q) = MovedAt(p) \cup {n} /\ g = Append(h, p[n])
    BY <1>1, <1>4, <1>7
  <2>2. IsFiniteSet(MovedAt(q)) /\ Cardinality(MovedAt(q)) = Cardinality(MovedAt(p)) + 1
    <3>1. PICK S : S = MovedAt(p)
      OBVIOUS
    <3>2. IsFiniteSet(S) /\ n \notin S /\ MovedAt(q) = S \cup {n}
      BY <1>3, <2>1, <3>1 DEF Trails
    <3>3. IsFiniteSet(S \cup {n}) /\ Cardinality(S \cup {n}) = Cardinality(S) + 1
      BY <3>2, FS_AddElement
    <3>4. QED BY <3>1, <3>2, <3>3
  <2>3. /\ g \in Seq(Claim) /\ Len(g) = Len(h) + 1 /\ g[Len(h) + 1] = p[n]
        /\ \A j \in DOMAIN h : j \in DOMAIN g /\ g[j] = h[j]
        /\ Len(h) + 1 \in DOMAIN g
    BY <1>3, <2>1
  <2>4. \A i \in MovedAt(q) : g[Cardinality(UpTo(MovedAt(q), i))] = q[i]
    <3>1. ASSUME NEW i \in MovedAt(p) PROVE g[Cardinality(UpTo(MovedAt(q), i))] = q[i]
      <4>1. i \in 1..(n - 1)
        BY <1>1 DEF MovedAt
      <4>2. UpTo(MovedAt(q), i) = UpTo(MovedAt(p), i)
        BY <1>1, <2>1, <4>1 DEF UpTo
      <4>3. PICK U : U = UpTo(MovedAt(p), i)
        OBVIOUS
      <4>4. U \in SUBSET MovedAt(p) /\ i \in U
        BY <4>1, <4>3 DEF UpTo
      <4>5. IsFiniteSet(U) /\ Cardinality(U) <= Len(h)
        BY <4>4, FS_Subset DEF Trails
      <4>6. Cardinality(U) \in Nat /\ Cardinality(U) # 0
        BY <4>4, <4>5, FS_CardinalityType, FS_EmptySet
      <4>7. Cardinality(U) \in DOMAIN h
        BY <4>5, <4>6
      <4>8. h[Cardinality(U)] = p[i]
        BY <4>3 DEF Trails
      <4>9. QED BY <1>5, <2>3, <4>2, <4>3, <4>7, <4>8
    <3>2. g[Cardinality(UpTo(MovedAt(q), n))] = q[n]
      <4>1. \A i \in MovedAt(q) : i <= n
        BY <1>1, <1>5, <2>1
      <4>2. UpTo(MovedAt(q), n) = MovedAt(q)
        BY <4>1 DEF UpTo
      <4>3. Cardinality(MovedAt(q)) = Len(h) + 1
        BY <2>2 DEF Trails
      <4>4. QED BY <1>1, <1>2, <2>3, <4>2, <4>3
    <3>3. QED BY <2>1, <3>1, <3>2
  <2>5. QED BY <2>2, <2>3, <2>4 DEF Trails
<1>8. QED BY <1>6, <1>7

\* One channel, or none yet moved from: the trail is empty.
LEMMA TrailStarts ==
  ASSUME NEW p \in Seq(Claim), Len(p) <= 1
  PROVE  Trails(<<>>, p)
<1>1. MovedAt(p) = {}
  BY DEF MovedAt
<1>2. QED BY <1>1, FS_EmptySet DEF Trails

LEMMA DeriveEarns ==
  ASSUME NEW p \in Authenticated, NEW claimed \in Claim, NEW span \in BOOLEAN,
         NEW c, c = Derive(claimed, KindOf(p), span)
  PROVE  /\ c \in Channel
         /\ c = "human_validated" => p = [type |-> "user", delegated |-> FALSE]
         /\ c \in Referent => p.type # "api_key" \/ p.delegated
         /\ c = "span_cited" => span
<1>1. p.type \in {"user", "service", "api_key"} /\ p.delegated \in BOOLEAN
      /\ p = [type |-> p.type, delegated |-> p.delegated]
  BY DEF Authenticated
<1>2. /\ KindOf(p) \in {"human", "system", "client"}
      /\ KindOf(p) = "human" => p.type = "user" /\ ~p.delegated
      /\ KindOf(p) \in {"human", "system"} => p.type # "api_key" \/ p.delegated
  BY <1>1 DEF KindOf
<1>3. /\ c \in Channel
      /\ c = "span_cited" => span
      /\ c = "assertion" \/ c \in Grants[KindOf(p)]
  BY DEF Derive, Channel
<1>4. /\ c = "human_validated" => KindOf(p) = "human"
      /\ c \in Referent => KindOf(p) \in {"human", "system"}
  BY <1>2, <1>3 DEF Grants, Referent, Ungrounded
<1>5. c = "human_validated" => p = [type |-> "user", delegated |-> FALSE]
  <2>1. ASSUME p.type = "user", ~p.delegated PROVE p = [type |-> "user", delegated |-> FALSE]
    <3>1. p.delegated = FALSE
      BY <1>1, <2>1
    <3>2. QED BY <1>1, <2>1, <3>1
  <2>2. QED BY <1>2, <1>4, <2>1
<1>6. c \in Referent => p.type # "api_key" \/ p.delegated
  BY <1>2, <1>4, Zenon
<1>7. c = "span_cited" => span
  BY <1>3, Zenon
<1>8. c \in Channel
  BY <1>3
<1>9. QED BY <1>5, <1>6, <1>7, <1>8, Zenon

\* A server's write starts the trail over, with what the client claimed.
LEMMA WriteKeeps ==
  ASSUME ProvenanceIInv, NEW p \in Authenticated, NEW claimed \in Claim, NEW span \in BOOLEAN,
         Write(p, claimed, span)
  PROVE  ProvenanceIInv'
<1>1. PICK c : c = Derive(claimed, KindOf(p), span)
  OBVIOUS
<1>2. /\ c \in Channel /\ c \in Claim /\ c # NoChannel
      /\ c = "human_validated" => p = [type |-> "user", delegated |-> FALSE]
      /\ c \in Referent => p.type # "api_key" \/ p.delegated
      /\ c = "span_cited" => span
  BY <1>1, DeriveEarns, ProvenanceAssumption DEF Claim
<1>3. PICK g : g = IF claimed \in {NoChannel, c} THEN <<>> ELSE Append(<<>>, claimed)
  OBVIOUS
<1>4. /\ context' = [provenance |-> c, history |-> g]
      /\ by' = [kind |-> "server", principal |-> p, span |-> span]
      /\ past' = <<claimed, c>>
  BY <1>1, <1>3 DEF Write, Stamp
<1>5. Trails(g, <<claimed, c>>) /\ g \in Seq(Claim)
  <2>1. <<claimed>> \in Seq(Claim) /\ <<claimed>> # <<>> /\ Len(<<claimed>>) = 1
        /\ <<claimed>>[1] = claimed /\ <<claimed, c>> = Append(<<claimed>>, c)
        /\ <<>> \in Seq(Claim)
    OBVIOUS
  <2>2. Trails(<<>>, <<claimed>>)
    BY <2>1, TrailStarts
  <2>3. QED BY <1>2, <1>3, <2>1, <2>2, TrailGrows
<1>6. Follows'
  BY <1>2, <1>4, <1>5 DEF Follows
<1>7. Trails(context.history, past)'
  BY <1>4, <1>5 DEF Trails, MovedAt, UpTo
<1>8. Entitled'
  BY <1>2, <1>4 DEF Entitled, HasReferent, ProvenanceOf, Person, Span, Trusted, Referent
<1>9. QED BY <1>6, <1>7, <1>8 DEF ProvenanceIInv

\* An extraction moves the channel to the rung it has earned.
LEMMA ExtractKeeps ==
  ASSUME ProvenanceIInv, NEW e \in Panel, Extract(e)
  PROVE  ProvenanceIInv'
<1>1. PICK c : c = Rung(e)
  OBVIOUS
<1>2. /\ c \in Channel /\ c \in Claim /\ c # NoChannel
      /\ c \in Referent => (c = "human_validated" /\ e.reviewed) \/ (c = "span_cited" /\ e.span)
  <2>1. /\ c \in {"human_validated", "span_cited", "hypothesis", "assertion"}
        /\ c = "human_validated" => e.reviewed
        /\ c = "span_cited" => e.span
    BY <1>1 DEF Rung
  <2>2. QED BY <2>1, ProvenanceAssumption DEF Claim, Channel, Referent
<1>3. PICK p, h, o : p = past /\ h = context.history /\ o = context.provenance
  OBVIOUS
<1>4. PICK g : g = IF o \in {NoChannel, c} THEN h ELSE Append(h, o)
  OBVIOUS
<1>5. /\ context' = [provenance |-> c, history |-> g]
      /\ by' = [kind |-> "extraction", panel |-> e]
      /\ past' = Append(p, c)
  BY <1>1, <1>3, <1>4 DEF Extract, Stamp
<1>6. /\ p \in Seq(Claim) /\ h \in Seq(Claim) /\ Trails(h, p)
      /\ IF p = <<>> THEN o = NoChannel ELSE o = p[Len(p)]
  BY <1>3 DEF ProvenanceIInv, Follows
<1>7. Trails(g, Append(p, c)) /\ g \in Seq(Claim)
  <2>1. CASE p = <<>>
    <3>1. PICK q : q = Append(p, c)
      OBVIOUS
    <3>2. q \in Seq(Claim) /\ Len(q) = 1 /\ Len(q) <= 1 /\ Len(p) = 0 /\ 1..(Len(p) - 1) = {}
      BY <1>2, <1>6, <2>1, <3>1, EmptySeq, AppendProperties
    <3>6. Trails(<<>>, Append(p, c)) /\ MovedAt(p) = {}
      <4>1. Trails(<<>>, q)
        BY <3>2, TrailStarts
      <4>2. QED BY <3>1, <3>2, <4>1 DEF MovedAt
    <3>3. Len(h) = 0
      BY <1>6, <3>6, FS_EmptySet DEF Trails
    <3>4. g = <<>>
      BY <1>4, <1>6, <2>1, <3>3, EmptySeq
    <3>5. QED BY <3>4, <3>6, EmptySeq
  <2>2. CASE p # <<>>
    BY <1>2, <1>4, <1>6, <2>2, TrailGrows
  <2>3. QED BY <2>1, <2>2
<1>8. Append(p, c) \in Seq(Claim) /\ Append(p, c) # <<>> /\ Append(p, c)[Len(Append(p, c))] = c
  BY <1>2, <1>6, AppendProperties
<1>9. Follows'
  BY <1>2, <1>5, <1>7, <1>8 DEF Follows
<1>10. Trails(context.history, past)'
  BY <1>5, <1>7 DEF Trails, MovedAt, UpTo
<1>11. Entitled'
  BY <1>2, <1>5 DEF Entitled, HasReferent, ProvenanceOf, Person, Span, Trusted, Referent
<1>12. QED BY <1>9, <1>10, <1>11 DEF ProvenanceIInv

\* A context with a referent was earned by the write that set it, and its trail
\* is the channels given up since the server last wrote, in order, over any
\* number of writes and extractions (mass.py 161-276, 279-359).
THEOREM GroundedIsAlwaysEarned == ProvenanceSpec => []GroundedIsEarned
<1>1. ProvenanceInit => ProvenanceIInv
  <2> SUFFICES ASSUME ProvenanceInit PROVE ProvenanceIInv
    OBVIOUS
  <2>1. <<>> \in Seq(Claim) /\ Len(<<>>) = 0 /\ NoChannel \in Claim
    BY DEF Claim
  <2>2. Trails(<<>>, <<>>)
    <3>1. PICK p : p = <<>>
      OBVIOUS
    <3>2. p \in Seq(Claim) /\ Len(p) <= 1
      BY <2>1, <3>1
    <3>3. QED BY <3>1, <3>2, TrailStarts
  <2>3. Follows /\ Trails(context.history, past)
    BY <2>1, <2>2 DEF ProvenanceInit, Follows
  <2>4. Entitled
    BY ProvenanceAssumption DEF ProvenanceInit, Entitled, HasReferent, ProvenanceOf, Referent
  <2>5. QED BY <2>3, <2>4 DEF ProvenanceIInv
<1>2. ProvenanceIInv /\ [ProvenanceNext]_provenanceVars => ProvenanceIInv'
  <2> SUFFICES ASSUME ProvenanceIInv, [ProvenanceNext]_provenanceVars PROVE ProvenanceIInv'
    OBVIOUS
  <2>1. CASE UNCHANGED provenanceVars
    BY <2>1 DEF provenanceVars, ProvenanceIInv, Follows, Trails, MovedAt, UpTo, Entitled, HasReferent,
                ProvenanceOf, Person, Span, Trusted
  <2>2. ASSUME NEW p \in Authenticated, NEW claimed \in Claim, NEW span \in BOOLEAN,
               Write(p, claimed, span)
        PROVE  ProvenanceIInv'
    BY <2>2, WriteKeeps
  <2>3. ASSUME NEW e \in Panel, Extract(e)
        PROVE  ProvenanceIInv'
    BY <2>3, ExtractKeeps
  <2>4. QED BY <2>1, <2>2, <2>3 DEF ProvenanceNext
<1>3. ProvenanceIInv => GroundedIsEarned
  <2> SUFFICES ASSUME ProvenanceIInv PROVE GroundedIsEarned
    OBVIOUS
  <2>1. Changed = MovedAt(past) /\ \A i \in Changed : Nth(i) = Cardinality(UpTo(MovedAt(past), i))
    BY DEF Changed, MovedAt, Nth, UpTo
  <2>2. /\ Len(context.history) = Cardinality(Changed)
        /\ \A i \in Changed : context.history[Nth(i)] = past[i]
    BY <2>1 DEF ProvenanceIInv, Trails
  <2>3. QED BY <2>2 DEF ProvenanceIInv, Entitled, GroundedIsEarned
<1>4. QED BY <1>1, <1>2, <1>3, PTL DEF ProvenanceSpec

-----------------------------------------------------------------------------
(* Live streams, for any senders, receivers and groups.                     *)

FabricSpec == FabricInit /\ [][FabricNext]_fabricVars

Frame == [to : Target, tick : Nat, rank : 1..Cardinality(Sender)]

\* No two senders share a rank.
LEMMA RanksDiffer ==
  /\ Cardinality(Sender) \in Nat
  /\ Rank \in [Sender -> 1..Cardinality(Sender)]
  /\ \A a, b \in Sender : Rank[a] = Rank[b] => a = b
<1>1. IsFiniteSet(Sender)
  BY FabricAssumption
<1>2. Cardinality(Sender) \in Nat /\ ExistsBijection(1..Cardinality(Sender), Sender)
  BY <1>1, FS_CardinalityType
<1>3. PICK f \in [1..Cardinality(Sender) -> Sender] :
            \A s \in Sender : \E i \in 1..Cardinality(Sender) : f[i] = s
  BY <1>2 DEF ExistsBijection, Bijection, Surjection
<1>4. PICK rank : rank = [s \in Sender |-> CHOOSE i \in 1..Cardinality(Sender) : f[i] = s]
  OBVIOUS
<1>5. \A s \in Sender : rank[s] \in 1..Cardinality(Sender) /\ f[rank[s]] = s
  BY <1>3, <1>4
<1>6. rank \in [Sender -> 1..Cardinality(Sender)] /\ \A a, b \in Sender : rank[a] = rank[b] => a = b
  BY <1>4, <1>5
<1>7. QED BY <1>2, <1>6 DEF Rank

\* Frames are kept in the order of their stamps, none of them twice.
InOrder(q) == \A i, j \in DOMAIN q : i < j => Before(q[i], q[j])

\* A frame goes to its place: what was there stays, and the order holds.
LEMMA SortedKeeps ==
  ASSUME NEW q \in Seq(Frame), InOrder(q), NEW f \in Frame,
         \A i \in DOMAIN q : Before(f, q[i]) \/ Before(q[i], f)
  PROVE  /\ Sorted(q, f) \in Seq(Frame) /\ InOrder(Sorted(q, f))
         /\ \E i \in DOMAIN Sorted(q, f) : Sorted(q, f)[i] = f
         /\ \A j \in DOMAIN q : \E i \in DOMAIN Sorted(q, f) : Sorted(q, f)[i] = q[j]
         /\ \A i \in DOMAIN Sorted(q, f) :
              Sorted(q, f)[i] = f \/ \E j \in DOMAIN q : Sorted(q, f)[i] = q[j]
<1>1. PICK n \in Nat : n = Len(q)
  OBVIOUS
<1>2. DOMAIN q = 1..n /\ \A i \in 1..n : q[i] \in Frame
  BY <1>1
<1>3. PICK later : later = {i \in DOMAIN q : Before(f, q[i])}
  OBVIOUS
<1>4. later \subseteq 1..n /\ IsFiniteSet(later) /\ Cardinality(later) \in 0..n
  <2>1. later \in SUBSET (1..n)
    BY <1>2, <1>3
  <2>2. IsFiniteSet(1..n) /\ Cardinality(1..n) = n
    <3>1. /\ IsFiniteSet(1..n)
          /\ Cardinality(1..n) = IF 1 > n THEN 0 ELSE n - 1 + 1
      BY FS_Interval
    <3>2. QED BY <1>1, <3>1
  <2>3. IsFiniteSet(later) /\ Cardinality(later) <= n
    BY <2>1, <2>2, FS_Subset
  <2>4. Cardinality(later) \in Nat
    BY <2>3, FS_CardinalityType
  <2>5. QED BY <2>1, <2>3, <2>4
<1>5. PICK k \in 0..n : k = n - Cardinality(later)
  BY <1>4
<1>6. \A i, j \in 1..n : i \in later /\ i <= j => j \in later
  <2> SUFFICES ASSUME NEW i \in 1..n, NEW j \in 1..n, i \in later, i < j PROVE j \in later
    OBVIOUS
  <2>1. Before(f, q[i]) /\ Before(q[i], q[j])
    BY <1>2, <1>3 DEF InOrder
  <2>2. Before(f, q[j])
    BY <1>1, <1>2, <2>1 DEF Before, Frame
  <2>3. QED BY <1>2, <1>3, <2>2
<1>7. \A i \in 1..n : i \in later <=> k < i
  <2> SUFFICES ASSUME NEW i \in 1..n PROVE i \in later <=> k < i
    OBVIOUS
  <2>1. CASE i \in later
    <3>1. i..n \in SUBSET later
      BY <1>1, <1>6, <2>1
    <3>2. Cardinality(i..n) = n - i + 1
      BY <1>1, FS_Interval
    <3>3. Cardinality(i..n) <= Cardinality(later)
      BY <1>4, <3>1, FS_Subset
    <3>4. QED BY <1>1, <1>4, <1>5, <2>1, <3>2, <3>3
  <2>2. CASE i \notin later
    <3>1. later \in SUBSET ((i + 1)..n)
      <4>1. \A j \in later : j \in 1..n /\ ~(j <= i)
        BY <1>4, <1>6, <2>2
      <4>2. QED BY <1>1, <4>1
    <3>2. IsFiniteSet((i + 1)..n) /\ Cardinality((i + 1)..n) = n - i
      <4>1. PICK m \in Int, l \in Int : m = i + 1 /\ l = n
        BY <1>1
      <4>2. /\ IsFiniteSet(m..l)
            /\ Cardinality(m..l) = IF m > l THEN 0 ELSE l - m + 1
        BY FS_Interval
      <4>3. QED BY <1>1, <4>1, <4>2
    <3>3. Cardinality(later) <= n - i
      BY <3>1, <3>2, FS_Subset
    <3>4. QED BY <1>1, <1>4, <1>5, <2>2, <3>3
  <2>3. QED BY <2>1, <2>2
<1>8. PICK s : s = Sorted(q, f)
  OBVIOUS
<1>9. s = SubSeq(q, 1, k) \o <<f>> \o SubSeq(q, k + 1, n)
  BY <1>1, <1>3, <1>5, <1>8 DEF Sorted
<1>10. /\ s \in Seq(Frame) /\ Len(s) = n + 1 /\ DOMAIN s = 1..(n + 1)
       /\ \A i \in 1..(n + 1) : s[i] = IF i <= k THEN q[i] ELSE IF i = k + 1 THEN f ELSE q[i - 1]
  <2>1. PICK a, b : a = SubSeq(q, 1, k) /\ b = SubSeq(q, k + 1, n)
    OBVIOUS
  <2>2. /\ a \in Seq(Frame) /\ Len(a) = k /\ \A i \in 1..k : a[i] = q[i]
        /\ b \in Seq(Frame) /\ Len(b) = n - k /\ \A i \in 1..(n - k) : b[i] = q[k + i]
    <3>1. /\ \A i \in 1..k : q[i] \in Frame
          /\ \A i \in (k + 1)..n : q[i] \in Frame
          /\ 1 \in Int /\ k \in Int /\ k + 1 \in Int /\ n \in Int
      BY <1>1, <1>2
    <3>2. /\ a \in Seq(Frame) /\ Len(a) = IF 1 <= k THEN k - 1 + 1 ELSE 0
          /\ \A i \in 1..(k - 1 + 1) : a[i] = q[1 + i - 1]
      BY <2>1, <3>1, SubSeqProperties
    <3>3. /\ b \in Seq(Frame) /\ Len(b) = IF k + 1 <= n THEN n - (k + 1) + 1 ELSE 0
          /\ \A i \in 1..(n - (k + 1) + 1) : b[i] = q[(k + 1) + i - 1]
      BY <2>1, <3>1, SubSeqProperties
    <3>4. QED BY <1>1, <3>2, <3>3
  <2>3. PICK c : c = a \o <<f>>
    OBVIOUS
  <2>4. <<f>> \in Seq(Frame) /\ Len(<<f>>) = 1 /\ <<f>>[1] = f
    OBVIOUS
  <2>5. c \in Seq(Frame) /\ Len(c) = k + 1 /\ \A i \in 1..(k + 1) : c[i] = IF i <= k THEN a[i] ELSE f
    <3>1. /\ c \in Seq(Frame) /\ Len(c) = Len(a) + Len(<<f>>)
          /\ \A i \in 1..(Len(a) + Len(<<f>>)) : c[i] = IF i <= Len(a) THEN a[i] ELSE <<f>>[i - Len(a)]
      BY <2>2, <2>3, <2>4, ConcatProperties
    <3>2. Len(c) = k + 1 /\ \A i \in 1..(k + 1) : c[i] = IF i <= k THEN a[i] ELSE <<f>>[i - k]
      BY <1>1, <2>2, <2>4, <3>1
    <3>3. \A i \in 1..(k + 1) : ~(i <= k) => i - k = 1
      BY <1>1
    <3>4. \A i \in 1..(k + 1) : ~(i <= k) => <<f>>[i - k] = f
      BY <2>4, <3>3
    <3>5. QED BY <3>1, <3>2, <3>4
  <2>6. /\ s \in Seq(Frame) /\ Len(s) = Len(c) + Len(b)
        /\ \A i \in 1..(Len(c) + Len(b)) : s[i] = IF i <= Len(c) THEN c[i] ELSE b[i - Len(c)]
    <3>1. s = c \o b
      BY <1>9, <2>1, <2>3
    <3>2. c \in Seq(Frame) /\ b \in Seq(Frame)
      BY <2>2, <2>5
    <3>3. QED BY <3>1, <3>2, ConcatProperties
  <2>7. Len(s) = n + 1 /\ DOMAIN s = 1..(n + 1)
    BY <1>1, <2>2, <2>5, <2>6, LenProperties
  <2>8. ASSUME NEW i \in 1..(n + 1)
        PROVE  s[i] = IF i <= k THEN q[i] ELSE IF i = k + 1 THEN f ELSE q[i - 1]
    <3>1. CASE i <= k + 1
      <4>1. i \in 1..(Len(c) + Len(b)) /\ i <= Len(c) /\ i \in 1..(k + 1)
        <5>1. PICK lc, lb : lc = Len(c) /\ lb = Len(b)
          OBVIOUS
        <5>2. lc = k + 1 /\ lb = n - k
          BY <2>2, <2>5, <5>1
        <5>3. i \in 1..(lc + lb) /\ i <= lc /\ i \in 1..(k + 1)
          BY <1>1, <3>1, <5>2
        <5>4. QED BY <5>1, <5>3
      <4>2. s[i] = c[i]
        BY <2>6, <4>1
      <4>3. i <= k => c[i] = q[i]
        BY <1>1, <2>2, <2>5, <4>1
      <4>4. i > k => i = k + 1 /\ c[i] = f
        BY <1>1, <2>5, <4>1
      <4>5. QED BY <1>1, <4>2, <4>3, <4>4
    <3>2. CASE k + 1 < i
      <4>1. i - (k + 1) \in 1..(n - k) /\ k + (i - (k + 1)) = i - 1
        BY <1>1, <3>2
      <4>2. s[i] = b[i - (k + 1)]
        <5>1. i \in 1..(Len(c) + Len(b)) /\ ~(i <= Len(c)) /\ Len(c) = k + 1
          BY <1>1, <2>2, <2>5, <3>2
        <5>2. QED BY <2>6, <5>1
      <4>3. s[i] = q[i - 1]
        BY <2>2, <4>1, <4>2
      <4>4. QED BY <1>1, <3>2, <4>3
    <3>3. QED BY <1>1, <3>1, <3>2
  <2>9. QED BY <2>6, <2>7, <2>8
<1>11. \A i \in 1..n : (i <= k => Before(q[i], f)) /\ (k < i => Before(f, q[i]))
  BY <1>1, <1>2, <1>3, <1>7
<1>12. InOrder(s)
  <2> SUFFICES ASSUME NEW i \in 1..(n + 1), NEW j \in 1..(n + 1), i < j PROVE Before(s[i], s[j])
    BY <1>10 DEF InOrder
  <2>1. \A x, y \in 1..n : x < y => Before(q[x], q[y])
    BY <1>2 DEF InOrder
  <2>2. CASE j <= k
    <3>1. i <= k /\ i \in 1..n /\ j \in 1..n
      BY <1>1, <2>2
    <3>2. s[i] = q[i] /\ s[j] = q[j]
      BY <1>10, <2>2, <3>1
    <3>3. QED BY <2>1, <3>1, <3>2
  <2>3. CASE j = k + 1
    BY <1>1, <1>10, <1>11, <2>3
  <2>4. CASE k + 1 < j /\ i <= k
    <3>1. i \in 1..n /\ j - 1 \in 1..n /\ i < j - 1 /\ ~(j <= k) /\ j # k + 1
      BY <1>1, <2>4
    <3>2. s[i] = q[i] /\ s[j] = q[j - 1]
      BY <1>10, <2>4, <3>1
    <3>3. QED BY <2>1, <3>1, <3>2
  <2>5. CASE k + 1 < j /\ i = k + 1
    BY <1>1, <1>10, <1>11, <2>5
  <2>6. CASE k + 1 < j /\ k + 1 < i
    <3>1. /\ i - 1 \in 1..n /\ j - 1 \in 1..n /\ i - 1 < j - 1
          /\ ~(i <= k) /\ i # k + 1 /\ ~(j <= k) /\ j # k + 1
      BY <1>1, <2>6
    <3>2. s[i] = q[i - 1] /\ s[j] = q[j - 1]
      BY <1>10, <2>6, <3>1
    <3>3. QED BY <2>1, <3>1, <3>2
  <2>7. QED BY <1>1, <2>2, <2>3, <2>4, <2>5, <2>6
<1>13. \E i \in DOMAIN s : s[i] = f
  <2>1. k + 1 \in 1..(n + 1) /\ s[k + 1] = f
    BY <1>1, <1>10
  <2>2. QED BY <1>10, <2>1
<1>14. \A j \in DOMAIN q : \E i \in DOMAIN s : s[i] = q[j]
  <2> SUFFICES ASSUME NEW j \in 1..n PROVE \E i \in 1..(n + 1) : s[i] = q[j]
    BY <1>2, <1>10
  <2>1. CASE j <= k
    BY <1>1, <1>10, <2>1
  <2>2. CASE k < j
    <3>1. j + 1 \in 1..(n + 1) /\ s[j + 1] = q[j]
      BY <1>1, <1>10, <2>2
    <3>2. QED BY <3>1
  <2>3. QED BY <1>1, <2>1, <2>2
<1>15. \A i \in DOMAIN s : s[i] = f \/ \E j \in DOMAIN q : s[i] = q[j]
  <2> SUFFICES ASSUME NEW i \in 1..(n + 1) PROVE s[i] = f \/ \E j \in 1..n : s[i] = q[j]
    BY <1>2, <1>10
  <2>1. CASE i <= k
    BY <1>1, <1>10, <2>1
  <2>2. CASE i = k + 1
    BY <1>1, <1>10, <2>2
  <2>3. CASE k + 1 < i
    <3>1. i - 1 \in 1..n /\ s[i] = q[i - 1]
      BY <1>1, <1>10, <2>3
    <3>2. QED BY <3>1
  <2>4. QED BY <1>1, <2>1, <2>2, <2>3
<1>16. QED BY <1>8, <1>10, <1>12, <1>13, <1>14, <1>15

\* A frame bears a stamp its sender's clock has given.
StampedBy(c, f) == f \in Frame /\ \E s \in Sender : f.rank = Rank[s] /\ f.tick <= c[s]
Stamped(f) == StampedBy(clock, f)

\* What a receiver keeps.
Keeps(rec) ==
  /\ DOMAIN rec = {"made", "reach", "frames"}
  /\ rec.frames \in Seq(Frame) /\ InOrder(rec.frames)
Holds(rec, f) == \E i \in DOMAIN rec.frames : rec.frames[i] = f

FabricTypeOK ==
  /\ DOMAIN receiver = Receiver /\ \A r \in Receiver : Keeps(receiver[r])
  /\ subs \in [Target -> Seq(Receiver)] /\ clock \in [Sender -> Nat]

AllStamped ==
  /\ \A r \in Receiver : \A i \in DOMAIN receiver[r].frames : Stamped(receiver[r].frames[i])
  /\ \A f \in letters : Stamped(f)
  /\ \A e \in sent : Stamped(e.frame)

\* Only a receiver that was made subscribes.
OnlyMadeSubscribe ==
  /\ \A a \in Target : \A i \in DOMAIN subs[a] : receiver[subs[a][i]].made
  /\ \A e \in sent : e.subscribed \subseteq Receiver /\ \A r \in e.subscribed : receiver[r].made

\* What became of a frame whose call returned.
Arrived(e) ==
  e.returned =>
    IF e.subscribed = {} THEN Fallback => e.frame \in letters
    ELSE /\ e.frame \notin letters
         /\ \A r \in e.subscribed : e.frame.to \in receiver[r].reach => Holds(receiver[r], e.frame)

FabricIInv ==
  FabricTypeOK /\ AllStamped /\ OnlyMadeSubscribe /\ \A e \in sent : Arrived(e)

\* A new reading makes a frame no one has seen.
LEMMA NewFrame ==
  ASSUME NEW s \in Sender, NEW tick \in Nat, NEW to \in Target, NEW f,
         f = [to |-> to, tick |-> tick, rank |-> Rank[s]],
         clock \in [Sender -> Nat], clock[s] < tick
  PROVE  /\ f \in Frame
         /\ \A g : Stamped(g) => g # f /\ (Before(f, g) \/ Before(g, f))
<1>1. f \in Frame /\ f.tick = tick /\ f.rank = Rank[s]
  BY RanksDiffer DEF Frame
<1>2. ASSUME NEW g, Stamped(g) PROVE g # f /\ (Before(f, g) \/ Before(g, f))
  <2>1. PICK t \in Sender : g.rank = Rank[t] /\ g.tick <= clock[t]
    BY <1>2 DEF Stamped, StampedBy
  <2>2. g.tick \in Nat /\ g.rank \in Int /\ f.rank \in Int /\ clock[t] \in Nat /\ clock[s] \in Nat
    BY <1>1, <1>2 DEF Stamped, StampedBy, Frame
  <2>3. CASE t = s
    BY <1>1, <2>1, <2>2, <2>3 DEF Before
  <2>4. CASE t # s
    <3>1. g.rank # f.rank
      BY <1>1, <2>1, <2>4, RanksDiffer
    <3>2. QED BY <1>1, <2>2, <3>1 DEF Before
  <2>5. QED BY <2>3, <2>4
<1>3. QED BY <1>1, <1>2

\* The other steps move no frame.
LEMMA OthersKeep ==
  ASSUME FabricIInv,
         \/ UNCHANGED fabricVars
         \/ \E p \in People, g \in Target : Join(p, g)
         \/ \E r \in Receiver : MakeReceiver(r)
         \/ \E r \in Receiver, a \in Target : Subscribe(r, a)
         \/ \E s \in Sender : Close(s)
  PROVE  FabricIInv'
<1>1. CASE UNCHANGED <<receiver, subs, clock, letters, sent>>
  BY <1>1 DEF FabricIInv, FabricTypeOK, AllStamped, Stamped, StampedBy, OnlyMadeSubscribe, Arrived
<1>2. ASSUME NEW r \in Receiver, MakeReceiver(r)
      PROVE  FabricIInv'
  <2>1. PICK m : m = [made |-> TRUE, reach |-> ReachesOf(r), frames |-> <<>>]
    OBVIOUS
  <2>2. /\ ~receiver[r].made /\ receiver' = [receiver EXCEPT ![r] = m]
        /\ subs' = subs /\ clock' = clock /\ letters' = letters /\ sent' = sent
    BY <1>2, <2>1 DEF MakeReceiver
  <2>3. Keeps(m) /\ m.made /\ DOMAIN m.frames = {}
    BY <2>1 DEF Keeps, InOrder
  <2>4. /\ DOMAIN receiver' = Receiver /\ receiver'[r] = m
        /\ \A o \in Receiver : o # r => receiver'[o] = receiver[o]
    BY <2>2 DEF FabricIInv, FabricTypeOK
  <2>5. FabricTypeOK'
    BY <2>2, <2>3, <2>4 DEF FabricIInv, FabricTypeOK
  <2>6. AllStamped'
    BY <2>2, <2>3, <2>4 DEF FabricIInv, AllStamped, Stamped, StampedBy
  <2>7. OnlyMadeSubscribe'
    <3>1. \A o \in Receiver : receiver[o].made => receiver'[o].made
      BY <2>3, <2>4
    <3>2. \A a \in Target : \A i \in DOMAIN subs[a] : subs[a][i] \in Receiver
      BY DEF FabricIInv, FabricTypeOK
    <3>3. QED BY <2>2, <3>1, <3>2 DEF FabricIInv, OnlyMadeSubscribe
  <2>8. ASSUME NEW e \in sent PROVE Arrived(e)'
    <3>1. \A o \in e.subscribed : receiver'[o] = receiver[o]
      BY <2>2, <2>4 DEF FabricIInv, OnlyMadeSubscribe
    <3>2. QED BY <2>2, <3>1 DEF FabricIInv, Arrived
  <2>9. QED BY <2>2, <2>5, <2>6, <2>7, <2>8 DEF FabricIInv
<1>3. ASSUME NEW r \in Receiver, NEW a \in Target, Subscribe(r, a)
      PROVE  FabricIInv'
  <2>1. PICK q : q = Append(subs[a], r)
    OBVIOUS
  <2>2. /\ receiver[r].made /\ subs' = [subs EXCEPT ![a] = q]
        /\ receiver' = receiver /\ clock' = clock /\ letters' = letters /\ sent' = sent
    BY <1>3, <2>1 DEF Subscribe
  <2>3. /\ subs[a] \in Seq(Receiver) /\ q \in Seq(Receiver)
        /\ \A i \in DOMAIN q : q[i] = r \/ \E j \in DOMAIN subs[a] : q[i] = subs[a][j]
    <3>1. PICK o \in Seq(Receiver) : o = subs[a]
      BY DEF FabricIInv, FabricTypeOK
    <3>2. q = Append(o, r)
      BY <2>1, <3>1
    <3>3. q \in Seq(Receiver) /\ \A i \in DOMAIN q : q[i] = r \/ \E j \in DOMAIN o : q[i] = o[j]
      BY <3>2
    <3>4. QED BY <3>1, <3>3
  <2>4. /\ subs' \in [Target -> Seq(Receiver)] /\ subs'[a] = q
        /\ \A b \in Target : b # a => subs'[b] = subs[b]
    BY <2>2, <2>3 DEF FabricIInv, FabricTypeOK
  <2>5. FabricTypeOK' /\ AllStamped' /\ \A e \in sent : Arrived(e)'
    BY <2>2, <2>4 DEF FabricIInv, FabricTypeOK, AllStamped, Stamped, StampedBy, Arrived
  <2>6. OnlyMadeSubscribe'
    <3>1. ASSUME NEW b \in Target, NEW i \in DOMAIN subs'[b] PROVE receiver[subs'[b][i]].made
      <4>1. CASE b = a
        BY <2>2, <2>3, <2>4, <4>1 DEF FabricIInv, OnlyMadeSubscribe
      <4>2. CASE b # a
        BY <2>4, <4>2 DEF FabricIInv, OnlyMadeSubscribe
      <4>3. QED BY <4>1, <4>2
    <3>2. QED BY <2>2, <3>1 DEF FabricIInv, OnlyMadeSubscribe
  <2>7. QED BY <2>2, <2>5, <2>6 DEF FabricIInv
<1>4. QED BY <1>1, <1>2, <1>3 DEF fabricVars, Join, Close

\* A receiver that hears a frame keeps it if it is within its reach.
LEMMA HearingKeeps ==
  ASSUME NEW rec, Keeps(rec), NEW f \in Frame,
         \A i \in DOMAIN rec.frames : Before(f, rec.frames[i]) \/ Before(rec.frames[i], f),
         NEW heard, heard = OnFrame(rec, f)
  PROVE  /\ Keeps(heard) /\ heard.made = rec.made /\ heard.reach = rec.reach
         /\ f.to \in rec.reach => Holds(heard, f)
         /\ \A g : Holds(rec, g) => Holds(heard, g)
         /\ \A g : Holds(heard, g) => g = f \/ Holds(rec, g)
<1>1. PICK q : q = rec.frames
  OBVIOUS
<1>2. q \in Seq(Frame) /\ InOrder(q) /\ \A i \in DOMAIN q : Before(f, q[i]) \/ Before(q[i], f)
  BY <1>1 DEF Keeps
<1>3. PICK s : s = Sorted(q, f)
  OBVIOUS
<1>4. /\ s \in Seq(Frame) /\ InOrder(s) /\ \E i \in DOMAIN s : s[i] = f
      /\ \A j \in DOMAIN q : \E i \in DOMAIN s : s[i] = q[j]
      /\ \A i \in DOMAIN s : s[i] = f \/ \E j \in DOMAIN q : s[i] = q[j]
  BY <1>2, <1>3, SortedKeeps
<1>5. CASE f.to \in rec.reach
  <2>1. heard = [rec EXCEPT !.frames = s]
    BY <1>1, <1>3, <1>5 DEF OnFrame
  <2>2. /\ DOMAIN heard = {"made", "reach", "frames"} /\ heard.frames = s
        /\ heard.made = rec.made /\ heard.reach = rec.reach
    BY <2>1 DEF Keeps
  <2>3. QED BY <1>1, <1>4, <2>2 DEF Keeps, Holds
<1>6. CASE f.to \notin rec.reach
  BY <1>6 DEF OnFrame
<1>7. QED BY <1>5, <1>6

\* A sending reaches its first n subscribers, or leaves a letter.
LEMMA SendKeeps ==
  ASSUME FabricIInv, NEW s \in Sender, NEW to \in Target, NEW tick \in Nat,
         NEW n \in 0..Len(subs[to]), SendFrame(s, Rank[s], to, tick, n)
  PROVE  FabricIInv'
<1>1. PICK f : f = [to |-> to, tick |-> tick, rank |-> Rank[s]]
  OBVIOUS
<1>2. PICK q \in Seq(Receiver) : q = subs[to]
  BY DEF FabricIInv, FabricTypeOK
<1>3. PICK heard : heard = {q[i] : i \in 1..n}
  OBVIOUS
<1>4. PICK new : new = [frame |-> f, returned |-> n = Len(q), subscribed |-> {q[i] : i \in DOMAIN q}]
  OBVIOUS
<1>5. /\ clock[s] < tick /\ clock' = [clock EXCEPT ![s] = tick]
      /\ receiver' = [r \in Receiver |-> IF r \in heard THEN OnFrame(receiver[r], f) ELSE receiver[r]]
      /\ letters' = (IF q = <<>> /\ Fallback THEN letters \cup {f} ELSE letters)
      /\ sent' = sent \cup {new} /\ subs' = subs
  BY <1>1, <1>2, <1>3, <1>4 DEF SendFrame
<1>6. clock \in [Sender -> Nat]
  BY DEF FabricIInv, FabricTypeOK
<1>7. f \in Frame /\ \A g : Stamped(g) => g # f /\ (Before(f, g) \/ Before(g, f))
  BY <1>1, <1>5, <1>6, NewFrame
<1>8. /\ f.to = to /\ f.tick = tick /\ f.rank = Rank[s]
      /\ new.frame = f /\ (new.returned <=> n = Len(q)) /\ new.subscribed = {q[i] : i \in DOMAIN q}
  BY <1>1, <1>4
<1>9. clock' \in [Sender -> Nat] /\ \A t \in Sender : clock[t] <= clock'[t]
  BY <1>5, <1>6
<1>10. (\A g : Stamped(g) => Stamped(g)') /\ Stamped(f)'
  <2>1. ASSUME NEW g, Stamped(g) PROVE Stamped(g)'
    <3>1. PICK t \in Sender : g.rank = Rank[t] /\ g.tick <= clock[t]
      BY <2>1 DEF Stamped, StampedBy
    <3>2. g.tick \in Nat /\ clock[t] \in Nat /\ clock'[t] \in Nat
      BY <1>6, <1>9, <2>1 DEF Stamped, StampedBy, Frame
    <3>3. g.tick <= clock'[t]
      BY <1>9, <3>1, <3>2
    <3>4. QED BY <2>1, <3>1, <3>3 DEF Stamped, StampedBy
  <2>2. clock'[s] = tick
    BY <1>5, <1>6
  <2>3. QED BY <1>7, <1>8, <2>1, <2>2 DEF Stamped, StampedBy
<1>11. ASSUME NEW r \in Receiver
       PROVE  /\ Keeps(receiver'[r]) /\ receiver'[r].made = receiver[r].made
              /\ receiver'[r].reach = receiver[r].reach
              /\ r \in heard /\ to \in receiver[r].reach => Holds(receiver'[r], f)
              /\ \A g : Holds(receiver[r], g) => Holds(receiver'[r], g)
              /\ \A g : Holds(receiver'[r], g) => g = f \/ Holds(receiver[r], g)
  <2>1. PICK rec, h : rec = receiver[r] /\ h = OnFrame(rec, f)
    OBVIOUS
  <2>2. Keeps(rec) /\ \A i \in DOMAIN rec.frames : Stamped(rec.frames[i])
    BY <2>1 DEF FabricIInv, FabricTypeOK, AllStamped
  <2>3. /\ Keeps(h) /\ h.made = rec.made /\ h.reach = rec.reach
        /\ f.to \in rec.reach => Holds(h, f)
        /\ \A g : Holds(rec, g) => Holds(h, g)
        /\ \A g : Holds(h, g) => g = f \/ Holds(rec, g)
    BY <1>7, <2>1, <2>2, HearingKeeps
  <2>4. receiver'[r] = IF r \in heard THEN h ELSE rec
    BY <1>5, <2>1
  <2>5. QED BY <1>8, <2>1, <2>2, <2>3, <2>4
<1>12. FabricTypeOK'
  BY <1>5, <1>9, <1>11 DEF FabricIInv, FabricTypeOK
<1>13. AllStamped'
  <2>1. ASSUME NEW r \in Receiver, NEW i \in DOMAIN receiver'[r].frames
        PROVE  StampedBy(clock', receiver'[r].frames[i])
    <3>1. PICK g : g = receiver'[r].frames[i]
      OBVIOUS
    <3>2. g = f \/ Holds(receiver[r], g)
      BY <1>11, <3>1 DEF Holds
    <3>3. Holds(receiver[r], g) => Stamped(g)
      BY DEF Holds, FabricIInv, AllStamped
    <3>4. Stamped(g)'
      BY <1>10, <3>2, <3>3
    <3>5. QED BY <3>1, <3>4 DEF Stamped
  <2>2. ASSUME NEW g \in letters' PROVE Stamped(g)'
    BY <1>5, <1>10, <2>2 DEF FabricIInv, AllStamped
  <2>3. ASSUME NEW e \in sent' PROVE Stamped(e.frame)'
    BY <1>5, <1>8, <1>10, <2>3 DEF FabricIInv, AllStamped
  <2>4. QED BY <2>1, <2>2, <2>3 DEF AllStamped, Stamped
<1>14. new.subscribed \subseteq Receiver /\ \A r \in new.subscribed : receiver[r].made
  BY <1>2, <1>8 DEF FabricIInv, OnlyMadeSubscribe
<1>15. OnlyMadeSubscribe'
  <2>1. \A r \in Receiver : receiver[r].made => receiver'[r].made
    BY <1>11
  <2>2. ASSUME NEW a \in Target, NEW i \in DOMAIN subs[a] PROVE receiver'[subs[a][i]].made
    BY <2>1 DEF FabricIInv, OnlyMadeSubscribe, FabricTypeOK
  <2>3. QED BY <1>5, <1>14, <2>1, <2>2 DEF FabricIInv, OnlyMadeSubscribe
<1>16. ASSUME NEW e \in sent PROVE Arrived(e)'
  <2> SUFFICES ASSUME e.returned PROVE Arrived(e)'
    BY DEF Arrived
  <2>1. e.frame # f
    BY <1>7 DEF FabricIInv, AllStamped
  <2>2. e.frame \in letters' <=> e.frame \in letters
    BY <1>5, <2>1
  <2>3. ASSUME NEW r \in e.subscribed, e.frame.to \in receiver'[r].reach, e.subscribed # {}
        PROVE  Holds(receiver'[r], e.frame)
    <3>1. r \in Receiver
      BY DEF FabricIInv, OnlyMadeSubscribe
    <3>2. QED BY <1>11, <2>3, <3>1 DEF FabricIInv, Arrived
  <2>4. QED BY <2>2, <2>3 DEF FabricIInv, Arrived, Holds
<1>17. Arrived(new)'
  <2> SUFFICES ASSUME n = Len(q)
               PROVE  IF new.subscribed = {} THEN Fallback => f \in letters'
                      ELSE /\ f \notin letters'
                           /\ \A r \in new.subscribed :
                                to \in receiver'[r].reach => Holds(receiver'[r], f)
    BY <1>8 DEF Arrived, Holds
  <2>1. heard = new.subscribed
    BY <1>2, <1>3, <1>8
  <2>2. new.subscribed = {} <=> q = <<>>
    <3>1. DOMAIN q = 1..Len(q) /\ Len(q) \in Nat /\ (q # <<>> => Len(q) > 0) /\ (q = <<>> => Len(q) = 0)
      BY EmptySeq
    <3>2. q # <<>> => 1 \in DOMAIN q
      BY <3>1
    <3>3. q # <<>> => new.subscribed # {}
      BY <1>8, <3>2
    <3>4. q = <<>> => new.subscribed = {}
      BY <1>8, <3>1
    <3>5. QED BY <3>3, <3>4
  <2>3. f \notin letters
    BY <1>7 DEF FabricIInv, AllStamped
  <2>4. QED BY <1>5, <1>11, <1>14, <2>1, <2>2, <2>3
<1>18. QED BY <1>5, <1>12, <1>13, <1>15, <1>16, <1>17 DEF FabricIInv

\* A frame whose call returned is with every subscriber that may open it, or is
\* a letter, never both, and what a receiver holds is in the senders' clock
\* order, for any senders, receivers and groups (streams.py 36-40, 80-88).
THEOREM FramesAreNeverLost == FabricSpec => []LiveOrLetter
<1>1. FabricInit => FabricIInv
  <2> SUFFICES ASSUME FabricInit PROVE FabricIInv
    OBVIOUS
  <2>1. Keeps(NotMade) /\ DOMAIN NotMade.frames = {}
    BY DEF NotMade, Keeps, InOrder
  <2>2. FabricTypeOK
    BY <2>1 DEF FabricInit, FabricTypeOK
  <2>3. AllStamped
    BY <2>1 DEF FabricInit, AllStamped
  <2>4. OnlyMadeSubscribe
    BY DEF FabricInit, OnlyMadeSubscribe
  <2>5. QED BY <2>2, <2>3, <2>4 DEF FabricIInv, FabricInit
<1>2. FabricIInv /\ [FabricNext]_fabricVars => FabricIInv'
  <2> SUFFICES ASSUME FabricIInv, [FabricNext]_fabricVars PROVE FabricIInv'
    OBVIOUS
  <2>1. ASSUME NEW s \in Sender, NEW to \in Target, NEW tick \in 1..MaxTick,
               NEW n \in 0..Len(subs[to]), SendFrame(s, Rank[s], to, tick, n)
        PROVE  FabricIInv'
    <3>1. tick \in Nat
      BY FabricAssumption
    <3>2. QED BY <2>1, <3>1, SendKeeps
  <2>2. QED BY <2>1, OthersKeep DEF FabricNext
<1>3. FabricIInv => LiveOrLetter
  BY DEF FabricIInv, FabricTypeOK, Keeps, InOrder, Arrived, Holds, LiveOrLetter
<1>4. QED BY <1>1, <1>2, <1>3, PTL DEF FabricSpec

-----------------------------------------------------------------------------
(* The energy of an artifact, for any measurements of the clock and any      *)
(* table of cooling.                                                        *)

DemurrageSpec == DemurrageInit /\ [][DemurrageNext]_demurrageVars

DemurrageTypeOK ==
  /\ rate \in Taus \cup {Unmeasured} /\ heat \in Nat /\ frame \in 0..MaxFrame
  /\ booked \in Int /\ gone \in [worth : Int, unpaid : Int]

\* What is booked at the last use is the worth of the heat gone by then.
Paid == gone.unpaid = 0 /\ booked = gone.worth

DemurrageIInv == DemurrageTypeOK /\ Paid

\* Cooling takes a part of the heat and pays for it at the rate that stands,
\* and no clock takes nothing.
LEMMA CoolingPays ==
  ASSUME DemurrageTypeOK, NEW dt \in (-MaxFrame)..MaxFrame
  PROVE  \E less \in Nat :
           /\ less <= heat /\ Cool(heat, dt, rate) = heat - less
           /\ \/ rate = Unmeasured /\ less = 0 /\ Accrue(heat, dt, booked, rate) = booked
              \/ rate \in Taus /\ Accrue(heat, dt, booked, rate) = booked + rate * less
<1>1. PICK h \in Nat, e \in Int, tau \in Taus \cup {Unmeasured} : h = heat /\ e = booked /\ tau = rate
  BY DEF DemurrageTypeOK
<1>2. CASE tau = Unmeasured
  <2>1. Cool(h, dt, tau) = h - 0 /\ Accrue(h, dt, e, tau) = e
    BY <1>2 DEF Cool, Accrue
  <2>2. QED BY <1>1, <1>2, <2>1
<1>3. CASE tau \in Taus
  <2>1. Clamp(dt) \in 0..MaxFrame
    BY DemurrageAssumption DEF Clamp
  <2>2. PICK d \in Nat \ {0} : d = Cooling[tau][Clamp(dt)]
    BY <1>3, <2>1, DemurrageAssumption
  <2>3. PICK s \in Nat : s = h \div d /\ s <= h
    OBVIOUS
  <2>4. tau # Unmeasured
    BY <1>3, DemurrageAssumption
  <2>5. PICK less \in Nat : less = h - s
    BY <2>3
  <2>6. h - less = s /\ less <= h
    BY <2>3, <2>5
  <2>7. Cool(h, dt, tau) = s /\ Accrue(h, dt, e, tau) = e + tau * less
    BY <2>2, <2>3, <2>4, <2>5 DEF Cool, Accrue, Survives
  <2>8. QED BY <1>1, <1>3, <2>6, <2>7
<1>4. QED BY <1>1, <1>2, <1>3

LEMMA WitnessKeeps ==
  ASSUME DemurrageIInv, NEW now \in 0..MaxFrame, NEW mass \in Mass, NEW work \in Work,
         Witness(now, mass, work)
  PROVE  DemurrageIInv'
<1>1. PICK dt \in (-MaxFrame)..MaxFrame : dt = IF uses = 0 THEN 0 ELSE now - frame
  <2>1. 0 \in (-MaxFrame)..MaxFrame /\ now - frame \in (-MaxFrame)..MaxFrame
    BY DemurrageAssumption DEF DemurrageIInv, DemurrageTypeOK
  <2>2. QED BY <2>1
<1>2. PICK less \in Nat :
           /\ less <= heat /\ Cool(heat, dt, rate) = heat - less
           /\ \/ rate = Unmeasured /\ less = 0 /\ Accrue(heat, dt, booked, rate) = booked
              \/ rate \in Taus /\ Accrue(heat, dt, booked, rate) = booked + rate * less
  BY CoolingPays DEF DemurrageIInv
<1>3. PICK d \in Nat : d = Deposit(mass, work)
  <2>1. PICK w \in Nat : w = IF work > 1 THEN 1 ELSE Clamp(work)
    BY DemurrageAssumption DEF Clamp
  <2>2. PICK m \in Nat : m = Clamp(mass)
    BY DemurrageAssumption DEF Clamp
  <2>3. Unit \in Nat
    BY DemurrageAssumption
  <2>4. m * w \in Nat
    OBVIOUS
  <2>5. m * w * Unit \in Nat
    BY <2>3, <2>4
  <2>6. QED BY <2>1, <2>2, <2>5 DEF Deposit
<1>4. PICK h \in Nat, e \in Int, tau \in Taus \cup {Unmeasured} :
        h = heat /\ e = booked /\ tau = rate /\ gone.unpaid = 0 /\ gone.worth = e
  BY DEF DemurrageIInv, DemurrageTypeOK, Paid
<1>5. /\ heat' = (h - less) + d /\ frame' = now /\ rate' = tau
      /\ booked' = Accrue(heat, dt, booked, rate)
      /\ Book(d)
  BY <1>1, <1>2, <1>3, <1>4 DEF Witness
<1>6. heat + d - heat' = less /\ heat' \in Nat
  BY <1>2, <1>4, <1>5
<1>7. gone \in [worth : Int, unpaid : Int]
  BY DEF DemurrageIInv, DemurrageTypeOK
<1>8. CASE tau = Unmeasured
  <2>1. less = 0 /\ booked' = e
    BY <1>2, <1>4, <1>5, <1>8, DemurrageAssumption
  <2>2. gone' = [gone EXCEPT !.unpaid = @ + 0]
    BY <1>4, <1>5, <1>6, <1>8, <2>1 DEF Book
  <2>3. gone'.unpaid = 0 /\ gone'.worth = e /\ gone' \in [worth : Int, unpaid : Int]
    BY <1>4, <1>7, <2>2
  <2>4. QED BY <1>4, <1>5, <1>6, <2>1, <2>3 DEF DemurrageIInv, DemurrageTypeOK, Paid
<1>9. CASE tau \in Taus
  <2>1. tau # Unmeasured /\ tau \in Nat
    BY <1>9, DemurrageAssumption
  <2>2. booked' = e + tau * less
    BY <1>2, <1>4, <1>5, <2>1
  <2>3. PICK w \in Int : w = tau * less
    BY <2>1
  <2>4. gone' = [gone EXCEPT !.worth = @ + w]
    BY <1>4, <1>5, <1>6, <2>1, <2>3 DEF Book
  <2>5. gone'.unpaid = 0 /\ gone'.worth = e + w /\ gone' \in [worth : Int, unpaid : Int]
    BY <1>4, <1>7, <2>4
  <2>6. booked' = e + w /\ booked' \in Int
    BY <2>2, <2>3
  <2>7. QED BY <1>4, <1>5, <1>6, <2>5, <2>6 DEF DemurrageIInv, DemurrageTypeOK, Paid
<1>10. QED BY <1>4, <1>8, <1>9

\* Stock and realised value are one curve: what is earned at any read is the
\* worth of the heat gone, each part at the rate that stood when it was settled
\* and the rest at the rate of the read, for any rates, table of cooling, order
\* of uses, skew of the clock and measurements (demurrage.py 145-170, 246-294).
THEOREM HeatIsPaidFor == DemurrageSpec => []EarnedIsHeatLost
<1>1. DemurrageInit => DemurrageIInv
  BY DemurrageAssumption DEF DemurrageInit, DemurrageIInv, DemurrageTypeOK, Paid
<1>2. DemurrageIInv /\ [DemurrageNext]_demurrageVars => DemurrageIInv'
  <2> SUFFICES ASSUME DemurrageIInv, [DemurrageNext]_demurrageVars PROVE DemurrageIInv'
    OBVIOUS
  <2>1. CASE UNCHANGED demurrageVars
    BY <2>1 DEF demurrageVars, DemurrageIInv, DemurrageTypeOK, Paid
  <2>2. ASSUME NEW tau \in Taus \cup {Unmeasured}, Measured(tau) PROVE DemurrageIInv'
    BY <2>2 DEF Measured, DemurrageIInv, DemurrageTypeOK, Paid
  <2>3. ASSUME NEW now \in 0..MaxFrame, NEW mass \in Mass, NEW work \in Work,
               Witness(now, mass, work)
        PROVE  DemurrageIInv'
    BY <2>3, WitnessKeeps
  <2>4. QED BY <2>1, <2>2, <2>3 DEF DemurrageNext
<1>3. DemurrageIInv => EarnedIsHeatLost
  <2> SUFFICES ASSUME DemurrageIInv, NEW now \in 0..MaxFrame
               PROVE  IF rate = Unmeasured THEN Energy(now) = heat /\ Earned(now) = gone.worth
                      ELSE Earned(now) = gone.worth + rate * (heat - Energy(now))
    BY DEF EarnedIsHeatLost, DemurrageIInv, Paid
  <2>1. now - frame \in (-MaxFrame)..MaxFrame
    BY DemurrageAssumption DEF DemurrageIInv, DemurrageTypeOK
  <2>2. PICK less \in Nat :
           /\ less <= heat /\ Energy(now) = heat - less
           /\ \/ rate = Unmeasured /\ less = 0 /\ Earned(now) = booked
              \/ rate \in Taus /\ Earned(now) = booked + rate * less
    BY <2>1, CoolingPays DEF DemurrageIInv, Energy, Earned
  <2>3. PICK h \in Nat : h = heat /\ booked = gone.worth
    BY DEF DemurrageIInv, DemurrageTypeOK, Paid
  <2>4. CASE rate = Unmeasured
    BY <2>2, <2>3, <2>4, DemurrageAssumption
  <2>5. CASE rate # Unmeasured
    <3>1. heat - Energy(now) = less /\ Earned(now) = booked + rate * less
      BY <2>2, <2>3, <2>5
    <3>2. QED BY <2>3, <2>5, <3>1
  <2>6. QED BY <2>4, <2>5
<1>4. QED BY <1>1, <1>2, <1>3, PTL DEF DemurrageSpec

-----------------------------------------------------------------------------
(* The certificate of a journey, for any number of elements.  What the walk *)
(* sums is defined by recursion on the hops; that there is one such sum, and *)
(* that it closes as far as the hops conserve, are kept by every absorption. *)

PathSpec == PathInit /\ [][PathNext]_pathVars

Hop == [absorbed : Quanta, transmitted : Quanta, incident : Quanta]

Sums(q, f) == f = [k \in 0..Len(q) |-> IF k = 0 THEN 0 ELSE f[k - 1] + q[k].absorbed]
Conserves(q, k) == \A j \in 1..k : q[j].incident = q[j].absorbed + q[j].transmitted

\* One sum, closed as far as the hops conserve what came in.
Summed(q, e) ==
  \E f \in [0..Len(q) -> Nat] :
    /\ Sums(q, f) /\ \A g : Sums(q, g) => g = f
    /\ \A k \in 1..Len(q) : Conserves(q, k) => f[k] + q[k].transmitted = e

\* What reaches an element is what the one before it let through.
Chained(q, e, r) ==
  /\ \A k \in 1..Len(q) : q[k].incident = IF k = 1 THEN e ELSE q[k - 1].transmitted
  /\ r = IF Len(q) = 0 THEN e ELSE q[Len(q)].transmitted

PathTypeOK ==
  /\ e0 \in Quanta /\ residual \in Quanta /\ emitted \in Quanta \cup {NotEmitted}
  /\ hops \in Seq(Hop)

PathIInv == PathTypeOK /\ Chained(hops, e0, residual) /\ Summed(hops, e0)

LEMMA SumStarts ==
  ASSUME NEW e PROVE Summed(<<>>, e)
<1>1. PICK q : q = <<>>
  OBVIOUS
<1>2. Len(q) = 0 /\ 0..Len(q) = {0} /\ 1..Len(q) = {}
  BY <1>1
<1>3. PICK f : f = [k \in {0} |-> 0]
  OBVIOUS
<1>4. f \in [0..Len(q) -> Nat] /\ Sums(q, f)
  BY <1>2, <1>3 DEF Sums
<1>5. ASSUME NEW g, Sums(q, g) PROVE g = f
  <2>1. g = [k \in {0} |-> IF k = 0 THEN 0 ELSE g[k - 1] + q[k].absorbed]
    BY <1>2, <1>5 DEF Sums
  <2>2. g = [k \in {0} |-> 0]
    BY <2>1
  <2>3. QED BY <1>3, <2>2
<1>6. Summed(q, e)
  BY <1>2, <1>4, <1>5 DEF Summed
<1>7. QED BY <1>1, <1>6

LEMMA SumGrows ==
  ASSUME NEW q \in Seq(Hop), NEW e \in Quanta, NEW r, Chained(q, e, r), Summed(q, e),
         NEW h \in Hop, h.incident = r, NEW p, p = Append(q, h)
  PROVE  p \in Seq(Hop) /\ Chained(p, e, h.transmitted) /\ Summed(p, e)
<1>1. PICK n \in Nat : n = Len(q)
  OBVIOUS
<1>2. p \in Seq(Hop) /\ Len(p) = n + 1 /\ p[n + 1] = h /\ \A i \in 1..n : p[i] = q[i]
  BY <1>1
<1>3. Chained(p, e, h.transmitted)
  BY <1>1, <1>2 DEF Chained
<1>4. PICK f \in [0..n -> Nat] :
        /\ Sums(q, f) /\ \A g : Sums(q, g) => g = f
        /\ \A k \in 1..n : Conserves(q, k) => f[k] + q[k].transmitted = e
  BY <1>1 DEF Summed
<1>5. h.absorbed \in Nat /\ h.transmitted \in Nat /\ e \in Nat
  BY PathAssumption DEF Hop
<1>6. PICK m : m = f[n] + h.absorbed
  OBVIOUS
<1>7. PICK s : s = [k \in 0..(n + 1) |-> IF k = n + 1 THEN m ELSE f[k]]
  OBVIOUS
<1>8. /\ s \in [0..(n + 1) -> Nat] /\ s[n + 1] = m /\ m \in Nat /\ f[n] \in Nat
      /\ \A k \in 0..n : s[k] = f[k]
  BY <1>1, <1>5, <1>6, <1>7
<1>9. \A k \in 0..n : f[k] = IF k = 0 THEN 0 ELSE f[k - 1] + q[k].absorbed
  BY <1>1, <1>4 DEF Sums
<1>10. Sums(p, s)
  <2>1. ASSUME NEW k \in 0..(n + 1)
        PROVE  s[k] = IF k = 0 THEN 0 ELSE s[k - 1] + p[k].absorbed
    <3>1. CASE k = 0
      BY <1>1, <1>8, <1>9, <3>1
    <3>2. CASE k = n + 1
      <4>1. k - 1 = n /\ n \in 0..n /\ k # 0
        BY <1>1, <3>2
      <4>2. QED BY <1>2, <1>6, <1>8, <3>2, <4>1
    <3>3. CASE k \in 1..n
      <4>1. k \in 0..n /\ k - 1 \in 0..n /\ k # 0
        BY <1>1, <3>3
      <4>2. QED BY <1>2, <1>8, <1>9, <3>3, <4>1
    <3>4. QED BY <1>1, <3>1, <3>2, <3>3
  <2>2. DOMAIN s = 0..Len(p) /\ s = [k \in DOMAIN s |-> s[k]]
    BY <1>2, <1>7
  <2>3. QED BY <1>2, <2>1, <2>2 DEF Sums
<1>11. ASSUME NEW g, Sums(p, g) PROVE g = s
  <2>1. /\ g = [k \in 0..(n + 1) |-> IF k = 0 THEN 0 ELSE g[k - 1] + p[k].absorbed]
    BY <1>2, <1>11 DEF Sums
  <2>2. PICK b : b = [k \in 0..n |-> g[k]]
    OBVIOUS
  <2>3. ASSUME NEW k \in 0..n PROVE b[k] = IF k = 0 THEN 0 ELSE b[k - 1] + q[k].absorbed
    <3>1. CASE k = 0
      BY <1>1, <2>1, <2>2, <3>1
    <3>2. CASE k # 0
      <4>1. k \in 1..n /\ k - 1 \in 0..n /\ k \in 0..(n + 1)
        BY <1>1, <3>2
      <4>2. QED BY <1>2, <2>1, <2>2, <3>2, <4>1
    <3>3. QED BY <3>1, <3>2
  <2>4. Sums(q, b)
    BY <1>1, <2>2, <2>3 DEF Sums
  <2>5. b = f
    BY <1>4, <2>4
  <2>6. g[n + 1] = m
    <3>1. n + 1 \in 0..(n + 1) /\ n + 1 # 0 /\ (n + 1) - 1 = n /\ n \in 0..n
      BY <1>1
    <3>2. g[n + 1] = g[n] + p[n + 1].absorbed /\ g[n] = f[n]
      BY <2>1, <2>2, <2>5, <3>1
    <3>3. QED BY <1>2, <1>6, <3>2
  <2>7. \A k \in 0..(n + 1) : g[k] = s[k]
    BY <1>1, <1>8, <2>2, <2>5, <2>6
  <2>8. g = [k \in 0..(n + 1) |-> g[k]]
    BY <2>1
  <2>9. s = [k \in 0..(n + 1) |-> s[k]]
    BY <1>7
  <2>10. QED BY <2>7, <2>8, <2>9
<1>12. ASSUME NEW k \in 1..(n + 1), Conserves(p, k) PROVE s[k] + p[k].transmitted = e
  <2>1. CASE k \in 1..n
    <3>1. Conserves(q, k)
      BY <1>1, <1>2, <1>12, <2>1 DEF Conserves
    <3>2. QED BY <1>1, <1>2, <1>4, <1>8, <2>1, <3>1
  <2>2. CASE k = n + 1
    <3>1. h.incident = h.absorbed + h.transmitted
      BY <1>1, <1>2, <1>12, <2>2 DEF Conserves
    <3>2. CASE n = 0
      <4>1. f[n] = 0 /\ h.incident = e
        BY <1>1, <1>9, <3>2 DEF Chained
      <4>2. QED BY <1>2, <1>5, <1>6, <1>8, <2>2, <3>1, <4>1
    <3>3. CASE n # 0
      <4>1. n \in 1..n /\ Conserves(q, n)
        BY <1>1, <1>2, <1>12, <2>2, <3>3 DEF Conserves
      <4>2. f[n] + q[n].transmitted = e /\ q[n].transmitted = h.incident
        BY <1>1, <1>4, <3>3, <4>1 DEF Chained
      <4>3. QED BY <1>2, <1>5, <1>6, <1>8, <2>2, <3>1, <4>2
    <3>4. QED BY <3>2, <3>3
  <2>3. QED BY <1>1, <2>1, <2>2
<1>13. Summed(p, e)
  <2>1. Len(p) = n + 1
    BY <1>2
  <2>2. QED BY <1>8, <1>10, <1>11, <1>12, <2>1 DEF Summed
<1>14. QED BY <1>2, <1>3, <1>13

\* What the certificate says of a chain with one sum.
LEMMA CertificateIsTrue == PathIInv => BalancedIsLossless
<1> SUFFICES ASSUME PathIInv PROVE BalancedIsLossless
  OBVIOUS
<1>1. PICK q \in Seq(Hop), e \in Quanta, r \in Quanta :
        q = hops /\ e = e0 /\ r = residual /\ Chained(q, e, r) /\ Summed(q, e)
  BY DEF PathIInv, PathTypeOK
<1>2. PICK n \in Nat : n = Len(q)
  OBVIOUS
<1>3. PICK f \in [0..n -> Nat] :
        /\ Sums(q, f) /\ \A g : Sums(q, g) => g = f
        /\ \A k \in 1..n : Conserves(q, k) => f[k] + q[k].transmitted = e
  BY <1>1, <1>2 DEF Summed
<1>4. Absorbed = f
  <2>1. Absorbed = CHOOSE g : Sums(q, g)
    BY <1>1 DEF Absorbed, Sums
  <2>2. Sums(q, CHOOSE g : Sums(q, g))
    BY <1>3
  <2>3. QED BY <1>3, <2>1, <2>2
<1>5. \A k \in 0..n : f[k] \in Nat /\ f[k] = IF k = 0 THEN 0 ELSE f[k - 1] + q[k].absorbed
  BY <1>2, <1>3 DEF Sums
<1>6. /\ e \in Nat /\ r \in Nat
      /\ \A k \in 1..n : q[k].absorbed \in Nat /\ q[k].transmitted \in Nat /\ q[k].incident \in Nat
  <2>1. ASSUME NEW k \in 1..n
        PROVE  q[k].absorbed \in Nat /\ q[k].transmitted \in Nat /\ q[k].incident \in Nat
    <3>1. PICK h \in Hop : h = q[k]
      BY <1>2
    <3>2. h.absorbed \in Quanta /\ h.transmitted \in Quanta /\ h.incident \in Quanta
      BY DEF Hop
    <3>3. QED BY <3>1, <3>2, PathAssumption
  <2>2. e \in Nat /\ r \in Nat
    BY PathAssumption
  <2>3. QED BY <2>1, <2>2
<1>7. DOMAIN q = 1..n
  BY <1>2
<1>8. PrefixIdentity <=> \A k \in 1..n : f[k] + q[k].transmitted = e
  BY <1>1, <1>2, <1>4 DEF PrefixIdentity
<1>9. PrefixIdentity <=> Conserves(q, n)
  <2>1. ASSUME PrefixIdentity, NEW k \in 1..n
        PROVE  q[k].incident = q[k].absorbed + q[k].transmitted
    <3>1. f[k] + q[k].transmitted = e /\ k \in 0..n /\ k - 1 \in 0..n /\ k # 0
      BY <1>2, <1>8, <2>1
    <3>2. f[k] = f[k - 1] + q[k].absorbed
      BY <1>5, <3>1
    <3>3. f[k - 1] + q[k].incident = e
      <4>1. CASE k = 1
        <5>1. f[k - 1] = 0 /\ q[k].incident = e
          BY <1>1, <1>2, <1>5, <4>1 DEF Chained
        <5>2. QED BY <1>6, <5>1
      <4>2. CASE k # 1
        <5>1. k - 1 \in 1..n
          BY <1>2, <4>2
        <5>2. f[k - 1] + q[k - 1].transmitted = e
          BY <1>8, <2>1, <5>1
        <5>3. q[k].incident = q[k - 1].transmitted
          BY <1>1, <1>2, <4>2 DEF Chained
        <5>4. QED BY <5>2, <5>3
      <4>3. QED BY <4>1, <4>2
    <3>4. PICK x \in Nat, y \in Nat, a \in Nat, t \in Nat, i \in Nat :
            /\ x = f[k - 1] /\ y = f[k]
            /\ a = q[k].absorbed /\ t = q[k].transmitted /\ i = q[k].incident
      BY <1>5, <1>6, <3>1
    <3>5. y + t = e /\ y = x + a /\ x + i = e
      BY <3>1, <3>2, <3>3, <3>4
    <3>6. i = a + t
      BY <1>6, <3>5
    <3>7. QED BY <3>4, <3>6
  <2>2. ASSUME Conserves(q, n) PROVE PrefixIdentity
    <3>1. \A k \in 1..n : Conserves(q, k)
      BY <1>2, <2>2 DEF Conserves
    <3>2. QED BY <1>3, <1>8, <3>1
  <2>3. QED BY <2>1, <2>2 DEF Conserves
<1>10. PrefixIdentity => f[n] + r = e
  <2>1. CASE n = 0
    BY <1>1, <1>2, <1>5, <1>6, <2>1 DEF Chained
  <2>2. CASE n # 0
    <3>1. n \in 1..n /\ r = q[n].transmitted
      BY <1>1, <1>2, <2>2 DEF Chained
    <3>2. QED BY <1>8, <3>1
  <2>3. QED BY <2>1, <2>2
<1>11. Lost = e - (f[n] + IF emitted # NotEmitted THEN emitted ELSE r)
  BY <1>1, <1>2, <1>4 DEF Lost
<1>12. f[n] \in Nat /\ (emitted # NotEmitted => emitted \in Nat) /\ r # NotEmitted
  BY <1>2, <1>5, PathAssumption DEF PathIInv, PathTypeOK
<1>13. PrefixIdentity =>
         ((Terminated /\ Lost = 0) <=> (emitted = NotEmitted /\ residual = 0) \/ emitted = residual)
  <2> SUFFICES ASSUME PrefixIdentity
               PROVE (Terminated /\ Lost = 0) <=> (emitted = NotEmitted /\ r = 0) \/ emitted = r
    BY <1>1
  <2>1. CASE emitted = NotEmitted
    <3>1. Lost = e - (f[n] + r)
      BY <1>11, <2>1
    <3>2. QED BY <1>1, <1>6, <1>10, <1>12, <2>1, <3>1 DEF Terminated
  <2>2. CASE emitted # NotEmitted
    <3>1. Lost = e - (f[n] + emitted)
      BY <1>11, <2>2
    <3>2. QED BY <1>1, <1>6, <1>10, <1>12, <2>2, <3>1 DEF Terminated
  <2>3. QED BY <2>1, <2>2
<1>14. NothingLeaks <=>
         Conserves(q, n) /\ ((emitted = NotEmitted /\ residual = 0) \/ emitted = residual)
  BY <1>1, <1>7 DEF NothingLeaks, Conserves
<1>15. QED BY <1>9, <1>13, <1>14 DEF Balanced, BalancedIsLossless

\* A certificate balances exactly if no element lost or made energy and what
\* was not absorbed was handed back, for any number of elements
\* (conservation.py 102-235).
THEOREM CertificateHolds == PathSpec => []BalancedIsLossless
<1>1. PathInit => PathIInv
  <2> SUFFICES ASSUME PathInit PROVE PathIInv
    OBVIOUS
  <2>1. <<>> \in Seq(Hop) /\ Len(<<>>) = 0
    OBVIOUS
  <2>2. PathTypeOK /\ Chained(hops, e0, residual)
    BY <2>1 DEF PathInit, PathTypeOK, Chained
  <2>3. QED BY <2>2, SumStarts DEF PathInit, PathIInv
<1>2. PathIInv /\ [PathNext]_pathVars => PathIInv'
  <2> SUFFICES ASSUME PathIInv, [PathNext]_pathVars PROVE PathIInv'
    OBVIOUS
  <2>1. ASSUME UNCHANGED <<e0, hops, residual>>, emitted' \in Quanta \cup {NotEmitted}
        PROVE  PathIInv'
    BY <2>1 DEF PathIInv, PathTypeOK
  <2>2. ASSUME NEW a \in Quanta, NEW t \in Quanta, Absorb(a, t) PROVE PathIInv'
    <3>1. PICK h : h = [absorbed |-> a, transmitted |-> t, incident |-> residual]
      OBVIOUS
    <3>2. h \in Hop /\ h.incident = residual /\ h.transmitted = t
      BY <3>1 DEF PathIInv, PathTypeOK, Hop
    <3>3. /\ hops' = Append(hops, h) /\ residual' = t /\ e0' = e0 /\ emitted' = emitted
      BY <2>2, <3>1 DEF Absorb
    <3>4. PICK q \in Seq(Hop), e \in Quanta, r \in Quanta :
            q = hops /\ e = e0 /\ r = residual /\ Chained(q, e, r) /\ Summed(q, e)
      BY DEF PathIInv, PathTypeOK
    <3>5. PICK p : p = Append(q, h)
      OBVIOUS
    <3>6. p \in Seq(Hop) /\ Chained(p, e, h.transmitted) /\ Summed(p, e)
      BY <3>2, <3>4, <3>5, SumGrows
    <3>7. QED BY <3>2, <3>3, <3>4, <3>5, <3>6 DEF PathIInv, PathTypeOK
  <2>3. CASE UNCHANGED pathVars
    BY <2>1, <2>3 DEF pathVars, PathIInv, PathTypeOK
  <2>4. CASE Emit
    BY <2>1, <2>4 DEF Emit, PathIInv, PathTypeOK
  <2>5. QED BY <2>2, <2>3, <2>4 DEF PathNext
<1>3. QED BY <1>1, <1>2, CertificateIsTrue, PTL DEF PathSpec

-----------------------------------------------------------------------------
(* Induction on numbers, and sequences walked by it.                       *)

\* A set of numbers has a least.
LEMMA LeastNat ==
  ASSUME NEW T \in SUBSET Nat, T # {}
  PROVE  \E m \in T : \A k \in T : m <= k
<1>1. PICK R : R = OpToRel(<, Nat)
  BY Zenon
<1>2. R = {p \in Nat \X Nat : p[1] < p[2]}
  BY <1>1, Zenon DEF OpToRel
<1>3. IsWellFoundedOn(R, Nat)
  BY <1>1, NatLessThanWellFounded, Zenon
<1>4. PICK m \in T : \A k \in T : ~(<<k, m>> \in R)
  BY <1>3, WFMin
<1>5. ASSUME NEW k \in T PROVE ~(k < m)
  <2>1. k \in Nat /\ m \in Nat
    OBVIOUS
  <2>2. k < m => <<k, m>> \in R
    BY <1>2, <2>1
  <2>3. QED BY <1>4, <2>2
<1>6. QED BY <1>4, <1>5

\* A set that holds zero and every successor of its members holds them all.
LEMMA AllNat ==
  ASSUME NEW S \in SUBSET Nat, 0 \in S, \A n \in S : n + 1 \in S
  PROVE  S = Nat
<1>1. ASSUME Nat \ S # {} PROVE FALSE
  <2>1. PICK m \in Nat \ S : \A k \in Nat \ S : m <= k
    BY <1>1, LeastNat
  <2>2. m - 1 \in S
    BY <2>1
  <2>3. QED BY <2>1, <2>2
<1>2. QED BY <1>1

\* The function a walk over n places computes: there is one, and only one.
Walked(z, step, n, f) == f = [k \in 0..n |-> IF k = 0 THEN z ELSE step[k][f[k - 1]]]

LEMMA WalkedValues ==
  ASSUME NEW z, NEW step, NEW n \in Nat, NEW f, Walked(z, step, n, f)
  PROVE  f[0] = z /\ \A k \in 1..n : f[k] = step[k][f[k - 1]]
BY DEF Walked

LEMMA WalkExists ==
  ASSUME NEW D, NEW z \in D, NEW n \in Nat, NEW step \in [1..n -> [D -> D]]
  PROVE  \E f \in [0..n -> D] : Walked(z, step, n, f)
<1>1. PICK S : S = {m \in Nat : m <= n => \E f \in [0..m -> D] : Walked(z, step, m, f)}
  OBVIOUS
<1>2. 0 \in S
  <2>1. PICK f : f = [k \in 0..0 |-> z]
    OBVIOUS
  <2>2. f \in [0..0 -> D] /\ Walked(z, step, 0, f)
    BY <2>1 DEF Walked
  <2>3. QED BY <1>1, <2>2
<1>3. ASSUME NEW m \in S, m + 1 <= n PROVE \E h \in [0..(m + 1) -> D] : Walked(z, step, m + 1, h)
  <2>1. m \in Nat /\ m <= n /\ m + 1 \in 1..n
    BY <1>1, <1>3
  <2>2. PICK f \in [0..m -> D] : Walked(z, step, m, f)
    BY <1>1, <2>1
  <2>3. PICK x \in D : x = step[m + 1][f[m]]
    BY <2>1, <2>2
  <2>4. PICK h : h = [k \in 0..(m + 1) |-> IF k = m + 1 THEN x ELSE f[k]]
    OBVIOUS
  <2>5. h \in [0..(m + 1) -> D] /\ h[m + 1] = x /\ \A k \in 0..m : h[k] = f[k]
    BY <2>1, <2>2, <2>4
  <2>6. ASSUME NEW k \in 0..(m + 1) PROVE h[k] = IF k = 0 THEN z ELSE step[k][h[k - 1]]
    <3>1. CASE k = 0
      <4>1. f[0] = z /\ 0 \in 0..m
        BY <2>1, <2>2 DEF Walked
      <4>2. QED BY <2>5, <3>1, <4>1
    <3>2. CASE k \in 1..m
      <4>1. k \in 0..m /\ k - 1 \in 0..m /\ k # 0 /\ f[k] = step[k][f[k - 1]]
        BY <2>1, <2>2, <3>2, WalkedValues
      <4>2. QED BY <2>5, <4>1
    <3>3. CASE k = m + 1
      <4>1. k # 0 /\ k - 1 = m /\ m \in 0..m
        BY <2>1, <3>3
      <4>2. QED BY <2>3, <2>5, <3>3, <4>1
    <3>4. QED BY <2>1, <3>1, <3>2, <3>3
  <2>7. Walked(z, step, m + 1, h)
    BY <2>4, <2>6 DEF Walked
  <2>8. QED BY <2>5, <2>7
<1>4. \A m \in S : m + 1 \in S
  BY <1>1, <1>3
<1>5. S = Nat
  BY <1>1, <1>2, <1>4, AllNat
<1>6. QED BY <1>1, <1>5

-----------------------------------------------------------------------------
(* Minting, for any beneficiaries, lifts, masses and attestations.          *)

MintSpec == MintInit /\ [][MintNext]_mintVars

Attestation == [beneficiary : Beneficiary \cup {NoName}, lift : Int, mass : Int]
MintTypeOK == held \in Seq(Attestation) /\ cost \in Int

Heeded == [seen : SUBSET (Beneficiary \cup {NoName}), usable : Seq(Attestation)]

LEMMA WeightIsInt ==
  ASSUME NEW a \in Attestation PROVE Weight(a) \in Int
<1>1. a.lift \in Int /\ a.mass \in Int
  BY DEF Attestation
<1>2. QED BY <1>1 DEF Weight

\* The pass over the attestations held.
LEMMA PassGoesOn ==
  ASSUME MintTypeOK
  PROVE  /\ Pass[0] = [seen |-> {}, usable |-> <<>>]
         /\ \A k \in 1..Len(held) : Pass[k] = Heard(Pass[k - 1], held[k])
         /\ \A k \in 0..Len(held) : Pass[k] \in Heeded
<1>1. PICK h \in Seq(Attestation), n \in Nat : h = held /\ n = Len(h)
  BY DEF MintTypeOK
<1>2. PICK z : z = [seen |-> {}, usable |-> <<>>]
  OBVIOUS
<1>3. z \in Heeded
  BY <1>2 DEF Heeded
<1>4. PICK step : step = [k \in 1..n |-> [x \in Heeded |-> Heard(x, h[k])]]
  OBVIOUS
<1>5. ASSUME NEW k \in 1..n, NEW x \in Heeded PROVE Heard(x, h[k]) \in Heeded
  <2>1. PICK a \in Attestation : a = h[k]
    BY <1>1
  <2>2. a.beneficiary \in Beneficiary \cup {NoName} /\ x.seen \subseteq Beneficiary \cup {NoName}
        /\ x.usable \in Seq(Attestation)
    BY DEF Attestation, Heeded
  <2>3. Append(x.usable, a) \in Seq(Attestation)
    BY <2>2
  <2>4. QED BY <2>1, <2>2, <2>3 DEF Heard, Heeded
<1>6. step \in [1..n -> [Heeded -> Heeded]]
  BY <1>4, <1>5
<1>7. PICK f \in [0..n -> Heeded] : Walked(z, step, n, f)
  BY <1>3, <1>6, WalkExists
<1>8. f = [k \in 0..n |-> IF k = 0 THEN z ELSE Heard(f[k - 1], h[k])]
  <2>1. ASSUME NEW k \in 0..n PROVE f[k] = IF k = 0 THEN z ELSE Heard(f[k - 1], h[k])
    <3>1. CASE k = 0
      BY <1>7, <3>1 DEF Walked
    <3>2. CASE k # 0
      <4>1. k \in 1..n /\ k - 1 \in 0..n
        BY <1>1, <3>2
      <4>2. f[k] = step[k][f[k - 1]] /\ f[k - 1] \in Heeded
        BY <1>7, <4>1 DEF Walked
      <4>3. QED BY <1>4, <3>2, <4>1, <4>2
    <3>3. QED BY <3>1, <3>2
  <2>2. QED BY <2>1
<1>9. Pass = [k \in 0..n |-> IF k = 0 THEN z ELSE Heard(Pass[k - 1], h[k])]
  BY <1>1, <1>2, <1>8 DEF Pass
<1>10. Pass[0] = z /\ \A k \in 1..n : Pass[k] = Heard(Pass[k - 1], h[k])
  <2>1. 0 \in 0..n /\ \A k \in 1..n : k \in 0..n /\ k # 0
    BY <1>1
  <2>2. QED BY <1>9, <2>1
<1>11. PICK S : S = {k \in Nat : k <= n => Pass[k] \in Heeded}
  OBVIOUS
<1>12. S = Nat
  <2>1. 0 \in S
    BY <1>3, <1>10, <1>11
  <2>2. ASSUME NEW k \in S, k + 1 <= n PROVE Pass[k + 1] \in Heeded
    <3>1. k \in Nat /\ k + 1 \in 1..n /\ (k + 1) - 1 = k /\ Pass[k] \in Heeded
      BY <1>1, <1>11, <2>2
    <3>2. Pass[k + 1] = Heard(Pass[k], h[k + 1])
      BY <1>10, <3>1
    <3>3. QED BY <1>5, <3>1, <3>2
  <2>3. \A k \in S : k + 1 \in S
    BY <1>11, <2>2
  <2>4. QED BY <1>11, <2>1, <2>3, AllNat
<1>13. \A k \in 0..n : Pass[k] \in Heeded
  BY <1>11, <1>12
<1>14. QED BY <1>1, <1>2, <1>10, <1>13

\* The reference sum over the attestations held.
LEMMA AttestedGoesOn ==
  ASSUME MintTypeOK
  PROVE  /\ Attested[0] = 0
         /\ \A k \in 1..Len(held) :
              Attested[k] = Attested[k - 1] + IF First(k) THEN Weight(held[k]) ELSE 0
<1>1. PICK h \in Seq(Attestation), n \in Nat : h = held /\ n = Len(h)
  BY DEF MintTypeOK
<1>2. PICK w : w = [k \in 1..n |-> IF First(k) THEN Weight(h[k]) ELSE 0]
  OBVIOUS
<1>3. w \in [1..n -> Int]
  BY <1>1, <1>2, WeightIsInt
<1>4. PICK step : step = [k \in 1..n |-> [x \in Int |-> x + w[k]]]
  OBVIOUS
<1>5. step \in [1..n -> [Int -> Int]]
  BY <1>3, <1>4
<1>6. PICK f \in [0..n -> Int] : Walked(0, step, n, f)
  <2>1. PICK D : D = Int
    OBVIOUS
  <2>2. PICK z \in D : z = 0
    BY <2>1
  <2>3. step \in [1..n -> [D -> D]]
    BY <1>5, <2>1
  <2>4. \E f \in [0..n -> D] : Walked(z, step, n, f)
    BY <2>3, WalkExists
  <2>5. QED BY <2>1, <2>2, <2>4
<1>7. f = [k \in 0..n |-> IF k = 0 THEN 0 ELSE f[k - 1] + IF First(k) THEN Weight(h[k]) ELSE 0]
  <2>1. ASSUME NEW k \in 0..n
        PROVE  f[k] = IF k = 0 THEN 0 ELSE f[k - 1] + IF First(k) THEN Weight(h[k]) ELSE 0
    <3>1. CASE k = 0
      BY <1>6, <3>1 DEF Walked
    <3>2. CASE k # 0
      <4>1. k \in 1..n /\ k - 1 \in 0..n
        BY <1>1, <3>2
      <4>2. f[k] = step[k][f[k - 1]] /\ f[k - 1] \in Int
        BY <1>6, <4>1 DEF Walked
      <4>3. QED BY <1>2, <1>4, <3>2, <4>1, <4>2
    <3>3. QED BY <3>1, <3>2
  <2>2. QED BY <2>1
<1>8. Attested = [k \in 0..n |-> IF k = 0 THEN 0
                                 ELSE Attested[k - 1] + IF First(k) THEN Weight(h[k]) ELSE 0]
  BY <1>1, <1>7 DEF Attested
<1>9. 0 \in 0..n /\ \A k \in 1..n : k \in 0..n /\ k # 0
  BY <1>1
<1>10. QED BY <1>1, <1>8, <1>9

\* The sum of a list.
LEMMA SumGoesOn ==
  ASSUME NEW list \in Seq(Attestation)
  PROVE  \E f \in [0..Len(list) -> Int] :
           /\ f[0] = 0 /\ \A k \in 1..Len(list) : f[k] = f[k - 1] + Weight(list[k])
           /\ WeightedLift(list) = f[Len(list)]
<1>1. PICK n \in Nat : n = Len(list)
  OBVIOUS
<1>2. PICK w : w = [k \in 1..n |-> Weight(list[k])]
  OBVIOUS
<1>3. w \in [1..n -> Int]
  BY <1>1, <1>2, WeightIsInt
<1>4. PICK step : step = [k \in 1..n |-> [x \in Int |-> x + w[k]]]
  OBVIOUS
<1>5. step \in [1..n -> [Int -> Int]]
  BY <1>3, <1>4
<1>6. PICK e \in [0..n -> Int] : Walked(0, step, n, e)
  <2>1. PICK D : D = Int
    OBVIOUS
  <2>2. PICK z \in D : z = 0
    BY <2>1
  <2>3. step \in [1..n -> [D -> D]]
    BY <1>5, <2>1
  <2>4. \E e \in [0..n -> D] : Walked(z, step, n, e)
    BY <2>3, WalkExists
  <2>5. QED BY <2>1, <2>2, <2>4
<1>7. e = [k \in 0..n |-> IF k = 0 THEN 0 ELSE e[k - 1] + Weight(list[k])]
  <2>1. ASSUME NEW k \in 0..n
        PROVE  e[k] = IF k = 0 THEN 0 ELSE e[k - 1] + Weight(list[k])
    <3>1. CASE k = 0
      BY <1>6, <3>1 DEF Walked
    <3>2. CASE k # 0
      <4>1. k \in 1..n /\ k - 1 \in 0..n
        BY <1>1, <3>2
      <4>2. e[k] = step[k][e[k - 1]] /\ e[k - 1] \in Int
        BY <1>6, <4>1 DEF Walked
      <4>3. QED BY <1>2, <1>4, <3>2, <4>1, <4>2
    <3>3. QED BY <3>1, <3>2
  <2>2. QED BY <2>1
<1>8. PICK f : f = CHOOSE g : g = [k \in 0..n |-> IF k = 0 THEN 0 ELSE g[k - 1] + Weight(list[k])]
  OBVIOUS
<1>9. f = [k \in 0..n |-> IF k = 0 THEN 0 ELSE f[k - 1] + Weight(list[k])]
  BY <1>7, <1>8
<1>10. WeightedLift(list) = f[n]
  BY <1>1, <1>8 DEF WeightedLift
<1>11. f[0] = 0 /\ \A k \in 1..n : f[k] = f[k - 1] + Weight(list[k])
  <2>1. 0 \in 0..n /\ \A k \in 1..n : k \in 0..n /\ k # 0
    BY <1>1
  <2>2. QED BY <1>9, <2>1
<1>12. PICK S : S = {k \in Nat : k <= n => f[k] \in Int}
  OBVIOUS
<1>13. S = Nat
  <2>1. 0 \in S
    BY <1>11, <1>12
  <2>2. ASSUME NEW k \in S, k + 1 <= n PROVE f[k + 1] \in Int
    <3>1. k \in Nat /\ k + 1 \in 1..n /\ (k + 1) - 1 = k /\ f[k] \in Int
      BY <1>1, <1>12, <2>2
    <3>2. f[k + 1] = f[k] + Weight(list[k + 1]) /\ Weight(list[k + 1]) \in Int
      BY <1>1, <1>2, <1>3, <1>11, <3>1
    <3>3. QED BY <3>1, <3>2
  <2>3. \A k \in S : k + 1 \in S
    BY <1>12, <2>2
  <2>4. QED BY <1>12, <2>1, <2>3, AllNat
<1>14. f \in [0..n -> Int]
  <2>1. \A k \in 0..n : f[k] \in Int
    BY <1>12, <1>13
  <2>2. QED BY <1>9, <2>1
<1>15. QED BY <1>1, <1>10, <1>11, <1>14

LEMMA SumOfNone ==
  /\ <<>> \in Seq(Attestation) /\ WeightedLift(<<>>) = 0
<1>1. PICK list \in Seq(Attestation) : list = <<>> /\ Len(list) = 0
  <2>1. PICK A : A = Attestation
    OBVIOUS
  <2>2. <<>> \in Seq(A) /\ Len(<<>>) = 0
    BY EmptySeq
  <2>3. QED BY <2>1, <2>2
<1>2. WeightedLift(list) = 0
  BY <1>1, SumGoesOn
<1>3. QED BY <1>1, <1>2

LEMMA SumOfOneMore ==
  ASSUME NEW list \in Seq(Attestation), NEW a \in Attestation
  PROVE  /\ Append(list, a) \in Seq(Attestation)
         /\ WeightedLift(Append(list, a)) = WeightedLift(list) + Weight(a)
<1>1. PICK n \in Nat, more \in Seq(Attestation) : n = Len(list) /\ more = Append(list, a)
  <2>1. PICK A : A = Attestation
    OBVIOUS
  <2>2. PICK l \in Seq(A), x \in A : l = list /\ x = a
    BY <2>1
  <2>3. Len(l) \in Nat /\ Append(l, x) \in Seq(A)
    BY AppendProperties
  <2>4. QED BY <2>1, <2>2, <2>3
<1>2. Len(more) = n + 1 /\ more[n + 1] = a /\ \A k \in 1..n : more[k] = list[k]
  BY <1>1
<1>3. PICK f \in [0..n -> Int] :
        f[0] = 0 /\ (\A k \in 1..n : f[k] = f[k - 1] + Weight(list[k])) /\ WeightedLift(list) = f[n]
  BY <1>1, SumGoesOn
<1>4. PICK g \in [0..(n + 1) -> Int] :
        /\ g[0] = 0 /\ \A k \in 1..(n + 1) : g[k] = g[k - 1] + Weight(more[k])
        /\ WeightedLift(more) = g[n + 1]
  BY <1>1, <1>2, SumGoesOn
<1>5. PICK S : S = {k \in Nat : k <= n => g[k] = f[k]}
  OBVIOUS
<1>6. S = Nat
  <2>1. 0 \in S
    BY <1>3, <1>4, <1>5
  <2>2. ASSUME NEW k \in S, k + 1 <= n PROVE g[k + 1] = f[k + 1]
    <3>1. k \in Nat /\ k + 1 \in 1..n /\ k + 1 \in 1..(n + 1) /\ (k + 1) - 1 = k /\ g[k] = f[k]
      BY <1>1, <1>5, <2>2
    <3>2. g[k + 1] = g[k] + Weight(more[k + 1]) /\ f[k + 1] = f[k] + Weight(list[k + 1])
      BY <1>3, <1>4, <3>1
    <3>3. QED BY <1>2, <3>1, <3>2
  <2>3. \A k \in S : k + 1 \in S
    BY <1>5, <2>2
  <2>4. QED BY <1>5, <2>1, <2>3, AllNat
<1>7. g[n] = f[n]
  BY <1>5, <1>6
<1>8. n + 1 \in 1..(n + 1) /\ (n + 1) - 1 = n
  BY <1>1
<1>9. g[n + 1] = g[n] + Weight(a)
  BY <1>2, <1>4, <1>8
<1>10. QED BY <1>1, <1>3, <1>4, <1>7, <1>9

\* Up to every attestation the pass has heard the voices in earnest, and its
\* usable ones weigh what they first attested.
LEMMA PassHearsTheFirst ==
  ASSUME MintTypeOK
  PROVE  \A k \in 0..Len(held) :
           /\ Pass[k].seen = {held[i].beneficiary : i \in {i \in 1..k : Earnest(i)}}
           /\ WeightedLift(Pass[k].usable) = Attested[k]
<1>1. PICK h \in Seq(Attestation), n \in Nat : h = held /\ n = Len(h)
  BY DEF MintTypeOK
<1>2. PICK voices : voices = [k \in 0..n |-> {h[i].beneficiary : i \in {i \in 1..k : Earnest(i)}}]
  OBVIOUS
<1>3. PICK S : S = {k \in Nat : k <= n =>
                     Pass[k].seen = voices[k] /\ WeightedLift(Pass[k].usable) = Attested[k]}
  OBVIOUS
<1>4. 0 \in S
  <2>1. Pass[0].seen = {} /\ Pass[0].usable = <<>> /\ Attested[0] = 0
    BY PassGoesOn, AttestedGoesOn
  <2>2. voices[0] = {}
    BY <1>1, <1>2
  <2>3. WeightedLift(Pass[0].usable) = WeightedLift(<<>>)
    BY <2>1
  <2>4. WeightedLift(Pass[0].usable) = Attested[0] /\ Pass[0].seen = voices[0]
    BY <2>1, <2>2, <2>3, SumOfNone
  <2>5. QED BY <1>3, <2>4
<1>5. ASSUME NEW k \in S, k + 1 <= n
      PROVE  /\ Pass[k + 1].seen = voices[k + 1]
             /\ WeightedLift(Pass[k + 1].usable) = Attested[k + 1]
  <2>1. /\ k \in Nat /\ k + 1 \in 1..n /\ k \in 0..n /\ (k + 1) - 1 = k
        /\ Pass[k].seen = voices[k] /\ WeightedLift(Pass[k].usable) = Attested[k]
    BY <1>1, <1>3, <1>5
  <2>2. PICK p, a, j : p = Pass[k] /\ a = h[k + 1] /\ j = k + 1
    OBVIOUS
  <2>3. /\ Pass[j] = Heard(p, a) /\ p \in Heeded /\ a \in Attestation
        /\ Attested[j] = Attested[k] + IF First(j) THEN Weight(a) ELSE 0
    BY <1>1, <2>1, <2>2, PassGoesOn, AttestedGoesOn
  <2>4. /\ a.lift \in Int /\ a.mass \in Int /\ a.beneficiary \in Beneficiary \cup {NoName}
        /\ p.usable \in Seq(Attestation) /\ p.seen = voices[k]
    BY <2>1, <2>2, <2>3 DEF Attestation, Heeded
  <2>5. Earnest(j) <=> a.beneficiary \notin {NoName, Actor} /\ a.lift > 0 /\ a.mass > 0
    BY <1>1, <2>2, <2>4, MintingAssumption DEF Earnest
  <2>6. First(j) <=> Earnest(j) /\ a.beneficiary \notin voices[k]
    <3>1. 1..(j - 1) = 1..k
      BY <2>1, <2>2
    <3>2. QED BY <1>1, <1>2, <2>1, <2>2, <3>1 DEF First
  <2>7. voices[j] = voices[k] \cup IF Earnest(j) THEN {a.beneficiary} ELSE {}
    <3>1. \A i : i \in 1..j <=> i \in 1..k \/ i = j
      BY <2>1, <2>2
    <3>2. QED BY <1>1, <1>2, <2>1, <2>2, <3>1
  <2>8. CASE First(j)
    <3>1. Heard(p, a) = [seen |-> p.seen \cup {a.beneficiary}, usable |-> Append(p.usable, a)]
      BY <2>4, <2>5, <2>6, <2>8 DEF Heard
    <3>2. Pass[j].seen = voices[j] /\ Pass[j].usable = Append(p.usable, a)
      BY <2>3, <2>4, <2>6, <2>7, <2>8, <3>1
    <3>3. WeightedLift(Pass[j].usable) = WeightedLift(p.usable) + Weight(a)
      BY <2>3, <2>4, <3>2, SumOfOneMore
    <3>4. QED BY <2>1, <2>2, <2>3, <2>8, <3>2, <3>3
  <2>9. CASE ~First(j)
    <3>1. Heard(p, a) = p
      BY <2>4, <2>5, <2>6, <2>9 DEF Heard
    <3>2. voices[j] = voices[k]
      BY <2>6, <2>7, <2>9
    <3>3. Attested[j] = Attested[k] + 0
      BY <2>3, <2>9
    <3>4. Attested[k] \in Int
      <4>1. WeightedLift(p.usable) \in Int
        <5>1. PICK u \in Seq(Attestation) : u = p.usable
          BY <2>4
        <5>2. PICK f \in [0..Len(u) -> Int] : WeightedLift(u) = f[Len(u)]
          BY SumGoesOn
        <5>3. Len(u) \in 0..Len(u)
          OBVIOUS
        <5>4. QED BY <5>1, <5>2, <5>3
      <4>2. QED BY <2>1, <2>2, <4>1
    <3>5. QED BY <2>1, <2>2, <2>3, <3>1, <3>2, <3>3, <3>4
  <2>10. QED BY <2>8, <2>9
<1>6. \A k \in S : k + 1 \in S
  BY <1>3, <1>5
<1>7. S = Nat
  BY <1>3, <1>4, <1>6, AllNat
<1>8. QED BY <1>1, <1>2, <1>3, <1>7

\* A node mints what the distinct beneficiaries attested first in earnest, in the
\* order in which it holds the attestations, less the cost, for any attestations
\* (minting.py 70-129).  Another order may mint otherwise.
THEOREM EveryVoiceOnce == MintSpec => []OneVoiceEach
<1>1. MintInit => MintTypeOK
  BY MintingAssumption DEF MintInit, MintTypeOK
<1>2. MintTypeOK /\ [MintNext]_mintVars => MintTypeOK'
  <2> SUFFICES ASSUME MintTypeOK, [MintNext]_mintVars PROVE MintTypeOK'
    OBVIOUS
  <2>1. ASSUME NEW b \in Beneficiary \cup {NoName}, NEW lift \in Lift, NEW mass \in BeliefMass,
               Attest(b, lift, mass)
        PROVE  MintTypeOK'
    <3>1. [beneficiary |-> b, lift |-> lift, mass |-> mass] \in Attestation
      BY MintingAssumption DEF Attestation
    <3>2. QED BY <2>1, <3>1 DEF Attest, MintTypeOK
  <2>2. QED BY <2>1 DEF MintNext, MintTypeOK, mintVars
<1>3. MintTypeOK => OneVoiceEach
  <2> SUFFICES ASSUME MintTypeOK PROVE OneVoiceEach
    OBVIOUS
  <2>1. Len(held) \in 0..Len(held)
    BY DEF MintTypeOK
  <2>2. WeightedLift(Usable) = Attested[Len(held)]
    BY <2>1, PassHearsTheFirst DEF Usable
  <2>3. QED BY <2>2 DEF OneVoiceEach, Minted
<1>4. QED BY <1>1, <1>2, <1>3, PTL DEF MintSpec

-----------------------------------------------------------------------------
(* The spread of a field, for any graph, seeds, horizon and hop cap.        *)

SpreadSpec == SpreadInit /\ [][SpreadNext]_spreadVars

Entry == [node : Vertex, dist : Nat, steps : Nat]
Link == {p \in Vertex \X Vertex : p[1] # p[2]}

SpreadTypes ==
  /\ edge \in [Link -> Edge \cup {NoEdge}] /\ reach \in Nat /\ cap \in Nat
  /\ seeds \in Seq(Vertex) /\ queue \in Seq(Entry)
  /\ DOMAIN seen \subseteq Vertex /\ seen \in [DOMAIN seen -> Nat]
  /\ seen # Nowhere => seeds # <<>>
  /\ queue # <<>> => seen # Nowhere

\* The terms of the current seed at v: lengths of walks that the horizon and the
\* cap allow, ever nearer, the last where v was reached.
Terms(l, v) ==
  /\ \A i \in DOMAIN l : l[i] <= reach /\ <<v, l[i]>> \in Walks(edge, cap, Head(seeds))[cap]
  /\ \A i, j \in DOMAIN l : i < j => l[j] < l[i]
  /\ IF v \in DOMAIN seen THEN l # <<>> /\ l[Len(l)] = seen[v] ELSE l = <<>>

\* The seeds still to spread have added nothing, the current one its terms.
Fires ==
  /\ fired \in [1..Len(Seeds) -> [Vertex -> Seq(Nat)]] /\ Len(seeds) <= Len(Seeds)
  /\ \A k \in 1..Len(seeds), v \in Vertex :
       IF k = Len(seeds) THEN Terms(fired[k][v], v) ELSE fired[k][v] = <<>>

\* An entry stands for a walk of its steps, and is no nearer than its node was
\* reached.
Stands(e) ==
  /\ e.steps <= cap /\ e.dist <= reach
  /\ <<e.node, e.dist>> \in Walks(edge, cap, Head(seeds))[e.steps]
  /\ e.node \in DOMAIN seen /\ seen[e.node] <= e.dist
Queued == \A i \in DOMAIN queue : Stands(queue[i])

\* A node is near if it was reached at most at that distance.
Near(v, d) == v \in DOMAIN seen /\ seen[v] <= d

\* All the neighbours of u have been reached through u at distance x.
Relaxed(u, x) ==
  \A v \in Vertex \ {u} :
    edge[<<u, v>>] # NoEdge /\ x + edge[<<u, v>>] <= reach => Near(v, x + edge[<<u, v>>])
Waits(u, x) == \E i \in DOMAIN queue : queue[i].node = u /\ queue[i].dist = x
WaitsAt(u, x, k) ==
  \E i \in DOMAIN queue : queue[i].node = u /\ queue[i].dist = x /\ queue[i].steps = k

\* The walks of up to k edges have been followed to their last node, and go on
\* from there when the entries of k steps have been popped.
Ordered(k) ==
  /\ \A i \in DOMAIN queue : queue[i].steps \in {k, k + 1}
  /\ \A i, j \in DOMAIN queue : i < j => queue[i].steps <= queue[j].steps
Followed(k) ==
  \A v \in Vertex, d \in Nat : <<v, d>> \in Walks(edge, cap, Head(seeds))[k] /\ d <= reach => Near(v, d)
GoesOn(k) ==
  /\ \A v \in Vertex, d \in Nat : <<v, d>> \in Walks(edge, cap, Head(seeds))[k] /\ d <= reach =>
       \E x \in Nat : x <= d /\ (WaitsAt(v, x, k) \/ Relaxed(v, x))
  /\ \A v \in DOMAIN seen : Waits(v, seen[v]) \/ Relaxed(v, seen[v])
Level(k) == Ordered(k) /\ Followed(k) /\ (k < cap => GoesOn(k))

SpreadIInv ==
  /\ SpreadTypes /\ Fires /\ Queued
  /\ seen # Nowhere => \E k \in 0..cap : Level(k)

-----------------------------------------------------------------------------
(* Sets, sequences and walks.                                               *)

\* A finite set's sequence holds its members.
LEMMA SeqOfSet ==
  ASSUME NEW S, IsFiniteSet(S)
  PROVE  /\ SetToSeq(S) \in Seq(S)
         /\ \A x \in S : \E i \in DOMAIN SetToSeq(S) : SetToSeq(S)[i] = x
<1>1. PICK n : n = Cardinality(S)
  OBVIOUS
<1>2. n \in Nat /\ ExistsBijection(1..n, S)
  BY <1>1, FS_CardinalityType
<1>3. PICK g \in Bijection(1..n, S) : TRUE
  BY <1>2 DEF ExistsBijection
<1>4. g \in [1..n -> S] /\ IsInjective(g)
  BY <1>3 DEF Bijection, Injection
<1>5. PICK f : f = SetToSeq(S)
  OBVIOUS
<1>6. f \in [1..n -> S] /\ IsInjective(f)
  BY <1>1, <1>4, <1>5 DEF SetToSeq
<1>7. f \in Injection(1..n, S)
  BY <1>6 DEF Injection
<1>8. IsFiniteSet(1..n) /\ Cardinality(1..n) = n
  BY <1>2, FS_Interval
<1>9. f \in Surjection(1..n, S)
  BY <1>1, <1>7, <1>8, FS_Injection
<1>10. \A x \in S : \E i \in 1..n : f[i] = x
  BY <1>9 DEF Surjection
<1>11. f \in Seq(S) /\ DOMAIN f = 1..n
  BY <1>2, <1>6
<1>12. QED BY <1>5, <1>10, <1>11

\* The longer walks of a set.
LEMMA OnwardIs ==
  ASSUME SpreadAssumption, NEW E \in [Link -> Edge \cup {NoEdge}],
         NEW W \in SUBSET (Vertex \X Nat)
  PROVE  /\ Onward(E, W) \in SUBSET (Vertex \X Nat)
         /\ \A v \in Vertex, d \in Nat :
              <<v, d>> \in Onward(E, W) <=>
                \E u \in Vertex, c \in Nat :
                  <<u, c>> \in W /\ u # v /\ E[<<u, v>>] # NoEdge /\ d = c + E[<<u, v>>]
<1>1. ASSUME NEW u \in Vertex, NEW v \in Vertex, u # v, E[<<u, v>>] # NoEdge
      PROVE  E[<<u, v>>] \in Nat
  <2>1. <<u, v>> \in Link
    BY <1>1 DEF Link
  <2>2. QED BY <1>1, <2>1, SpreadAssumption
<1>2. ASSUME NEW y \in Onward(E, W)
      PROVE  \E u, v \in Vertex, c \in Nat :
               <<u, c>> \in W /\ u # v /\ E[<<u, v>>] # NoEdge /\ y = <<v, c + E[<<u, v>>]>>
  <2>1. PICK x \in W \X Vertex : /\ x[1][1] # x[2] /\ E[<<x[1][1], x[2]>>] # NoEdge
                                 /\ y = <<x[2], x[1][2] + E[<<x[1][1], x[2]>>]>>
    BY DEF Onward
  <2>2. PICK u, v, c : u = x[1][1] /\ v = x[2] /\ c = x[1][2]
    OBVIOUS
  <2>3. u \in Vertex /\ v \in Vertex /\ c \in Nat /\ <<u, c>> \in W
    <3>1. x[1] \in W /\ x[2] \in Vertex
      BY <2>1
    <3>2. x[1] \in Vertex \X Nat
      BY <3>1
    <3>3. x[1] = <<x[1][1], x[1][2]>>
      BY <3>2
    <3>4. QED BY <2>2, <3>1, <3>2, <3>3
  <2>4. QED BY <2>1, <2>2, <2>3
<1>3. ASSUME NEW u \in Vertex, NEW v \in Vertex, NEW c \in Nat,
             <<u, c>> \in W, u # v, E[<<u, v>>] # NoEdge
      PROVE  <<v, c + E[<<u, v>>]>> \in Onward(E, W)
  <2>1. PICK x \in W \X Vertex : x[1][1] = u /\ x[1][2] = c /\ x[2] = v
    <3>1. <<<<u, c>>, v>> \in W \X Vertex
      BY <1>3
    <3>2. QED BY <3>1
  <2>2. QED BY <1>3, <2>1 DEF Onward
<1>4. Onward(E, W) \in SUBSET (Vertex \X Nat)
  <2>1. ASSUME NEW y \in Onward(E, W) PROVE y \in Vertex \X Nat
    <3>1. PICK u, v \in Vertex, c \in Nat :
            <<u, c>> \in W /\ u # v /\ E[<<u, v>>] # NoEdge /\ y = <<v, c + E[<<u, v>>]>>
      BY <1>2
    <3>2. E[<<u, v>>] \in Nat
      BY <1>1, <3>1
    <3>3. PICK d \in Nat : d = c + E[<<u, v>>]
      BY <3>1, <3>2
    <3>4. QED BY <3>1, <3>3
  <2>2. QED BY <2>1
<1>5. ASSUME NEW v \in Vertex, NEW d \in Nat, <<v, d>> \in Onward(E, W)
      PROVE  \E u \in Vertex, c \in Nat :
               <<u, c>> \in W /\ u # v /\ E[<<u, v>>] # NoEdge /\ d = c + E[<<u, v>>]
  BY <1>2, <1>5
<1>6. QED BY <1>3, <1>4, <1>5

LEMMA WalksGoOn ==
  ASSUME SpreadAssumption, NEW E \in [Link -> Edge \cup {NoEdge}],
         NEW most \in Nat, NEW s \in Vertex
  PROVE  /\ Walks(E, most, s)[0] = {<<s, 0>>}
         /\ \A k \in 0..most : Walks(E, most, s)[k] \in SUBSET (Vertex \X Nat)
         /\ \A k \in 1..most : Walks(E, most, s)[k] = Walks(E, most, s)[k - 1] \cup Onward(E, Walks(E, most, s)[k - 1])
<1>1. PICK n, D : n \in Nat /\ n = most /\ D = SUBSET (Vertex \X Nat)
  OBVIOUS
<1>2. PICK z \in D : z = {<<s, 0>>}
  <2>1. {<<s, 0>>} \in SUBSET (Vertex \X Nat)
    OBVIOUS
  <2>2. QED BY <1>1, <2>1
<1>3. PICK step : step = [k \in 1..n |-> [W \in D |-> W \cup Onward(E, W)]]
  OBVIOUS
<1>4. step \in [1..n -> [D -> D]]
  <2>1. \A W \in D : W \cup Onward(E, W) \in D
    BY <1>1, OnwardIs
  <2>2. QED BY <1>3, <2>1
<1>5. PICK e \in [0..n -> D] : Walked(z, step, n, e)
  BY <1>1, <1>4, WalkExists
<1>6. e = [k \in 0..n |-> IF k = 0 THEN z ELSE e[k - 1] \cup Onward(E, e[k - 1])]
  <2>1. ASSUME NEW k \in 0..n
        PROVE  e[k] = IF k = 0 THEN z ELSE e[k - 1] \cup Onward(E, e[k - 1])
    <3>1. CASE k = 0
      BY <1>5, <3>1 DEF Walked
    <3>2. CASE k # 0
      <4>1. k \in 1..n /\ k - 1 \in 0..n
        BY <1>1, <3>2
      <4>2. e[k] = step[k][e[k - 1]] /\ e[k - 1] \in D
        BY <1>5, <4>1 DEF Walked
      <4>3. QED BY <1>3, <3>2, <4>1, <4>2
    <3>3. QED BY <3>1, <3>2
  <2>2. QED BY <2>1
<1>7. PICK f : f = CHOOSE g : g = [k \in 0..n |-> IF k = 0 THEN z ELSE g[k - 1] \cup Onward(E, g[k - 1])]
  OBVIOUS
<1>8. f = [k \in 0..n |-> IF k = 0 THEN z ELSE f[k - 1] \cup Onward(E, f[k - 1])]
  BY <1>6, <1>7
<1>9. Walks(E, most, s) = f
  BY <1>1, <1>2, <1>7 DEF Walks
<1>10. f[0] = z /\ \A k \in 1..n : f[k] = f[k - 1] \cup Onward(E, f[k - 1])
  <2>1. 0 \in 0..n /\ \A k \in 1..n : k \in 0..n /\ k # 0
    BY <1>1
  <2>2. QED BY <1>8, <2>1
<1>11. PICK S : S = {k \in Nat : k <= n => f[k] \in D}
  OBVIOUS
<1>12. S = Nat
  <2>1. 0 \in S
    BY <1>2, <1>10, <1>11
  <2>2. ASSUME NEW k \in S, k + 1 <= n PROVE f[k + 1] \in D
    <3>1. k \in Nat /\ k + 1 \in 1..n /\ (k + 1) - 1 = k /\ f[k] \in D
      BY <1>1, <1>11, <2>2
    <3>2. f[k + 1] = f[k] \cup Onward(E, f[k]) /\ Onward(E, f[k]) \in D
      BY <1>1, <1>10, <3>1, OnwardIs
    <3>3. QED BY <1>1, <3>1, <3>2
  <2>3. \A k \in S : k + 1 \in S
    BY <1>11, <2>2
  <2>4. QED BY <1>11, <2>1, <2>3, AllNat
<1>13. \A k \in 0..n : f[k] \in D
  BY <1>11, <1>12
<1>14. QED BY <1>1, <1>2, <1>9, <1>10, <1>13

\* A walk of few edges is one of at most more.
LEMMA WalksGrow ==
  ASSUME SpreadAssumption, NEW E \in [Link -> Edge \cup {NoEdge}],
         NEW most \in Nat, NEW s \in Vertex, NEW j \in 0..most
  PROVE  \A k \in j..most : Walks(E, most, s)[j] \subseteq Walks(E, most, s)[k]
<1>1. PICK n, W : n \in Nat /\ n = most /\ W = Walks(E, most, s)
  OBVIOUS
<1>2. \A k \in 1..n : W[k - 1] \subseteq W[k]
  BY <1>1, WalksGoOn
<1>3. PICK S : S = {m \in Nat : j + m <= n => W[j] \subseteq W[j + m]}
  OBVIOUS
<1>4. S = Nat
  <2>1. 0 \in S
    BY <1>1, <1>3
  <2>2. ASSUME NEW m \in S, j + (m + 1) <= n PROVE W[j] \subseteq W[j + (m + 1)]
    <3>1. m \in Nat /\ j + (m + 1) \in 1..n /\ (j + (m + 1)) - 1 = j + m /\ W[j] \subseteq W[j + m]
      BY <1>1, <1>3, <2>2
    <3>2. W[j + m] \subseteq W[j + (m + 1)]
      BY <1>2, <3>1
    <3>3. QED BY <3>1, <3>2
  <2>3. \A m \in S : m + 1 \in S
    BY <1>3, <2>2
  <2>4. QED BY <1>3, <2>1, <2>3, AllNat
<1>5. ASSUME NEW k \in j..most PROVE W[j] \subseteq W[k]
  <2>1. k - j \in Nat /\ j + (k - j) = k /\ k <= n
    BY <1>1
  <2>2. k - j \in S
    BY <1>4, <2>1
  <2>3. QED BY <1>3, <2>1, <2>2
<1>6. QED BY <1>1, <1>5

-----------------------------------------------------------------------------
(* A pop.                                                                   *)

\* The entries a pop puts on the queue, one for each node reached nearer.
LEMMA NewEntries ==
  ASSUME SpreadTypes, SpreadAssumption, NEW e \in Entry
  PROVE  /\ Nearer(e) \subseteq Vertex /\ Arrivals(e) \in [Nearer(e) -> Nat]
         /\ IsFiniteSet(Entries(e))
         /\ \A y \in Entries(e) :
              /\ y \in Entry /\ y.node \in Nearer(e)
              /\ y.dist = Arrivals(e)[y.node] /\ y.steps = e.steps + 1
         /\ \A n \in Nearer(e) : \E y \in Entries(e) : y.node = n
<1>1. /\ Nearer(e) \subseteq Vertex
      /\ \A n \in Nearer(e) : e.node # n /\ edge[<<e.node, n>>] # NoEdge
  BY DEF Nearer
<1>2. e.node \in Vertex /\ e.dist \in Nat /\ e.steps \in Nat
  BY DEF Entry
<1>3. ASSUME NEW n \in Nearer(e) PROVE e.dist + edge[<<e.node, n>>] \in Nat
  <2>1. <<e.node, n>> \in Link
    BY <1>1, <1>2 DEF Link
  <2>2. edge[<<e.node, n>>] \in Nat
    BY <1>1, <2>1, SpreadAssumption DEF SpreadTypes
  <2>3. QED BY <1>2, <2>2
<1>4. PICK at \in [Nearer(e) -> Nat] : at = Arrivals(e)
  BY <1>3 DEF Arrivals
<1>5. ASSUME NEW y \in Entries(e)
      PROVE  y \in Entry /\ y.node \in Nearer(e) /\ y.dist = at[y.node] /\ y.steps = e.steps + 1
  <2>1. PICK n \in Nearer(e) : y = [node |-> n, dist |-> at[n], steps |-> e.steps + 1]
    BY <1>4 DEF Entries
  <2>2. n \in Vertex /\ at[n] \in Nat /\ e.steps + 1 \in Nat
    BY <1>1, <1>2, <1>4
  <2>3. QED BY <2>1, <2>2 DEF Entry
<1>6. ASSUME NEW n \in Nearer(e) PROVE \E y \in Entries(e) : y.node = n
  <2>1. PICK y : y = [node |-> n, dist |-> Arrivals(e)[n], steps |-> e.steps + 1]
    OBVIOUS
  <2>2. y \in Entries(e) /\ y.node = n
    BY <2>1 DEF Entries
  <2>3. QED BY <2>2
<1>7. IsFiniteSet(Entries(e))
  <2>1. PICK new : new = Entries(e)
    OBVIOUS
  <2>2. PICK g : g = [y \in new |-> y.node]
    OBVIOUS
  <2>3. g \in [new -> Vertex]
    BY <1>1, <1>5, <2>1, <2>2
  <2>4. ASSUME NEW y \in new, NEW z \in new, y.node = z.node PROVE y = z
    <3>1. /\ y = [node |-> y.node, dist |-> y.dist, steps |-> y.steps]
          /\ z = [node |-> z.node, dist |-> z.dist, steps |-> z.steps]
      BY <1>5, <2>1 DEF Entry
    <3>2. y.dist = z.dist /\ y.steps = z.steps
      BY <1>5, <2>1, <2>4
    <3>3. QED BY <2>4, <3>1, <3>2
  <2>5. IsInjective(g)
    BY <2>2, <2>4 DEF IsInjective
  <2>6. g \in Injection(new, Vertex)
    BY <2>3, <2>5 DEF Injection
  <2>7. QED BY <2>1, <2>6, SpreadAssumption, FS_Injection
<1>8. QED BY <1>1, <1>4, <1>5, <1>6, <1>7

\* What a pop of e does: the nodes reached nearer come to their new distance,
\* fire, and wait behind the rest of the queue.
Popped(e, near, rest, more) ==
  /\ near = Nearer(e) /\ near \subseteq Vertex
  /\ seen' \in [DOMAIN seen \cup near -> Nat]
  /\ \A n \in near : seen'[n] = e.dist + edge[<<e.node, n>>]
  /\ \A n \in DOMAIN seen \ near : seen'[n] = seen[n]
  /\ \A i \in 1..more : /\ queue'[rest + i].node \in near
                        /\ queue'[rest + i].dist = seen'[queue'[rest + i].node]
                        /\ queue'[rest + i].steps = e.steps + 1
  /\ \A n \in near : \E i \in 1..more : queue'[rest + i].node = n
  /\ \A i \in 1..rest : queue'[i] = queue[i + 1]
  /\ queue' \in Seq(Entry) /\ Len(queue') = rest + more /\ Len(queue) = rest + 1 /\ queue[1] = e
  /\ Fire([n \in near |-> seen'[n]])

LEMMA PopIs ==
  ASSUME SpreadTypes, SpreadAssumption, Pop
  PROVE  \E e \in Entry, near \in SUBSET Vertex, rest \in Nat, more \in Nat :
           Popped(e, near, rest, more)
<1>1. PICK q \in Seq(Entry) : q = queue /\ q # <<>>
  BY DEF Pop, SpreadTypes
<1>2. Len(q) \in Nat /\ Len(q) # 0 /\ DOMAIN q = 1..Len(q)
  BY <1>1
<1>3. PICK e \in Entry : e = Head(q) /\ e = q[1]
  BY <1>1, <1>2
<1>4. PICK near, at :
        near \in SUBSET Vertex /\ at \in [near -> Nat] /\ near = Nearer(e) /\ at = Arrivals(e)
  BY NewEntries
<1>5. PICK new : new = Entries(e)
  OBVIOUS
<1>6. /\ IsFiniteSet(new) /\ new \subseteq Entry
      /\ \A y \in new : y.node \in near /\ y.dist = at[y.node] /\ y.steps = e.steps + 1
      /\ \A n \in near : \E y \in new : y.node = n
  BY <1>4, <1>5, NewEntries
<1>7. PICK w \in Seq(Entry) :
        /\ w = SetToSeq(new)
        /\ \A i \in DOMAIN w : w[i].node \in near /\ w[i].dist = at[w[i].node] /\ w[i].steps = e.steps + 1
        /\ \A n \in near : \E i \in DOMAIN w : w[i].node = n
  <2>1. PICK w : w = SetToSeq(new)
    OBVIOUS
  <2>2. w \in Seq(new) /\ \A y \in new : \E i \in DOMAIN w : w[i] = y
    BY <1>6, <2>1, SeqOfSet
  <2>3. w \in Seq(Entry) /\ \A i \in DOMAIN w : w[i] \in new
    BY <1>6, <2>2
  <2>4. \A i \in DOMAIN w : w[i].node \in near /\ w[i].dist = at[w[i].node] /\ w[i].steps = e.steps + 1
    BY <1>6, <2>3
  <2>5. ASSUME NEW n \in near PROVE \E i \in DOMAIN w : w[i].node = n
    <3>1. PICK y \in new : y.node = n
      BY <1>6
    <3>2. QED BY <2>2, <3>1
  <2>6. QED BY <2>1, <2>3, <2>4, <2>5
<1>8. /\ seen' = [n \in DOMAIN seen \cup DOMAIN at |-> IF n \in DOMAIN at THEN at[n] ELSE seen[n]]
      /\ queue' = Tail(q) \o w
      /\ Fire(at)
  BY <1>1, <1>3, <1>4, <1>5, <1>7 DEF Pop
<1>9. PICK m \in Nat, rest \in Nat : m = Len(w) /\ rest = Len(q) - 1
  <2>1. Len(w) \in Nat /\ Len(q) - 1 \in Nat
    BY <1>2
  <2>2. QED BY <2>1
<1>10. PICK t \in Seq(Entry) : /\ t = Tail(q) /\ Len(t) = rest
                               /\ \A i \in 1..rest : t[i] = q[i + 1]
  <2>1. /\ Tail(q) \in Seq(Entry) /\ Len(Tail(q)) = Len(q) - 1
        /\ \A i \in 1..Len(Tail(q)) : Tail(q)[i] = q[i + 1]
    BY <1>1, HeadTailProperties
  <2>2. QED BY <1>9, <2>1
<1>11. /\ t \o w \in Seq(Entry) /\ Len(t \o w) = rest + m
       /\ \A i \in 1..rest : (t \o w)[i] = t[i]
       /\ \A i \in 1..m : (t \o w)[rest + i] = w[i]
  <2>1. /\ t \o w \in Seq(Entry) /\ Len(t \o w) = Len(t) + Len(w)
        /\ \A i \in 1..(Len(t) + Len(w)) :
             (t \o w)[i] = IF i <= Len(t) THEN t[i] ELSE w[i - Len(t)]
    BY ConcatProperties
  <2>2. QED BY <1>9, <1>10, <2>1
<1>12. /\ queue' \in Seq(Entry) /\ Len(queue') = rest + m /\ Len(queue) = rest + 1 /\ queue[1] = e
       /\ \A i \in 1..rest : queue'[i] = queue[i + 1]
       /\ \A i \in 1..m : queue'[rest + i] = w[i]
  BY <1>1, <1>3, <1>8, <1>9, <1>10, <1>11
<1>13. /\ seen' \in [DOMAIN seen \cup near -> Nat]
       /\ \A n \in near : seen'[n] = at[n]
       /\ \A n \in DOMAIN seen \ near : seen'[n] = seen[n]
  BY <1>4, <1>8 DEF SpreadTypes
<1>14. DOMAIN w = 1..m
  BY <1>9
<1>15. /\ \A i \in 1..m : w[i].node \in near /\ w[i].dist = seen'[w[i].node] /\ w[i].steps = e.steps + 1
       /\ \A n \in near : \E i \in 1..m : w[i].node = n
  BY <1>7, <1>13, <1>14
<1>16. Fire([n \in near |-> seen'[n]])
  <2>1. at = [n \in near |-> seen'[n]]
    BY <1>4, <1>13
  <2>2. QED BY <1>8, <2>1
<1>17. \A n \in near : seen'[n] = e.dist + edge[<<e.node, n>>]
  BY <1>4, <1>13 DEF Arrivals
<1>18. Popped(e, near, rest, m)
  <2>1. /\ \A i \in 1..m : /\ queue'[rest + i].node \in near
                          /\ queue'[rest + i].dist = seen'[queue'[rest + i].node]
                          /\ queue'[rest + i].steps = e.steps + 1
        /\ \A n \in near : \E i \in 1..m : queue'[rest + i].node = n
    <3>1. ASSUME NEW i \in 1..m
          PROVE  /\ queue'[rest + i].node \in near
                 /\ queue'[rest + i].dist = seen'[queue'[rest + i].node]
                 /\ queue'[rest + i].steps = e.steps + 1
      <4>1. PICK x : x = queue'[rest + i] /\ x = w[i]
        BY <1>12
      <4>2. x.node \in near /\ x.dist = seen'[x.node] /\ x.steps = e.steps + 1
        BY <1>15, <4>1
      <4>3. QED BY <4>1, <4>2
    <3>2. ASSUME NEW n \in near PROVE \E i \in 1..m : queue'[rest + i].node = n
      <4>1. PICK i \in 1..m : w[i].node = n
        BY <1>15
      <4>2. QED BY <1>12, <4>1
    <3>3. QED BY <3>1, <3>2
  <2>2. QED BY <1>4, <1>12, <1>13, <1>16, <1>17, <2>1, Zenon DEF Popped
<1>19. QED BY <1>4, <1>18

Same == UNCHANGED <<edge, reach, cap, seeds>>

\* A length over an edge is a number.
LEMMA StepIsNat ==
  ASSUME SpreadTypes, SpreadAssumption, NEW u \in Vertex, NEW x \in Nat,
         NEW v \in Vertex \ {u}, edge[<<u, v>>] # NoEdge
  PROVE  x + edge[<<u, v>>] \in Nat
<1>1. <<u, v>> \in Link
  BY DEF Link
<1>2. edge[<<u, v>>] \in Nat
  BY <1>1, SpreadAssumption DEF SpreadTypes
<1>3. QED BY <1>2

\* What is near stays near, and relaxed nodes relaxed.
LEMMA PopLowers ==
  ASSUME SpreadTypes, SpreadAssumption, NEW e \in Entry, NEW near, NEW rest \in Nat,
         NEW more \in Nat, Popped(e, near, rest, more), NEW v, NEW d \in Nat, Near(v, d)
  PROVE  Near(v, d)'
<1>1. v \in DOMAIN seen /\ seen[v] <= d /\ seen[v] \in Nat /\ v \in Vertex
  BY DEF Near, SpreadTypes
<1>2. DOMAIN seen' = DOMAIN seen \cup near
  BY DEF Popped
<1>3. CASE v \in near
  <2>1. v \in Vertex \ {e.node} /\ edge[<<e.node, v>>] # NoEdge
        /\ e.dist + edge[<<e.node, v>>] < seen[v]
    BY <1>1, <1>3 DEF Popped, Nearer
  <2>2. e.dist + edge[<<e.node, v>>] \in Nat
    BY <2>1, StepIsNat DEF Entry
  <2>3. seen'[v] = e.dist + edge[<<e.node, v>>]
    BY <1>3 DEF Popped
  <2>4. QED BY <1>1, <1>2, <2>1, <2>2, <2>3 DEF Near
<1>4. CASE v \notin near
  <2>1. seen'[v] = seen[v]
    BY <1>1, <1>4 DEF Popped
  <2>2. QED BY <1>1, <1>2, <2>1 DEF Near
<1>5. QED BY <1>3, <1>4

LEMMA StaysRelaxed ==
  ASSUME SpreadTypes, SpreadAssumption, NEW e \in Entry, NEW near, NEW rest \in Nat,
         NEW more \in Nat, Popped(e, near, rest, more), Same,
         NEW u \in Vertex, NEW x \in Nat, Relaxed(u, x)
  PROVE  Relaxed(u, x)'
<1>1. edge' = edge /\ reach' = reach
  BY DEF Same
<1>2. ASSUME NEW v \in Vertex \ {u}, edge[<<u, v>>] # NoEdge, x + edge[<<u, v>>] <= reach
      PROVE  Near(v, x + edge[<<u, v>>])'
  <2>1. PICK d \in Nat : d = x + edge[<<u, v>>]
    BY <1>2, StepIsNat
  <2>2. Near(v, d)
    BY <1>2, <2>1 DEF Relaxed
  <2>3. Near(v, d)'
    BY <2>2, PopLowers
  <2>4. QED BY <1>1, <2>1, <2>3 DEF Near
<1>3. QED BY <1>1, <1>2 DEF Relaxed, Near

\* The node of the popped entry is relaxed at the entry's distance.
LEMMA PopRelaxes ==
  ASSUME SpreadTypes, SpreadAssumption, NEW e \in Entry, NEW near, NEW rest \in Nat,
         NEW more \in Nat, Popped(e, near, rest, more), Same, e.steps < cap
  PROVE  Relaxed(e.node, e.dist)'
<1>1. edge' = edge /\ reach' = reach /\ DOMAIN seen' = DOMAIN seen \cup near
  BY DEF Same, Popped
<1>2. ASSUME NEW v \in Vertex \ {e.node}, edge[<<e.node, v>>] # NoEdge,
             e.dist + edge[<<e.node, v>>] <= reach
      PROVE  Near(v, e.dist + edge[<<e.node, v>>])'
  <2>1. PICK d \in Nat : d = e.dist + edge[<<e.node, v>>]
    BY <1>2, StepIsNat DEF Entry
  <2>2. CASE v \in near
    <3>1. seen'[v] = d
      BY <2>1, <2>2 DEF Popped
    <3>2. QED BY <1>1, <2>1, <2>2, <3>1 DEF Near
  <2>3. CASE v \notin near
    <3>1. v \in DOMAIN seen /\ ~(d < seen[v])
      BY <1>2, <2>1, <2>3 DEF Popped, Nearer
    <3>2. seen[v] \in Nat /\ seen'[v] = seen[v]
      BY <2>3, <3>1 DEF Popped, SpreadTypes
    <3>3. QED BY <1>1, <2>1, <3>1, <3>2 DEF Near
  <2>4. QED BY <2>2, <2>3
<1>3. QED BY <1>1, <1>2 DEF Relaxed, Near

\* The places of the queue before and after.
LEMMA PopPlaces ==
  ASSUME SpreadTypes, NEW e \in Entry, NEW near, NEW rest \in Nat, NEW more \in Nat,
         Popped(e, near, rest, more)
  PROVE  /\ DOMAIN queue = 1..(rest + 1) /\ DOMAIN queue' = 1..(rest + more)
         /\ \A i \in DOMAIN queue : i = 1 \/ (i - 1 \in 1..rest /\ queue'[i - 1] = queue[i])
         /\ \A i \in DOMAIN queue' : \/ i \in 1..rest /\ i + 1 \in DOMAIN queue /\ queue'[i] = queue[i + 1]
                                     \/ i \notin 1..rest /\ \E j \in 1..more : i = rest + j
<1>1. Len(queue) = rest + 1 /\ Len(queue') = rest + more
      /\ queue \in Seq(Entry) /\ queue' \in Seq(Entry)
  BY DEF Popped, SpreadTypes
<1>2. DOMAIN queue = 1..(rest + 1) /\ DOMAIN queue' = 1..(rest + more)
  BY <1>1
<1>3. \A i \in 1..rest : queue'[i] = queue[i + 1]
  BY DEF Popped
<1>4. ASSUME NEW i \in 1..(rest + 1), i # 1 PROVE i - 1 \in 1..rest /\ queue'[i - 1] = queue[i]
  <2>1. i - 1 \in 1..rest /\ (i - 1) + 1 = i
    BY <1>4
  <2>2. QED BY <1>3, <2>1
<1>5. ASSUME NEW i \in 1..(rest + more), i \notin 1..rest PROVE \E j \in 1..more : i = rest + j
  <2>1. i - rest \in 1..more /\ i = rest + (i - rest)
    BY <1>5
  <2>2. QED BY <2>1
<1>6. \A i \in 1..rest : i + 1 \in 1..(rest + 1)
  OBVIOUS
<1>7. QED BY <1>2, <1>3, <1>4, <1>5, <1>6

LEMMA PopWaits ==
  ASSUME SpreadTypes, NEW e \in Entry, NEW near, NEW rest \in Nat, NEW more \in Nat,
         Popped(e, near, rest, more), NEW u, NEW x, NEW k
  PROVE  /\ WaitsAt(u, x, k) => WaitsAt(u, x, k)' \/ (u = e.node /\ x = e.dist)
         /\ Waits(u, x) => Waits(u, x)' \/ (u = e.node /\ x = e.dist)
<1>1. /\ \A i \in DOMAIN queue : i = 1 \/ (i - 1 \in DOMAIN queue' /\ queue'[i - 1] = queue[i])
      /\ queue[1] = e
  <2>1. \A i \in 1..rest : i \in 1..(rest + more)
    OBVIOUS
  <2>2. QED BY <2>1, PopPlaces DEF Popped
<1>2. ASSUME NEW i \in DOMAIN queue, queue[i].node = u, queue[i].dist = x
      PROVE  \/ \E j \in DOMAIN queue' : queue'[j] = queue[i]
             \/ u = e.node /\ x = e.dist
  BY <1>1, <1>2
<1>3. QED BY <1>2 DEF WaitsAt, Waits

\* A pop of an entry of the level keeps the level.
LEMMA PopLevel ==
  ASSUME SpreadTypes, SpreadAssumption, NEW k \in 0..cap, Level(k),
         NEW e \in Entry, NEW near, NEW rest \in Nat, NEW more \in Nat,
         Popped(e, near, rest, more), Same, e.steps = k
  PROVE  Level(k)'
<1>1. edge' = edge /\ reach' = reach /\ cap' = cap /\ seeds' = seeds
  BY DEF Same
<1>2. Ordered(k) /\ Followed(k) /\ (k < cap => GoesOn(k)) /\ k \in Nat
  BY DEF Level, SpreadTypes
<1>3. Ordered(k)'
  <2>1. /\ \A i \in DOMAIN queue' : \/ i \in 1..rest /\ i + 1 \in DOMAIN queue /\ queue'[i] = queue[i + 1]
                                    \/ i \notin 1..rest /\ \E j \in 1..more : i = rest + j
        /\ DOMAIN queue' = 1..(rest + more)
    BY PopPlaces
  <2>2. \A j \in 1..more : queue'[rest + j].steps = k + 1
    BY DEF Popped
  <2>3. \A i \in DOMAIN queue' : /\ i \in 1..rest => queue'[i].steps \in {k, k + 1}
                                 /\ i \notin 1..rest => queue'[i].steps = k + 1
    BY <1>2, <2>1, <2>2 DEF Ordered
  <2>4. ASSUME NEW i \in DOMAIN queue', NEW j \in DOMAIN queue', i < j
        PROVE  queue'[i].steps <= queue'[j].steps
    <3>1. CASE j \in 1..rest
      <4>1. i \in 1..rest /\ i + 1 < j + 1
        BY <2>1, <2>4, <3>1
      <4>2. queue[i + 1].steps <= queue[j + 1].steps
        BY <1>2, <2>1, <3>1, <4>1 DEF Ordered
      <4>3. QED BY <2>1, <3>1, <4>1, <4>2
    <3>2. CASE j \notin 1..rest
      BY <1>2, <2>3, <3>2
    <3>3. QED BY <3>1, <3>2
  <2>5. QED BY <2>3, <2>4 DEF Ordered
<1>4. Followed(k)'
  <2>1. ASSUME NEW v \in Vertex, NEW d \in Nat,
               <<v, d>> \in Walks(edge, cap, Head(seeds))[k], d <= reach
        PROVE  Near(v, d)'
    <3>1. Near(v, d)
      BY <1>2, <2>1 DEF Followed
    <3>2. QED BY <3>1, PopLowers
  <2>2. QED BY <1>1, <2>1 DEF Followed
<1>5. ASSUME k < cap PROVE GoesOn(k)'
  <2>1. Relaxed(e.node, e.dist)'
    BY <1>5, PopRelaxes
  <2>2. GoesOn(k)
    BY <1>2, <1>5
  <2>3. ASSUME NEW v \in Vertex, NEW d \in Nat,
               <<v, d>> \in Walks(edge, cap, Head(seeds))[k], d <= reach
        PROVE  \E x \in Nat : x <= d /\ (WaitsAt(v, x, k)' \/ Relaxed(v, x)')
    <3>1. PICK x \in Nat : x <= d /\ (WaitsAt(v, x, k) \/ Relaxed(v, x))
      BY <2>2, <2>3 DEF GoesOn
    <3>2. CASE Relaxed(v, x)
      <4>1. Relaxed(v, x)'
        BY <3>2, StaysRelaxed
      <4>2. QED BY <3>1, <4>1
    <3>3. CASE WaitsAt(v, x, k)
      <4>1. WaitsAt(v, x, k)' \/ (v = e.node /\ x = e.dist)
        BY <3>3, PopWaits
      <4>2. CASE v = e.node /\ x = e.dist
        <5>1. Relaxed(v, x)'
          BY <2>1, <4>2
        <5>2. QED BY <3>1, <5>1
      <4>3. QED BY <3>1, <4>1, <4>2
    <3>4. QED BY <3>1, <3>2, <3>3
  <2>4. ASSUME NEW v \in DOMAIN seen' PROVE Waits(v, seen[v])' \/ Relaxed(v, seen[v])'
    <3>1. DOMAIN seen' = DOMAIN seen \cup near
      BY DEF Popped
    <3>2. PICK y : y = seen'[v]
      OBVIOUS
    <3>3. CASE v \in near
      <4>1. PICK i \in 1..more : queue'[rest + i].node = v
        BY <3>3 DEF Popped
      <4>2. queue'[rest + i].dist = y
        BY <3>2, <4>1 DEF Popped
      <4>3. rest + i \in DOMAIN queue'
        <5>1. rest + i \in 1..(rest + more)
          OBVIOUS
        <5>2. QED BY <5>1, PopPlaces
      <4>4. Waits(v, y)'
        BY <4>1, <4>2, <4>3 DEF Waits
      <4>5. QED BY <3>2, <4>4 DEF Waits
    <3>4. CASE v \notin near
      <4>1. v \in DOMAIN seen /\ y = seen[v]
        BY <3>1, <3>2, <3>4 DEF Popped
      <4>2. v \in Vertex /\ y \in Nat
        BY <4>1 DEF SpreadTypes
      <4>3. Waits(v, y) \/ Relaxed(v, y)
        BY <2>2, <4>1 DEF GoesOn
      <4>4. Relaxed(v, y) => Relaxed(v, y)'
        BY <4>2, StaysRelaxed
      <4>5. Waits(v, y) => Waits(v, y)' \/ (v = e.node /\ y = e.dist)
        BY PopWaits
      <4>6. Waits(v, y)' \/ Relaxed(v, y)'
        BY <2>1, <4>3, <4>4, <4>5
      <4>7. QED BY <3>2, <4>6 DEF Waits, Relaxed
    <3>5. QED BY <3>3, <3>4
  <2>5. QED BY <1>1, <2>3, <2>4 DEF GoesOn
<1>6. QED BY <1>1, <1>3, <1>4, <1>5 DEF Level

\* When the entries of a level are gone, the next level begins.
LEMMA LevelUp ==
  ASSUME SpreadTypes, SpreadAssumption, seeds # <<>>, NEW k \in Nat, k < cap, Level(k),
         \A i \in DOMAIN queue : queue[i].steps = k + 1
  PROVE  Level(k + 1)
<1>1. PICK s \in Vertex : s = Head(seeds)
  BY HeadTailProperties DEF SpreadTypes
<1>2. PICK W, X : W = Walks(edge, cap, s)[k] /\ X = Walks(edge, cap, s)[k + 1]
  OBVIOUS
<1>3. W \in SUBSET (Vertex \X Nat) /\ X = W \cup Onward(edge, W)
  <2>1. PICK E \in [Link -> Edge \cup {NoEdge}] : E = edge
    BY DEF SpreadTypes
  <2>2. PICK m \in Nat : m = cap
    BY DEF SpreadTypes
  <2>3. k \in 0..m /\ k + 1 \in 1..m /\ (k + 1) - 1 = k
    BY <2>2
  <2>4. /\ Walks(E, m, s)[k] \in SUBSET (Vertex \X Nat)
        /\ Walks(E, m, s)[k + 1] = Walks(E, m, s)[k] \cup Onward(E, Walks(E, m, s)[k])
    BY <2>3, WalksGoOn
  <2>5. QED BY <1>2, <2>1, <2>2, <2>4
<1>4. Followed(k) /\ GoesOn(k)
  BY DEF Level
<1>5. \A u, x : ~WaitsAt(u, x, k)
  BY DEF WaitsAt
<1>6. ASSUME NEW v \in Vertex, NEW d \in Nat, <<v, d>> \in X, d <= reach
      PROVE  Near(v, d)
  <2>1. CASE <<v, d>> \in W
    BY <1>1, <1>2, <1>4, <1>6, <2>1 DEF Followed
  <2>2. CASE <<v, d>> \in Onward(edge, W)
    <3>1. PICK u \in Vertex, c \in Nat :
            <<u, c>> \in W /\ u # v /\ edge[<<u, v>>] # NoEdge /\ d = c + edge[<<u, v>>]
      <4>1. PICK E \in [Link -> Edge \cup {NoEdge}] : E = edge
        BY DEF SpreadTypes
      <4>2. <<v, d>> \in Onward(E, W)
        BY <2>2, <4>1
      <4>3. \E u \in Vertex, c \in Nat :
              <<u, c>> \in W /\ u # v /\ E[<<u, v>>] # NoEdge /\ d = c + E[<<u, v>>]
        <5>1. PICK V \in SUBSET (Vertex \X Nat) : V = W
          BY <1>3
        <5>2. \A n \in Vertex, a \in Nat :
                <<n, a>> \in Onward(E, V) <=>
                  \E u \in Vertex, c \in Nat :
                    <<u, c>> \in V /\ u # n /\ E[<<u, n>>] # NoEdge /\ a = c + E[<<u, n>>]
          BY OnwardIs
        <5>3. <<v, d>> \in Onward(E, V)
          BY <4>2, <5>1
        <5>4. \E u \in Vertex, c \in Nat :
                <<u, c>> \in V /\ u # v /\ E[<<u, v>>] # NoEdge /\ d = c + E[<<u, v>>]
          BY <5>2, <5>3
        <5>5. QED BY <5>1, <5>4
      <4>4. QED BY <4>1, <4>3
    <3>2. PICK l \in Nat : l = edge[<<u, v>>]
      <4>1. <<u, v>> \in Link
        BY <3>1 DEF Link
      <4>2. QED BY <3>1, <4>1, SpreadAssumption DEF SpreadTypes
    <3>3. reach \in Nat
      BY DEF SpreadTypes
    <3>4. c <= reach
      BY <1>6, <3>1, <3>2, <3>3
    <3>5. PICK x \in Nat : x <= c /\ Relaxed(u, x)
      BY <1>1, <1>2, <1>4, <1>5, <3>1, <3>4 DEF GoesOn
    <3>6. x + l <= d /\ x + l <= reach
      BY <1>6, <3>1, <3>2, <3>3, <3>5
    <3>7. Near(v, x + l)
      BY <3>1, <3>2, <3>5, <3>6 DEF Relaxed
    <3>8. v \in DOMAIN seen /\ seen[v] \in Nat /\ seen[v] <= x + l
      BY <3>7 DEF Near, SpreadTypes
    <3>9. QED BY <3>6, <3>8 DEF Near
  <2>3. QED BY <1>3, <1>6, <2>1, <2>2
<1>7. Followed(k + 1)
  BY <1>1, <1>2, <1>6 DEF Followed
<1>8. Ordered(k + 1)
  BY DEF Level, Ordered
<1>9. GoesOn(k + 1)
  <2>1. ASSUME NEW v \in DOMAIN seen
        PROVE  /\ Waits(v, seen[v]) \/ Relaxed(v, seen[v])
               /\ Waits(v, seen[v]) => WaitsAt(v, seen[v], k + 1)
    BY <1>4 DEF GoesOn, Waits, WaitsAt
  <2>2. ASSUME NEW v \in Vertex, NEW d \in Nat, <<v, d>> \in X, d <= reach
        PROVE  \E x \in Nat : x <= d /\ (WaitsAt(v, x, k + 1) \/ Relaxed(v, x))
    <3>1. v \in DOMAIN seen /\ seen[v] <= d /\ seen[v] \in Nat
      BY <1>6, <2>2 DEF Near, SpreadTypes
    <3>2. QED BY <2>1, <3>1
  <2>3. QED BY <1>1, <1>2, <2>1, <2>2 DEF GoesOn
<1>10. QED BY <1>7, <1>8, <1>9 DEF Level

\* A walk of few edges, or an onward one, is a walk within the cap.
LEMMA WalkAllowed ==
  ASSUME SpreadTypes, SpreadAssumption, NEW s \in Vertex, NEW k \in Nat, k <= cap,
         NEW v \in Vertex, NEW d \in Nat, <<v, d>> \in Walks(edge, cap, s)[k]
  PROVE  /\ <<v, d>> \in Walks(edge, cap, s)[cap]
         /\ \A n \in Vertex : k < cap /\ v # n /\ edge[<<v, n>>] # NoEdge =>
              <<n, d + edge[<<v, n>>]>> \in Walks(edge, cap, s)[k + 1]
<1>1. PICK E \in [Link -> Edge \cup {NoEdge}] : E = edge
  BY DEF SpreadTypes
<1>2. PICK m \in Nat : m = cap
  BY DEF SpreadTypes
<1>3. PICK W : W = Walks(E, m, s)
  OBVIOUS
<1>4. k \in 0..m /\ m \in k..m
  BY <1>2
<1>5. W[k] \in SUBSET (Vertex \X Nat) /\ W[k] \subseteq W[m]
  BY <1>3, <1>4, WalksGoOn, WalksGrow
<1>6. ASSUME NEW n \in Vertex, k < cap, v # n, E[<<v, n>>] # NoEdge
      PROVE  <<n, d + E[<<v, n>>]>> \in W[k + 1]
  <2>1. k + 1 \in 1..m /\ (k + 1) - 1 = k
    BY <1>2, <1>6
  <2>2. W[k + 1] = W[k] \cup Onward(E, W[k])
    <3>1. Walks(E, m, s)[k + 1] = Walks(E, m, s)[k] \cup Onward(E, Walks(E, m, s)[k])
      BY <2>1, WalksGoOn
    <3>2. QED BY <1>3, <3>1
  <2>3. PICK l \in Nat : l = d + E[<<v, n>>]
    <3>1. <<v, n>> \in Link
      BY <1>6 DEF Link
    <3>2. E[<<v, n>>] \in Nat
      BY <1>6, <3>1, SpreadAssumption
    <3>3. QED BY <3>2
  <2>4. <<v, d>> \in W[k]
    BY <1>1, <1>2, <1>3
  <2>5. <<n, l>> \in Onward(E, W[k])
    BY <1>5, <1>6, <2>3, <2>4, OnwardIs
  <2>6. QED BY <2>2, <2>3, <2>5
<1>7. <<v, d>> \in W[m]
  BY <1>1, <1>2, <1>3, <1>5
<1>8. QED BY <1>1, <1>2, <1>3, <1>6, <1>7

\* What is reached nearer is at the end of a walk of one edge more, within reach.
LEMMA PopReaches ==
  ASSUME SpreadTypes, SpreadAssumption, Queued, seeds # <<>>,
         NEW e \in Entry, NEW near, NEW rest \in Nat, NEW more \in Nat,
         Popped(e, near, rest, more), NEW n \in near
  PROVE  /\ e.steps < cap /\ e.steps + 1 <= cap /\ seen'[n] \in Nat /\ seen'[n] <= reach
         /\ n \in Vertex /\ Head(seeds) \in Vertex
         /\ <<n, seen'[n]>> \in Walks(edge, cap, Head(seeds))[e.steps + 1]
         /\ <<n, seen'[n]>> \in Walks(edge, cap, Head(seeds))[cap]
<1>1. PICK s \in Vertex : s = Head(seeds)
  BY HeadTailProperties DEF SpreadTypes
<1>2. e.node \in Vertex /\ e.dist \in Nat /\ e.steps \in Nat /\ cap \in Nat
  BY DEF Entry, SpreadTypes
<1>3. /\ n \in Vertex /\ n # e.node /\ e.steps < cap /\ edge[<<e.node, n>>] # NoEdge
      /\ e.dist + edge[<<e.node, n>>] <= reach
      /\ seen'[n] = e.dist + edge[<<e.node, n>>]
  BY DEF Popped, Nearer
<1>4. Stands(e)
  <2>1. 1 \in DOMAIN queue /\ queue[1] = e
    <3>1. 1 \in 1..(rest + 1)
      OBVIOUS
    <3>2. QED BY <3>1, PopPlaces DEF Popped
  <2>2. QED BY <2>1 DEF Queued
<1>5. PICK d \in Nat : d = seen'[n]
  <2>1. e.dist + edge[<<e.node, n>>] \in Nat
    BY <1>2, <1>3, StepIsNat
  <2>2. QED BY <1>3, <2>1
<1>6. PICK k \in Nat : k = e.steps /\ k + 1 \in Nat /\ k + 1 <= cap /\ k <= cap
  BY <1>2, <1>3
<1>7. <<e.node, e.dist>> \in Walks(edge, cap, s)[k]
  BY <1>1, <1>4, <1>6 DEF Stands
<1>8. <<n, d>> \in Walks(edge, cap, s)[k + 1]
  BY <1>2, <1>3, <1>5, <1>6, <1>7, WalkAllowed
<1>9. <<n, d>> \in Walks(edge, cap, s)[cap]
  BY <1>3, <1>5, <1>6, <1>8, WalkAllowed
<1>10. QED BY <1>1, <1>3, <1>5, <1>6, <1>8, <1>9

\* A sequence of terms at v whose last is d.
Falls(m, v, d) ==
  /\ m \in Seq(Nat) /\ m # <<>> /\ m[Len(m)] = d
  /\ \A i \in DOMAIN m : m[i] <= reach /\ <<v, m[i]>> \in Walks(edge, cap, Head(seeds))[cap]
  /\ \A i, j \in DOMAIN m : i < j => m[j] < m[i]

\* A term nearer than where v was reached goes behind its terms.
LEMMA TermGoesOn ==
  ASSUME NEW v \in Vertex, NEW l \in Seq(Nat), Terms(l, v), NEW d \in Nat, d <= reach,
         <<v, d>> \in Walks(edge, cap, Head(seeds))[cap], v \in DOMAIN seen => d < seen[v],
         NEW m, m = Append(l, d)
  PROVE  Falls(m, v, d)
<1>1. PICK n \in Nat : n = Len(l)
  OBVIOUS
<1>2. /\ DOMAIN l = 1..n /\ DOMAIN m = 1..(n + 1) /\ m \in Seq(Nat) /\ Len(m) = n + 1
      /\ m[n + 1] = d /\ \A i \in 1..n : m[i] = l[i] /\ l[i] \in Nat
  BY <1>1
<1>3. \A i \in 1..n : d < l[i]
  <2>1. SUFFICES ASSUME NEW i \in 1..n PROVE d < l[i]
    OBVIOUS
  <2>2. l # <<>>
    BY <1>1, <2>1
  <2>3. v \in DOMAIN seen /\ l[n] = seen[v] /\ d < l[n]
    BY <1>1, <2>2 DEF Terms
  <2>4. n \in 1..n /\ n \in DOMAIN l /\ i \in DOMAIN l /\ (i = n \/ i < n)
    BY <1>2, <2>1
  <2>5. i = n \/ l[n] < l[i]
    BY <2>4 DEF Terms
  <2>6. QED BY <1>2, <2>1, <2>3, <2>4, <2>5
<1>4. \A i \in DOMAIN m : m[i] <= reach /\ <<v, m[i]>> \in Walks(edge, cap, Head(seeds))[cap]
  <2>1. \A i \in 1..n : l[i] <= reach /\ <<v, l[i]>> \in Walks(edge, cap, Head(seeds))[cap]
    BY <1>2 DEF Terms
  <2>2. \A i \in 1..(n + 1) : i = n + 1 \/ i \in 1..n
    OBVIOUS
  <2>3. QED BY <1>2, <2>1, <2>2
<1>5. ASSUME NEW i \in DOMAIN m, NEW j \in DOMAIN m, i < j PROVE m[j] < m[i]
  <2>1. i \in 1..n /\ (j = n + 1 \/ j \in 1..n)
    BY <1>2, <1>5
  <2>2. j \in 1..n => l[j] < l[i]
    BY <1>2, <1>5, <2>1 DEF Terms
  <2>3. QED BY <1>2, <1>3, <2>1, <2>2
<1>6. m # <<>>
  BY <1>2
<1>7. QED BY <1>2, <1>4, <1>5, <1>6 DEF Falls

\* What a seed fires, where nodes come nearer, keeps the terms.
LEMMA FireKeeps ==
  ASSUME SpreadAssumption, seeds \in Seq(Vertex), seeds # <<>>, Fires, Same,
         NEW near \in SUBSET Vertex, NEW at \in [near -> Nat], Fire(at),
         \A n \in near : /\ at[n] <= reach /\ <<n, at[n]>> \in Walks(edge, cap, Head(seeds))[cap]
                         /\ n \in DOMAIN seen => at[n] < seen[n],
         DOMAIN seen' = DOMAIN seen \cup near, \A n \in near : seen'[n] = at[n],
         \A n \in DOMAIN seen \ near : seen'[n] = seen[n]
  PROVE  Fires'
<1>1. edge' = edge /\ reach' = reach /\ cap' = cap /\ seeds' = seeds
  BY DEF Same
<1>2. PICK k, m, F : /\ m \in Nat /\ m = Len(Seeds) /\ k = Len(seeds) /\ k \in 1..m
                     /\ F \in [1..m -> [Vertex -> Seq(Nat)]] /\ F = fired
  <2>1. Len(Seeds) \in Nat /\ Len(seeds) \in Nat /\ Len(seeds) # 0
    BY SpreadAssumption
  <2>2. QED BY <2>1 DEF Fires
<1>3. PICK g : g = [n \in Vertex |-> IF n \in near THEN Append(F[k][n], at[n]) ELSE F[k][n]]
  OBVIOUS
<1>4. fired' = [F EXCEPT ![k] = g]
  <2>1. DOMAIN at = near
    OBVIOUS
  <2>2. QED BY <1>2, <1>3, <2>1 DEF Fire
<1>5. \A n \in Vertex : F[k][n] \in Seq(Nat) /\ Terms(F[k][n], n)
  BY <1>2 DEF Fires
<1>6. ASSUME NEW v \in Vertex
      PROVE  /\ g[v] \in Seq(Nat)
             /\ \A i \in DOMAIN g[v] : /\ g[v][i] <= reach
                                      /\ <<v, g[v][i]>> \in Walks(edge, cap, Head(seeds))[cap]
             /\ \A i, j \in DOMAIN g[v] : i < j => g[v][j] < g[v][i]
             /\ IF v \in DOMAIN seen' THEN g[v] # <<>> /\ g[v][Len(g[v])] = seen'[v] ELSE g[v] = <<>>
  <2>1. PICK l \in Seq(Nat) : l = F[k][v] /\ Terms(l, v)
    BY <1>5
  <2>2. CASE v \in near
    <3>1. PICK d \in Nat : d = at[v]
      BY <2>2
    <3>2. PICK w : w = Append(l, d)
      OBVIOUS
    <3>3. g[v] = w
      BY <1>3, <2>1, <2>2, <3>1, <3>2
    <3>4. /\ d <= reach /\ <<v, d>> \in Walks(edge, cap, Head(seeds))[cap]
          /\ v \in DOMAIN seen => d < seen[v]
      BY <2>2, <3>1
    <3>5. Falls(w, v, d)
      BY <2>1, <3>2, <3>4, TermGoesOn
    <3>6. v \in DOMAIN seen' /\ seen'[v] = d
      BY <2>2, <3>1
    <3>7. QED BY <3>3, <3>5, <3>6 DEF Falls
  <2>3. CASE v \notin near
    <3>1. g[v] = l
      BY <1>3, <2>1, <2>3
    <3>2. (v \in DOMAIN seen' <=> v \in DOMAIN seen) /\ (v \in DOMAIN seen => seen'[v] = seen[v])
      BY <2>3
    <3>3. QED BY <2>1, <3>1, <3>2 DEF Terms
  <2>4. QED BY <2>2, <2>3
<1>7. fired' \in [1..Len(Seeds) -> [Vertex -> Seq(Nat)]] /\ Len(seeds') <= Len(Seeds)
  <2>1. g \in [Vertex -> Seq(Nat)]
    BY <1>3, <1>6
  <2>2. QED BY <1>1, <1>2, <1>4, <2>1
<1>8. ASSUME NEW j \in 1..k, NEW v \in Vertex
      PROVE  IF j = k THEN Terms(fired[j][v], v)' ELSE fired'[j][v] = <<>>
  <2>1. CASE j = k
    <3>1. fired'[j][v] = g[v]
      BY <1>2, <1>4, <2>1
    <3>2. QED BY <1>1, <1>6, <2>1, <3>1 DEF Terms
  <2>2. CASE j # k
    <3>1. fired'[j][v] = F[j][v]
      BY <1>2, <1>4, <2>2
    <3>2. F[j][v] = <<>>
      BY <1>2, <2>2 DEF Fires
    <3>3. QED BY <2>2, <3>1, <3>2
  <2>3. QED BY <2>1, <2>2
<1>9. QED BY <1>1, <1>2, <1>7, <1>8 DEF Fires, Terms

\* A pop keeps the types, and what fired and what is queued stand for walks.
LEMMA PopTypes ==
  ASSUME SpreadTypes, SpreadAssumption, seeds # <<>>, Fires, Queued,
         NEW e \in Entry, NEW near \in SUBSET Vertex, NEW rest \in Nat, NEW more \in Nat,
         Popped(e, near, rest, more), Same, seen # Nowhere
  PROVE  SpreadTypes' /\ Fires' /\ Queued' /\ seen' # Nowhere
<1>1. edge' = edge /\ reach' = reach /\ cap' = cap /\ seeds' = seeds
  BY DEF Same
<1>2. /\ DOMAIN seen' = DOMAIN seen \cup near /\ seen' \in [DOMAIN seen' -> Nat]
      /\ queue' \in Seq(Entry)
  BY DEF Popped
<1>3. seen' # Nowhere
  <2>1. DOMAIN seen # {}
    <3>1. ASSUME DOMAIN seen = {} PROVE seen = Nowhere
      BY <3>1 DEF Nowhere, SpreadTypes
    <3>2. QED BY <3>1
  <2>2. DOMAIN Nowhere = {}
    BY DEF Nowhere
  <2>3. QED BY <1>2, <2>1, <2>2
<1>4. SpreadTypes'
  <2>1. DOMAIN seen' \subseteq Vertex
    BY <1>2 DEF SpreadTypes
  <2>2. QED BY <1>1, <1>2, <1>3, <2>1 DEF SpreadTypes
<1>5. PICK at : at = [n \in near |-> seen'[n]]
  OBVIOUS
<1>6. Fires'
  <2>1. ASSUME NEW n \in near
        PROVE  /\ at[n] = seen'[n] /\ at[n] \in Nat /\ at[n] <= reach
               /\ <<n, at[n]>> \in Walks(edge, cap, Head(seeds))[cap]
               /\ n \in DOMAIN seen => at[n] < seen[n]
    <3>1. at[n] = seen'[n]
      BY <1>5
    <3>2. seen'[n] \in Nat /\ seen'[n] <= reach /\ <<n, seen'[n]>> \in Walks(edge, cap, Head(seeds))[cap]
      BY PopReaches
    <3>3. n \in DOMAIN seen => seen'[n] < seen[n]
      BY DEF Popped, Nearer
    <3>4. QED BY <3>1, <3>2, <3>3
  <2>2. at \in [near -> Nat] /\ Fire(at)
    BY <1>5, <2>1 DEF Popped
  <2>3. seeds \in Seq(Vertex) /\ \A n \in DOMAIN seen \ near : seen'[n] = seen[n]
    BY DEF SpreadTypes, Popped
  <2>4. QED BY <1>2, <2>1, <2>2, <2>3, FireKeeps
<1>8. ASSUME NEW i \in DOMAIN queue', NEW y \in Entry, y = queue'[i] PROVE Stands(y)'
  <2>1. \/ i \in 1..rest /\ i + 1 \in DOMAIN queue /\ queue'[i] = queue[i + 1]
        \/ i \notin 1..rest /\ \E j \in 1..more : i = rest + j
    <3>1. \A m \in DOMAIN queue' :
            \/ m \in 1..rest /\ m + 1 \in DOMAIN queue /\ queue'[m] = queue[m + 1]
            \/ m \notin 1..rest /\ \E j \in 1..more : m = rest + j
      BY PopPlaces
    <3>2. QED BY <3>1
  <2>2. y = queue'[i]
    BY <1>8
  <2>3. CASE i \in 1..rest /\ i + 1 \in DOMAIN queue /\ queue'[i] = queue[i + 1]
    <3>1. /\ y.steps <= cap /\ y.dist <= reach /\ y.dist \in Nat
          /\ <<y.node, y.dist>> \in Walks(edge, cap, Head(seeds))[y.steps]
          /\ Near(y.node, y.dist)
      BY <2>2, <2>3 DEF Queued, Stands, Near, Entry
    <3>2. Near(y.node, y.dist)'
      BY <3>1, PopLowers
    <3>3. QED BY <1>1, <2>2, <3>1, <3>2 DEF Stands, Near
  <2>4. CASE i \notin 1..rest /\ \E j \in 1..more : i = rest + j
    <3>1. PICK j \in 1..more : i = rest + j
      BY <2>4
    <3>2. y.node \in near /\ y.dist = seen'[y.node] /\ y.steps = e.steps + 1
      BY <2>2, <3>1 DEF Popped
    <3>3. PICK n \in near : n = y.node
      BY <3>2
    <3>4. /\ e.steps + 1 <= cap /\ seen'[n] <= reach /\ seen'[n] \in Nat
          /\ <<n, seen'[n]>> \in Walks(edge, cap, Head(seeds))[e.steps + 1]
      BY PopReaches
    <3>5. y.node \in DOMAIN seen' /\ seen'[y.node] <= y.dist
      BY <1>2, <3>2, <3>3, <3>4
    <3>6. QED BY <1>1, <2>2, <3>2, <3>3, <3>4, <3>5 DEF Stands
  <2>5. QED BY <2>1, <2>3, <2>4
<1>9. Queued'
  <2>1. ASSUME NEW i \in DOMAIN queue' PROVE Stands(queue[i])'
    <3>1. PICK y \in Entry : y = queue'[i]
      BY <1>2
    <3>2. Stands(y)'
      BY <1>8, <3>1
    <3>3. QED BY <3>1, <3>2 DEF Stands
  <2>2. QED BY <1>1, <2>1 DEF Queued
<1>10. QED BY <1>3, <1>4, <1>6, <1>9

\* A pop keeps the invariant: the level it belongs to, or the next when it is the
\* next one's first.
LEMMA PopKeeps ==
  ASSUME SpreadAssumption, SpreadIInv, Pop
  PROVE  SpreadIInv'
<1>1. SpreadTypes /\ Fires /\ Queued /\ seen # Nowhere /\ seeds # <<>> /\ Same
  BY DEF SpreadIInv, SpreadTypes, Pop, Same
<1>2. PICK e \in Entry, near \in SUBSET Vertex, rest \in Nat, more \in Nat :
        Popped(e, near, rest, more)
  BY <1>1, PopIs
<1>3. SpreadTypes' /\ Fires' /\ Queued' /\ seen' # Nowhere
  BY <1>1, <1>2, PopTypes
<1>4. PICK k : k \in Nat /\ k <= cap /\ k \in 0..cap /\ Level(k)
  BY <1>1 DEF SpreadIInv, SpreadTypes
<1>5. 1 \in DOMAIN queue /\ queue[1] = e /\ cap' = cap /\ cap \in Nat
  <2>1. 1 \in 1..(rest + 1)
    BY <1>2
  <2>2. QED BY <1>1, <1>2, <2>1, PopPlaces DEF Popped, Same, SpreadTypes
<1>6. e.steps \in {k, k + 1} /\ e.steps <= cap /\ e.steps \in Nat
  BY <1>1, <1>2, <1>4, <1>5 DEF Level, Ordered, Queued, Stands, Entry
<1>7. CASE e.steps = k
  <2>1. Level(k)'
    BY <1>1, <1>2, <1>4, <1>7, PopLevel
  <2>2. QED BY <1>3, <1>4, <1>5, <2>1 DEF SpreadIInv
<1>8. CASE e.steps = k + 1
  <2>1. \A i \in DOMAIN queue : queue[i].steps = k + 1
    <3>1. ASSUME NEW i \in DOMAIN queue PROVE queue[i].steps = k + 1
      <4>1. Ordered(k) /\ DOMAIN queue = 1..(rest + 1)
        BY <1>1, <1>2, <1>4, PopPlaces DEF Level
      <4>2. queue[i].steps \in {k, k + 1} /\ (1 < i => k + 1 <= queue[i].steps)
        BY <1>5, <1>8, <4>1 DEF Ordered
      <4>3. i = 1 \/ 1 < i
        BY <1>2, <4>1
      <4>4. QED BY <1>4, <1>5, <1>8, <4>2, <4>3
    <3>2. QED BY <3>1
  <2>2. PICK m \in Nat : m = k + 1
    BY <1>4
  <2>3. k < cap /\ m \in 0..cap
    BY <1>4, <1>5, <1>6, <1>8, <2>2
  <2>4. Level(m)
    <3>1. Level(k + 1)
      BY <1>1, <1>4, <2>1, <2>3, LevelUp
    <3>2. QED BY <2>2, <3>1
  <2>5. Level(m)'
    BY <1>1, <1>2, <1>8, <2>2, <2>3, <2>4, PopLevel
  <2>6. QED BY <1>3, <1>5, <2>3, <2>5 DEF SpreadIInv
<1>9. QED BY <1>6, <1>7, <1>8

\* A seed begins at the level of the walks of no edge.
LEMMA SeedKeeps ==
  ASSUME SpreadAssumption, SpreadIInv, Seed
  PROVE  SpreadIInv'
<1>1. SpreadTypes /\ Fires /\ Queued /\ seeds # <<>> /\ cap \in Nat /\ reach \in Nat
  BY DEF SpreadIInv, SpreadTypes, Seed
<1>2. edge' = edge /\ reach' = reach /\ cap' = cap /\ seeds' = seeds
  BY DEF Seed
<1>3. PICK s \in Vertex : s = Head(seeds)
  BY <1>1, HeadTailProperties DEF SpreadTypes
<1>4. PICK y \in Entry : y = [node |-> s, dist |-> 0, steps |-> 0]
  BY DEF Entry
<1>5. /\ queue' = <<y>> /\ seen' = [n \in {s} |-> 0] /\ Fire([n \in {s} |-> 0])
      /\ y.node = s /\ y.dist = 0 /\ y.steps = 0
  BY <1>3, <1>4 DEF Seed
<1>6. /\ queue' \in Seq(Entry) /\ DOMAIN queue' = {1} /\ queue'[1] = y
      /\ DOMAIN seen' = {s} /\ seen'[s] = 0 /\ seen' # Nowhere
  <2>1. DOMAIN Nowhere = {} /\ DOMAIN seen' = {s}
    BY <1>5 DEF Nowhere
  <2>2. QED BY <1>5, <2>1
<1>7. /\ <<s, 0>> \in Walks(edge, cap, s)[0] /\ <<s, 0>> \in Walks(edge, cap, s)[cap]
      /\ \A v, d : <<v, d>> \in Walks(edge, cap, s)[0] => v = s /\ d = 0
  <2>1. PICK E \in [Link -> Edge \cup {NoEdge}] : E = edge
    BY <1>1 DEF SpreadTypes
  <2>2. PICK m \in Nat : m = cap
    BY <1>1
  <2>3. Walks(E, m, s)[0] = {<<s, 0>>}
    BY WalksGoOn
  <2>4. <<s, 0>> \in Walks(edge, cap, s)[0]
    BY <2>1, <2>2, <2>3
  <2>5. <<s, 0>> \in Walks(edge, cap, s)[cap]
    BY <1>1, <2>4, WalkAllowed
  <2>6. QED BY <2>1, <2>2, <2>3, <2>4, <2>5
<1>8. SpreadTypes'
  BY <1>1, <1>2, <1>5, <1>6 DEF SpreadTypes
<1>9. Fires'
  <2>1. PICK near, at : near = {s} /\ at \in [near -> Nat] /\ at = [n \in {s} |-> 0]
    OBVIOUS
  <2>2. DOMAIN seen = {}
    BY DEF Seed, Nowhere
  <2>3. \A n \in near : /\ at[n] <= reach /\ <<n, at[n]>> \in Walks(edge, cap, Head(seeds))[cap]
                        /\ n \in DOMAIN seen => at[n] < seen[n]
    BY <1>1, <1>3, <1>7, <2>1, <2>2
  <2>4. /\ Same /\ near \in SUBSET Vertex /\ Fire(at) /\ seeds \in Seq(Vertex)
        /\ DOMAIN seen' = DOMAIN seen \cup near /\ \A n \in near : seen'[n] = at[n]
        /\ \A n \in DOMAIN seen \ near : seen'[n] = seen[n]
    BY <1>1, <1>2, <1>5, <1>6, <2>1, <2>2 DEF Same, SpreadTypes
  <2>5. QED BY <1>1, <2>1, <2>3, <2>4, SpreadAssumption, FireKeeps
<1>10. Queued'
  BY <1>1, <1>2, <1>3, <1>5, <1>6, <1>7 DEF Queued, Stands
<1>11. Level(0)'
  <2>1. Ordered(0)'
    BY <1>5, <1>6 DEF Ordered
  <2>2. Followed(0)'
    BY <1>2, <1>3, <1>6, <1>7 DEF Followed, Near
  <2>3. GoesOn(0)'
    <3>1. WaitsAt(s, 0, 0)' /\ Waits(s, 0)'
      BY <1>5, <1>6 DEF WaitsAt, Waits
    <3>2. \A v \in DOMAIN seen' : v = s /\ seen'[v] = 0
      BY <1>6
    <3>3. \A v \in DOMAIN seen' : Waits(v, seen[v])'
      BY <3>1, <3>2 DEF Waits
    <3>4. \A v \in Vertex, d \in Nat : <<v, d>> \in Walks(edge, cap, s)[0] => WaitsAt(v, 0, 0)' /\ 0 <= d
      BY <1>7, <3>1 DEF WaitsAt
    <3>5. QED BY <1>2, <1>3, <3>3, <3>4 DEF GoesOn
  <2>4. QED BY <2>1, <2>2, <2>3 DEF Level
<1>12. 0 \in 0..cap'
  BY <1>1, <1>2
<1>13. QED BY <1>8, <1>9, <1>10, <1>11, <1>12 DEF SpreadIInv

LEMMA DryKeeps ==
  ASSUME SpreadAssumption, SpreadIInv, Dry
  PROVE  SpreadIInv'
<1>1. /\ SpreadTypes /\ Fires /\ Queued /\ seeds # <<>> /\ queue = <<>>
      /\ seen' = Nowhere /\ seeds' = Tail(seeds)
      /\ UNCHANGED <<edge, reach, cap, queue, fired>>
  BY DEF SpreadIInv, Dry
<1>2. seeds' \in Seq(Vertex)
  BY <1>1, HeadTailProperties DEF SpreadTypes
<1>3. DOMAIN Nowhere = {} /\ Nowhere \in [{} -> Nat]
  BY DEF Nowhere
<1>4. SpreadTypes'
  BY <1>1, <1>2, <1>3 DEF SpreadTypes
<1>5. Fires'
  <2>1. PICK k, m, F : m \in Nat /\ m = Len(Seeds) /\ k = Len(seeds) /\ k \in 1..m /\ F = fired
    <3>1. Len(Seeds) \in Nat /\ Len(seeds) \in Nat /\ Len(seeds) # 0
      BY <1>1, SpreadAssumption DEF SpreadTypes
    <3>2. QED BY <1>1, <3>1 DEF Fires
  <2>2. Len(seeds') = k - 1
    BY <1>1, <2>1, HeadTailProperties DEF SpreadTypes
  <2>3. ASSUME NEW j \in 1..(k - 1), NEW v \in Vertex
        PROVE  F[j][v] = <<>> /\ Terms(fired[j][v], v)'
    <3>1. F[j][v] = <<>>
      <4>1. Fires /\ j \in 1..k /\ j # k
        BY <1>1, <2>1
      <4>2. fired[j][v] = <<>>
        BY <2>1, <4>1 DEF Fires
      <4>3. QED BY <2>1, <4>2
    <3>2. fired'[j][v] = <<>>
      <4>1. fired' = fired
        BY <1>1
      <4>2. QED BY <2>1, <3>1, <4>1
    <3>3. DOMAIN seen' = {} /\ DOMAIN <<>> = {}
      BY <1>1, <1>3
    <3>4. QED BY <3>1, <3>2, <3>3 DEF Terms
  <2>4. fired' = F /\ fired \in [1..Len(Seeds) -> [Vertex -> Seq(Nat)]] /\ k - 1 <= Len(Seeds)
    BY <1>1, <2>1 DEF Fires
  <2>5. QED BY <2>1, <2>2, <2>3, <2>4 DEF Fires
<1>6. DOMAIN queue' = {}
  BY <1>1, EmptySeq
<1>7. Queued'
  BY <1>1, <1>3, <1>6 DEF Queued
<1>8. QED BY <1>1, <1>4, <1>5, <1>7 DEF SpreadIInv

-----------------------------------------------------------------------------
\* When a seed has run dry every level has been passed.
LEMMA RunDry ==
  ASSUME SpreadAssumption, SpreadIInv, queue = <<>>, seen # Nowhere
  PROVE  Followed(cap)
<1>1. SpreadTypes /\ seeds # <<>>
  BY DEF SpreadIInv, SpreadTypes
<1>2. DOMAIN queue = {}
  BY EmptySeq
<1>3. PICK k, c : k \in Nat /\ c \in Nat /\ k <= c /\ c = cap /\ Level(k)
  BY <1>1 DEF SpreadIInv, SpreadTypes
<1>4. PICK S : S = {j \in Nat : k + j <= c => Level(k + j)}
  OBVIOUS
<1>5. S = Nat
  <2>1. 0 \in S
    <3>1. PICK m : m = k + 0
      OBVIOUS
    <3>2. Level(m)
      BY <1>3, <3>1
    <3>3. QED BY <1>4, <3>1, <3>2
  <2>2. ASSUME NEW j \in S, k + (j + 1) <= c PROVE Level(k + (j + 1))
    <3>1. PICK m \in Nat : m = k + j /\ m < c /\ k + (j + 1) = m + 1
      BY <1>3, <1>4, <2>2
    <3>2. Level(m)
      BY <1>3, <1>4, <3>1
    <3>3. Level(m + 1)
      BY <1>1, <1>2, <1>3, <3>1, <3>2, LevelUp
    <3>4. QED BY <3>1, <3>3
  <2>3. \A j \in S : j + 1 \in S
    BY <1>4, <2>2
  <2>4. QED BY <1>4, <2>1, <2>3, AllNat
<1>6. PICK j \in Nat : k + j = c
  <2>1. c - k \in Nat /\ k + (c - k) = c
    BY <1>3
  <2>2. QED BY <2>1
<1>7. Level(k + j)
  <2>1. j \in S /\ k + j <= c
    BY <1>3, <1>5, <1>6
  <2>2. QED BY <1>4, <2>1
<1>8. QED BY <1>3, <1>6, <1>7 DEF Level

LEMMA MinIs ==
  ASSUME NEW S \in SUBSET Nat, NEW x \in S, \A y \in S : x <= y
  PROVE  Min(S) = x
<1>1. PICK z : z = Min(S)
  OBVIOUS
<1>2. z \in S /\ \A y \in S : z <= y
  BY <1>1 DEF Min
<1>3. z <= x /\ x <= z /\ z \in Nat /\ x \in Nat
  BY <1>2
<1>4. QED BY <1>1, <1>3

\* The invariant says what a dry seed promises.
LEMMA DryIsNearest ==
  ASSUME SpreadAssumption, SpreadIInv
  PROVE  FiresAtNearest
<1>1. SUFFICES ASSUME queue = <<>>, seen # Nowhere, NEW v \in Vertex, NEW terms, NEW ways,
                      terms = fired[Len(seeds)][v], ways = Distances(Head(seeds), v)
               PROVE  /\ \A i \in DOMAIN terms : terms[i] \in ways
                      /\ \A i, j \in DOMAIN terms : i < j => terms[j] < terms[i]
                      /\ ways # {} => terms # <<>> /\ terms[Len(terms)] = Min(ways)
  BY DEF FiresAtNearest
<1>2. SpreadTypes /\ Fires /\ Queued /\ Followed(cap) /\ seeds # <<>>
  BY <1>1, RunDry DEF SpreadIInv, SpreadTypes
<1>3. PICK s, ds : s = Head(seeds) /\ ds = Distances(s, v) /\ ds = ways
  BY <1>1
<1>4. s \in Vertex
  BY <1>1, <1>2, <1>3, HeadTailProperties DEF SpreadTypes
<1>5. terms \in Seq(Nat) /\ Terms(terms, v)
  <2>1. PICK k : k = Len(seeds) /\ k \in 1..Len(seeds) /\ k \in 1..Len(Seeds)
    <3>1. Len(seeds) \in Nat /\ Len(seeds) # 0 /\ Len(Seeds) \in Nat /\ Len(seeds) <= Len(Seeds)
      BY <1>2, SpreadAssumption DEF SpreadTypes, Fires
    <3>2. QED BY <3>1
  <2>2. terms = fired[k][v]
    BY <1>1, <2>1
  <2>3. QED BY <1>2, <2>1, <2>2 DEF Fires
<1>6. ASSUME NEW d \in ds
      PROVE  d \in Nat /\ v \in DOMAIN seen /\ seen[v] <= d
  <2>1. PICK p : p \in Walks(edge, cap, s)[cap] /\ p[1] = v /\ p[2] <= reach /\ d = p[2]
    BY <1>3, <1>6 DEF Distances
  <2>2. p \in Vertex \X Nat
    <3>1. PICK E \in [Link -> Edge \cup {NoEdge}] : E = edge
      BY <1>2 DEF SpreadTypes
    <3>2. PICK m \in Nat : m = cap
      BY <1>2 DEF SpreadTypes
    <3>3. m \in 0..m
      BY <3>2
    <3>4. Walks(E, m, s)[m] \in SUBSET (Vertex \X Nat)
      BY <1>4, <3>3, WalksGoOn
    <3>5. QED BY <2>1, <3>1, <3>2, <3>4
  <2>3. p = <<v, d>> /\ d \in Nat
    BY <2>1, <2>2
  <2>4. Near(v, d)
    BY <1>2, <1>3, <2>1, <2>3 DEF Followed
  <2>5. QED BY <2>3, <2>4 DEF Near
<1>7. ASSUME NEW i \in DOMAIN terms PROVE terms[i] \in ds
  <2>1. PICK a : a = terms[i] /\ a <= reach /\ <<v, a>> \in Walks(edge, cap, s)[cap]
    BY <1>3, <1>5 DEF Terms
  <2>2. PICK p : p = <<v, a>>
    OBVIOUS
  <2>3. p[1] = v /\ p[2] = a /\ p \in Walks(edge, cap, s)[cap]
    BY <2>1, <2>2
  <2>4. QED BY <1>3, <2>1, <2>3 DEF Distances
<1>8. ASSUME ds # {} PROVE terms # <<>> /\ terms[Len(terms)] = Min(ds)
  <2>1. PICK x \in Nat : x = seen[v] /\ v \in DOMAIN seen
    BY <1>2, <1>6, <1>8 DEF SpreadTypes
  <2>2. terms # <<>> /\ terms[Len(terms)] = x
    BY <1>5, <2>1 DEF Terms
  <2>3. Len(terms) \in DOMAIN terms
    BY <1>5, <2>2
  <2>4. x \in ds
    BY <1>7, <2>2, <2>3
  <2>5. ds \in SUBSET Nat /\ \A y \in ds : x <= y
    BY <1>6, <2>1
  <2>6. QED BY <2>2, <2>4, <2>5, MinIs
<1>9. \A i, j \in DOMAIN terms : i < j => terms[j] < terms[i]
  BY <1>5 DEF Terms
<1>10. QED BY <1>3, <1>7, <1>8, <1>9

\* A field fires at the nodes within the horizon and the hop cap and at none
\* beyond, ever nearer, and last at the true distance from the seed
\* (propagation.spread_graph).
THEOREM NearestFires == SpreadSpec => []FiresAtNearest
<1>1. SpreadInit => SpreadIInv
  <2>1. SUFFICES ASSUME SpreadInit PROVE SpreadIInv
    OBVIOUS
  <2>2. DOMAIN Nowhere = {} /\ Nowhere \in [{} -> Nat]
    BY DEF Nowhere
  <2>3. DOMAIN queue = {} /\ queue \in Seq(Entry)
    BY <2>1, EmptySeq DEF SpreadInit
  <2>4. SpreadTypes
    BY <2>1, <2>2, <2>3, SpreadAssumption DEF SpreadInit, SpreadTypes, Link
  <2>5. Queued /\ seen = Nowhere /\ seeds = Seeds
    BY <2>1, <2>3 DEF SpreadInit, Queued
  <2>6. Fires
    <3>1. PICK m \in Nat : m = Len(Seeds)
      BY SpreadAssumption
    <3>2. fired = [k \in 1..m |-> [n \in Vertex |-> <<>>]]
      BY <2>1, <3>1 DEF SpreadInit
    <3>3. \A k \in 1..m, v \in Vertex : fired[k][v] = <<>>
      BY <3>2
    <3>4. fired \in [1..m -> [Vertex -> Seq(Nat)]]
      BY <3>2
    <3>5. DOMAIN <<>> = {}
      OBVIOUS
    <3>6. \A v \in Vertex : Terms(<<>>, v)
      BY <2>2, <2>5, <3>5 DEF Terms
    <3>7. QED BY <2>5, <3>1, <3>3, <3>4, <3>6 DEF Fires
  <2>7. QED BY <2>4, <2>5, <2>6 DEF SpreadIInv
<1>2. SpreadIInv /\ [SpreadNext]_spreadVars => SpreadIInv'
  <2>1. SUFFICES ASSUME SpreadIInv, [SpreadNext]_spreadVars PROVE SpreadIInv'
    OBVIOUS
  <2>2. CASE Seed
    BY <2>1, <2>2, SeedKeeps, SpreadAssumption
  <2>3. CASE Pop
    BY <2>1, <2>3, PopKeeps, SpreadAssumption
  <2>4. CASE Dry
    BY <2>1, <2>4, DryKeeps, SpreadAssumption
  <2>5. CASE UNCHANGED spreadVars
    <3>1. /\ edge' = edge /\ reach' = reach /\ cap' = cap /\ seeds' = seeds
          /\ seen' = seen /\ queue' = queue /\ fired' = fired
      BY <2>5 DEF spreadVars
    <3>2. SpreadTypes' /\ Fires' /\ Queued'
      BY <2>1, <3>1 DEF SpreadIInv, SpreadTypes, Fires, Terms, Queued, Stands
    <3>3. ASSUME NEW k, Level(k) PROVE Level(k)'
      BY <3>1, <3>3 DEF Level, Ordered, Followed, GoesOn, Near, Relaxed, Waits, WaitsAt
    <3>4. QED BY <2>1, <3>1, <3>2, <3>3 DEF SpreadIInv
  <2>6. QED BY <2>1, <2>2, <2>3, <2>4, <2>5 DEF SpreadNext
<1>3. SpreadIInv => FiresAtNearest
  BY DryIsNearest, SpreadAssumption
<1>4. QED BY <1>1, <1>2, <1>3, PTL DEF SpreadSpec
=============================================================================
