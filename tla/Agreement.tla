------------------------------- MODULE Agreement -------------------------------
(***************************************************************************)
(* The attestation ledger: who holds which bytes of an item, whom they had  *)
(* them from, and what the independent origins agree on.  (attestation.py)  *)
(***************************************************************************)
EXTENDS Integers, FiniteSets

CONSTANTS Item, Hash, Authority,
          NoOrigin,      \* the empty origin: held, but not attributed
          Self,         \* SELF_ORIGIN, as a manifest spells it
          MaxRows       \* bound: attestations

ASSUME AgreementAssumption == MaxRows \in Nat /\ Self \notin Authority /\ NoOrigin \notin Authority

VARIABLE rows   \* the ledger: a set of attestations

AgreementInit == rows = {}

\* observe, for one row of one authority's manifest; recording it again is
\* the same observation.
Observe(authority, item, hash, origin) ==
  LET row == [item |-> item, hash |-> hash, authority |-> authority,
              origin |-> IF origin = Self THEN authority ELSE origin] IN
  /\ rows' = rows \cup {row} /\ Cardinality(rows') <= MaxRows

AgreementNext ==
  \E authority \in Authority, item \in Item, hash \in Hash,
     origin \in Authority \cup {Self, NoOrigin} : Observe(authority, item, hash, origin)

(***************************************************************************)
(* What the ledger reads about one item.                                    *)
(***************************************************************************)
Rows(item) == {r \in rows : r.item = item}
Attributed(r) == r.origin # NoOrigin

\* Mutant: who holds the bytes counts, not whom they were had from.
MutByHolder(item, hash) ==
  {r.authority : r \in {q \in Rows(item) : q.hash = hash /\ Attributed(q)}}

ByHash(item, hash) == {r.origin : r \in {q \in Rows(item) : q.hash = hash /\ Attributed(q)}}

\* A strict plurality of origins: {} when nothing is attributed or they tie.
Agreed(item) ==
  {h \in Hash : /\ ByHash(item, h) # {}
                /\ \A k \in Hash \ {h} :
                     Cardinality(ByHash(item, h)) > Cardinality(ByHash(item, k))}

Agreeing(item) == {Cardinality(ByHash(item, h)) : h \in Agreed(item)}

(***************************************************************************)
(* Property.                                                                *)
(***************************************************************************)
\* Only a new witness moves the agreement: a replica of an origin already
\* counted for those bytes, an authority that cannot say whence, or the same
\* row again changes neither the agreed hash nor how many agree, also when it
\* breaks no tie; and no read is ever two (attestation.py 113-145, 192-212).
EchoesAddNothing ==
  [][\A item \in Item :
       /\ (\A h \in Hash : ByHash(item, h)' = ByHash(item, h)) =>
            Agreed(item)' = Agreed(item) /\ Agreeing(item)' = Agreeing(item)
       /\ (\A r \in Rows(item)' \ Rows(item) :
             ~Attributed(r) \/ \E q \in Rows(item) : q.hash = r.hash /\ q.origin = r.origin)
            => Agreed(item)' = Agreed(item) /\ Agreeing(item)' = Agreeing(item)
       /\ Cardinality(Agreed(item)') <= 1]_rows
=============================================================================
