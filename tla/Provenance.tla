------------------------------- MODULE Provenance -------------------------------
(***************************************************************************)
(* Provenance: the channel by which an artifact was obtained, as a server   *)
(* stamps it for the principal that writes and as an extraction earns it.   *)
(* (mass.py, extraction.py)                                                 *)
(*                                                                          *)
(* The context of one artifact is its channel and the trail of its earlier  *)
(* channels.  A client may send any context back, also one it has read.     *)
(***************************************************************************)
EXTENDS Integers, Sequences, FiniteSets

CONSTANTS NoChannel,    \* no provenance in the context
          Misspelt,     \* one that Provenance does not know
          MaxWrites     \* bound: writes

VARIABLES context,      \* the stored context
          by,           \* history: who wrote it last, and on what evidence
          past,         \* history: the channels since the last server write
          writes

provenanceVars == <<context, by, past, writes>>

Channel == {"human_validated", "observed", "span_cited", "ontology_proposal",
            "hypothesis", "unknown", "assertion"}
Referent == {"human_validated", "observed", "span_cited"}
Claim == Channel \cup {NoChannel, Misspelt}

ASSUME ProvenanceAssumption == MaxWrites \in Nat /\ NoChannel \notin Channel

\* The grants, one per kind of principal.
Ungrounded == {"hypothesis", "unknown", "assertion"}
Grants == [human  |-> Referent \cup Ungrounded,
           system |-> {"observed", "span_cited", "ontology_proposal"} \cup Ungrounded,
           client |-> Ungrounded]

Authenticated == [type : {"user", "service", "api_key"}, delegated : BOOLEAN]
\* The panel behind an extraction: models, those agreeing, their families.
Panel == [models : 0..2, agreeing : 0..2, families : 1..2, span : BOOLEAN, reviewed : BOOLEAN]

NoOneYet == [kind |-> "nobody"]

ProvenanceInit ==
  /\ context = [provenance |-> NoChannel, history |-> <<>>]
  /\ by = NoOneYet /\ past = <<>> /\ writes = 0

\* Mutant: a user id makes a person.
MutKindByType(p) == [user |-> "human", service |-> "system", api_key |-> "client"][p.type]

\* principal_kind_of: acting for a person is not the person acting.
KindOf(p) ==
  IF p.delegated THEN "system"
  ELSE [user |-> "human", service |-> "system", api_key |-> "client"][p.type]

\* derive_provenance: the channel a claim earns.
Derive(claimed, kind, span) ==
  LET want == IF claimed \in Channel THEN claimed ELSE "unknown" IN
  IF want \in Grants[kind] /\ (want = "span_cited" => span) THEN want ELSE "assertion"

\* stamp: a changed channel leaves its prior in the trail, whatever it spelt.
Stamp(ctx, channel) ==
  [provenance |-> channel,
   history |-> IF ctx.provenance \in {NoChannel, channel} THEN ctx.history
               ELSE Append(ctx.history, ctx.provenance)]

\* authorize_and_stamp: the claim is advice, the trail the client sends is not
\* taken at all.
Write(p, claimed, span) ==
  /\ context' = Stamp([provenance |-> claimed, history |-> <<>>],
                      Derive(claimed, KindOf(p), span))
  /\ by' = [kind |-> "server", principal |-> p, span |-> span]
  /\ past' = <<claimed, context'.provenance>>

\* rung_for_extraction, and the stamp it is written with.
Majority(e) == 2 * e.agreeing > e.models
Rung(e) ==
  IF e.reviewed THEN "human_validated"
  ELSE IF e.span THEN "span_cited"
  ELSE IF e.models >= 2 /\ Majority(e) /\ e.families >= 2 THEN "hypothesis"
  ELSE "assertion"
Extract(e) ==
  /\ context' = Stamp(context, Rung(e))
  /\ by' = [kind |-> "extraction", panel |-> e]
  /\ past' = Append(past, context'.provenance)

ProvenanceNext ==
  /\ writes < MaxWrites /\ writes' = writes + 1
  /\ \/ \E p \in Authenticated, claimed \in Claim, span \in BOOLEAN : Write(p, claimed, span)
     \/ \E e \in {e \in Panel : e.agreeing <= e.models} : Extract(e)

\* provenance_of and has_referent, of what is stored.
ProvenanceOf == IF context.provenance \in Channel THEN context.provenance ELSE "unknown"
HasReferent == ProvenanceOf \in Referent

(***************************************************************************)
(* Property.                                                                *)
(***************************************************************************)
Person == \/ by.kind = "server" /\ by.principal = [type |-> "user", delegated |-> FALSE]
          \/ by.kind = "extraction" /\ by.panel.reviewed
Span == \/ by.kind = "server" /\ by.span /\ (by.principal.type # "api_key" \/ by.principal.delegated)
        \/ by.kind = "extraction" /\ by.panel.span
Trusted == by.kind = "server" /\ (by.principal.type # "api_key" \/ by.principal.delegated)

\* The steps of `past` that changed the channel, and which of them step i is.
Changed == {i \in 1..Len(past) - 1 : past[i] \notin {NoChannel, past[i + 1]}}
Nth(i) == Cardinality({j \in Changed : j <= i})

\* A channel with a referent was earned by the very write that set it, by the
\* one entitled to it: a grounded context that a client sends back, or one that
\* a persona writes for a person, does not stay grounded; and the trail is the
\* channels given up since the server last wrote, each once and in that order
\* (mass.py 161-276, 279-359).
GroundedIsEarned ==
  /\ HasReferent => CASE ProvenanceOf = "human_validated" -> Person
                      [] ProvenanceOf = "span_cited" -> Span
                      [] OTHER -> Trusted
  /\ Len(context.history) = Cardinality(Changed)
  /\ \A i \in Changed : context.history[Nth(i)] = past[i]
=============================================================================
