-------------------------------- MODULE MCLocal --------------------------------
(***************************************************************************)
(* The parts that share nothing, each on a small instance, one per           *)
(* behaviour: `part` names the one that runs, the others stay as they were.  *)
(***************************************************************************)
EXTENDS Runner, InstrumentSlot, Install, Fabric, Demurrage, Agreement, PathLedger, Minting,
        Provenance, Spread, HLC, TLC

VARIABLE part

Parts == {"runner", "slot", "install", "fabric", "demurrage", "agreement", "path", "minting",
          "provenance", "spread", "clock"}

\* Those with more than one initial state start in one of them when idle.
LocalInit ==
  /\ part \in Parts
  /\ RunnerInit /\ SlotInit /\ InstallInit /\ FabricInit /\ DemurrageInit
  /\ AgreementInit /\ PathInit /\ MintInit /\ ProvenanceInit /\ SpreadInit /\ ClockInit
  /\ part # "runner" => gate
  /\ part # "path" => e0 = 0
  /\ part # "minting" => cost = 0
  /\ part # "spread" => reach = 3 /\ cap = 1 /\ edge = [p \in DOMAIN edge |-> NoEdge]

Runs(p, vars) == part # p => UNCHANGED vars

LocalNext ==
  /\ UNCHANGED part
  /\ \/ part = "runner" /\ RunnerNext
     \/ part = "slot" /\ SlotNext
     \/ part = "install" /\ InstallNext
     \/ part = "fabric" /\ FabricNext
     \/ part = "demurrage" /\ DemurrageNext
     \/ part = "agreement" /\ AgreementNext
     \/ part = "path" /\ PathNext
     \/ part = "minting" /\ MintNext
     \/ part = "provenance" /\ ProvenanceNext
     \/ part = "spread" /\ SpreadNext
     \/ part = "clock" /\ ClockNext
  /\ Runs("runner", runnerVars) /\ Runs("slot", slotVars) /\ Runs("install", installVars)
  /\ Runs("fabric", fabricVars) /\ Runs("demurrage", demurrageVars) /\ Runs("agreement", rows)
  /\ Runs("path", pathVars) /\ Runs("minting", mintVars)
  /\ Runs("provenance", provenanceVars) /\ Runs("spread", spreadVars)
  /\ Runs("clock", clockVars)

localVars == <<part, runnerVars, slotVars, installVars, fabricVars, demurrageVars, rows,
               pathVars, mintVars, provenanceVars, spreadVars, clockVars>>

LocalSpec == LocalInit /\ [][LocalNext]_localVars

\* Bundles: "a" in three bodies, the first importing "b"; signed by an author
\* attested and grounded, by one who is not, by nobody, and damaged.
Signed(g, b, signer) ==
  [group |-> g, body |-> b, sha |-> <<g, b>>, signedBy |-> signer,
   sig |-> IF signer = Nothing THEN Nothing ELSE <<signer, <<g, b>>>>]
Doc(author, p) == [author |-> author, payload |-> p]
MCUses == ("a1" :> {"b"}) @@ ("a2" :> {}) @@ ("a3" :> {}) @@ ("b1" :> {"a"})
MCNeeds == ("a1" :> {}) @@ ("a2" :> {}) @@ ("a3" :> {}) @@ ("b1" :> {"io"})
\* The hashes of the bodies "a1" and "a3" begin alike.
MCShort(sha) == IF sha = <<"a", "a3">> THEN <<"a", "a1">> ELSE sha
MCStoreDoc ==
  {Doc("ann", Signed("a", "a1", "k1")), Doc("ann", Signed("a", "a2", Nothing)),
   Doc("ann", Signed("a", "a3", "k1")),
   Doc("eve", Signed("a", "a2", "k2")), Doc("nobody", Signed("a", "a2", "k1")),
   Doc("ann", [Signed("a", "a2", "k1") EXCEPT !.sha = <<"a", "a1">>])}
MCFile == {Signed("b", "b1", Nothing)}
MCShipped == ("a" :> Signed("a", "a1", Nothing)) @@ ("b" :> Nothing)
MCArtifact == ("ann" :> [key |-> "k1", grounded |-> TRUE, channel |-> "c"])
           @@ ("eve" :> [key |-> "k2", grounded |-> FALSE, channel |-> "c"])

\* Factories that make a whole instrument, nothing, or a reader, each free to
\* reach the other contract while it runs.
MCMakes == ("lazyFull" :> "full") @@ ("lazyNone" :> Empty) @@ ("lazyReader" :> "reader")
MCReaches == ("lazyFull" :> {"read"}) @@ ("lazyNone" :> {}) @@ ("lazyReader" :> {"embodiment"})
MCFills == ("full" :> {"absorb", "couple"}) @@ ("reader" :> {"scales", "absorb"})
MCMember == ("embodiment" :> {"absorb", "couple"}) @@ ("read" :> {"scales"})

\* Crystals that require one capability each, and one that does not verify.
MCRequires == ("x1" :> {"fs"}) @@ ("x2" :> {"gpu"}) @@ ("bad" :> {})
MCDefinition ==
  {[kind |-> "artifact", crystals |-> << <<"c", "x1">>, <<"d", "x1">> >>, body |-> "p"],
   [kind |-> "pip", crystals |-> <<>>, body |-> "p"],
   [kind |-> "artifact", crystals |-> << <<"c", "x2">> >>, body |-> "q"]}
MCFamily == [c \in Capability |-> "device"]

\* Two receivers of one person, in a group within a group.
MCNested == ("all" :> {"team"}) @@ ("team" :> {})
MCPrincipal == [r \in Receiver |-> "ann"]

\* Halvings: two in a frame at the faster clock, one at the slower.
MCCooling == [tau \in {1, 2} |-> [dt \in 0..3 |-> 2^(dt * (2 \div tau))]]

MCAmounts == {-1, 0, 1, 2}
MCSeeds == <<1, 2>>

\* Two threads tick one node's clock.
MCHome == ("t1" :> "ana") @@ ("t2" :> "ana")
=============================================================================
