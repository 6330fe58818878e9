------------------------------- MODULE MCSpdm --------------------------------
(***************************************************************************)
(* Model checking SpdmAttestation: the devices, the AFMs and the bounds.   *)
(***************************************************************************)
EXTENDS SpdmSafety

CONSTANTS rot, cpu              \* the platform's root of trust, and a device

MCNodes == {rot, cpu}
MCSlots == {0, 1}

\* Chains 1, 2: the two of key 1 (the CPU's); 3: the root of trust's; 4: made
\* up, up to no root.
MCChainOwner == <<1, 1, 2, 4>>
MCRootedChain == {1, 2, 3}

AllCaps == {"CERT", "MEAS_SIG", "MUT_AUTH"}
Device(versions, caps, key, slots, served, meas, base) ==
  [versions |-> versions, algorithms |-> <<384>>, caps |-> caps, key |-> key,
   slots |-> slots, served |-> served, meas |-> meas, base |-> base, afm |-> <<>>]
Two(a, b) == [s \in {0, 1} |-> IF s = 0 THEN a ELSE b]

Rot == Device(<<11, 12>>, AllCaps, 2, Two(3, 0), Two(3, 0), <<7, 8>>, 10)
Cpu(versions, caps, slots, served, meas) == Device(versions, caps, 1, slots, served, meas, 20)

Genuine     == Cpu(<<11, 12>>, AllCaps, Two(1, 0), Two(1, 0), <<5, 7, 8>>)
Mutual      == Cpu(<<12>>, AllCaps, Two(1, 2), Two(1, 2), <<7, 8>>)
NoCerts     == Cpu(<<11>>, {}, Two(0, 0), Two(0, 0), <<>>)
Unsigned10  == Cpu(<<10>>, {"CERT"}, Two(1, 0), Two(1, 0), <<9, 9>>)
\* A chain to no root; a chain that is not the one of the digest; a genuine
\* chain without its key; other firmware; too few measurements; three versions.
Counterfeit == Cpu(<<12>>, AllCaps, Two(4, 0), Two(4, 0), <<7, 8>>)
Swapped     == Cpu(<<12>>, AllCaps, Two(4, 0), Two(1, 0), <<7, 8>>)
Stolen      == Device(<<12>>, AllCaps, 4, Two(1, 0), Two(1, 0), <<7, 8>>, 20)
Modified    == Cpu(<<11>>, AllCaps, Two(1, 0), Two(1, 0), <<7, 9>>)
Fewer       == Cpu(<<12>>, AllCaps, Two(1, 0), Two(1, 0), <<7>>)
Three       == Cpu(<<10, 11, 12>>, AllCaps, Two(1, 0), Two(1, 0), <<7, 8>>)
SecondSlot  == Cpu(<<12>>, AllCaps, Two(4, 1), Two(4, 1), <<7, 8>>)

AnyCpu == {Genuine, Mutual, NoCerts, Unsigned10, Counterfeit, Swapped, Stolen, Modified,
           Fewer, Three, SecondSlot}

Expected(peer, index, i3c) ==
  [index |-> index, peer |-> peer, expect |-> <<{7}, {8, 18}>>, i3c |-> i3c, policy |-> {0, 1, 2}]

Budget(loss, stop, change, reboot) ==
  [loss |-> loss, stop |-> stop, change |-> change, reboot |-> reboot, foreign |-> 0]
Foreign(count) == [Budget(0, 0, 0, 0) EXCEPT !.foreign = count]
Scenario(cpus, i3c, budgets) ==
  {[dev |-> [n \in MCNodes |-> IF n = rot THEN [Rot EXCEPT !.afm = <<Expected(cpu, 1, i3c)>>]
                               ELSE d],
    budget |-> b] : d \in cpus, b \in budgets}

\* Every kind of device undisturbed; devices that attest under losses, stops,
\* reboots, changed firmware and a foreign requester; a 1.1 device without
\* sessions.
Old11 == Cpu(<<11>>, AllCaps, Two(1, 0), Two(1, 0), <<7, 8>>)
MCScenarios ==
  Scenario(AnyCpu, TRUE, {Budget(0, 0, 0, 0)})
  \cup Scenario({Mutual}, TRUE, {Budget(1, 0, 0, 0)})
  \cup Scenario({Genuine}, TRUE, {Budget(1, 1, 0, 0), Budget(1, 0, 1, 0), Budget(1, 0, 0, 1),
                                 Foreign(2)})
  \cup Scenario({Old11}, FALSE, {Budget(1, 1, 1, 1)})

\* For the liveness properties: one disturbance at a time.
MCOneFault ==
  Scenario({Genuine}, TRUE, {Budget(1, 0, 0, 0), Budget(0, 1, 0, 0), Budget(0, 0, 1, 0),
                             Budget(0, 0, 0, 1)})
  \cup Scenario({Modified}, FALSE, {Budget(1, 0, 0, 0)})

ASSUME InstanceIsRegular == OneWay /\ FreshSecrets /\ OwnIndices
=============================================================================
