------------------------------- MODULE MCPfr -------------------------------
(* Values for the constants of PfrStateMachine.                            *)
EXTENDS PfrSafety

Img(k, v) == [kind |-> k, svn |-> v]

\* A platform with good images of SVN v, as it is shipped.
Shipped(v) == [i \in Images |-> [active |-> Img(i, v), recovery |-> Img(i, v),
                                 staging |-> Corrupt]]
FullUfm == {"root", "pch", "bmc"}

Req(src, intent) == [ev |-> "UPDATE_REQUESTED", src |-> src, intent |-> intent]
Req2(src, intent) == [ev |-> "UPDATE_INTENT_2_REQUESTED", src |-> src, intent |-> intent]

\* BMC firmware: active, recovery, and active at the next reset.
BmcRecoveryRequest == {Req("BmcUpdateIntent", {"BmcRecovery"})}
BmcNowRequests == BmcRecoveryRequest \cup {Req("BmcUpdateIntent", {"BmcActive"})}
BmcRequests == BmcNowRequests \cup {Req("BmcUpdateIntent", {"BmcActive", "AtReset"})}
BmcStage1  == {<<"BMC", Img("BMC", 1)>>}
BmcStage02 == {<<"BMC", Img("BMC", v)>> : v \in {0, 2}}

\* PCH firmware, asked for by the PCH and by the BMC.
PchNowRequests == {Req("BmcUpdateIntent", {"PchRecovery"}), Req("PchUpdateIntent", {"PchActive"})}
PchRequests == PchNowRequests
    \cup {Req("PchUpdateIntent", {"PchRecovery"}),
          Req("PchUpdateIntent", {"PchActive", "BmcActive"}),
          Req("PchUpdateIntent", {"PchActive", "AtReset"}),
          Req("BmcUpdateIntent", {"PchRecovery", "AtReset"})}
PchOnBmc == {<<"BMC", Img("PCH", 1)>>}
PchCapsules == PchOnBmc \cup {<<"PCH", Img("PCH", 1)>>}
PchStage == PchCapsules \cup {<<"BMC", Img("BMC", 1)>>}

\* The RoT's own firmware.
RotRequests == {Req("BmcUpdateIntent", {"HROTActive"}), Req("BmcUpdateIntent", {"HROTRecovery"}),
                Req("BmcUpdateIntent", {"HROTActive", "AtReset"})}
RotStage == {<<"ROT", Img("ROT", 1)>>, <<"ROT", Img("BMC", 1)>>, <<"ROT", Img("ROT", 2)>>}

\* Seamless updates, and a bit of the second intent register this build ignores.
SeamlessRequests == {Req2("BmcUpdateIntent2", {"Seamless"}),
                     Req2("BmcUpdateIntent2", {"Seamless", "Ack"}),
                     Req2("PchUpdateIntent2", {"Seamless"})}
Intent2Requests == SeamlessRequests \cup {Req2("BmcUpdateIntent2", {"CPLD"})}
SettlingRequests == BmcRequests \cup SeamlessRequests

\* A boot that succeeds, and everything a host can report.
BootCheckpoints == {<<"BmcCheckpoint", "Complete">>, <<"BiosCheckpoint", "Start">>,
                    <<"BiosCheckpoint", "Complete">>}
AllCheckpoints == Sources \X Commands

-----------------------------------------------------------------------------
(* Scenarios.                                                               *)

\* A provisioned platform on which nothing happens but its boot.
Quiet(v) == [flash |-> Shipped(v), ufm |-> FullUfm, requests |-> {}, checkpoints |-> {},
             provisions |-> {}, stageable |-> {},
             req |-> 0, check |-> 0, fault |-> 0, corrupt |-> 0, reset |-> 0, loss |-> 0]

\* BMC updates carried through to the boot that completes them.
BmcScenario == [Quiet(1) EXCEPT !.requests = BmcNowRequests, !.checkpoints = BootCheckpoints,
                !.stageable = BmcStage02, !.req = 3, !.check = 3, !.fault = 1, !.reset = 1,
                !.loss = 1]
\* PCH updates asked for by either host, now and at reset.
PchScenario == [Quiet(0) EXCEPT !.requests = PchRequests, !.stageable = PchStage,
                !.req = 4, !.fault = 1, !.reset = 1]
\* Updates of the RoT's own firmware.
RotScenario == [Quiet(0) EXCEPT !.requests = RotRequests, !.checkpoints = BootCheckpoints,
                !.stageable = RotStage, !.req = 3, !.check = 3, !.fault = 1, !.loss = 1]
\* A platform that is provisioned, locked and erased while its hosts run.
ProvisionScenario == [Quiet(1) EXCEPT !.ufm = {}, !.provisions = UfmCommands, !.req = 5,
                      !.reset = 2]
SeamlessScenario == [Quiet(0) EXCEPT !.requests = Intent2Requests, !.stageable = PchCapsules,
                     !.req = 4, !.fault = 1, !.corrupt = 1, !.reset = 1, !.loss = 1]
\* Images that go bad while the hosts run, boot failures, failing recoveries.
RecoveryScenario == [Quiet(0) EXCEPT !.checkpoints = AllCheckpoints, !.stageable = PchStage,
                     !.req = 1, !.check = 1, !.fault = 1, !.corrupt = 2, !.reset = 1, !.loss = 1]
\* A PCH held for want of firmware, repaired during a reset of the BMC alone,
\* whose image a failing seamless update then destroys while it is still held.
HeldScenario == [Quiet(0) EXCEPT !.flash["PCH"] = [s \in Slots |-> Corrupt],
                 !.requests = {Req2("BmcUpdateIntent2", {"Seamless"})}, !.stageable = PchOnBmc,
                 !.req = 2, !.fault = 1, !.corrupt = 1, !.reset = 1]
SettlingScenario == [Quiet(0) EXCEPT !.requests = SettlingRequests, !.stageable = BmcStage1,
                     !.req = 2, !.fault = 1, !.corrupt = 1, !.reset = 1, !.loss = 1]

BmcUpdates  == [bmc |-> BmcScenario]
Platform    == [pch |-> PchScenario, rot |-> RotScenario, seamless |-> SeamlessScenario,
                provision |-> ProvisionScenario, recovery |-> RecoveryScenario,
                held |-> HeldScenario]
Settling    == [settling |-> SettlingScenario]

\* The smallest surroundings of each disagreement.
PchWriteFails == [pch |-> [Quiet(0) EXCEPT !.requests = PchNowRequests, !.req = 1, !.fault = 1,
                           !.corrupt = 1]]
PchDuringBmcReset == [pch |-> [Quiet(0) EXCEPT !.requests = PchNowRequests, !.req = 1,
                               !.reset = 1]]
=============================================================================
