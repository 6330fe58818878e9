------------------------------ MODULE MCCerberus ------------------------------
(***************************************************************************)
(* Instances: two generations of host firmware, each signed by a key of its *)
(* own manifest, and every management capsule.                              *)
(***************************************************************************)
EXTENDS CerberusSafety

MCSlots     == 3
MCManifests == [M1 |-> [hash |-> "SHA256", keys |-> <<"K1", "K2">>],
                M2 |-> [hash |-> "SHA256", keys |-> <<"K3">>]]

NoCert == [hash |-> "SHA256", policy |-> "PCH", list |-> <<>>]
Capsule(format, signer) ==
  [format |-> format, signer |-> signer, svn |-> 0, version |-> 0, regions |-> {}, rw |-> <<>>,
   secs |-> <<>>, cert |-> NoCert, manifest |-> "M1"]
Image(key, id, svn, rw, secs) ==
  [Capsule("PCH", key) EXCEPT !.svn = svn, !.version = svn, !.secs = secs,
     !.regions = {[sec |-> "code", key |-> key, id |-> id, must |-> TRUE]}, !.rw = rw]
Certificate(policy, list) ==
  [Capsule("KCC", "root") EXCEPT !.cert = [hash |-> "SHA256", policy |-> policy, list |-> list]]

MCCapsules ==
  [V1   |-> Image("K1", 0, 1, <<[sec |-> "data", mode |-> "RESTORE"]>>, <<"pfm", "code", "data">>),
   V2   |-> Image("K3", 0, 2, <<[sec |-> "data", mode |-> "ERASE"]>>, <<"code", "data", "pfm">>),
   C1   |-> Certificate("PCH", << <<0, "K1">> >>),
   CR   |-> Certificate("ROT", << <<1, "K2">> >>),
   KM1  |-> [Capsule("KEYM", "root") EXCEPT !.manifest = "M1"],
   KM2  |-> [Capsule("KEYM", "root") EXCEPT !.manifest = "M2"],
   DCC  |-> Capsule("DCC", "root"),
   PROV |-> Capsule("PROV", "none"),
   ROT  |-> [Capsule("HROT", "K2") EXCEPT !.svn = 1]]

At(c) == [active |-> [s \in Secs |-> c], recovery |-> c, staging |-> "none", bmcStaging |-> "none",
          rotStaging |-> "none", rotActive |-> "old", rotRecovery |-> "old"]
Keym(m0, m1) == [s \in 0..MCSlots - 1 |-> CASE s = 0 -> m0 [] s = 1 -> m1 [] OTHER -> "blank"]
Ufm(svn) == [parts |-> AllParts, cancelled |-> {}, svn |-> [PCH |-> svn, ROT |-> 0]]
Budget(offers, requests, cuts, fails, tampers, resets) ==
  [offers |-> offers, requests |-> requests, cuts |-> cuts, fails |-> fails, tampers |-> tampers,
   resets |-> resets]

\* Keys are appended and cancelled; images are updated, torn and recovered; a
\* platform is decommissioned and provisioned again.
MCScenarios ==
  {[keym |-> Keym("M1", "blank"), ufm |-> Ufm(1), flash |-> At("V1"),
    budget |-> Budget({"V1", "V2", "C1", "KM2"}, 4, 1, 0, 0, 0)],
   [keym |-> Keym("M1", "blank"), ufm |-> Ufm(1), flash |-> At("V1"),
    budget |-> Budget({"V1", "C1", "KM1", "KM2"}, 3, 1, 0, 0, 0)],
   [keym |-> Keym("M1", "M2"), ufm |-> Ufm(1), flash |-> At("V1"),
    budget |-> Budget({"V1", "V2"}, 2, 1, 1, 1, 1)],
   [keym |-> Keym("M1", "blank"), ufm |-> Ufm(0), flash |-> At("V1"),
    budget |-> Budget({"CR", "ROT", "DCC", "PROV"}, 3, 1, 1, 0, 1)]}

\* The instance meets the hypotheses of the theorems about it.
ASSUME InstanceIsRegular == KeysHaveOnePlace /\ FreshPlatforms /\ ImagesComplete
=============================================================================
