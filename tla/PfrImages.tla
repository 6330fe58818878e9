----------------------------- MODULE PfrImages -----------------------------
(***************************************************************************)
(* The firmware images a PFR root of trust protects, and the pure decisions *)
(* it takes about them: which image authenticates, which security version   *)
(* (SVN) the anti-rollback policy accepts, what the recovery matrix does.   *)
(*                                                                          *)
(* A flash region is abstracted to what authentication tells apart: the     *)
(* kind of signed capsule (or firmware unpacked from it) it holds, "NONE"   *)
(* when nothing in it authenticates, and that image's SVN.                  *)
(***************************************************************************)
EXTENDS Naturals

CONSTANT SvnMax          \* SVN_MAX, the largest SVN the UFM can record

ASSUME SvnMaxAssumption == SvnMax \in Nat

Hosts  == {"BMC", "PCH"}            \* firmware behind the RoT's SPI muxes
Images == Hosts \cup {"ROT"}        \* the RoT updates its own firmware too
Slots  == {"active", "recovery", "staging"}

\* The SVN field of a capsule is a byte: every value above SvnMax is treated
\* alike, so one such value stands for all of them.
Svns    == 0 .. SvnMax + 1
Content == [kind : Images \cup {"NONE"}, svn : Svns]
Corrupt == [kind |-> "NONE", svn |-> 0]
Flash   == [Images -> [Slots -> Content]]

-----------------------------------------------------------------------------
(* Authentication (intel_pfr_authentication.c, intel_pfr_update.c).         *)

\* pfr_active_verify: the PFM at the host's own offset is signed and every
\* SPI region hash matches it.
ActiveVerify(h, c) == c.kind = h

\* A capsule signature and the signature of the PFM inside it.
CapsuleVerify(c) == c.kind \in Hosts

\* pfr_recovery_verify: the two signatures; a newer SVN than the policy's is
\* recorded at once, and an SVN the UFM cannot hold fails the verification.
RecoveryVerify(c, floor) ==
    CapsuleVerify(c) /\ (c.svn > floor => c.svn <= SvnMax)

\* Mutant: the SVN of a verified recovery image is not recorded.
RaisedFloor_Kept(c, floor) == floor

RaisedFloor(c, floor) ==
    IF RecoveryVerify(c, floor) /\ c.svn > floor THEN c.svn ELSE floor

\* pfr_staging_verify: validate_pc_type runs except while recovering.
StagingVerify(h, c, recovering) ==
    CapsuleVerify(c) /\ (recovering \/ c.kind = h)

\* svn_policy_verify
SvnPolicyVerify(floor, svn) == floor <= svn /\ svn <= SvnMax

\* pfr_staging_pch_staging: what the BMC staged for the PCH must be a signed
\* PCH capsule (pc_type), or nothing is copied.
BmcStagedForPch(c) == c.kind = "PCH"

\* decompress_capsule: a capsule unpacked over a host it was not built for
\* leaves no firmware that authenticates.
Unpacked(h, c) == IF c.kind = h THEN c ELSE Corrupt

-----------------------------------------------------------------------------
(* recover_image: the recovery matrix.  a = what the last verification said *)
(* of the active and recovery regions, act, rcv, stg, bstg = what the RoT   *)
(* reads from this host's regions and from the BMC's staging region.  The   *)
(* plan names the region to rewrite ("" = none) and its new content.        *)

Plan(do, slot, with) == [do |-> do, slot |-> slot, with |-> with]

\* Mutant: a usable staged capsule is preferred to a good recovery image.
RecoverImage_StagingFirst(h, a, act, rcv, stg, bstg) ==
    IF StagingVerify(h, stg, TRUE) /\ ~a.active THEN Plan("write", "recovery", stg)
    ELSE IF ~a.active THEN Plan("write", "active", Unpacked(h, rcv))
         ELSE Plan("restrict", "", Corrupt)

RecoverImage(h, a, act, rcv, stg, bstg) ==
    LET usable == StagingVerify(h, stg, TRUE)
        fetch  == ~usable /\ ~a.active /\ h = "PCH" /\ BmcStagedForPch(bstg)
    IN  CASE a.recovery /\ a.active          -> Plan("none", "", Corrupt)
          [] a.recovery /\ ~a.active         ->
                 IF CapsuleVerify(rcv) THEN Plan("write", "active", Unpacked(h, rcv))
                                       ELSE Plan("fail", "", Corrupt)
          [] ~a.recovery /\ a.active         ->
                 IF usable /\ stg = act THEN Plan("write", "recovery", stg)
                                        ELSE Plan("restrict", "", Corrupt)
          [] ~a.recovery /\ ~a.active /\ usable -> Plan("write", "recovery", stg)
          [] ~a.recovery /\ ~a.active /\ fetch  -> Plan("fetch", "staging", bstg)
          [] OTHER                              -> Plan("fail", "", Corrupt)

-----------------------------------------------------------------------------
(* update_firmware_image for a host capsule, once it is in that host's      *)
(* staging region: c = the staged capsule, sel = the region the caller      *)
(* selected, ao = the active object the caller passed, act = what is active.*)
(* "log" = LogUpdateFailure(.., 1) is called.                               *)

Verdict(ok, log, pass) == [ok |-> ok, log |-> log, pass |-> pass]

UpdateHost(h, c, sel, restrict, act, floor) ==
    CASE ~StagingVerify(h, c, FALSE)          -> Verdict(FALSE, TRUE, FALSE)
      [] ~SvnPolicyVerify(floor, c.svn)       -> Verdict(FALSE, TRUE, FALSE)
      [] sel = "active" /\ restrict           -> Verdict(FALSE, FALSE, TRUE)
      [] sel = "recovery" /\ restrict /\ c # act -> Verdict(FALSE, FALSE, TRUE)
      [] OTHER                                -> Verdict(TRUE, FALSE, TRUE)

\* ast1060_update: the RoT's own capsule, staged in the BMC's flash.  A
\* capsule of another kind is authenticated and then ignored ("pass" FALSE).
UpdateRot(c, floor) ==
    CASE c.kind = "NONE"                -> Verdict(FALSE, TRUE, FALSE)
      [] c.kind \in Hosts               -> Verdict(TRUE, FALSE, FALSE)
      [] ~SvnPolicyVerify(floor, c.svn) -> Verdict(FALSE, TRUE, FALSE)
      [] OTHER                          -> Verdict(TRUE, FALSE, TRUE)
=============================================================================
