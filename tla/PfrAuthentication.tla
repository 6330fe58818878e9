--------------------------- MODULE PfrAuthentication ---------------------------
(***************************************************************************)
(* The handlers that authenticate, install and cancel: authentication_image,*)
(* update_firmware_image, perform_seamless_update, recover_image and what   *)
(* they call, each of them one step, on one struct pfr_manifest.  Two of    *)
(* its fields outlive a handler and are read by the next one before they    *)
(* are written: hash_curve and address.                                     *)
(*                                                                         *)
(* Hosts may put any image of Images into their staging regions, and lose   *)
(* a region, while they run; a host whose firmware is being verified or     *)
(* recovered is in reset.                                                   *)
(***************************************************************************)
EXTENDS PfrSignature

CONSTANTS Images,      \* <<host, region>> -> the images staged there
          Factory,     \* host -> region -> the image it holds at first
          Provisioned, \* the UFM: root key, cleared policy bits, SVN floors
          LeftBehind,  \* what a region that was lost may hold
          SvnMax,      \* SVN_MAX
          MaxStaged, MaxLost  \* bounds on what the hosts do

ASSUME ImagesAssumption ==
  /\ DOMAIN Images \subseteq Hosts \X {"staging", "rot"}
  /\ \A where \in DOMAIN Images : \A image \in Images[where] : WellMade(image) /\ Composed(image)
  /\ \A image \in LeftBehind : WellMade(image)
  /\ DOMAIN Factory = Hosts
  /\ \A h \in Hosts :
       /\ DOMAIN Factory[h] = Regions /\ Composed(Factory[h]["staging"])
       /\ \A region \in Regions : WellMade(Factory[h][region])

\* No key has been cancelled yet.
ASSUME UfmAssumption == DOMAIN Provisioned = {"root", "cleared", "svn"} /\ Provisioned.cleared = {}

VARIABLES flash,     \* host -> region -> image
          ufm,       \* [root, cleared, svn] ; root "none" = unprovisioned
          manifest,  \* [curve, addr]: hash_curve and address of pfr_manifest
          ao,        \* host -> [active, recovery, restrict]: AO_DATA
          phase,     \* "RUN", "CHECK" (do_verify), "RECOVER", "LOCKDOWN"
          step,      \* the region of Order a CHECK or a RECOVER is at
          recovered, \* recovery_done, or that RECOVERY_DONE led to the CHECK
          cancelled, \* history: <<policy, key id>> that certificates cancelled
          staged, lost
vars == <<flash, ufm, manifest, ao, phase, step, recovered, cancelled, staged, lost>>
flow == <<phase, step, recovered>>

NoAddress == Address("none", "none", 0)
Powered   == [curve |-> Unset, addr |-> NoAddress]

\* Both the verification and the recovery of a platform take the regions in
\* this order.
Order == <<<<"BMC", "recovery">>, <<"BMC", "active">>, <<"PCH", "recovery">>, <<"PCH", "active">>>>

Init ==
  /\ flash = Factory /\ ufm = Provisioned /\ manifest = Powered
  /\ ao = [h \in Hosts |-> [active |-> FALSE, recovery |-> FALSE, restrict |-> FALSE]]
  /\ phase = "CHECK" /\ step = 1 /\ recovered = FALSE
  /\ cancelled = {} /\ staged = 0 /\ lost = 0

\* The RoT is provisioned and waits for a request.
Idle == ufm.root # "none" /\ phase = "RUN"

Left(r)   == manifest' = [curve |-> r.curve, addr |-> r.addr]
Enter(ph) == phase' = ph /\ step' = 1

-----------------------------------------------------------------------------
(* The hosts.                                                              *)

Stage ==
  /\ Idle /\ staged < MaxStaged /\ staged' = staged + 1
  /\ \E where \in DOMAIN Images : \E image \in Images[where] :
       flash' = [flash EXCEPT ![where[1]][where[2]] = image]
  /\ UNCHANGED <<ufm, manifest, ao, flow, cancelled, lost>>

\* A region no longer holds what it held.
Lose ==
  /\ Idle /\ lost < MaxLost /\ lost' = lost + 1
  /\ \E h \in Hosts, region \in {"active", "recovery"}, image \in LeftBehind :
       flash' = [flash EXCEPT ![h][region] = image]
  /\ UNCHANGED <<ufm, manifest, ao, flow, cancelled, staged>>

\* A reset of the platform leaves the manifest as it is, a reset of the root
\* of trust clears it.
Reset ==
  /\ Idle /\ Enter("CHECK") /\ manifest' \in {manifest, Powered}
  /\ UNCHANGED <<flash, ufm, ao, recovered, cancelled, staged, lost>>

-----------------------------------------------------------------------------
(* handle_image_verification without a pending update, for a reset of the   *)
(* whole platform.                                                          *)

\* Mutant: an active image once found good stays good.
Authenticate_KeepsGood ==
  /\ ufm.root # "none" /\ phase = "CHECK"
  /\ step \in DOMAIN Order /\ step' = step + 1
  /\ LET h == Order[step][1]
         Found(r) == At(flash, h, Address(h, "recovery", Sig(r.curve)))
     IN \/ /\ Order[step][2] = "recovery"
           /\ \E r \in {RecoveryVerify(flash, ufm, h, manifest.curve)} :
                /\ ao' = [ao EXCEPT ![h].recovery = r.ok /\ RecoveredPfm(ufm, h, Found(r), SvnMax)]
                /\ ufm' = IF r.ok THEN [ufm EXCEPT !.svn[h] = RecoveredSvn(ufm, h, Found(r), SvnMax)]
                          ELSE ufm
                /\ Left(r)
        \/ /\ Order[step][2] = "active"
           /\ \E a \in {ActiveVerify(flash, ufm, h, manifest.curve)} :
                ao' = [ao EXCEPT ![h].active = @ \/ a.ok] /\ Left(a)
           /\ UNCHANGED ufm
  /\ UNCHANGED <<flash, phase, recovered, cancelled, staged, lost>>

\* authentication_image for the next region.
Authenticate ==
  /\ ufm.root # "none" /\ phase = "CHECK"
  /\ step \in DOMAIN Order /\ step' = step + 1
  /\ LET h == Order[step][1]
         Found(r) == At(flash, h, Address(h, "recovery", Sig(r.curve)))
     IN \/ /\ Order[step][2] = "recovery"
           /\ \E r \in {RecoveryVerify(flash, ufm, h, manifest.curve)} :
                /\ ao' = [ao EXCEPT ![h].recovery = r.ok /\ RecoveredPfm(ufm, h, Found(r), SvnMax)]
                /\ ufm' = IF r.ok THEN [ufm EXCEPT !.svn[h] = RecoveredSvn(ufm, h, Found(r), SvnMax)]
                          ELSE ufm
                /\ Left(r)
        \/ /\ Order[step][2] = "active"
           /\ \E a \in {ActiveVerify(flash, ufm, h, manifest.curve)} :
                ao' = [ao EXCEPT ![h].active = a.ok] /\ Left(a)
           /\ UNCHANGED ufm
  /\ UNCHANGED <<flash, phase, recovered, cancelled, staged, lost>>

\* All regions have been verified: boot, recovery, or after a recovery, where a
\* good BMC is enough, lockdown.
Judge ==
  /\ phase = "CHECK" /\ step \notin DOMAIN Order
  /\ ao' = [h \in Hosts |-> [ao[h] EXCEPT !.restrict = @ /\ ao[h].active /\ ~ao[h].recovery]]
  /\ LET good == \A h \in Hosts : ao[h].active /\ ao[h].recovery
     IN \/ (good \/ (recovered /\ ao["BMC"].active)) /\ Enter("RUN")
        \/ ~good /\ ~recovered /\ Enter("RECOVER")
        \/ recovered /\ ~ao["BMC"].active /\ Enter("LOCKDOWN")
  /\ recovered' = FALSE
  /\ UNCHANGED <<flash, ufm, manifest, cancelled, staged, lost>>

-----------------------------------------------------------------------------
(* Capsules for the root of trust itself.                                   *)

\* verify_key_unused: the CSK that signed the PFM in a region.  In the recovery
\* region it is looked for behind an elliptic curve's signature block.
Unused(h, region, id) ==
  At(flash, h, Address(h, region, IF region = "recovery" THEN 1 ELSE 0)).csk.id % 256 # id

\* Mutant: the key of the recovery image may be cancelled.
CskUnused_ActiveOnly(type, id) ==
  \A h \in Hosts : PolicyOf(type) = Pfm[h] => Unused(h, "active", id)

\* is_csk_unused
CskUnused(type, id) ==
  \A h \in Hosts, region \in {"active", "recovery"} :
    PolicyOf(type) = Pfm[h] => Unused(h, region, id)

\* cancel_csk_key_id
Cancel(type, id) ==
  IF id <= MaxKeyId /\ CskUnused(type, id)
  THEN /\ ufm' = [ufm EXCEPT !.cleared = @ \cup {PolicyBit(type, id)}]
       /\ cancelled' = cancelled \cup {<<PolicyOf(type), id>>}
  ELSE UNCHANGED <<ufm, cancelled>>

\* pfr_decommission: the provisioned data, the policies among them, are erased.
Decommission(d) ==
  IF d.flaw # "reserved"
  THEN ufm' = [ufm EXCEPT !.root = "none", !.cleared = {}] /\ cancelled' = {}
  ELSE UNCHANGED <<ufm, cancelled>>

\* ast1060_update for the document at a; the caller's own view of its type says
\* what is done with it.  (The RoT's new firmware is not part of this model: of
\* it only the SVN counts, which only a recovery update raises.)
RotCapsule(dev, a, sel) ==
  \E v \in {Verify(flash, ufm, dev, a, manifest.curve)}, d \in {At(flash, dev, a)} :
     /\ manifest' = [curve |-> v.curve,
                     addr  |-> IF v.ok /\ d.type = "DECOMMISSION" THEN Plus(a, Sig(v.curve)) ELSE a]
     /\ CASE v.ok /\ d.type = "DECOMMISSION"  -> Decommission(d)
          [] v.ok /\ d.type \in Certificates  -> Cancel(d.type, KeyId(d.cancels))
          [] v.ok /\ d.type = "CPLD" /\ sel = "recovery"
             /\ d.svn \in ufm.svn["ROT"]..SvnMax ->
               ufm' = [ufm EXCEPT !.svn["ROT"] = d.svn] /\ UNCHANGED cancelled
          [] OTHER                            -> UNCHANGED <<ufm, cancelled>>
     /\ UNCHANGED <<flash, ao, recovered, staged, lost>>

\* update_firmware_image(ROT_TYPE)
UpdateRot ==
  /\ Idle
  /\ \E sel \in {"active", "recovery"} : RotCapsule("BMC", Address("BMC", "rot", 0), sel)
  /\ Enter("CHECK")

-----------------------------------------------------------------------------
(* Capsules for a host.                                                    *)

\* pfr_staging_pch_staging: what the BMC staged for the PCH is copied when its
\* outer signature is good, and verified again only in recovery.
Fetched(f) == [f EXCEPT !["PCH"]["staging"] = f["BMC"]["staging"]]
Copy(f, u, v) ==
  IF v.state = "RECOVERY" THEN StagingVerify(Fetched(f), u, "PCH", v.curve, v.state, {})
  ELSE [v EXCEPT !.addr = Address("PCH", "staging", 0)]
Fetch(f, u, curve, state) ==
  LET a     == Address("BMC", "staging", 0)
      ofPch == At(f, "BMC", a).type \in {"PCH_CAPSULE", "PCH_SEAMLESS"}
      r     == Verify(f, u, "BMC", a, curve)
      v     == [ok |-> ofPch /\ r.ok, addr |-> a, curve |-> IF ofPch THEN r.curve ELSE curve,
                state |-> state]
      w     == IF v.ok THEN Copy(f, u, v) ELSE v
  IN [ok |-> w.ok, addr |-> w.addr, curve |-> w.curve,
      flash |-> IF v.ok THEN Fetched(f) ELSE f]

\* does_staged_fw_image_match_active_fw_image: the digests of the two PFMs.
Matches(f, h, curve) ==
  LET new == At(f, h, Address(h, "staging", Sig(curve)))
      act == At(f, h, Address(h, "active", 0))
  IN Lms(new.curve) = Lms(curve) /\ new.rev = act.rev

\* The rest of update_firmware_image, the capsule being in the host's staging
\* region: verification, SVN policy and installation.
Install(f, h, sel, intents, curve) ==
  \E s \in {StagingVerify(f, ufm, h, curve, "UPDATE", intents)} :
    LET pfm   == At(f, h, Address(h, "staging", Sig(s.curve)))
        write == /\ s.ok /\ pfm.svn \in ufm.svn[h]..SvnMax
                 /\ ao[h].restrict => sel = "recovery" /\ Matches(f, h, s.curve)
    IN /\ Left(s)
       /\ \/ /\ write /\ sel = "active"
             /\ flash' = [f EXCEPT ![h]["active"] = Installed(f[h]["staging"], s.curve)]
             /\ UNCHANGED ufm
          \/ /\ write /\ sel = "recovery"
             /\ flash' = [f EXCEPT ![h]["recovery"] = f[h]["staging"]]
             /\ ufm' = [ufm EXCEPT !.svn[h] = pfm.svn]
          \/ ~write /\ flash' = f /\ UNCHANGED ufm
       /\ UNCHANGED <<ao, recovered, cancelled, staged, lost>>

\* update_firmware_image for a certificate and for a capsule in the staging
\* region of a host "from".  A certificate is accepted under any intent.
UpdateCancel(from, sel) ==
  /\ At(flash, from, Address(from, "staging", 0)).type \in Certificates
  /\ RotCapsule(from, Address(from, "staging", 0), sel)
UpdateHost(h, from, sel, intents) ==
  /\ Idle /\ (from = h \/ h = "PCH")
  /\ \/ UpdateCancel(from, sel)
     \/ /\ At(flash, from, Address(from, "staging", 0)).type \notin Certificates
        /\ \/ from = h /\ Install(flash, h, sel, intents, manifest.curve)
           \/ /\ from # h
              /\ \E r \in {Fetch(flash, ufm, manifest.curve, "UPDATE")} :
                   \/ r.ok /\ Install(r.flash, h, sel, intents, r.curve)
                   \/ /\ ~r.ok /\ flash' = r.flash /\ Left(r)
                      /\ UNCHANGED <<ufm, ao, recovered, cancelled, staged, lost>>
  /\ Enter("CHECK")

\* perform_seamless_update.  For a capsule the PCH staged itself the type is
\* read where the manifest points since the handler before.
SeamlessInstall(r) ==
  \E s \in {StagingVerify(r.flash, ufm, "PCH", r.curve, "SEAMLESS", {"SEAMLESS"})} :
    LET fvm == At(r.flash, "PCH", Address("PCH", "staging", Sig(s.curve)))
    IN /\ Left(s)
       /\ flash' = IF s.ok THEN [r.flash EXCEPT !["PCH"]["active"] = Overlay(@, s.off, fvm)]
                   ELSE r.flash
Seamless(from) ==
  LET a == IF from = "BMC" THEN Address("BMC", "staging", 0) ELSE manifest.addr
  IN /\ Idle
     /\ \/ /\ At(flash, from, a).type \in Certificates
           /\ RotCapsule(from, a, "active") /\ UNCHANGED <<phase, step>>
        \/ /\ At(flash, from, a).type \notin Certificates
           /\ \/ from = "PCH" /\ SeamlessInstall([flash |-> flash, curve |-> manifest.curve])
              \/ /\ from = "BMC"
                 /\ \E r \in {Fetch(flash, ufm, manifest.curve, "SEAMLESS")} :
                      IF r.ok THEN SeamlessInstall(r) ELSE flash' = r.flash /\ Left(r)
           /\ UNCHANGED <<ufm, ao, flow, cancelled, staged, lost>>

-----------------------------------------------------------------------------
(* handle_recovery: recover_image for every region that failed.             *)

\* recover_image while the recovery region is bad: v the verdict on the staging
\* region.
RecoverRecovery(h, v) ==
  LET Copied(f) == flash' = [f EXCEPT ![h]["recovery"] = f[h]["staging"]]
      Repaired  == ao' = [ao EXCEPT ![h].recovery = TRUE] /\ recovered' = TRUE
      match     == v.ok /\ Matches(flash, h, v.curve)
  IN \/ /\ IF ao[h].active THEN match ELSE v.ok
        /\ Copied(flash) /\ Left(v) /\ Repaired
     \/ /\ ao[h].active /\ ~match
        /\ ao' = [ao EXCEPT ![h].restrict = TRUE] /\ recovered' = TRUE
        /\ Left(v) /\ UNCHANGED flash
     \/ /\ ~ao[h].active /\ ~v.ok /\ h = "PCH"
        /\ \E r \in {Fetch(flash, ufm, v.curve, v.state)} :
             /\ Left(r)
             /\ \/ r.ok /\ Copied(r.flash) /\ Repaired
                \/ ~r.ok /\ flash' = r.flash /\ recovered' = TRUE /\ UNCHANGED ao
     \/ /\ ~ao[h].active /\ ~v.ok /\ h = "BMC"
        /\ Left(v) /\ UNCHANGED <<flash, ao, recovered>>

\* Mutant: RECOVERY_DONE is not reported for a repaired BMC.
RecoverActive_NotDone(h) ==
  LET image == flash[h]["recovery"]
      from  == Address(h, "recovery", Sig(manifest.curve))
      found == IsPfm(At(flash, h, from))
  IN /\ flash' = IF found THEN [flash EXCEPT ![h]["active"] = Installed(image, manifest.curve)]
                 ELSE flash
     /\ ao' = [ao EXCEPT ![h].active = found]
     /\ recovered' = (recovered \/ h = "PCH")
     /\ manifest' = [manifest EXCEPT !.addr = from]

\* recover_image while the recovery region is good: pfr_recover_active_region,
\* which takes the capsule's signature to be of the curve seen last.
RecoverActive(h) ==
  LET image == flash[h]["recovery"]
      from  == Address(h, "recovery", Sig(manifest.curve))
      found == IsPfm(At(flash, h, from))
  IN /\ flash' = IF found THEN [flash EXCEPT ![h]["active"] = Installed(image, manifest.curve)]
                 ELSE flash
     /\ ao' = [ao EXCEPT ![h].active = found]
     /\ recovered' = (recovered \/ found \/ h = "PCH")
     /\ manifest' = [manifest EXCEPT !.addr = from]

\* The next region of the order: nothing is done for a good one.
Recover ==
  /\ phase = "RECOVER" /\ step \in DOMAIN Order /\ step' = step + 1
  /\ LET h == Order[step][1]
         bad == ~ao[h][Order[step][2]]
     IN \/ /\ bad /\ ~ao[h].recovery
           /\ \E v \in {StagingVerify(flash, ufm, h, manifest.curve, "RECOVERY", {})} :
                RecoverRecovery(h, v)
        \/ bad /\ ao[h].recovery /\ RecoverActive(h)
        \/ ~bad /\ UNCHANGED <<flash, manifest, ao, recovered>>
  /\ UNCHANGED <<ufm, phase, cancelled, staged, lost>>

\* RECOVERY_DONE: verify again.  RECOVERY_FAILED: lockdown.
Recovered ==
  /\ phase = "RECOVER" /\ step \notin DOMAIN Order
  /\ Enter(IF recovered THEN "CHECK" ELSE "LOCKDOWN")
  /\ UNCHANGED <<flash, ufm, manifest, ao, recovered, cancelled, staged, lost>>

-----------------------------------------------------------------------------
Next ==
  \/ Stage \/ Lose \/ Reset \/ UpdateRot
  \/ Authenticate \/ Judge \/ Recover \/ Recovered
  \/ \E h \in Hosts, from \in Hosts, sel \in {"active", "recovery"} :
       \E intents \in {{h}, {h, "ROT"}} : UpdateHost(h, from, sel, intents)
  \/ \E from \in Hosts : Seamless(from)

Spec == Init /\ [][Next]_vars
=============================================================================
