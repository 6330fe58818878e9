------------------------------ MODULE CerberusPfr ------------------------------
(***************************************************************************)
(* The Cerberus flavour of the firmware (CONFIG_CERBERUS_PFR): the host's   *)
(* flash, the capsules staged for it and for the RoT, the boot verification *)
(* with its recovery, the updates and the management capsules.  The host is *)
(* the PCH; the BMC's own images are taken to be good.  Every write to a    *)
(* flash is an operation of a queue that a power cut or a failing driver    *)
(* interrupts before any operation or in the middle of it.                  *)
(***************************************************************************)
EXTENDS CerberusKeys

CONSTANTS
  Capsules,    \* name -> [format, signer, svn, version, regions, rw, secs, cert, manifest]
  Scenarios    \* initial flash contents and what may happen, see MCCerberus

Secs     == {"pfm", "code", "data"}      \* sections of the host's active region
Policies == {"PCH", "ROT"}

AllParts == {"ROOT", "BMC", "PCH"}
Areas    == {"recovery", "staging", "bmcStaging", "rotStaging", "rotActive", "rotRecovery"}

\* Capsules as their tools build them: SVNs, sections, RW regions, certificate
\* entries <<id, key>> and a key manifest to be stored.
ASSUME CapsulesAssumption ==
  /\ DOMAIN Capsules \cap {"none", "blank", "torn"} = {}
  /\ \A c \in DOMAIN Capsules :
       /\ Capsules[c].svn \in Nat /\ Capsules[c].secs \in Seq(Secs)
       /\ Capsules[c].rw \in Seq([sec : Secs, mode : {"ERASE", "RESTORE", "DO_NOTHING"}])
       /\ Capsules[c].cert.list \in Seq(Nat \X STRING)
       /\ \A r \in Capsules[c].regions : r.id \in Nat
       /\ Capsules[c].manifest \in DOMAIN Manifests

\* A platform is provisioned or not, and has filled its slots in their order.
ASSUME ScenariosAssumption ==
  \A s \in Scenarios :
    /\ DOMAIN s.ufm = {"parts", "cancelled", "svn"}
    /\ s.ufm.parts \in {{}, AllParts} /\ s.ufm.svn \in [Policies -> Nat]
    /\ DOMAIN s.flash = Areas \cup {"active"} /\ DOMAIN s.flash.active = Secs
    /\ s.keym \in [Slot -> DOMAIN Manifests \cup {Blank}]
    /\ \A t, u \in Slot : t < u /\ s.keym[u] # Blank => s.keym[t] # Blank
    /\ s.ufm.parts # {} => s.keym[0] # Blank

VARIABLES
  flash,    \* [active, recovery, staging, bmcStaging, rotStaging, rotActive, rotRecovery]
  phase,    \* where the state machine is
  ops,      \* writes to be done, in order, before the phase goes on
  ram,      \* [act, rec, recovered, calls, clear, restrict, upd]: lost in a power cut
  pending,  \* recovery update to be done once the host has booted
  budget,   \* what may still happen
  dead,     \* <<policy, key>> cancelled so far
  known,    \* key manifests provisioned or appended so far
  lost,     \* a write to the key manifests or the UFM was interrupted
  failed    \* a write failed since the last verification began

vars == <<keym, ufm, flash, phase, ops, ram, pending, budget, dead, known, lost, failed>>

Nothing   == [src |-> "none", what |-> "none"]
FreshRam  == [act |-> TRUE, rec |-> TRUE, recovered |-> FALSE, calls |-> 0, clear |-> FALSE,
              restrict |-> FALSE, upd |-> [select |-> "PRIMARY", dynamic |-> FALSE, pend |-> Nothing]]
ErasedUfm == [parts |-> {}, cancelled |-> {}, svn |-> [p \in Policies |-> 0]]
Provisioned == ufm.parts = AllParts

Init ==
  \E s \in Scenarios :
    /\ keym = s.keym /\ ufm = s.ufm /\ flash = s.flash /\ budget = s.budget
    /\ phase = "VERIFY" /\ ops = <<>> /\ ram = FreshRam /\ pending = Nothing
    /\ dead = {} /\ known = {keym[s2] : s2 \in {t \in Slot : Present(t)}}
    /\ lost = FALSE /\ failed = FALSE

-----------------------------------------------------------------------------
(* Verification.                                                           *)

Is(c, format) == c \in DOMAIN Capsules /\ Capsules[c].format = format
Management    == {"KCC", "DCC", "KEYM"}

\* What a whole image and the PFM in it say.
HasPfm(c)        == \E i \in DOMAIN Capsules[c].secs : Capsules[c].secs[i] = "pfm"
Svn(c)           == Capsules[c].svn
Version(c)       == Capsules[c].version
RwRegions(c)     == Capsules[c].rw
SignedRegions(c) == Capsules[c].regions
UpdateRegions(c) == {"pfm"} \cup {r.sec : r \in SignedRegions(c)}

\* Management images carry the root key; the others are signed by a CSK that a
\* key manifest lists and no policy cancelled.
SignedByRoot(c)        == Capsules[c].signer = "root"
SignedByCsk(c, policy) == Usable(policy, Find(Capsules[c].signer))
VerifyImage(c, policy) ==
  c \in DOMAIN Capsules /\ IF Capsules[c].format \in Management THEN SignedByRoot(c) ELSE SignedByCsk(c, policy)

\* The root key a PFM is verified with is read from key manifest 0.
RootKeyThere == Whole(0)
PfmSigned(c) == Is(c, "PCH") /\ RootKeyThere

\* cerberus_pfr_verify_pfm_csk_key: every signed region's key, at its own id.
PfmKeysUsable(c) == \A r \in SignedRegions(c) : Usable("PCH", FindById(r.key, r.id))

\* firmware_image_verify, recovery_verify, pfr_staging_pch_staging
ImageOk(c) == Is(c, "PCH") /\ VerifyImage(c, "PCH") /\ HasPfm(c) /\ PfmSigned(c) /\ PfmKeysUsable(c)

\* The digest of a region is checked if its flag says so.
RegionsOk(pfm) == PfmKeysUsable(pfm) /\ \A r \in SignedRegions(pfm) : r.must => flash.active[r.sec] = pfm
\* pfr_active_verify
ActiveOk == PfmSigned(flash.active["pfm"]) /\ RegionsOk(flash.active["pfm"])

\* does_staged_fw_image_match_active_fw_image: the version, not the content.
StagedMatchesActive ==
  /\ Is(flash.staging, "PCH") /\ Is(flash.active["pfm"], "PCH")
  /\ Version(flash.staging) = Version(flash.active["pfm"])

-----------------------------------------------------------------------------
(* Writes.                                                                 *)

WriteSec(sec, c)  == [op |-> "sec", sec |-> sec, what |-> c]
WriteArea(a, c)   == [op |-> "area", area |-> a, what |-> c]
SetSvn(p, svn)    == [op |-> "svn", policy |-> p, svn |-> svn]
SetPart(part)     == [op |-> "part", part |-> part]
EraseUfm          == [op |-> "eraseUfm"]
EraseState        == [op |-> "eraseState"]
SetPending(p)     == [op |-> "pending", what |-> p]
Mark(which)       == [op |-> "mark", which |-> which]

\* svn_policy_verify, set_ufm_svn
SvnOk(p, svn)  == svn >= ufm.svn[p]
SvnOps(p, svn) == IF ufm.svn[p] = svn THEN <<>> ELSE <<SetSvn(p, svn)>>

\* erase_provision_flash
EraseOps == <<EraseUfm, Erase(Slot), EraseState>>

\* The sections of an image that are among those chosen, in its order.
Among(list, Chosen(_)) ==
  LET here == {i \in DOMAIN list : Chosen(list[i])}
  IN InOrder(here, {p \in here \X here : p[1] < p[2]})
SecOps(c, chosen) ==
  LET order == Among(Capsules[c].secs, LAMBDA s : s \in chosen)
  IN [n \in DOMAIN order |-> WriteSec(Capsules[c].secs[order[n]], c)]

\* pfr_recover_active_region: RW regions marked so are erased, the sections
\* are restored unless they start at an RW region that is erased or kept.
RecoverActiveOps(c) ==
  LET rw     == RwRegions(c)
      erased == Among(rw, LAMBDA r : r.mode = "ERASE")
  IN [n \in DOMAIN erased |-> WriteSec(rw[erased[n]].sec, "blank")]
     \o SecOps(c, {s \in Secs : \A i \in DOMAIN rw : rw[i].sec = s => rw[i].mode = "RESTORE"})

\* cerberus_update_active_region
UpdateActiveOps(c, dynamic) == SecOps(c, IF dynamic THEN Secs ELSE UpdateRegions(c))

\* pfr_recover_recovery_region, pfr_staging_pch_staging, cerberus_update_rot_fw
RecoverRecoveryOps(c) == <<WriteArea("recovery", c)>>
StagePchOps(c)        == <<WriteArea("staging", c)>>
RotOps(c, select)     == <<WriteArea(IF select = "PRIMARY" THEN "rotActive" ELSE "rotRecovery", c)>>

Same == UNCHANGED <<keym, ufm, flash, pending, dead, known>>

\* What a finished write leaves.
Done(o) ==
  /\ keym' = IF o.op = "keym" THEN [s \in Slot |-> IF s \in o.slots THEN o.what ELSE keym[s]] ELSE keym
  /\ ufm' = CASE o.op = "cancel"   -> [ufm EXCEPT !.cancelled = @ \cup {<<o.policy, o.at[1], o.at[2]>>}]
              [] o.op = "svn"      -> [ufm EXCEPT !.svn[o.policy] = o.svn]
              [] o.op = "part"     -> [ufm EXCEPT !.parts = @ \cup {o.part}]
              [] o.op = "eraseUfm" -> ErasedUfm
              [] OTHER             -> ufm
  /\ flash' = CASE o.op = "sec"  -> [flash EXCEPT !.active[o.sec] = o.what]
                [] o.op = "area" -> [flash EXCEPT ![o.area] = o.what]
                [] OTHER         -> flash
  /\ pending' = CASE o.op = "pending" -> o.what [] o.op = "eraseState" -> Nothing [] OTHER -> pending
  /\ dead' = CASE o.op = "cancel"   -> dead \cup {<<o.policy, Manifests[keym[o.at[1]]].keys[o.at[2] + 1]>>}
               [] o.op = "eraseUfm" -> {}
               [] OTHER             -> dead
  /\ known' = CASE o.op = "keym" /\ o.what \in DOMAIN Manifests -> known \cup {o.what}
                [] o.op = "eraseUfm"                            -> {}
                [] OTHER                                        -> known
  /\ UNCHANGED lost

\* What an interrupted write leaves: the page or the region half written; a
\* sector of the UFM is erased before it is programmed again.
Torn(o) ==
  /\ \E bad \in {"blank", "half", "torn"} :
       keym' = IF o.op = "keym" THEN [s \in Slot |-> IF s \in o.slots THEN bad ELSE keym[s]] ELSE keym
  /\ ufm' = IF o.op \in {"cancel", "svn", "part", "eraseUfm"} THEN ErasedUfm ELSE ufm
  /\ flash' = CASE o.op = "sec"  -> [flash EXCEPT !.active[o.sec] = "torn"]
                [] o.op = "area" -> [flash EXCEPT ![o.area] = "torn"]
                [] OTHER         -> flash
  /\ pending' = IF o.op \in {"eraseState", "pending"} THEN Nothing ELSE pending
  /\ UNCHANGED <<dead, known>>

\* Ghost: an interruption here may leave key manifests or provisioning half done.
Precious(q) == q # <<>> /\ Head(q).op \in {"keym", "part"}
IsUfm(o)    == o.op \in {"cancel", "svn", "part", "eraseUfm"}

OpDone ==
  /\ ops # <<>>
  /\ Done(Head(ops))
  /\ ops' = Tail(ops)
  /\ ram' = CASE Head(ops) = Mark("act") -> [ram EXCEPT !.act = TRUE]
              [] Head(ops) = Mark("rec") -> [ram EXCEPT !.rec = TRUE]
              [] OTHER                   -> ram
  /\ UNCHANGED <<phase, budget, lost, failed>>

\* The driver reports an error: the rest is not done, and of an update what
\* was pending is given up.
OpFails ==
  /\ ops # <<>> /\ Head(ops).op \in {"keym", "sec", "area"} /\ budget.fails > 0
  /\ Torn(Head(ops)) \/ Same
  /\ lost' = (lost \/ Precious(ops)) /\ failed' = TRUE
  /\ phase' = IF phase = "UPDATE_PCH" THEN "VERIFY" ELSE phase
  /\ ops' = IF phase \in {"VERIFY", "UPDATE_PCH"} /\ pending # Nothing THEN <<SetPending(Nothing)>> ELSE <<>>
  /\ budget' = [budget EXCEPT !.fails = @ - 1]
  /\ UNCHANGED ram

PowerCut ==
  /\ budget.cuts > 0
  /\ \/ /\ ops # <<>> /\ Torn(Head(ops))
        /\ lost' = (lost \/ Precious(ops) \/ IsUfm(Head(ops)))
     \/ /\ Same
        /\ lost' = (lost \/ Precious(ops))
  /\ ops' = <<>> /\ ram' = FreshRam /\ phase' = "VERIFY" /\ failed' = FALSE
  /\ budget' = [budget EXCEPT !.cuts = @ - 1]

-----------------------------------------------------------------------------
(* The boot.                                                               *)

Idle(p)   == phase = p /\ ops = <<>>
Unchanged == UNCHANGED <<keym, ufm, flash, budget, dead, known, lost, failed, pending>>

\* handle_key_manifest_verification
VerifyKeys ==
  /\ Idle("VERIFY")
  /\ phase' = CASE ~Provisioned -> "UNPROVISIONED"
                [] Provisioned /\ ~VerifyAll -> "LOCKDOWN"
                [] OTHER -> "VERIFY_IMAGES"
  /\ UNCHANGED <<ops, ram>> /\ Unchanged

\* handle_image_verification: the recovery image, whose SVN the floor follows,
\* then the active one.
VerifyRecovery ==
  /\ Idle("VERIFY_IMAGES")
  /\ LET ok == ImageOk(flash.recovery)
         svn == Svn(flash.recovery)
     IN  /\ ram' = [ram EXCEPT !.rec = ok]
         /\ ops' = IF ok THEN (IF svn > ufm.svn["PCH"] THEN SvnOps("PCH", svn) ELSE <<>>) ELSE <<>>
  /\ phase' = "VERIFY_ACTIVE"
  /\ Unchanged

VerifyActive ==
  /\ Idle("VERIFY_ACTIVE")
  /\ LET ok == ActiveOk
     IN  /\ ram' = [ram EXCEPT !.act = ok,
                               !.restrict = @ /\ ok /\ ~ram.rec,
                               !.recovered = FALSE, !.clear = ~ok,
                               !.calls = Cardinality({x \in {"act", "rec"} :
                                           (x = "act" /\ ~ok) \/ (x = "rec" /\ ~ram.rec)})]
         /\ phase' = CASE ~ram.recovered /\ ~(ok /\ ram.rec) -> "RECOVERY"
                       [] ok /\ (ram.recovered \/ ram.rec)   -> "RUNTIME"
                       [] OTHER                              -> "HELD"
  /\ UNCHANGED ops /\ Unchanged

\* recover_image: what it writes, given the last verification.
RecoverImage ==
  LET staged == ImageOk(flash.staging)
      fetch  == ~staged /\ ~ram.act /\ ImageOk(flash.bmcStaging)
      from   == IF staged THEN flash.staging ELSE flash.bmcStaging
  IN CASE ram.rec /\ ram.act  -> <<>>
       [] ram.rec /\ ~ram.act -> RecoverActiveOps(flash.recovery) \o <<Mark("act")>>
       [] ~ram.rec /\ ((staged /\ (ram.act => StagedMatchesActive)) \/ fetch) ->
            (IF fetch THEN StagePchOps(from) ELSE <<>>) \o RecoverRecoveryOps(from) \o <<Mark("rec")>>
       [] OTHER               -> <<>>

\* handle_recovery: once for each region that is bad; last, a recovery update
\* of an active region that was bad is given up.
Recovery ==
  /\ Idle("RECOVERY")
  /\ IF ram.calls = 0
     THEN /\ phase' = "VERIFY" /\ ops' = <<>>
          /\ ram' = [ram EXCEPT !.recovered = TRUE]
          /\ pending' = IF ram.clear /\ pending.src # "rotStaging" THEN Nothing ELSE pending
     ELSE /\ phase' = phase /\ ops' = RecoverImage
          /\ UNCHANGED pending
          /\ ram' = [ram EXCEPT !.calls = @ - 1,
                                !.restrict = @ \/ (ram.act /\ ~ram.rec /\ RecoverImage = <<>>)]
  /\ UNCHANGED <<keym, ufm, flash, budget, dead, known, lost, failed>>

-----------------------------------------------------------------------------
(* Updates.                                                                *)

Begin(q, next) == ops' = q /\ phase' = next

\* handle_update_requested after the writes q of an update with capsule c: the
\* recovery update that is now pending is recorded, on failure none, and the
\* images are verified anew.
Succeeds(c, q) == q # <<>> /\ (Is(c, "KCC") => Len(q) = Len(Capsules[c].cert.list))
Finish(c, q, pend) ==
  LET p == IF Succeeds(c, q) THEN pend ELSE Nothing
  IN Begin(q \o (IF p = pending THEN <<>> ELSE <<SetPending(p)>>), "VERIFY")
Refuse == Finish("none", <<>>, Nothing)

\* cerberus_pfr_cancel_csk_keys of a certificate that is well formed and for
\* the policy of the region it was staged for.
MaxCancelled == 8
CertificateOk(cert)      == Len(cert.list) \in 1..MaxCancelled
PolicyOk(cert, policy)   == cert.policy = policy
CancelCertificate(c, policy) ==
  LET cert == Capsules[c].cert
  IN IF CertificateOk(cert) /\ PolicyOk(cert, policy) THEN CancelOps(policy, cert) ELSE <<>>

\* cerberus_provisioning_root_key_action: nothing is done again that is done.
ProvisionOps(c) ==
  IF ufm.parts # {} THEN <<>>
  ELSE <<SetPart("ROOT"), SetPart("BMC"), SetPart("PCH"), Erase(Slot), Write(0, Capsules[c].manifest)>>

\* cerberus_hrot_update of a verified capsule.
HrotOps(c, select) ==
  CASE Is(c, "HROT") /\ SvnOk("ROT", Svn(c)) ->
         RotOps(c, select) \o (IF select = "SECONDARY" THEN SvnOps("ROT", Svn(c)) ELSE <<>>)
    [] Is(c, "DCC")  -> EraseOps
    [] Is(c, "KCC")  -> CancelCertificate(c, "ROT")
    [] Is(c, "KEYM") -> AppendOps(Capsules[c].manifest)
    [] OTHER         -> <<>>

HrotUpdate(c, select) ==
  IF ~Provisioned THEN (IF Is(c, "PROV") THEN ProvisionOps(c) ELSE <<>>)
  ELSE IF VerifyImage(c, "ROT") THEN HrotOps(c, select) ELSE <<>>

\* A recovery update is done after the active one and after the next boot.
Pend(src, recovery, c) == IF recovery THEN [src |-> src, what |-> c] ELSE pending

\* What is staged for a request; a recovery update is not asked for twice.
Staged(area, c, recovery) ==
  /\ c \in budget.offers /\ budget.requests > 0
  /\ recovery => pending = Nothing
  /\ flash' = [flash EXCEPT ![area] = c]
  /\ budget' = [budget EXCEPT !.requests = @ - 1]

Running == phase \in {"RUNTIME", "HELD"} /\ ops = <<>>

\* The BMC asks for an update of the RoT with what it staged for it.
RotRequest(c, recovery) ==
  /\ Running /\ Staged("rotStaging", c, recovery)
  /\ Finish(c, HrotUpdate(c, "PRIMARY"), Pend("rotStaging", recovery, c))
  /\ failed' = FALSE
  /\ UNCHANGED <<keym, ufm, ram, pending, dead, known, lost>>

\* The PCH asks for an update with what it staged, or the BMC with what it
\* staged for the PCH, which is verified and copied first.
PchRequest(c, dynamic, recovery) ==
  /\ phase = "RUNTIME" /\ ops = <<>> /\ Staged("staging", c, recovery)
  /\ Begin(<<>>, "UPDATE_PCH")
  /\ ram' = [ram EXCEPT !.upd = [select |-> "PRIMARY", dynamic |-> dynamic,
                                 pend |-> Pend("staging", recovery, c)]]
  /\ failed' = FALSE
  /\ UNCHANGED <<keym, ufm, pending, dead, known, lost>>

BmcRequest(c, dynamic, recovery) ==
  /\ Running /\ Staged("bmcStaging", c, recovery)
  /\ IF ImageOk(c) THEN Begin(StagePchOps(c), "UPDATE_PCH") ELSE Refuse
  /\ ram' = [ram EXCEPT !.upd = [select |-> "PRIMARY", dynamic |-> dynamic,
                                 pend |-> Pend("bmcStaging", recovery, c)]]
  /\ failed' = FALSE
  /\ UNCHANGED <<keym, ufm, pending, dead, known, lost>>

\* Mutant: the floor is not asked.
UpdateOps_NoFloor(c) ==
  CASE Is(c, "KCC") /\ VerifyImage(c, "PCH") -> CancelCertificate(c, "PCH")
    [] ImageOk(c) ->
         IF ram.upd.select = "PRIMARY"
         THEN (IF ram.restrict THEN <<>> ELSE UpdateActiveOps(c, ram.upd.dynamic))
         ELSE RecoverRecoveryOps(c) \o SvnOps("PCH", Svn(c))
    [] OTHER -> <<>>

\* update_firmware_image, from the capsule in the PCH's staging region.  The flag
\* that would restrict a recovery update is the BMC's (handle_recovery_requested
\* passes the BMC's object for any region), which is clear: its images are good.
UpdateOps(c) ==
  CASE Is(c, "KCC") /\ VerifyImage(c, "PCH") -> CancelCertificate(c, "PCH")
    [] ImageOk(c) /\ SvnOk("PCH", Svn(c)) ->
         IF ram.upd.select = "PRIMARY"
         THEN (IF ram.restrict THEN <<>> ELSE UpdateActiveOps(c, ram.upd.dynamic))
         ELSE RecoverRecoveryOps(c) \o SvnOps("PCH", Svn(c))
    [] OTHER -> <<>>

UpdatePch ==
  /\ Idle("UPDATE_PCH")
  /\ Finish(flash.staging, UpdateOps(flash.staging), ram.upd.pend)
  /\ UNCHANGED ram /\ Unchanged

\* The host has booted: the pending recovery update, if the staging region it
\* was asked for has not changed since.
BootDone ==
  /\ phase = "RUNTIME" /\ ops = <<>> /\ pending # Nothing
  /\ ram' = [ram EXCEPT !.upd = [select |-> "SECONDARY", dynamic |-> FALSE, pend |-> Nothing]]
  /\ IF flash[pending.src] # pending.what THEN Refuse
     ELSE IF pending.src = "rotStaging"
     THEN Finish(pending.what, HrotUpdate(pending.what, "SECONDARY"), Nothing)
     ELSE Begin(<<>>, "UPDATE_PCH")
  /\ failed' = FALSE
  /\ UNCHANGED <<keym, ufm, flash, pending, budget, dead, known, lost>>

-----------------------------------------------------------------------------
(* Unprovisioned, and what happens from outside.                           *)

\* handle_provision_image: the region selected is not initialised.
ProvisionImage(c, select) ==
  /\ Idle("UNPROVISIONED") /\ Staged("rotStaging", c, FALSE)
  /\ Begin(HrotUpdate(c, select), "UNPROVISIONED")
  /\ UNCHANGED <<keym, ufm, ram, pending, dead, known, lost, failed>>

\* The mailbox's ERASE_CURRENT.
EraseCurrent ==
  /\ Idle("UNPROVISIONED") /\ ufm # ErasedUfm
  /\ Begin(EraseOps, "UNPROVISIONED")
  /\ UNCHANGED <<keym, ufm, flash, ram, pending, budget, dead, known, lost, failed>>

\* A region is rewritten while its owner runs, or goes bad.
Tamper(area, c) ==
  /\ Running /\ budget.tampers > 0
  /\ flash' = IF area \in Secs THEN [flash EXCEPT !.active[area] = c] ELSE [flash EXCEPT ![area] = c]
  /\ budget' = [budget EXCEPT !.tampers = @ - 1]
  /\ UNCHANGED <<keym, ufm, phase, ops, ram, pending, dead, known, lost, failed>>

\* A platform reset.
Reset ==
  /\ phase \in {"RUNTIME", "HELD", "UNPROVISIONED"} /\ ops = <<>> /\ budget.resets > 0
  /\ phase' = "VERIFY" /\ failed' = FALSE
  /\ ram' = [ram EXCEPT !.recovered = FALSE]
  /\ budget' = [budget EXCEPT !.resets = @ - 1]
  /\ UNCHANGED <<keym, ufm, flash, ops, pending, dead, known, lost>>

Environment ==
  \/ \E c \in budget.offers, recovery \in BOOLEAN : RotRequest(c, recovery)
  \/ \E c \in budget.offers, dynamic, recovery \in BOOLEAN :
       PchRequest(c, dynamic, recovery) \/ BmcRequest(c, dynamic, recovery)
  \/ \E c \in budget.offers, select \in {"PRIMARY", "SECONDARY"} : ProvisionImage(c, select)
  \/ \E a \in {"code", "data", "recovery", "staging", "bmcStaging", "rotStaging"} :
       Tamper(a, "torn")
  \/ EraseCurrent \/ Reset \/ BootDone \/ OpFails \/ PowerCut

Next == OpDone \/ VerifyKeys \/ VerifyRecovery \/ VerifyActive \/ Recovery \/ UpdatePch \/ Environment
Spec == Init /\ [][Next]_vars
=============================================================================
