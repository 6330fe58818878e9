----------------------------- MODULE PfrSafety -----------------------------
(***************************************************************************)
(* What the PFR state machine promises.  The first part holds of the code;  *)
(* the second states what comments of the code say and the code does not    *)
(* keep.                                                                    *)
(***************************************************************************)
EXTENDS PfrStateMachine

-----------------------------------------------------------------------------
(* The event loop.                                                          *)

\* The events that take the thread out of a state it enters to do some work.
Completions(s) ==
    CASE s = "INIT"              -> {"INIT_DONE", "INIT_ROT_SECONDARY_BOOTED"}
      [] s = "ROT_RECOVERY"      -> {"RECOVERY_DONE", "RECOVERY_FAILED"}
      [] s = "FIRMWARE_VERIFY"   -> {"VERIFY_UNPROVISIONED", "VERIFY_FAILED", "VERIFY_DONE",
                                     "RECOVERY_FAILED", "UPDATE_REQUESTED"}
      [] s = "FIRMWARE_RECOVERY" -> {"RECOVERY_DONE", "RECOVERY_FAILED"}
      [] s = "FIRMWARE_UPDATE"   -> {"UPDATE_DONE", "UPDATE_FAILED"}
      [] s = "SEAMLESS_UPDATE"   -> {"SEAMLESS_UPDATE_DONE", "SEAMLESS_UPDATE_FAILED"}
      [] OTHER                   -> {}

Working == {"INIT", "ROT_RECOVERY", "FIRMWARE_VERIFY", "FIRMWARE_RECOVERY",
            "FIRMWARE_UPDATE", "SEAMLESS_UPDATE"}

\* AspeedStateMachine: a thread that waits in a working state has an event in
\* the FIFO that takes it out of that state, unless an event was lost for want
\* of memory: events queued earlier, consumed out of turn or discarded on the
\* way, never leave it stranded with the hosts in reset.
CompletionPending ==
    pc = "wait" /\ state \in Working /\ ~dropped =>
        \E n \in 1 .. Len(fifo) : fifo[n].ev \in Completions(state)

\* handle_recovery sets one byte of RECOVERY_DONE's data and leaves the others
\* uninitialised; no state entry and no update ever decides by them, however
\* the event is followed by pending or queued updates.
UndefinedNeverRead ==
    /\ ev.d.src = "undef" => state \notin {"FIRMWARE_UPDATE", "SEAMLESS_UPDATE"}
    /\ fifo # <<>> /\ Head(fifo).d.src = "undef" =>
         ~(\E t \in Successors(Head(fifo)) : t \in Tmin1 /\ state \notin Tmin1)

\* AspeedStateMachine, state_table: whatever happens on the way, the thread
\* reaches a state in which it rests (hosts running or locked down), unless an
\* event is lost or the RoT has no firmware left.
Resting == state \in {"RUNTIME", "UNPROVISIONED", "SYSTEM_LOCKDOWN"} \/ pc = "dead"
Settles == (~Resting) ~> (Resting \/ dropped)

-----------------------------------------------------------------------------
(* Who runs, and on what.                                                   *)

\* enter_tzero: the BMC of a provisioned platform is released only when the
\* image in its active region authenticates at that moment, whatever was
\* verified, recovered or updated, and in whatever reset policy, before.  The
\* exception, which no scenario checked here meets: requests of the PCH between the
\* two results a failing update posts leave a verdict queued, and the BMC's image
\* goes bad before it is taken.
BmcReleasedVerified ==
    [][ ("BMC" \in hold /\ "BMC" \notin hold' /\ Provisioned)
          => ActiveVerify("BMC", flash["BMC"]["active"]) ]_vars

\* enter_tmin1, enter_tzero: a host that runs in RUNTIME was found good by the
\* last verification, whatever is provisioned, erased, corrupted, timed out or
\* recovered; provisioning a running platform does not let a host that was never
\* verified slip through.  Update intents are left aside: one that is queued
\* during a BMC-only reset has the RoT verify a flash it does not own
\* (UpdateOwnsFlash).
RunningHostVerified ==
    Around.requests = {} /\ state = "RUNTIME" => \A h \in Hosts \ hold : last[h].active

\* BMCBootHold, PCHBootRelease, handle_seamless_update_requested: after every
\* step of the thread a running host has its flash; the error paths of a
\* seamless update, which borrows it, give it back too.
RunningHostHasFlash == mux \subseteq hold

\* enter_lockdown: both hosts are held and both flashes taken until power is
\* cycled, whatever timers, hosts and late events still do.
LockdownHolds ==
    [][ state = "SYSTEM_LOCKDOWN" =>
          \/ state' = "SYSTEM_LOCKDOWN" /\ hold' = Hosts /\ mux' = Hosts
          \/ spent'.loss = spent.loss + 1 ]_vars

-----------------------------------------------------------------------------
(* The abstract specification the state machine implements.                 *)

\* T0 serves, lockdown locks, every other state works on held hosts.
GatePhase == CASE state \in Tzero           -> "serving"
               [] state = "SYSTEM_LOCKDOWN" -> "locked"
               [] OTHER                     -> "working"
FitHosts  == {h \in Hosts : ActiveVerify(h, flash[h]["active"])}

Gate == INSTANCE PfrBootGate WITH
    Guarded <- {"BMC"}, phase <- GatePhase, running <- Hosts \ hold, fit <- FitHosts,
    secured <- Provisioned

\* AspeedStateMachine, state_table: the RoT is a boot gate.  A host is taken only
\* on the way out of T0 and released only on the way in, the BMC of a provisioned
\* platform only with an image that authenticates; the firmware of a host is
\* changed only while that host is in reset, however its reset policy came about
\* and whichever recovery or update is carried on from an earlier boot; and
\* lockdown ends with the power.  The exception is that of BmcReleasedVerified.
ImplementsGate == Gate!Spec

-----------------------------------------------------------------------------
(* Images.                                                                  *)

\* update_firmware_image, recover_image: updates and recoveries, cut by power
\* failures at any point, never leave a host with neither a valid active image
\* nor a recovery image for it.
HasImage(h) == flash[h]["active"].kind = h \/ flash[h]["recovery"].kind = h
ImageSurvives == \A h \in Hosts : HasImage(h)

\* handle_recovery on WDT_TIMEOUT: a host that failed to boot is given its
\* recovery image, or is not reported as repaired.
TimeoutRestoresRecovery ==
    [][ (pc = "rec" /\ pc' = "wait" /\ ev.ev = "WDT_TIMEOUT") =>
          \A h \in {ev.d.src} \cap Hosts :
              ao'[h].active => flash'[h]["active"] = flash'[h]["recovery"] ]_vars

\* ast1060_update, do_rot_recovery: one failure, of a write or of the power,
\* never leaves the RoT without firmware to start.
SingleFaultKeepsRot == pc = "dead" => spent.fault + spent.loss > 1

\* swmbx_notifyee_main, handle_update_at_reset, has_pending_update: an update of
\* the BMC's or the RoT's firmware is never done on the PCH's intent.
PchIntentStaysInPch ==
    upd.image \in {"BMC", "ROT"} => ev.d.src = "BmcUpdateIntent"

-----------------------------------------------------------------------------
(* Anti-rollback.                                                           *)

\* set_ufm_svn: the floor of an image goes down only when an unlocked UFM is
\* erased.
SvnFloorMonotone ==
    [][ \/ \A i \in Images : svn'[i] >= svn[i]
        \/ "lock" \notin ufm /\ ufm' = {} ]_vars

\* pfr_recovery_verify, update_firmware_image: once the BMC runs with a verified
\* recovery image, however it came to the region, a capsule older than that
\* image is not accepted any more.
RecoveryRaisesFloor ==
    state = "RUNTIME" /\ Provisioned /\ "BMC" \in Scope(ev.d.reset) /\ ao["BMC"].recovery
        /\ flash["BMC"]["recovery"].kind = "BMC"
        => flash["BMC"]["recovery"].svn <= svn["BMC"]

-----------------------------------------------------------------------------
(* What comments say.                                                       *)

\* has_pending_update: "PFR doesn't hold PCH reset and takeover spi flash during
\* bmc only reset.  PCH firmware update via PCH Update intent shouldn't be
\* performed."  An update only works on a host whose flash the RoT owns.
UpdateOwnsFlash ==
    pc \in {"copy", "prog"} /\ upd.image \in Hosts => upd.image \in mux

\* enter_tzero: "Host firmware is invalid, host won't boot".  The PCH of a
\* provisioned platform is released only with a valid active image.
PchReleasedVerified ==
    [][ ("PCH" \in hold /\ "PCH" \notin hold' /\ Provisioned)
          => ActiveVerify("PCH", flash["PCH"]["active"]) ]_vars
=============================================================================
