---------------------------- MODULE PfrWatchdog ----------------------------
(***************************************************************************)
(* Boot monitoring: the checkpoint handlers of wdt_handler.c, without ME    *)
(* support.  A handler is a function of the boot-done bits and the running  *)
(* timers; its result says which bits and timers follow, whether the boot   *)
(* failed (a WDT_TIMEOUT event) and whether a component just finished       *)
(* booting (log_t0_timed_boot_complete_if_ready is called).                 *)
(***************************************************************************)
EXTENDS Naturals

BootBits == {"BMC", "ACM", "IBB", "OBB"}      \* WDT_*_BOOT_DONE_MASK
Timers   == {"BMC", "ACM", "BIOS"}            \* BMC_TIMER, ACM_TIMER, BIOS_TIMER
Sources  == {"BmcCheckpoint", "AcmCheckpoint", "BiosCheckpoint"}
Commands == {"Start", "Pause", "Resume", "AuthFail", "Complete"}

\* The boot-done bits of a host: WDT_BMC_BOOT_DONE_MASK, WDT_PCH_BOOT_DONE_MASK.
BitsOf(h) == IF h = "BMC" THEN {"BMC"} ELSE {"ACM", "IBB", "OBB"}

Progress(b, t, failed, done) ==
    [booted |-> b, timers |-> t, failed |-> failed, done |-> done]

\* Pause, resume and restart, common to the three handlers.
Clock(cmd, timer, t) ==
    CASE cmd \in {"Start", "Resume"}   -> t \cup {timer}
      [] cmd \in {"Pause", "AuthFail"} -> t \ {timer}
      [] OTHER                         -> t

\* bmc_wdt_handler
BmcWdt(cmd, b, t) ==
    IF cmd = "Complete" THEN Progress(b \cup {"BMC"}, t \ {"BMC"}, FALSE, TRUE)
    ELSE Progress(b, Clock(cmd, "BMC", t), cmd = "AuthFail", FALSE)

\* acm_wdt_handler: START and DONE are not processed.
AcmWdt(cmd, b, t) ==
    Progress(b, IF cmd \in {"Start", "Complete"} THEN t ELSE Clock(cmd, "ACM", t),
             cmd = "AuthFail", FALSE)

\* bios_wdt_handler: one timer for IBB and then OBB.
BiosWdt(cmd, b, t) ==
    CASE cmd = "Complete" /\ "IBB" \in b    ->
             Progress(b \cup {"OBB"}, t \ {"BIOS"}, FALSE, TRUE)
      [] cmd = "Complete" /\ "IBB" \notin b ->
             Progress(b \cup {"IBB"}, t \cup {"BIOS"}, FALSE, FALSE)
      [] cmd = "Start" /\ "IBB" \notin b    ->
             Progress(b \cup {"ACM"}, (t \ {"ACM"}) \cup {"BIOS"}, FALSE, FALSE)
      [] OTHER ->
             Progress(b, Clock(cmd, "BIOS", t), cmd = "AuthFail", FALSE)

\* UpdateBmcCheckpoint, UpdateAcmCheckpoint, UpdateBiosCheckpoint: a component
\* that finished booting is not monitored any more.
UpdateCheckpoint(src, cmd, b, t) ==
    CASE src = "BmcCheckpoint"  /\ "BMC" \notin b -> BmcWdt(cmd, b, t)
      [] src = "AcmCheckpoint"  /\ "ACM" \notin b -> AcmWdt(cmd, b, t)
      [] src = "BiosCheckpoint" /\ "OBB" \notin b -> BiosWdt(cmd, b, t)
      [] OTHER                                    -> Progress(b, t, FALSE, FALSE)

\* is_timed_boot_done
IsTimedBootDone(b) == b = BootBits

\* Which host a failed checkpoint or an expired timer blames.
BlamedBy(s) == IF s \in {"BmcCheckpoint", "BMC"} THEN "BMC" ELSE "PCH"
=============================================================================
