-------------------------- MODULE PfrStateMachine --------------------------
(***************************************************************************)
(* The PFR state machine of the AST1060 root of trust (RoT): the thread     *)
(* AspeedStateMachine() that takes events from aspeed_sm_fifo, the handlers *)
(* its states run, the flash and the UFM they write, and the hosts, timers, *)
(* power failures and flash faults around it.                               *)
(*                                                                          *)
(* Configuration modelled: Intel PFR with seamless update, without SPDM     *)
(* attestation, PIT and platform-CPLD update (ast1060_dcscm_dice.conf); the *)
(* checkpoint-recovery options are constants.                               *)
(*                                                                          *)
(* The thread dispatches an event (transition, exit and entry actions) in   *)
(* one step and runs the new state's run function in the next ones.  A step *)
(* rewrites at most one flash region, so that a power failure can fall      *)
(* before, inside and after every rewrite.                                  *)
(***************************************************************************)
EXTENDS PfrImages, PfrWatchdog, Sequences, FiniteSets

CONSTANTS
    BmcCheckpointRecovery,   \* CONFIG_BMC_CHECKPOINT_RECOVERY
    PchCheckpointRecovery,   \* CONFIG_PCH_CHECKPOINT_RECOVERY
    MaxUpdFailed,            \* MAX_UPD_FAILED_ALLOWED
    HeapEvents,              \* events k_malloc can hold before it fails
    Scenario                 \* name -> what happens around the RoT

States == {"BOOT", "INIT", "ROT_RECOVERY", "FIRMWARE_VERIFY", "FIRMWARE_RECOVERY",
           "FIRMWARE_UPDATE", "UNPROVISIONED", "RUNTIME", "SEAMLESS_UPDATE",
           "SEAMLESS_VERIFY", "SYSTEM_LOCKDOWN", "SYSTEM_REBOOT"}

\* state_table: the children of TMIN1 and of TZERO.
Tmin1 == {"FIRMWARE_VERIFY", "FIRMWARE_RECOVERY", "FIRMWARE_UPDATE", "SYSTEM_LOCKDOWN"}
Tzero == {"UNPROVISIONED", "RUNTIME", "SEAMLESS_UPDATE", "SEAMLESS_VERIFY"}

Events == {"START_STATE_MACHINE", "INIT_DONE", "INIT_ROT_SECONDARY_BOOTED",
           "VERIFY_UNPROVISIONED", "VERIFY_FAILED", "VERIFY_DONE",
           "RECOVERY_DONE", "RECOVERY_FAILED", "RESET_DETECTED",
           "UPDATE_REQUESTED", "UPDATE_DONE", "UPDATE_FAILED", "PROVISION_CMD",
           "WDT_CHECKPOINT", "WDT_TIMEOUT", "UPDATE_INTENT_2_REQUESTED",
           "SEAMLESS_UPDATE_DONE", "SEAMLESS_UPDATE_FAILED",
           "SEAMLESS_VERIFY_DONE", "SEAMLESS_VERIFY_FAILED"}
SeamlessEvents == {"SEAMLESS_UPDATE_DONE", "SEAMLESS_UPDATE_FAILED",
                   "SEAMLESS_VERIFY_DONE", "SEAMLESS_VERIFY_FAILED"}

\* union aspeed_event_data: bit8[0] the source, bit8[1] the intent (or the
\* checkpoint or UFM command), bit8[2] the reset policy, bit8[3] what was
\* handled.  "undef" is a byte the code leaves uninitialised.
Intent1     == {"BmcActive", "BmcRecovery", "PchActive", "PchRecovery",
                "HROTActive", "HROTRecovery"}
Intent2     == {"AfmActive", "AfmRecovery", "CPLD"}
UfmCommands == {"ERASE_CURRENT", "PROVISION_ROOT_KEY", "PROVISION_PCH_OFFSET",
                "PROVISION_BMC_OFFSET", "LOCK_UFM"}
IntentBits  == Intent1 \cup Intent2 \cup UfmCommands \cup Commands
                 \cup {"AtReset", "Seamless", "Ack"}
ResetBits   == {"BmcOnlyReset", "PchOnlyReset", "BootDoneRecovery"}
Origins     == {"none", "undef", "BmcUpdateIntent", "PchUpdateIntent",
                "BmcUpdateIntent2", "PchUpdateIntent2", "UfmCommand"}
                 \cup Hosts \cup Sources
Data  == [src : Origins, intent : SUBSET IntentBits,
          reset : SUBSET ResetBits, handled : SUBSET Intent1]
Event == [ev : Events, d : Data]
NULL  == [src |-> "none", intent |-> {}, reset |-> {}, handled |-> {}]

\* CPLD_STATUS in the update-status UFM.
ActFlags == {"none", "BMC_AT_RESET", "PCH_AT_RESET"}
RcvFlags == ActFlags \cup {"BMC_PENDING", "PCH_PENDING", "HANDLED"}
CpldStatus == [status : SUBSET Images,             \* CpldStatus, BmcStatus, PchStatus
               active : [Images -> ActFlags],      \* Region[].ActiveRegion
               recovery : [Images -> RcvFlags],    \* Region[].Recoveryregion
               toPch : BOOLEAN]                    \* BmcToPchStatus
NoFlags == [i \in Images |-> "none"]
ClearCpld == [status |-> {}, active |-> NoFlags, recovery |-> NoFlags, toPch |-> FALSE]

\* The provisioning bits of the UFM status word.
UfmBits == {"root", "pch", "bmc", "lock"}
Ownership == [active : BOOLEAN, recovery : BOOLEAN, restrict : BOOLEAN]

\* The surroundings of a run: what flash and UFM hold when power is first
\* applied, what the hosts may ask for, report, provision and stage, and the
\* bounds: requests, UFM commands and staging; checkpoints; failing flash
\* writes; images corrupted while their host runs; BMC resets and expired
\* timers; power failures.
Request == [ev : {"UPDATE_REQUESTED", "UPDATE_INTENT_2_REQUESTED"},
            src : {"BmcUpdateIntent", "PchUpdateIntent",
                   "BmcUpdateIntent2", "PchUpdateIntent2"},
            intent : SUBSET IntentBits]
Surroundings ==
    [flash : Flash, ufm : SUBSET UfmBits,
     requests : SUBSET Request, checkpoints : SUBSET (Sources \X Commands),
     provisions : SUBSET UfmCommands, stageable : SUBSET (Images \X Content),
     req : Nat, check : Nat, fault : Nat, corrupt : Nat, reset : Nat, loss : Nat]

ASSUME ConfigAssumption ==
    /\ BmcCheckpointRecovery \in BOOLEAN /\ PchCheckpointRecovery \in BOOLEAN
    /\ MaxUpdFailed \in Nat \ {0} /\ HeapEvents \in Nat \ {0}
    /\ Scenario \in [DOMAIN Scenario -> Surroundings]
-----------------------------------------------------------------------------
VARIABLES
    state, pc, ev, fifo,     \* smf_context: state, position, event_ctx; the FIFO
    dropped,                 \* history: GenerateStateMachineEvent found no memory
    hold, mux,               \* hosts held in reset; flashes muxed to the RoT
    armed,                   \* BMC reset monitor
    ao, last,                \* active objects; last_*_verify_status
    flash, cpld, hash, svn, ufm,   \* non-volatile: flash, UFM
    lcpld, upd, rec,         \* locals of handle_update_requested, handle_recovery
    fails,                   \* gFailedUpdateAttempts
    booted, timers, ack,     \* gWdtBootStatus, k_timers, SeamlessUpdateAck
    spent                    \* how much of each bound is used

smVars     == <<state, pc, ev, fifo, dropped>>
pinVars    == <<hold, mux, armed>>
aoVars     == <<ao, last>>
ufmVars    == <<cpld, hash, svn, ufm>>
localVars  == <<lcpld, upd, rec>>
bootVars   == <<booted, timers, ack>>
vars == <<smVars, pinVars, aoVars, flash, ufmVars, localVars, fails, bootVars, spent>>

Pcs == {"wait", "run", "rot", "rec", "upd", "copy", "prog", "hung", "dead"}
Update == [left : SUBSET Intent1, handled : SUBSET Intent1, ok : BOOLEAN,
           image : Images \cup {"none"}, sel : {"active", "recovery"}, obj : Hosts]
Recovery == [step : 1 .. 4, done : BOOLEAN, index : Hosts \cup {"none"}]
Budget == [scn : DOMAIN Scenario, req : Nat, check : Nat, fault : Nat, corrupt : Nat,
           reset : Nat, loss : Nat]
Around == Scenario[spent.scn]

\* One value per variable type; the locals have a value even when unused.
TypeOK ==
    /\ state \in States /\ pc \in Pcs /\ ev \in Event /\ fifo \in Seq(Event)
    /\ dropped \in BOOLEAN
    /\ hold \subseteq Hosts /\ mux \subseteq Hosts /\ armed \in BOOLEAN
    /\ ao \in [Hosts -> Ownership] /\ last \in [Hosts -> Ownership]
    /\ flash \in Flash
    /\ cpld \in CpldStatus /\ hash \in [Images -> Content]
    /\ svn \in [Images -> Svns] /\ ufm \subseteq UfmBits
    /\ lcpld \in CpldStatus /\ upd \in Update /\ rec \in Recovery
    /\ fails \in 0 .. MaxUpdFailed
    /\ booted \subseteq BootBits /\ timers \subseteq Timers /\ ack \in BOOLEAN
    /\ spent \in Budget

-----------------------------------------------------------------------------
(* Helpers.                                                                 *)

Evt(name, d) == [ev |-> name, d |-> d]

\* GenerateStateMachineEvent: an event is lost when k_malloc fails.
GenerateStateMachineEvent(name, d) ==
    /\ fifo' = IF Len(fifo) < HeapEvents THEN Append(fifo, Evt(name, d)) ELSE fifo
    /\ dropped' = (dropped \/ Len(fifo) >= HeapEvents)

Provisioned == {"root", "pch", "bmc"} \subseteq ufm        \* GetUfmStatusValue

\* What the RoT reads: a flash that is muxed to its host answers nothing.
\* The RoT's own staging region is in the BMC's flash, its firmware is not.
Reach(i, slot) == CASE i = "ROT" /\ slot # "staging" -> TRUE
                    [] i = "ROT" /\ slot = "staging" -> "BMC" \in mux
                    [] OTHER                         -> i \in mux
Read(i, slot) == IF Reach(i, slot) THEN flash[i][slot] ELSE Corrupt

\* Outcomes of erasing and writing a region: a flash the RoT does not own is
\* unchanged whatever the driver returns; a failing write leaves no image.
Writes(i, slot, c) ==
    IF Reach(i, slot)
    THEN {[c |-> c, ok |-> TRUE, fault |-> 0]}
           \cup (IF spent.fault < Around.fault
                 THEN {[c |-> Corrupt, ok |-> FALSE, fault |-> 1]} ELSE {})
    ELSE {[c |-> flash[i][slot], ok |-> b, fault |-> 0] : b \in BOOLEAN}

Rewrite(i, slot, w) ==
    /\ flash' = [flash EXCEPT ![i][slot] = w.c]
    /\ spent' = [spent EXCEPT !.fault = @ + w.fault]

\* LogUpdateFailure(.., 1); every count from MaxUpdFailed on is the same.
Failed(n) == IF n < MaxUpdFailed THEN n + 1 ELSE n

NoUpdate == [left |-> {}, handled |-> {}, ok |-> TRUE, image |-> "none",
             sel |-> "active", obj |-> "BMC"]
NoRecovery == [step |-> 1, done |-> FALSE, index |-> "none"]
BadImage == [active |-> FALSE, recovery |-> FALSE, restrict |-> FALSE]

-----------------------------------------------------------------------------
(* Power on, sys_reboot.                                                    *)

\* The boot ROM starts the RoT's active firmware, or through ABR its recovery
\* firmware; with neither the RoT does not start and the hosts stay held.
Alive(f) == f["ROT"]["active"].kind = "ROT" \/ f["ROT"]["recovery"].kind = "ROT"

\* Static data and hardware after a reset of the RoT.
Reset(f) ==
    /\ state' = "BOOT" /\ pc' = IF Alive(f) THEN "wait" ELSE "dead"
    /\ ev' = Evt("START_STATE_MACHINE", NULL)
    /\ fifo' = <<Evt("START_STATE_MACHINE", NULL)>>
    /\ dropped' = FALSE
    /\ hold' = Hosts /\ mux' = Hosts /\ armed' = FALSE
    /\ ao' = [h \in Hosts |-> BadImage] /\ last' = [h \in Hosts |-> BadImage]
    /\ lcpld' = ClearCpld /\ upd' = NoUpdate /\ rec' = NoRecovery
    /\ fails' = 0 /\ booted' = {} /\ timers' = {} /\ ack' = FALSE

Init ==
    /\ spent \in [scn : DOMAIN Scenario, req : {0}, check : {0}, fault : {0}, corrupt : {0},
                  reset : {0}, loss : {0}]
    /\ state = "BOOT" /\ pc = IF Alive(Around.flash) THEN "wait" ELSE "dead"
    /\ ev = Evt("START_STATE_MACHINE", NULL)
    /\ fifo = <<Evt("START_STATE_MACHINE", NULL)>>
    /\ dropped = FALSE
    /\ hold = Hosts /\ mux = Hosts /\ armed = FALSE
    /\ ao = [h \in Hosts |-> BadImage] /\ last = [h \in Hosts |-> BadImage]
    /\ flash = Around.flash
    /\ cpld = ClearCpld /\ hash = [i \in Images |-> Corrupt]
    /\ svn = [i \in Images |-> 0] /\ ufm = Around.ufm
    /\ lcpld = ClearCpld /\ upd = NoUpdate /\ rec = NoRecovery
    /\ fails = 0 /\ booted = {} /\ timers = {} /\ ack = FALSE


-----------------------------------------------------------------------------
(* AspeedStateMachine(): dispatch.                                          *)

\* The unconditional rows of the dispatch switch: state, event, next state.
Transitions ==
    { <<"BOOT",              "START_STATE_MACHINE",       "INIT">>,
      <<"INIT",              "INIT_DONE",                 "FIRMWARE_VERIFY">>,
      <<"INIT",              "INIT_ROT_SECONDARY_BOOTED", "ROT_RECOVERY">>,
      <<"ROT_RECOVERY",      "RECOVERY_DONE",             "SYSTEM_REBOOT">>,
      <<"ROT_RECOVERY",      "RECOVERY_FAILED",           "SYSTEM_LOCKDOWN">>,
      <<"FIRMWARE_VERIFY",   "UPDATE_REQUESTED",          "FIRMWARE_UPDATE">>,
      <<"FIRMWARE_VERIFY",   "VERIFY_UNPROVISIONED",      "UNPROVISIONED">>,
      <<"FIRMWARE_VERIFY",   "VERIFY_FAILED",             "FIRMWARE_RECOVERY">>,
      <<"FIRMWARE_VERIFY",   "VERIFY_DONE",               "RUNTIME">>,
      <<"FIRMWARE_VERIFY",   "RECOVERY_FAILED",           "SYSTEM_LOCKDOWN">>,
      <<"FIRMWARE_RECOVERY", "RECOVERY_DONE",             "FIRMWARE_VERIFY">>,
      <<"FIRMWARE_RECOVERY", "RECOVERY_FAILED",           "SYSTEM_LOCKDOWN">>,
      <<"FIRMWARE_UPDATE",   "UPDATE_FAILED",             "FIRMWARE_VERIFY">>,
      <<"RUNTIME",           "RESET_DETECTED",            "FIRMWARE_VERIFY">>,
      <<"UNPROVISIONED",     "RESET_DETECTED",            "FIRMWARE_VERIFY">>,
      <<"SEAMLESS_UPDATE",   "SEAMLESS_UPDATE_DONE",      "SEAMLESS_VERIFY">>,
      <<"SEAMLESS_UPDATE",   "SEAMLESS_UPDATE_FAILED",    "RUNTIME">> }

\* Update intents are refused after too many failures.
Allowed == fails < MaxUpdFailed

\* UPDATE_DONE: a new RoT image is started by a reboot.
AfterUpdate(d) ==
    IF d.src = "BmcUpdateIntent" /\ "HROTActive" \in d.handled
    THEN "SYSTEM_REBOOT" ELSE "FIRMWARE_VERIFY"

\* The state an event leads to; {} when the event causes no transition.
Successors(e) ==
    {row[3] : row \in {r \in Transitions : r[1] = state /\ r[2] = e.ev}}
    \cup {t \in {AfterUpdate(e.d)} : state = "FIRMWARE_UPDATE" /\ e.ev = "UPDATE_DONE"}
    \cup {t \in {"FIRMWARE_UPDATE"} :
            /\ state = "RUNTIME" /\ e.ev = "UPDATE_REQUESTED" /\ Allowed
            /\ e.d.intent \cap Intent1 # {} /\ "AtReset" \notin e.d.intent}
    \cup {t \in {"FIRMWARE_RECOVERY"} :
            /\ state = "RUNTIME" /\ e.ev = "WDT_TIMEOUT"
            /\ \/ BmcCheckpointRecovery /\ e.d.src = "BMC"
               \/ PchCheckpointRecovery /\ e.d.src = "PCH"}
    \cup {t \in {"FIRMWARE_UPDATE"} :
            /\ state = "RUNTIME" /\ e.ev = "UPDATE_INTENT_2_REQUESTED" /\ Allowed
            /\ e.d.intent \cap Intent2 # {}}
    \cup {t \in {"SEAMLESS_UPDATE"} :
            /\ state = "RUNTIME" /\ e.ev = "UPDATE_INTENT_2_REQUESTED" /\ Allowed
            /\ e.d.intent \cap Intent2 = {} /\ "Seamless" \in e.d.intent}
    \cup {t \in {"RUNTIME"} : state = "SEAMLESS_VERIFY"}

\* Events whose handler runs without a transition (run_state).
RunsInPlace(e) ==
    \/ state \in {"RUNTIME", "UNPROVISIONED"} /\ e.ev \in {"PROVISION_CMD", "WDT_CHECKPOINT"}
    \/ /\ state = "RUNTIME" /\ e.ev = "UPDATE_REQUESTED" /\ Allowed
       /\ e.d.intent \cap Intent1 # {} /\ "AtReset" \in e.d.intent

\* Mutant: leaving UNPROVISIONED is treated like any BMC reset.
HeldAtTmin1_BmcReset(e) ==
    CASE e.d.src = "BmcUpdateIntent" ->
           IF e.d.intent \cap Intent1 = {"BmcActive"} THEN {"BMC"} ELSE Hosts
      [] e.d.src = "PchUpdateIntent" ->
           IF e.d.intent \cap Intent1 = {"PchActive"} THEN {"PCH"} ELSE Hosts
      [] OTHER -> IF e.ev = "RESET_DETECTED" THEN {"BMC"} ELSE Hosts

\* enter_tmin1: the hosts to hold.  Only an update of one active image, or a
\* BMC reset, holds a single host; leaving UNPROVISIONED by a reset after
\* provisioning holds both.
HeldAtTmin1(e) ==
    LET regions == e.d.intent \cap Intent1
    IN  CASE e.d.src = "BmcUpdateIntent" ->
               IF regions = {"BmcActive"} THEN {"BMC"} ELSE Hosts
          [] e.d.src = "PchUpdateIntent" ->
               IF regions = {"PchActive"} THEN {"PCH"} ELSE Hosts
          [] e.d.src \notin {"BmcUpdateIntent", "PchUpdateIntent"} /\ e.ev = "RESET_DETECTED" ->
               IF state = "UNPROVISIONED" /\ Provisioned THEN Hosts ELSE {"BMC"}
          [] OTHER -> Hosts

OnlyBit(hosts) == CASE hosts = {"BMC"} -> {"BmcOnlyReset"}
                    [] hosts = {"PCH"} -> {"PchOnlyReset"}
                    [] OTHER           -> {}

\* enter_tmin1 records in the event which host alone is reset.
Tmin1Policy(reset, hosts) ==
    IF hosts = Hosts THEN reset \ {"BmcOnlyReset", "PchOnlyReset"}
                     ELSE reset \cup OnlyBit(hosts)

\* The hosts an event with this reset policy is about.
Scope(reset) == CASE "BmcOnlyReset" \in reset -> {"BMC"}
                  [] "BmcOnlyReset" \notin reset /\ "PchOnlyReset" \in reset -> {"PCH"}
                  [] OTHER -> Hosts

\* enter_tzero: after a reset of both hosts only a host whose active image was
\* found good is released; after a reset of one host that host is.
ReleasedAtTzero(t, d) ==
    IF t = "RUNTIME" /\ Scope(d.reset) = Hosts
    THEN {h \in Hosts : ao[h].active}
    ELSE Scope(d.reset)

\* enter_runtime starts the boot timers of the hosts just released.
StartedTimers(d) ==
    {t \in {"BMC"} : BmcCheckpointRecovery /\ "BMC" \in Scope(d.reset)}
    \cup {t \in {"ACM"} : PchCheckpointRecovery /\ "PCH" \in Scope(d.reset)}

\* Mutant: locking down holds no more than T-1 already does.
HeldOnEntry_Tmin1(t, e) ==
    IF t \in Tmin1 /\ state \notin Tmin1 THEN HeldAtTmin1(e) ELSE {}

\* The hosts a transition takes: enter_lockdown holds both.
HeldOnEntry(t, e) ==
    CASE t = "SYSTEM_LOCKDOWN" -> Hosts
      [] t \in Tmin1 \ {"SYSTEM_LOCKDOWN"} /\ state \notin Tmin1 -> HeldAtTmin1(e)
      [] OTHER -> {}

\* smf_set_state: exit and entry functions; siblings share their parent's.
Goto(t) ==
    LET e      == Head(fifo)
        tmin1  == t \in Tmin1 /\ state \notin Tmin1
        tzero  == t \in Tzero /\ state \notin Tzero
        taken  == HeldOnEntry(t, e)
        freed  == IF tzero THEN ReleasedAtTzero(t, e.d) ELSE {}
    IN  /\ state' = t
        /\ pc' = "run"
        /\ ev' = IF tmin1 THEN [e EXCEPT !.d.reset = Tmin1Policy(@, HeldAtTmin1(e))] ELSE e
        /\ hold' = (hold \cup taken) \ freed
        /\ mux' = (mux \cup taken) \ freed
        /\ armed' = IF tzero THEN TRUE ELSE armed /\ t \in Tzero
        /\ booted' = IF tmin1 THEN booted \ UNION {BitsOf(h) : h \in HeldAtTmin1(e)}
                              ELSE booted
        /\ timers' = IF t = "RUNTIME" /\ e.ev \notin SeamlessEvents
                     THEN timers \cup StartedTimers(e.d) ELSE timers
        /\ fails' = CASE state = "FIRMWARE_UPDATE" /\ e.ev = "UPDATE_DONE"  -> 0
                      [] state = "SEAMLESS_UPDATE" /\ t = "SEAMLESS_VERIFY"   -> 0
                      [] state = "SEAMLESS_UPDATE" /\ t = "RUNTIME"           -> Failed(fails)
                      [] OTHER                                                -> fails

\* One event is taken from the FIFO: it causes a transition, runs the current
\* state's handler, or is discarded.
Take == pc = "wait" /\ fifo # <<>> /\ fifo' = Tail(fifo)

Transition ==
    /\ Take
    /\ \E t \in Successors(Head(fifo)) : Goto(t)
    /\ UNCHANGED <<dropped, aoVars, flash, ufmVars, localVars, ack, spent>>

RunInPlace ==
    /\ Take
    /\ Successors(Head(fifo)) = {} /\ RunsInPlace(Head(fifo))
    /\ pc' = "run" /\ ev' = Head(fifo)
    /\ UNCHANGED <<state, dropped, pinVars, aoVars, flash, ufmVars, localVars, fails,
                   bootVars, spent>>

Discard ==
    /\ Take
    /\ Successors(Head(fifo)) = {} /\ ~RunsInPlace(Head(fifo))
    /\ UNCHANGED <<state, pc, ev, dropped, pinVars, aoVars, flash, ufmVars, localVars, fails,
                   bootVars, spent>>

-----------------------------------------------------------------------------
(* INIT, ROT_RECOVERY, SYSTEM_LOCKDOWN, SYSTEM_REBOOT.                      *)

Running(s) == pc = "run" /\ state = s

\* do_init.  The boot ROM falls back to the recovery firmware exactly when
\* the active one does not authenticate.
DoInit ==
    /\ Running("INIT")
    /\ pc' = "wait"
    /\ hold' = Hosts /\ mux' = Hosts
    /\ ao' = [h \in Hosts |-> BadImage]
    /\ GenerateStateMachineEvent(
           IF flash["ROT"]["active"].kind = "ROT" THEN "INIT_DONE"
                                                  ELSE "INIT_ROT_SECONDARY_BOOTED", NULL)
    /\ UNCHANGED <<state, ev, armed, last, flash, ufmVars, localVars, fails, bootVars, spent>>

\* Mutant: the partitions are swapped in the erase.
DoRotErase_Recovery ==
    /\ Running("ROT_RECOVERY")
    /\ pc' = "rot"
    /\ cpld' = [cpld EXCEPT !.recovery["ROT"] = "none"]
    /\ flash' = [flash EXCEPT !["ROT"]["recovery"] = Corrupt]
    /\ UNCHANGED <<state, ev, fifo, dropped, pinVars, aoVars, hash, svn, ufm, localVars, fails,
                   bootVars, spent>>

\* do_rot_recovery, to the erase of the active partition: a failing erase
\* posts RECOVERY_FAILED and the copy is tried all the same.
DoRotErase ==
    /\ Running("ROT_RECOVERY")
    /\ pc' = "rot"
    /\ cpld' = [cpld EXCEPT !.recovery["ROT"] = "none"]
    /\ \/ UNCHANGED <<fifo, dropped, spent>>
       \/ /\ spent.fault < Around.fault
          /\ spent' = [spent EXCEPT !.fault = @ + 1]
          /\ GenerateStateMachineEvent("RECOVERY_FAILED", NULL)
    /\ flash' = [flash EXCEPT !["ROT"]["active"] = Corrupt]
    /\ UNCHANGED <<state, ev, pinVars, aoVars, hash, svn, ufm, localVars, fails, bootVars>>

\* do_rot_recovery, the copy of the recovery partition.
DoRotCopy ==
    /\ pc = "rot"
    /\ pc' = "wait"
    /\ \E w \in Writes("ROT", "active", flash["ROT"]["recovery"]) :
          /\ Rewrite("ROT", "active", w)
          /\ GenerateStateMachineEvent(
                 IF w.ok THEN "RECOVERY_DONE" ELSE "RECOVERY_FAILED", NULL)
    /\ UNCHANGED <<state, ev, pinVars, aoVars, ufmVars, localVars, fails, bootVars>>

\* do_lockdown does nothing, and no event leaves the state.
DoLockdown ==
    /\ Running("SYSTEM_LOCKDOWN")
    /\ pc' = "wait"
    /\ UNCHANGED <<state, ev, fifo, dropped, pinVars, aoVars, flash, ufmVars, localVars,
                   fails, bootVars, spent>>

\* do_reboot, pfr_cpld_update_reboot
DoReboot ==
    /\ Running("SYSTEM_REBOOT")
    /\ Reset(flash)
    /\ UNCHANGED <<flash, ufmVars, spent>>

-----------------------------------------------------------------------------
(* FIRMWARE_VERIFY: handle_image_verification.                              *)

\* has_pending_update: the updates requested "at reset".  A PCH request waits
\* while only the BMC is reset.
Honoured(reset) == IF "BmcOnlyReset" \in reset THEN cpld.status \ {"PCH"} ELSE cpld.status

PendingIntent(reset) ==
    LET H == Honoured(reset)
    IN  {b \in {"PchActive"} : "PCH" \in H /\ cpld.active["PCH"] # "none"}
        \cup {b \in {"PchRecovery"} :
                "PCH" \in H /\ cpld.recovery["PCH"] \in {"BMC_AT_RESET", "PCH_AT_RESET"}}
        \cup {b \in {"HROTActive"} : "ROT" \in H /\ cpld.active["ROT"] = "BMC_AT_RESET"}
        \cup {b \in {"HROTRecovery"} : "ROT" \in H /\ cpld.recovery["ROT"] = "BMC_AT_RESET"}
        \cup {b \in {"BmcActive"} : "BMC" \in H /\ cpld.active["BMC"] = "BMC_AT_RESET"}
        \cup {b \in {"BmcRecovery"} : "BMC" \in H /\ cpld.recovery["BMC"] = "BMC_AT_RESET"}

\* Mutant: the source of the event under way is kept unless the PCH asked.
PendingSource_Kept(reset) ==
    IF "PCH" \in Honoured(reset) THEN "PchUpdateIntent" ELSE ev.d.src

PendingSource(reset) ==
    IF /\ "PCH" \in Honoured(reset)
       /\ "PCH_AT_RESET" \in {cpld.active["PCH"], cpld.recovery["PCH"]}
    THEN "PchUpdateIntent" ELSE "BmcUpdateIntent"

\* The flags that are cleared: only the RoT's recovery flag is among them.
WithoutPending(reset) ==
    LET H == Honoured(reset)
    IN  [cpld EXCEPT !.status = @ \ H,
                     !.active = [i \in Images |-> IF i \in H THEN "none" ELSE @[i]],
                     !.recovery["ROT"] = IF "ROT" \in H THEN "none" ELSE @]

VerifyUnprovisioned ==
    /\ Running("FIRMWARE_VERIFY") /\ ~Provisioned
    /\ pc' = "wait"
    /\ GenerateStateMachineEvent("VERIFY_UNPROVISIONED", ev.d)
    /\ UNCHANGED <<state, ev, pinVars, aoVars, flash, ufmVars, localVars, fails, bootVars, spent>>

VerifyPendingUpdate ==
    /\ Running("FIRMWARE_VERIFY") /\ Provisioned /\ Honoured(ev.d.reset) # {}
    /\ pc' = "wait"
    /\ cpld' = WithoutPending(ev.d.reset)
    /\ GenerateStateMachineEvent("UPDATE_REQUESTED",
           [ev.d EXCEPT !.src = PendingSource(ev.d.reset),
                        !.intent = PendingIntent(ev.d.reset)])
    /\ UNCHANGED <<state, ev, pinVars, aoVars, flash, hash, svn, ufm, localVars, fails,
                   bootVars, spent>>

\* Mutant: a reset reuses the verdicts of the boot before it.
Verified_Cached(h) ==
    IF h \in Scope(ev.d.reset) /\ ev.ev # "RESET_DETECTED"
    THEN [active   |-> ActiveVerify(h, Read(h, "active")),
          recovery |-> RecoveryVerify(Read(h, "recovery"), svn[h])]
    ELSE [active |-> last[h].active, recovery |-> last[h].recovery]

\* verify_image on the hosts in scope; for a host that is not reset the last
\* result is reused.
Verified(h) ==
    IF h \in Scope(ev.d.reset)
    THEN [active   |-> ActiveVerify(h, Read(h, "active")),
          recovery |-> RecoveryVerify(Read(h, "recovery"), svn[h])]
    ELSE [active |-> last[h].active, recovery |-> last[h].recovery]

\* RestrictActiveUpdate survives only while recovery alone is bad.
Checked(h) ==
    LET v == Verified(h)
    IN  [active |-> v.active, recovery |-> v.recovery,
         restrict |-> ao[h].restrict /\ v.active /\ ~v.recovery]

\* Mutants: one good host is enough after a recovery; a recovery that did not
\* repair everything is tried again.
VerifyOutcome_AnyHost(checked) ==
    IF \/ ev.ev = "RECOVERY_DONE" /\ \E h \in Hosts : checked[h].active
       \/ \A h \in Hosts : checked[h].active /\ checked[h].recovery
    THEN "VERIFY_DONE" ELSE "VERIFY_FAILED"
VerifyOutcome_Retry(checked) ==
    IF \A h \in Hosts : checked[h].active /\ checked[h].recovery
    THEN "VERIFY_DONE" ELSE "VERIFY_FAILED"

\* After a recovery the BMC's active image alone decides.
VerifyOutcome(checked) ==
    IF ev.ev = "RECOVERY_DONE"
    THEN IF checked["BMC"].active THEN "VERIFY_DONE" ELSE "RECOVERY_FAILED"
    ELSE IF \A h \in Hosts : checked[h].active /\ checked[h].recovery
         THEN "VERIFY_DONE" ELSE "VERIFY_FAILED"

VerifyImages ==
    /\ Running("FIRMWARE_VERIFY") /\ Provisioned /\ Honoured(ev.d.reset) = {}
    /\ pc' = "wait"
    /\ ao' = [h \in Hosts |-> Checked(h)]
    /\ last' = [h \in Hosts |-> [Checked(h) EXCEPT !.restrict = FALSE]]
    /\ svn' = [i \in Images |->
                 IF i \in Scope(ev.d.reset) THEN RaisedFloor(Read(i, "recovery"), svn[i])
                                            ELSE svn[i]]
    /\ GenerateStateMachineEvent(VerifyOutcome([h \in Hosts |-> Checked(h)]), ev.d)
    /\ UNCHANGED <<state, ev, pinVars, flash, cpld, hash, ufm, localVars, fails, bootVars, spent>>

-----------------------------------------------------------------------------
(* FIRMWARE_RECOVERY: handle_recovery, one recover_image call per step.     *)

\* The order of the calls.
Step(k) == CASE k = 1 -> [h |-> "BMC", slot |-> "recovery"]
             [] k = 2 -> [h |-> "BMC", slot |-> "active"]
             [] k = 3 -> [h |-> "PCH", slot |-> "recovery"]
             [] k = 4 -> [h |-> "PCH", slot |-> "active"]

\* Mutant: a boot that timed out leaves the active image's verdict alone.
RecoveryStart_Unblamed ==
    /\ Running("FIRMWARE_RECOVERY")
    /\ pc' = "rec"
    /\ rec' = NoRecovery
    /\ UNCHANGED <<state, ev, fifo, dropped, pinVars, aoVars, flash, ufmVars, lcpld, upd,
                   fails, bootVars, spent>>

\* A boot that timed out makes the active image as good as corrupt.
RecoveryStart ==
    /\ Running("FIRMWARE_RECOVERY")
    /\ pc' = "rec"
    /\ LET blamed == {h \in Hosts : ev.ev = "WDT_TIMEOUT" /\ ev.d.src = h}
       IN  /\ ao' = [h \in Hosts |-> IF h \in blamed THEN [ao[h] EXCEPT !.active = FALSE]
                                                     ELSE ao[h]]
           /\ rec' = [NoRecovery EXCEPT !.index = IF blamed = {} THEN "none" ELSE ev.d.src]
    /\ UNCHANGED <<state, ev, fifo, dropped, pinVars, last, flash, ufmVars, lcpld, upd,
                   fails, bootVars, spent>>

Bad(k) == ~ao[Step(k).h][Step(k).slot]
\* The call to make next: the first whose region is known to be bad.
NextCalls == {k \in rec.step .. 4 : Bad(k) /\ \A j \in rec.step .. k - 1 : ~Bad(j)}

PlanOf(h) == RecoverImage(h, ao[h], Read(h, "active"), Read(h, "recovery"),
                          Read(h, "staging"), Read("BMC", "staging"))

\* What the call's result means for handle_recovery: any PCH call counts as
\* done; a call for an active region selects whose pending flag is cleared.
Return(k, failure) ==
    [step  |-> IF k < 4 THEN k + 1 ELSE k,
     done  |-> rec.done \/ ~failure \/ Step(k).h = "PCH",
     index |-> IF Step(k).slot = "active" THEN Step(k).h ELSE rec.index]

\* clear_pending_recovery_update, and the event that ends the state.
RecoveryEnd(r) ==
    /\ pc' = "wait"
    /\ cpld' = IF r.index = "none" THEN cpld ELSE [cpld EXCEPT !.recovery[r.index] = "none"]
    /\ IF r.done
       THEN GenerateStateMachineEvent("RECOVERY_DONE",
                [NULL EXCEPT !.src = "undef", !.reset = ev.d.reset])
       ELSE GenerateStateMachineEvent("RECOVERY_FAILED", NULL)

\* The rest of handle_recovery after call k: the next call, or the end.
RecoveryGoesOn(k, r) ==
    /\ rec' = r
    /\ IF k < 4 THEN pc' = "rec" /\ UNCHANGED <<cpld, fifo, dropped>>
                ELSE RecoveryEnd(r)

RecoverNothing(k) ==
    LET p == PlanOf(Step(k).h)
    IN  /\ p.do \in {"fail", "restrict", "none"}
        /\ ao' = [ao EXCEPT ![Step(k).h].restrict = (@ \/ p.do = "restrict")]
        /\ RecoveryGoesOn(k, Return(k, p.do = "fail"))
        /\ UNCHANGED <<flash, spent>>

RecoverRegion(k) ==
    LET h == Step(k).h  p == PlanOf(h)
    IN  /\ p.do = "write"
        /\ \E w \in Writes(h, p.slot, p.with) :
              /\ Rewrite(h, p.slot, w)
              /\ ao' = IF w.ok THEN [ao EXCEPT ![h][p.slot] = TRUE] ELSE ao
              /\ RecoveryGoesOn(k, Return(k, ~w.ok))

\* pfr_staging_pch_staging inside recover_image: when the copied capsule
\* authenticates where it was copied, the same call goes on with it.
RecoverFetch(k) ==
    LET h == Step(k).h  p == PlanOf(h)
    IN  /\ p.do = "fetch"
        /\ \E w \in Writes(h, "staging", p.with) :
              /\ Rewrite(h, "staging", w)
              /\ IF w.ok /\ Reach(h, "staging")
                 THEN UNCHANGED <<pc, rec, cpld, fifo, dropped>>
                 ELSE RecoveryGoesOn(k, Return(k, TRUE))
        /\ UNCHANGED ao

RecoverImages ==
    /\ pc = "rec"
    /\ \E k \in NextCalls : RecoverNothing(k) \/ RecoverRegion(k) \/ RecoverFetch(k)
    /\ UNCHANGED <<state, ev, pinVars, last, hash, svn, ufm, lcpld, upd, fails, bootVars>>

RecoveryDone ==
    /\ pc = "rec" /\ NextCalls = {}
    /\ RecoveryEnd(rec)
    /\ UNCHANGED <<state, ev, pinVars, aoVars, flash, hash, svn, ufm, localVars, fails,
                   bootVars, spent>>

-----------------------------------------------------------------------------
(* FIRMWARE_UPDATE: handle_update_requested works on a local copy of        *)
(* CPLD_STATUS (lcpld) and writes it back when every region is handled.     *)

ActiveBit(i)   == CASE i = "BMC" -> "BmcActive"   [] i = "PCH" -> "PchActive"
                    [] i = "ROT" -> "HROTActive"
RecoveryBit(i) == CASE i = "BMC" -> "BmcRecovery" [] i = "PCH" -> "PchRecovery"
                    [] i = "ROT" -> "HROTRecovery"
BitsFor(i)     == {ActiveBit(i), RecoveryBit(i)}

\* In this build an intent of the second register names no region the loop
\* handles: it never ends.
UpdateStart ==
    /\ Running("FIRMWARE_UPDATE")
    /\ pc' = IF ev.d.src \in {"BmcUpdateIntent", "PchUpdateIntent"} THEN "upd" ELSE "hung"
    /\ upd' = [NoUpdate EXCEPT !.left = ev.d.intent \cap Intent1]
    /\ lcpld' = IF ev.d.src = "BmcUpdateIntent" /\ ev.d.intent \cap BitsFor("PCH") # {}
                THEN [cpld EXCEPT !.toPch = TRUE] ELSE cpld
    /\ UNCHANGED <<state, ev, fifo, dropped, pinVars, aoVars, flash, ufmVars, rec, fails,
                   bootVars, spent>>

\* The image the loop takes next: BMC before PCH before RoT.
NextImage == CASE upd.left \cap BitsFor("BMC") # {} -> "BMC"
               [] upd.left \cap BitsFor("BMC") = {} /\ upd.left \cap BitsFor("PCH") # {} -> "PCH"
               [] OTHER -> "ROT"

\* get_staging_hash: the hash stands for the content it is computed from.
StagingHash(i) == IF i = "PCH" /\ lcpld.toPch THEN Read("BMC", "staging") ELSE Read(i, "staging")

Pending(i) == lcpld.recovery[i] \in {"BMC_PENDING", "PCH_PENDING"}

\* The end of a loop iteration: a failure, of this region or of an earlier
\* one, clears the region's pending flag and posts UPDATE_FAILED.
EndIteration(ok, handled, status, i) ==
    /\ pc' = "upd"
    /\ ev' = [ev EXCEPT !.d.handled = handled]
    /\ IF ok
       THEN lcpld' = status /\ UNCHANGED <<fifo, dropped>>
       ELSE /\ lcpld' = [status EXCEPT !.recovery[i] = "none"]
            /\ GenerateStateMachineEvent("UPDATE_FAILED", [ev.d EXCEPT !.handled = handled])

\* handle_recovery_requested, a pending recovery update before the platform
\* has booted: skipped.
UpdateBypass ==
    LET i == NextImage
    IN  /\ pc = "upd" /\ RecoveryBit(i) \in upd.left
        /\ Pending(i) /\ "BootDoneRecovery" \notin ev.d.reset
        /\ upd' = [upd EXCEPT !.left = @ \ {RecoveryBit(i)}, !.image = "none"]
        /\ EndIteration(upd.ok, upd.handled, lcpld, i)
        /\ UNCHANGED hash

\* handle_recovery_requested, the staged image was modified since: refused.
UpdateTampered ==
    LET i == NextImage  h == upd.handled \cup {RecoveryBit(i)}
    IN  /\ pc = "upd" /\ RecoveryBit(i) \in upd.left
        /\ Pending(i) /\ "BootDoneRecovery" \in ev.d.reset /\ hash[i] # StagingHash(i)
        /\ upd' = [upd EXCEPT !.left = @ \ {RecoveryBit(i)}, !.handled = h, !.image = "none"]
        /\ EndIteration(upd.ok, h, [lcpld EXCEPT !.recovery[i] = "HANDLED"], i)
        /\ UNCHANGED hash

\* update_firmware_image first copies what the BMC staged for the PCH.
Fetches(i, status) == i = "PCH" /\ status.toPch

\* handle_recovery_requested, the platform booted and the hash matches: the
\* recovery region is updated, with the BMC's active object whatever the image.
UpdateRecoveryRegion ==
    LET i == NextImage  status == [lcpld EXCEPT !.recovery[i] = "HANDLED"]
    IN  /\ pc = "upd" /\ RecoveryBit(i) \in upd.left
        /\ Pending(i) /\ "BootDoneRecovery" \in ev.d.reset /\ hash[i] = StagingHash(i)
        /\ upd' = [upd EXCEPT !.left = @ \ {RecoveryBit(i)}, !.handled = @ \cup {RecoveryBit(i)},
                              !.image = i, !.sel = "recovery", !.obj = "BMC"]
        /\ lcpld' = status
        /\ pc' = IF Fetches(i, status) THEN "copy" ELSE "prog"
        /\ UNCHANGED <<ev, hash, fifo, dropped>>

\* An active update; a recovery request is made pending on it, with the hash
\* of what is staged now.
UpdateActiveRegion ==
    LET i      == NextImage
        asked  == RecoveryBit(i) \in upd.left
        bits   == {ActiveBit(i)} \cup (BitsFor(i) \cap upd.left)
        flag   == IF ev.d.src = "BmcUpdateIntent" THEN "BMC_PENDING" ELSE "PCH_PENDING"
        status == IF asked THEN [lcpld EXCEPT !.recovery[i] = flag] ELSE lcpld
    IN  /\ pc = "upd" /\ upd.left # {} /\ ~(asked /\ Pending(i))
        /\ upd' = [upd EXCEPT !.left = @ \ bits, !.handled = @ \cup bits, !.image = i,
                              !.sel = "active", !.obj = IF i = "ROT" THEN @ ELSE i]
        /\ lcpld' = status
        /\ hash' = IF asked THEN [hash EXCEPT ![i] = StagingHash(i)] ELSE hash
        /\ pc' = IF Fetches(i, status) THEN "copy" ELSE "prog"
        /\ UNCHANGED <<ev, fifo, dropped>>

UpdateSelect ==
    /\ UpdateBypass \/ UpdateTampered \/ UpdateRecoveryRegion \/ UpdateActiveRegion
    /\ UNCHANGED <<state, pinVars, aoVars, flash, cpld, svn, ufm, rec, fails, bootVars, spent>>

\* The result of update_firmware_image ends the iteration.
UpdateReturns(ok, log, status) ==
    /\ upd' = [upd EXCEPT !.ok = ok]
    /\ fails' = IF log THEN Failed(fails) ELSE fails
    /\ EndIteration(ok, upd.handled, status, upd.image)

\* update_firmware_image, BMC staging to PCH staging: not for a recovery
\* update already marked as handled, and only for a PCH capsule.
UpdateCopy ==
    LET status == [lcpld EXCEPT !.toPch = FALSE]
    IN  /\ pc = "copy"
        /\ \/ /\ lcpld.recovery["PCH"] = "HANDLED"
              /\ pc' = "prog" /\ lcpld' = status
              /\ UNCHANGED <<ev, fifo, dropped, flash, fails, upd, spent>>
           \/ /\ lcpld.recovery["PCH"] # "HANDLED" /\ ~BmcStagedForPch(Read("BMC", "staging"))
              /\ UpdateReturns(FALSE, TRUE, status)
              /\ UNCHANGED <<flash, spent>>
           \/ /\ lcpld.recovery["PCH"] # "HANDLED" /\ BmcStagedForPch(Read("BMC", "staging"))
              /\ \E w \in Writes("PCH", "staging", Read("BMC", "staging")) :
                    /\ Rewrite("PCH", "staging", w)
                    /\ IF w.ok
                       THEN /\ pc' = "prog" /\ lcpld' = status
                            /\ UNCHANGED <<ev, fifo, dropped, fails, upd>>
                       ELSE UpdateReturns(FALSE, TRUE, status)
        /\ UNCHANGED <<state, pinVars, aoVars, ufmVars, rec, bootVars>>

\* What update_firmware_image decides about the staged image.
Judged ==
    IF upd.image = "ROT" THEN UpdateRot(Read("ROT", "staging"), svn["ROT"])
    ELSE UpdateHost(upd.image, Read(upd.image, "staging"), upd.sel, ao[upd.obj].restrict,
                    Read(upd.image, "active"), svn[upd.image])

\* The flags after the decision: a recovery update that reaches the region
\* clears its flag; a RoT update clears a handled one.
JudgedStatus(v) ==
    LET i == upd.image
        clear == \/ i # "ROT" /\ upd.sel = "recovery" /\ v.pass
                 \/ i = "ROT" /\ lcpld.recovery["ROT"] = "HANDLED"
    IN  IF clear THEN [lcpld EXCEPT !.recovery[i] = "none"] ELSE lcpld

Installed(i, sel, c) == IF i \in Hosts /\ sel = "active" THEN Unpacked(i, c) ELSE c

UpdateRefused ==
    /\ pc = "prog" /\ ~(Judged.ok /\ Judged.pass)
    /\ UpdateReturns(Judged.ok, Judged.log, JudgedStatus(Judged))
    /\ UNCHANGED <<state, pinVars, aoVars, flash, ufmVars, rec, bootVars, spent>>

\* decompress_capsule, update_recovery_region or update_rot_fw; set_ufm_svn
\* after a recovery update.  Only a failing active host update is counted.
UpdateProgram ==
    LET i == upd.image  c == Read(i, "staging")
    IN  /\ pc = "prog" /\ Judged.ok /\ Judged.pass
        /\ \E w \in Writes(i, upd.sel, Installed(i, upd.sel, c)) :
              /\ Rewrite(i, upd.sel, w)
              /\ svn' = IF w.ok /\ upd.sel = "recovery" THEN [svn EXCEPT ![i] = c.svn] ELSE svn
              /\ UpdateReturns(w.ok, ~w.ok /\ upd.sel = "active" /\ i # "ROT",
                               JudgedStatus(Judged))
        /\ UNCHANGED <<state, pinVars, aoVars, cpld, hash, ufm, rec, bootVars>>

\* Mutant: an early return when no region was handled.
UpdateEnd_Silent ==
    /\ pc = "upd" /\ upd.left = {}
    /\ pc' = "wait"
    /\ cpld' = lcpld
    /\ IF upd.handled = {} THEN UNCHANGED <<fifo, dropped>>
       ELSE GenerateStateMachineEvent(IF upd.ok THEN "UPDATE_DONE" ELSE "UPDATE_FAILED", ev.d)
    /\ upd' = NoUpdate /\ lcpld' = ClearCpld
    /\ UNCHANGED <<state, ev, pinVars, aoVars, flash, hash, svn, ufm, rec, fails, bootVars, spent>>

\* The result is reported, then the local CPLD_STATUS is saved.
UpdateEnd ==
    /\ pc = "upd" /\ upd.left = {}
    /\ pc' = "wait"
    /\ cpld' = lcpld
    /\ GenerateStateMachineEvent(IF upd.ok THEN "UPDATE_DONE" ELSE "UPDATE_FAILED",
           [ev.d EXCEPT !.reset = @ \ {"BootDoneRecovery"}])
    /\ upd' = NoUpdate /\ lcpld' = ClearCpld
    /\ UNCHANGED <<state, ev, pinVars, aoVars, flash, hash, svn, ufm, rec, fails, bootVars, spent>>

-----------------------------------------------------------------------------
(* RUNTIME and UNPROVISIONED: do_runtime, do_unprovisioned.                 *)

\* Mutant: an active update at reset is recorded as a pending recovery one.
AtResetStatus_Pending(d) ==
    [ClearCpld EXCEPT !.active = [i \in Images |-> IF ActiveBit(i) \in d.intent
                                                   THEN "BMC_PENDING" ELSE "none"]]

\* handle_update_at_reset: the latest request replaces all flags, except that
\* the PCH's needs a PCH region, and a RoT recovery is not supported.
AtResetStatus(d) ==
    LET type == IF d.src = "PchUpdateIntent" THEN "PCH_AT_RESET" ELSE "BMC_AT_RESET"
        asked(i) == d.intent \cap (IF i = "ROT" THEN {"HROTActive"} ELSE BitsFor(i)) # {}
        flag(i)  == IF i = "PCH" THEN type ELSE "BMC_AT_RESET"
    IN  [status   |-> {i \in Images : asked(i)},
         active   |-> [i \in Images |-> IF ActiveBit(i) \in d.intent THEN flag(i) ELSE "none"],
         recovery |-> [i \in Images |-> IF i # "ROT" /\ RecoveryBit(i) \in d.intent
                                        THEN flag(i) ELSE "none"],
         toPch    |-> cpld.toPch]

UpdateAtReset ==
    /\ Running("RUNTIME") /\ ev.ev = "UPDATE_REQUESTED"
    /\ pc' = "wait"
    /\ cpld' = AtResetStatus(ev.d)
    /\ UNCHANGED <<state, ev, fifo, dropped, pinVars, aoVars, flash, hash, svn, ufm, localVars,
                   fails, bootVars, spent>>

\* log_t0_timed_boot_complete_if_ready: the recovery updates that wait for
\* this boot, as one UPDATE_REQUESTED.
BootDoneIntent ==
    IF cpld.recovery["PCH"] = "PCH_PENDING" THEN {"PchRecovery"}
    ELSE {b \in {"BmcRecovery"} : cpld.recovery["BMC"] = "BMC_PENDING"}
         \cup {b \in {"PchRecovery"} : /\ cpld.recovery["BMC"] # "BMC_PENDING"
                                       /\ cpld.recovery["PCH"] = "BMC_PENDING"}
         \cup {b \in {"HROTRecovery"} : cpld.recovery["ROT"] = "BMC_PENDING"}

BootDoneData ==
    [NULL EXCEPT !.src = IF cpld.recovery["PCH"] = "PCH_PENDING" THEN "PchUpdateIntent"
                                                                 ELSE "BmcUpdateIntent",
                 !.intent = BootDoneIntent, !.reset = {"BootDoneRecovery"}]

\* handle_checkpoint
HandleCheckpoint ==
    \E cmd \in ev.d.intent :
    LET p == UpdateCheckpoint(ev.d.src, cmd, booted, timers)
    IN  /\ Running("RUNTIME") /\ ev.ev = "WDT_CHECKPOINT"
        /\ pc' = "wait"
        /\ booted' = p.booted /\ timers' = p.timers
        /\ CASE p.failed -> GenerateStateMachineEvent("WDT_TIMEOUT",
                                [NULL EXCEPT !.src = BlamedBy(ev.d.src)])
             [] ~p.failed /\ p.done /\ IsTimedBootDone(p.booted) /\ BootDoneIntent # {} ->
                    GenerateStateMachineEvent("UPDATE_REQUESTED", BootDoneData)
             [] OTHER -> UNCHANGED <<fifo, dropped>>
        /\ UNCHANGED <<state, ev, pinVars, aoVars, flash, ufmVars, localVars, fails, ack, spent>>

\* process_provision_command: a locked UFM takes no write command; an erase
\* also forgets the SVN policies and the update status.
UfmBit(cmd) == CASE cmd = "PROVISION_ROOT_KEY"   -> "root"
                 [] cmd = "PROVISION_PCH_OFFSET" -> "pch"
                 [] cmd = "PROVISION_BMC_OFFSET" -> "bmc"
                 [] cmd = "LOCK_UFM"             -> "lock"

\* Mutant: a locked UFM can be erased.
HandleProvision_Unlocked ==
    \E cmd \in ev.d.intent \cap UfmCommands :
        /\ pc = "run" /\ state \in {"RUNTIME", "UNPROVISIONED"} /\ ev.ev = "PROVISION_CMD"
        /\ pc' = "wait"
        /\ IF cmd = "ERASE_CURRENT"
           THEN /\ ufm' = {} /\ svn' = [i \in Images |-> 0]
                /\ cpld' = ClearCpld /\ hash' = [i \in Images |-> Corrupt]
           ELSE /\ ufm' = ufm \cup {UfmBit(cmd)}
                /\ UNCHANGED <<cpld, hash, svn>>
        /\ UNCHANGED <<state, ev, fifo, dropped, pinVars, aoVars, flash, localVars, fails,
                       bootVars, spent>>

HandleProvision ==
    \E cmd \in ev.d.intent \cap UfmCommands :
        /\ pc = "run" /\ state \in {"RUNTIME", "UNPROVISIONED"} /\ ev.ev = "PROVISION_CMD"
        /\ pc' = "wait"
        /\ \/ /\ "lock" \in ufm
              /\ UNCHANGED ufmVars
           \/ /\ "lock" \notin ufm /\ cmd = "ERASE_CURRENT"
              /\ ufm' = {} /\ svn' = [i \in Images |-> 0]
              /\ cpld' = ClearCpld /\ hash' = [i \in Images |-> Corrupt]
           \/ /\ "lock" \notin ufm /\ cmd # "ERASE_CURRENT"
              /\ ufm' = ufm \cup {UfmBit(cmd)}
              /\ UNCHANGED <<cpld, hash, svn>>
        /\ UNCHANGED <<state, ev, fifo, dropped, pinVars, aoVars, flash, localVars, fails,
                       bootVars, spent>>

\* The other events of do_runtime and do_unprovisioned change nothing here.
RunNothing ==
    /\ pc = "run" /\ state \in {"RUNTIME", "UNPROVISIONED"}
    /\ ev.ev # "PROVISION_CMD"
    /\ ~(state = "RUNTIME" /\ ev.ev \in {"UPDATE_REQUESTED", "WDT_CHECKPOINT"})
    /\ pc' = "wait"
    /\ UNCHANGED <<state, ev, fifo, dropped, pinVars, aoVars, flash, ufmVars, localVars, fails,
                   bootVars, spent>>

-----------------------------------------------------------------------------
(* SEAMLESS_UPDATE and SEAMLESS_VERIFY: the PCH's flash is muxed to the RoT *)
(* and back without holding the PCH, the BMC's too while its staged capsule *)
(* is copied.                                                               *)

Copied == IF ev.d.src = "BmcUpdateIntent2" \/ cpld.toPch THEN flash["BMC"]["staging"]
                                                         ELSE flash["PCH"]["staging"]

\* handle_seamless_update_requested, perform_seamless_update: the capsule
\* replaces volumes of the active image, which stays the image it was; a
\* failing write leaves no valid image.
SeamlessUpdate ==
    LET fetched == ev.d.src = "BmcUpdateIntent2" \/ cpld.toPch
        usable  == Copied.kind = "PCH"
    IN  /\ Running("SEAMLESS_UPDATE")
        /\ pc' = "wait"
        /\ cpld' = [cpld EXCEPT !.toPch = FALSE]
        /\ mux' = mux \ (IF fetched THEN Hosts ELSE {"PCH"})
        /\ timers' = IF usable /\ ack THEN timers \cup {"BMC"} ELSE timers
        /\ \E fault \in {f \in {0, 1} : f = 1 => usable /\ spent.fault < Around.fault} :
              /\ spent' = [spent EXCEPT !.fault = @ + fault]
              /\ flash' = [flash EXCEPT
                             !["PCH"]["staging"] = IF fetched /\ usable THEN Copied ELSE @,
                             !["PCH"]["active"] = IF fault = 1 THEN Corrupt ELSE @]
              /\ GenerateStateMachineEvent(
                     IF usable /\ fault = 0 THEN "SEAMLESS_UPDATE_DONE"
                                            ELSE "SEAMLESS_UPDATE_FAILED", NULL)
        /\ UNCHANGED <<state, ev, hold, armed, aoVars, hash, svn, ufm, localVars, fails,
                       booted, ack>>

\* Mutant: the PCH's flash is not given back when the image is not valid.
SeamlessVerify_Kept ==
    /\ Running("SEAMLESS_VERIFY")
    /\ pc' = "wait"
    /\ mux' = IF ActiveVerify("PCH", flash["PCH"]["active"]) THEN mux \ {"PCH"}
                                                            ELSE mux \cup {"PCH"}
    /\ GenerateStateMachineEvent("SEAMLESS_VERIFY_FAILED", NULL)
    /\ UNCHANGED <<state, ev, hold, armed, aoVars, flash, ufmVars, localVars, fails, bootVars,
                   spent>>

\* handle_seamless_update_verification
SeamlessVerify ==
    /\ Running("SEAMLESS_VERIFY")
    /\ pc' = "wait"
    /\ mux' = mux \ {"PCH"}
    /\ GenerateStateMachineEvent(
           IF ActiveVerify("PCH", flash["PCH"]["active"]) THEN "SEAMLESS_VERIFY_DONE"
                                                          ELSE "SEAMLESS_VERIFY_FAILED", NULL)
    /\ UNCHANGED <<state, ev, hold, armed, aoVars, flash, ufmVars, localVars, fails, bootVars,
                   spent>>

-----------------------------------------------------------------------------
(* The hosts, the timers, the power and the flash parts.                    *)

\* A host acts only when it is out of reset and has its flash.
Up(h) == h \notin hold /\ h \notin mux

\* bmc_rstind_handler
BmcReset ==
    /\ armed /\ "BMC" \notin hold /\ spent.reset < Around.reset
    /\ spent' = [spent EXCEPT !.reset = @ + 1]
    /\ GenerateStateMachineEvent("RESET_DETECTED", NULL)
    /\ UNCHANGED <<state, pc, ev, pinVars, aoVars, flash, ufmVars, localVars, fails, bootVars>>

\* swmbx_notifyee_main, update intents.  The PCH's intent is masked; a BMC
\* intent 2 without the acknowledge bit stops the BMC timer.
Sender(src) == IF src \in {"PchUpdateIntent", "PchUpdateIntent2"} THEN "PCH" ELSE "BMC"
Masked_Not(r) == r.intent       \* Mutant: the PCH's intent is not masked.
Masked(r) == IF r.src = "PchUpdateIntent"
             THEN r.intent \cap {"PchActive", "PchRecovery", "AtReset"} ELSE r.intent

MailboxIntent ==
    /\ spent.req < Around.req
    /\ spent' = [spent EXCEPT !.req = @ + 1]
    /\ \E r \in Around.requests :
          /\ Up(Sender(r.src)) /\ Masked(r) # {}
          /\ GenerateStateMachineEvent(r.ev, [NULL EXCEPT !.src = r.src, !.intent = Masked(r)])
          /\ ack' = IF r.src = "BmcUpdateIntent2" THEN "Ack" \in r.intent ELSE ack
          /\ timers' = IF r.src = "BmcUpdateIntent2" /\ "Ack" \notin r.intent
                       THEN timers \ {"BMC"} ELSE timers
    /\ UNCHANGED <<state, pc, ev, pinVars, aoVars, flash, ufmVars, localVars, fails, booted>>

\* swmbx_notifyee_main, checkpoints and UFM commands.
MailboxCheckpoint ==
    /\ spent.check < Around.check
    /\ spent' = [spent EXCEPT !.check = @ + 1]
    /\ \E c \in Around.checkpoints :
          /\ Up(BlamedBy(c[1]))
          /\ GenerateStateMachineEvent("WDT_CHECKPOINT",
                 [NULL EXCEPT !.src = c[1], !.intent = {c[2]}])
    /\ UNCHANGED <<state, pc, ev, pinVars, aoVars, flash, ufmVars, localVars, fails, bootVars>>

MailboxProvision ==
    /\ Up("BMC") /\ spent.req < Around.req
    /\ spent' = [spent EXCEPT !.req = @ + 1]
    /\ \E cmd \in Around.provisions :
          GenerateStateMachineEvent("PROVISION_CMD",
              [NULL EXCEPT !.src = "UfmCommand", !.intent = {cmd}])
    /\ UNCHANGED <<state, pc, ev, pinVars, aoVars, flash, ufmVars, localVars, fails, bootVars>>

\* wdt_callback_bmc_timeout, wdt_callback_acm_timeout, wdt_callback_bios_timeout:
\* timers run on whatever the state machine does.
TimerExpire ==
    /\ spent.reset < Around.reset
    /\ spent' = [spent EXCEPT !.reset = @ + 1]
    /\ \E t \in timers :
          /\ timers' = timers \ {t}
          /\ ack' = (ack /\ t # "BMC")
          /\ IF t = "BMC" /\ ack
             THEN GenerateStateMachineEvent("RESET_DETECTED", NULL)
             ELSE GenerateStateMachineEvent("WDT_TIMEOUT", [NULL EXCEPT !.src = BlamedBy(t)])
    /\ UNCHANGED <<state, pc, ev, pinVars, aoVars, flash, ufmVars, localVars, fails, booted>>

\* A running host stages a capsule in its flash.
Holder(i) == IF i = "ROT" THEN "BMC" ELSE i
StageCapsule ==
    /\ spent.req < Around.req
    /\ spent' = [spent EXCEPT !.req = @ + 1]
    /\ \E s \in Around.stageable :
          /\ Up(Holder(s[1])) /\ flash[s[1]]["staging"] # s[2]
          /\ flash' = [flash EXCEPT ![s[1]]["staging"] = s[2]]
    /\ UNCHANGED <<smVars, pinVars, aoVars, ufmVars, localVars, fails, bootVars>>

\* An image goes bad in the flash of a running host.
CorruptFlash ==
    /\ spent.corrupt < Around.corrupt
    /\ spent' = [spent EXCEPT !.corrupt = @ + 1]
    /\ \E h \in Hosts, slot \in {"active", "recovery"} :
          /\ Up(h) /\ flash[h][slot] # Corrupt
          /\ flash' = [flash EXCEPT ![h][slot] = Corrupt]
    /\ UNCHANGED <<smVars, pinVars, aoVars, ufmVars, localVars, fails, bootVars>>

\* The regions the thread may be rewriting at this point.
Target(i, slot) == {x \in {<<i, slot>>} : Reach(i, slot)}
BeingWritten ==
    CASE pc = "rot"  -> {<<"ROT", "active">>}
      [] pc = "rec"  -> UNION {Target(Step(k).h, PlanOf(Step(k).h).slot) :
                               k \in {j \in NextCalls :
                                        PlanOf(Step(j).h).do \in {"write", "fetch"}}}
      [] pc = "copy" -> {x \in Target("PCH", "staging") :
                           /\ lcpld.recovery["PCH"] # "HANDLED"
                           /\ BmcStagedForPch(Read("BMC", "staging"))}
      [] pc = "prog" -> IF Judged.ok /\ Judged.pass THEN Target(upd.image, upd.sel) ELSE {}
      [] pc = "run" /\ state = "SEAMLESS_UPDATE" ->
             {x \in {<<"PCH", "active">>, <<"PCH", "staging">>} : Copied.kind = "PCH"}
      [] OTHER -> {}

\* Power fails: the region being rewritten is left without an image.
PowerLoss ==
    /\ spent.loss < Around.loss
    /\ spent' = [spent EXCEPT !.loss = @ + 1]
    /\ \/ Reset(flash) /\ UNCHANGED flash
       \/ \E x \in BeingWritten :
             /\ flash' = [flash EXCEPT ![x[1]][x[2]] = Corrupt]
             /\ Reset(flash')
    /\ UNCHANGED ufmVars

-----------------------------------------------------------------------------
Dispatch    == Transition \/ RunInPlace \/ Discard
RotSteps    == DoInit \/ DoRotErase \/ DoRotCopy \/ DoLockdown \/ DoReboot
VerifySteps == VerifyUnprovisioned \/ VerifyPendingUpdate \/ VerifyImages
RecoverSteps == RecoveryStart \/ RecoverImages \/ RecoveryDone
UpdateSteps == UpdateStart \/ UpdateSelect \/ UpdateCopy \/ UpdateRefused \/ UpdateProgram
                 \/ UpdateEnd
RuntimeSteps == UpdateAtReset \/ HandleCheckpoint \/ HandleProvision \/ RunNothing
SeamlessSteps == SeamlessUpdate \/ SeamlessVerify

\* The state machine's thread, and everything else.
Thread == Dispatch \/ RotSteps \/ VerifySteps \/ RecoverSteps \/ UpdateSteps
            \/ RuntimeSteps \/ SeamlessSteps
Environment == BmcReset \/ MailboxIntent \/ MailboxCheckpoint \/ MailboxProvision
                 \/ TimerExpire \/ StageCapsule \/ CorruptFlash \/ PowerLoss

Next == Thread \/ Environment

Spec == Init /\ [][Next]_vars
\* The thread is the firmware's own: nothing but an endless loop stops it.
FairSpec == Spec /\ WF_vars(Thread)
=============================================================================
