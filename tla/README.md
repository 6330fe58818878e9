# Verification of the AST1060 platform firmware resilience (PFR) firmware

This directory models the root-of-trust (RoT) firmware of `apps/aspeed-pfr`: the
program that holds a server's BMC and PCH in reset, checks their flash, repairs
or updates it, lets them boot, and attests the devices of the platform. It
contains TLA+ modules, TLC configurations, and proofs checked with TLAPS.

Paths below are relative to `src/`; where no directory is given,
`apps/aspeed-pfr/src/` is meant. Three builds of the firmware are modelled:

- **Intel PFR**: `ast1060_dcscm_dice.conf`, with seamless update, without PIT
  and platform-CPLD update. `CONFIG_BMC_CHECKPOINT_RECOVERY`,
  `CONFIG_PCH_CHECKPOINT_RECOVERY` and LMS signatures, options of other builds,
  are constants.
- **SPDM**: the builds with `CONFIG_SECURE_CONNECTION_REQUESTER` and
  `CONFIG_SECURE_CONNECTION_RESPONDER`, AFM format 4.
- **Cerberus PFR**: `CONFIG_CERBERUS_PFR` (the AMD boards), key manifests of 2048
  bytes in erase pages of 4096.

## 1. The system

| Component | Source | State it keeps | Operations | Modules |
|---|---|---|---|---|
| State machine | `AspeedStateMachine/AspeedStateMachine.c` | state, event, `aspeed_sm_fifo`, `last_*_verify_status` | dispatch, entry and run function of every state | `PfrStateMachine`, `PfrBootGate` |
| Firmware update | `intel_pfr/intel_pfr_update.c` | `CPLD_STATUS` in UFM, staging hashes | `update_firmware_image`, `ast1060_update`, `perform_seamless_update` | `PfrStateMachine`, `PfrAuthentication`, `PfrCapsule` |
| Recovery | `intel_pfr/intel_pfr_recovery.c`, `pfr/pfr_recovery.c` | active and recovery regions | `recover_image`, `pfr_recover_active_region`, `pfr_recover_recovery_region`, `pfr_staging_pch_staging` | the same three |
| Authentication | `intel_pfr/intel_pfr_authentication.c`, `_verification.c`, `_pfm_manifest.c` | verdicts; `hash_curve` and `address` of `pfr_manifest` | active, recovery and staging verification | `PfrSignature`, `PfrAuthentication` |
| Key cancellation, decommission | `intel_pfr/intel_pfr_key_cancellation.c` | policy words in UFM | `cancel_csk_key_id`, `is_csk_key_id_unused` | `PfrSignature`, `PfrAuthentication` |
| Decompression | `intel_pfr/intel_pfr_pbc.c` | flash pages | `decompress_capsule`, `decompress_fv_capsule`, `update_active_pfm` | `PfrCapsule` |
| SPI filters | `intel_pfr/intel_pfr_spi_filtering.c` | pages a host may write | `apply_pfm_protection` | `PfrCapsule` |
| SVN policy | `intel_pfr/intel_pfr_svn.c` | one floor per image in UFM | `svn_policy_verify`, `set_ufm_svn` | `PfrImages`, `PfrSignature` |
| Boot watchdogs | `watchdog_timer/` | `gWdtBootStatus`, three timers | checkpoint handlers, timer callbacks | `PfrWatchdog` |
| SMBus mailbox | `Smbus_mailbox/Smbus_mailbox.c` | registers, semaphores, write and read FIFOs | `swmbx_notifyee_main`, `handle_provision_event`, intents, checkpoints | `PfrMailbox` |
| UFM | `pfr/pfr_ufm.c`, `intel_pfr/intel_pfr_provision.c` | payloads, status bits, lock, floors | provision, erase, lock, read back | `PfrMailbox` |
| Reset and SPI mux | `lib/hrot_hal/gpio/gpio_aspeed.c` | reset line and mux of each host | `BMCBootHold` … `PCHBootRelease` | `PfrStateMachine` |
| Platform monitor | `platform_monitor/` | BMC reset monitor | posts `RESET_DETECTED` | `PfrStateMachine` |
| SPDM responder | `SPDM/SPDMResponder.c`, `SPDM/ResponseCmd/` | one context, the session table | `handler`, one per request | `SpdmSession`, `SpdmResponder` |
| SPDM requester | `SPDM/SPDMRequester.c`, `SPDM/RequestCmd/` | the attestation under way, the session table | `spdm_attest_device`, `spdm_attestation_with_session` | `SpdmSession`, `SpdmRequester` |
| AFM attestation | `SPDM/SPDMRequester.c`, `mctp/` | `spdm_attester_event`, period counter | `spdm_attester_main`, `mctp_i3c_attestation` | `SpdmAttestation` |
| Cerberus PFR | `cerberus_pfr/` | key-manifest slots, UFM, flash | verification, recovery, update, key cancellation, provisioning | `CerberusKeys`, `CerberusPfr` |
| OTP, I3C, HAL drivers, PIT, start-up, preload firmware, SPDM sample | see PROJECT.json | | | not modelled, section 7 |

**How they interact.** One thread, `AspeedStateMachine()`, takes events from a
FIFO (`k_fifo_get`, `K_FOREVER`), looks up the transition, runs the entry action
of the new state and then its run function. Everything else posts events to that
FIFO: the mailbox's notifyee thread when a host writes an intent, a checkpoint
or a UFM trigger; the timers when a boot takes too long; the monitor when the
BMC resets; the attester when a device fails; and the run functions themselves,
which end by posting their own result. Nothing gives the result of a run
function priority over an event that a host queued earlier. The run functions
call authentication, update and recovery, which share one `pfr_manifest`
structure; fields left by one call are read by the next. The SPDM requester and
responder of a node are two threads over one session table. Flash and UFM
outlive a power failure, all else does not.

**What is hard.** Host events interleave with the results of the handlers; reset
policies make a handler work with verdicts from an earlier verification; a
handler rewrites several regions, each of which can fail or be cut by a power
failure; updates are spread over several boots; event data is partly
uninitialised; memory for an event can run out; the UFM is a read-erase-write
sector; hosts write mailbox registers while the notifyee and the state machine
use them; messages of an attestation are lost and sessions die on one side only;
signature blocks have two sizes and documents are found by adding them up. The
hazard list in PROJECT.json gives the line at which each of them bites.

**What makes each part correct.**
- *State machine*: no order of events strands the thread with the hosts held;
  everything comes to rest; lockdown is final; it is a gate to the hosts.
- *Reset control*: a host runs only on verified firmware, never without its flash.
- *Update and recovery*: there is always an image to recover from; a boot failure
  is answered by the recovery image; one failure never bricks the RoT; the PCH
  cannot update the BMC or the RoT; what is half written is not vouched for.
- *Authentication*: accepted means genuine, and genuine means accepted; cancelling
  a key never takes the firmware in use.
- *SVN policy*: the floor never goes down, and follows what is installed.
- *Mailbox and UFM*: payloads are whole, a locked UFM is not changed, an
  acknowledgement belongs to its command, the last request gets through.
- *SPDM*: no device passes that should not, none fails that should not, both ends
  of a session have the same keys, and attestation recovers after a fault.
- *Cerberus*: a cancelled key stays out, a host with a sound image comes up.

## 2. The modules

    PfrImages   PfrWatchdog            PfrSignature     SpdmSession       CerberusKeys
         \       /                          |            /       \             |
      PfrStateMachine   PfrBootGate  PfrAuthentication  SpdmResponder      CerberusPfr
         /       \        /                 |           SpdmRequester          |
    PfrTypes    PfrSafety (Gate)     SignatureSafety        |            CerberusSafety
         \       /       \              /        \     SpdmAttestation        |
         PfrProofs      MCPfr   MCSignature  Signature-     |               /    \
             |                               Proofs     SpdmSafety  MCCerberus  Cerberus-
       PfrEventProofs                                       |                   Proofs
             |                                        MCSpdm  SpdmProofs
       PfrReleaseProofs        PfrCapsule - CapsuleSafety - MCCapsule
                               PfrMailbox - MailboxSafety - MCMailbox
                                                  |
                                            MailboxProofs

A `…Safety` module states the properties, an `MC…` module the values TLC uses, a
`…Proofs` module theorems; `PfrTypes` has the type correctness of the state machine and
the lemmas the other proofs about it use.
`Gate == INSTANCE PfrBootGate WITH …` in `PfrSafety` is the refinement mapping.

The models divide the firmware by grain. `PfrStateMachine` takes every
verification as a function of a region's kind and SVN and every region write as
one step, and explores the order of events. `PfrAuthentication` opens the
verification up, document by document, and takes each handler as a step.
`PfrCapsule` opens a region write up, page by page. `PfrMailbox` opens up the
path of a host's write to the event queue and of a UFM write to the sector; the
state machine's atomic UFM write is its abstraction, and it takes from the state
machine that an update comes to its end (`Settles`).

### PFR state machine: `PfrImages`, `PfrWatchdog`, `PfrStateMachine`

`PfrImages` abstracts a flash region to `[kind, svn]`: the kind of signed image
that authenticates there (`"NONE"` for none) and its SVN. On this it defines what
each verification accepts, the recovery matrix of `recover_image` (`RecoverImage`,
a plan naming the region to rewrite), and the verdicts of `update_firmware_image`
(`UpdateHost`) and `ast1060_update` (`UpdateRot`). `PfrWatchdog` has the
checkpoint handlers as functions from boot-done bits and running timers to their
successors. `PfrStateMachine` is the system:

| Variable | Code |
|---|---|
| `state`, `ev`, `fifo` | `smf_context`: state, `event_ctx`; `aspeed_sm_fifo` |
| `pc` | where the thread is: `wait` in `k_fifo_get`, `run` at the start of a run function, `rot` `rec` `upd` `copy` `prog` between two flash writes of one, `hung`, `dead` |
| `dropped` | history: `k_malloc` failed in `GenerateStateMachineEvent` |
| `hold`, `mux` | hosts in reset; flashes switched to the RoT |
| `armed` | the BMC reset monitor |
| `ao`, `last` | active objects (verdicts, `RestrictActiveUpdate`); `last_*_verify_status` |
| `flash`, `cpld`, `hash`, `svn`, `ufm` | flash; `CPLD_STATUS`, staging hashes, SVN policy, provisioning bits in UFM |
| `lcpld`, `upd`, `rec` | locals of `handle_update_requested` and `handle_recovery` |
| `fails` | `gFailedUpdateAttempts`, counted up to the limit |
| `booted`, `timers`, `ack` | `gWdtBootStatus`, running timers, `SeamlessUpdateAck` |
| `spent` | which scenario (`Around`) the surroundings follow and how much of its bounds they used |

Actions: *dispatch* (`Transition`, `RunInPlace`, `Discard`: the switch of
`AspeedStateMachine()`, with exit and entry functions in `Goto`); *RoT* (`DoInit`,
`DoRotErase`, `DoRotCopy`, `DoLockdown`, `DoReboot`); *verification*
(`VerifyUnprovisioned`, `VerifyPendingUpdate`, `VerifyImages`: the three ways
through `handle_image_verification`); *recovery* (`RecoveryStart`,
`RecoverImages`, `RecoveryDone`); *update* (`UpdateStart`, `UpdateSelect`,
`UpdateCopy`, `UpdateRefused`, `UpdateProgram`, `UpdateEnd`: one region per
iteration; each call overwrites `ret` as in the code, so a later success hides an
earlier failure, whose `UPDATE_FAILED` is already queued); *runtime*
(`UpdateAtReset`, `HandleCheckpoint`, `HandleProvision`, `RunNothing`); *seamless*
(`SeamlessUpdate`, `SeamlessVerify`); *environment* (`BmcReset`, `MailboxIntent`,
`MailboxCheckpoint`, `MailboxProvision`, `TimerExpire`, `StageCapsule`,
`CorruptFlash`, `PowerLoss`). A dispatch is one step; a run function is one step
up to and including each region it rewrites. `PowerLoss` corrupts the region being
written, leaves it as it was or written in full, and resets the RoT.

`PfrBootGate` is what all of this amounts to for the hosts: a gate that serves,
works on hosts it holds, or is locked; `Gate` maps T0 to `serving`, lockdown to
`locked`, every other state to `working`, `running` to the hosts out of reset,
`fit` to those whose active image authenticates. `Guarded = {"BMC"}`: the gate
looks at the BMC's image before it opens for it. For the PCH the code does not
(run `pch_released`), so the abstract specification promises no more than that the
PCH is taken, rewritten and let go in the same phases. Firmware goes bad (`Decay`) under a
running host or while the gate serves: a seamless update that fails destroys the active
image of a PCH that is held since it failed its last verification, while the BMC is
served. The scenario `HeldScenario` of run `platform` has that case.

### Authentication: `PfrSignature`, `PfrAuthentication`

A document (capsule, PFM, FVM, certificate) is a record with its type, the curve
of its root entry, its root key, CSK, signer, and the one place where it is
flawed, if any. An image maps offsets, in units of 1024 bytes, to documents;
reading elsewhere gives `Junk`. `Verify` is `intel_pfr_manifest_verify`: root
entry, CSK entry with permission and cancellation, block 0, content. Because a
signature block is one unit or five (LMS), the offset of an inner document depends
on the curve of the outer one; `hash_curve` and `address`, which one handler leaves
and another reads, are the variable `manifest`. `PolicyBit` keeps the four words of
32 bits and `KeyId` the truncation to a byte. Actions are whole handlers:
`Authenticate` then `Judge` per region (`authentication_image`, `do_verify`),
`Recover`, `UpdateRot`, `UpdateHost`, `UpdateCancel`, `Seamless`, and the hosts'
`Stage`, `Lose`, `Reset`.

### Decompression and filters: `PfrCapsule`

A page of flash holds page *n* of an image's content, PFM, FVM or capsule.
`EraseOps` and `WriteOps` produce the page operations of a region from the capsule's
bitmaps (runs of pages, split where erase blocks allow), `PfmOps` those of
`update_active_pfm`, `FvOps` those of a seamless volume; `CapsuleOps` is their
order. `Work` may stop short where the code returns an error. Then `PageOp`,
`PageOpFails`, `PowerCut` and `Finish` carry them out one at a time. `Booted`,
`Recovery`, `BootTimeout`, `Update`, `Seamless` start a decompression; `Filtered`
and `Protection` are what `apply_pfm_protection` lets the host write in
`HostWrite`.

### Mailbox and UFM: `PfrMailbox`

Three threads and a sector. The *host* writes a command, flushes and fills the
write FIFO, triggers, polls the status (`HostCommand` … `HostDone`; `HostRetry`
after a command the state machine discarded). The *notifyee* takes one semaphore
after the other in its polling order, drains the hardware FIFO, and turns a
register into an event (`NotifyTake`, `NotifyDrain`, `NotifyEvent`). The *state
machine* executes a UFM trigger in the steps of `handle_provision_event`
(`ClearTrigger`, `SetBusy`, `Flush`, `ProcessProvisionCommand`, `FlashErase`,
`FlashProgram`, `FlashEnd`, `ClearBusy`, `SetDone`), or leaves for an update
(`TakeRequest`, `UpdateDone`) in which it discards what comes. `channel` tells an
I2C host, whose writes give a semaphore, from one on I3C, whose MCTP handler does the
notifyee's work itself.

### SPDM: `SpdmSession`, `SpdmResponder`, `SpdmRequester`, `SpdmAttestation`

`SpdmSession` has messages, contexts, transcripts, the session table, key
derivation (a key is the secret and the transcript it is derived over, and an
epoch) and record protection with sequence numbers. A handler of the responder is a
function of device, context, table and request; the requester is `Issue` and `Take`,
which return the set of possible outcomes where the code reads a value it never
set. `SpdmAttestation` composes attester threads (`Wake`, `KeepAlive`, `NextDevice`,
`Verdict`, `Send`, `Receive`), responders (`Respond`), link and surroundings
(`Lose`, `Tick`, `RunAttester`, `StopAttester`, `I3cAttestation`, `Expire`,
`ChangeFirmware`, `Reboot`, `ForeignRequest`).

### Cerberus: `CerberusKeys`, `CerberusPfr`

The key manifests in their slots, two to an erase page; finding a key by id or by
content, whole and torn slots, cancellation bits by policy, slot and id. Every
handler computes a queue of flash operations which `OpDone`, `OpFails` and
`PowerCut` carry out one at a time; `VerifyKeys`, `VerifyRecovery`, `VerifyActive`,
`Recovery`, `UpdatePch`, `BootDone`, `RotRequest`, `PchRequest`, `BmcRequest`,
`ProvisionImage`, `EraseCurrent` are the handlers of the Cerberus build.

### Assumptions about what is not in the repository

The boot ROM starts the active RoT firmware or else the recovery one (ABR). A flash
switched to its host reads as nothing for the RoT, and a write to it has no effect
whatever the driver returns. The hosts are held in reset while the RoT resets. A
host that provisions issues one command at a time and waits for its acknowledgement.
A CSK signs only for its owner; a hash has no collision. In `PROJECT.json` what
models such surroundings is marked `external`.

### Abstracted data

Signatures, hashes and manifests become names; intent bytes sets of named bits; SVNs
above `SVN_MAX` one value; measurements small numbers; certificate chains their owner
and whether they lead to a root. In `PfrStateMachine` UFM writes are atomic
(`PfrMailbox` opens them up). A byte of event data that the code leaves uninitialised
is `"undef"`.

## 3. Properties

| Property | Module | Says |
|---|---|---|
| `CompletionPending` | PfrSafety | a thread waiting in a working state has the event that ends it, unless an event found no memory |
| `UndefinedNeverRead` | | uninitialised event bytes decide nothing |
| `Settles` | | everything comes to rest (liveness) |
| `BmcReleasedVerified`, `RunningHostVerified`, `RunningHostHasFlash`, `LockdownHolds` | | who runs, on what |
| `ImplementsGate` | | the state machine implements `PfrBootGate` |
| `ImageSurvives`, `TimeoutRestoresRecovery`, `SingleFaultKeepsRot`, `PchIntentStaysInPch` | | images, and whose request changes them |
| `SvnFloorMonotone`, `RecoveryRaisesFloor` | | anti-rollback |
| `VerdictsAreGenuine` | SignatureSafety | a document is accepted exactly when it is genuine, whatever the curve left behind |
| `CancellationSparesPfm` | | an obeyed certificate leaves a genuine PFM of a host, active or in recovery, genuine |
| `InstalledWasGenuine`, `RunsGenuine`, `RecoveryRepairs` | | what is installed, runs, and is repaired |
| `InstalledExactly` | CapsuleSafety | an undisturbed decompression leaves the capsule's image, and nothing else changed |
| `PfmComesLast` | | no whole PFM before all it vouches for |
| `RecoveryHeals`, `HostCannotBreak` | | any cut is repaired; the host's own writes never fail a verification |
| `PayloadWhole`, `LockKept`, `AcknowledgedIsDone` | MailboxSafety | the UFM, and what a host is told of it |
| `ScriptEnds`, `LastRequestDelivered` | | every command and the last request come through (liveness) |
| `NoFalsePass`, `NoFalseFail` | SpdmSafety | verdicts |
| `SessionKeysAgree`, `SealsAdvance` | | sessions |
| `AttestationRecovers`, `ChangeDetected` | | attestation goes on after a fault; changed firmware is reported (liveness) |
| `CancelledStaysOut`, `HostHeals`, `FloorHolds` | CerberusSafety | keys, recovery, floors |
| `TypeOK`, `MailboxTypeOK`, `SpdmTypeOK` | | type invariants |

Some hold with an exception, which the code forces; each names it.
- `ImageSurvives` is checked for BMC updates. It does not hold when a PCH capsule is
  staged in the BMC's flash and both regions of the BMC were judged bad:
  `pfr_staging_verify` skips the capsule type during recovery, and `recover_image`
  copies that capsule into the BMC's recovery region. Nor can it hold when both images
  of a host are corrupted from outside.
- `RunningHostVerified` is about scenarios without update requests; with them it fails
  for the reason `unowned_flash` shows.
- `PayloadWhole` excepts a failed programming of the payload, whose result
  `set_provision_data_in_flash` ignores.
- `RecoveryRepairs` excepts an active region left with a document of the other kind of
  curve, whose signature-block size is then used for the recovery image.
- `CancelledStaysOut` and `HostHeals` except an interrupted write of the UFM or of a
  key-manifest page, which loses what shares the sector.
- `FloorHolds` is about updates: a recovery of the recovery region does not ask the floor.
- `NoFalsePass` is about devices that can prove anything; one without certificates or
  signed measurements is passed by the code on what it offers.

For each property of a passing run the modules contain a mutated definition
(`..._Kept`, `..._NoCopy` and the like, marked *Mutant*, placed before the definition
it changes): a plausible slip in the code that makes TLC report the property.
PROJECT.json lists the pairs.

## 4. Runs

What the surroundings may do is bounded; the threads of the firmware never are. The
bounds are fields of scenario records, so that one run covers several situations without
multiplying them: `req` (requests, UFM commands and stagings), `check` (checkpoints),
`fault` (failing writes), `corrupt`, `reset` (BMC resets, expired timers), `loss` (power)
in `MCPfr`; `MaxStaged`, `MaxLost` in `signature`; `MaxTrouble` (power cuts, failures,
lost pages, stagings, host writes, resets together) in `capsule`; `budget` records in the
other three.

| Run | Surroundings | Distinct states | Shows |
|---|---|---|---|
| `bmc_update` | 3 BMC requests, capsules below and above the floor, 3 checkpoints, 1 fault, 1 reset or timer, 1 power loss | 3,232,474 | `ImageSurvives`, `RecoveryRaisesFloor`, `TimeoutRestoresRecovery` |
| `platform` | six scenarios: PCH requests of both hosts, also at reset; RoT updates; seamless; provisioning; corruption and recovery; a held host | 3,706,985 | the nine properties of the PFR state machine listed in PROJECT.json, `ImplementsGate` among them |
| `settles` | BMC and seamless requests, 1 each of fault, corruption, reset, loss | 102,706 | `TypeOK`, `UndefinedNeverRead`, `Settles` |
| `signature` | 2 stagings out of 21 capsules and certificates, mostly one flaw each, 1 lost region | 179,709 | the five of SignatureSafety |
| `capsule` | 4 images, a boot block, NVRAM and a BIOS volume, two-page erase blocks, 3 troubles | 1,641,734 | the four of CapsuleSafety |
| `mailbox` | 4 scripts of 4 to 6 commands, I2C and I3C, up to 3 requests, a failed erase and a failed programming, or a power cut | 626,528 | the six of MailboxSafety |
| `spdm` | 11 kinds of device undisturbed; losses, stops, changes, reboots, a foreign requester | 587,567 | `SpdmTypeOK`, `NoFalsePass`, `NoFalseFail`, `SessionKeysAgree` |
| `spdm_live` | one disturbance at a time | 14,163 | `AttestationRecovers`, `ChangeDetected`, `SealsAdvance` |
| `cerberus` | 4 scenarios, 9 capsules, 3 key-manifest slots, a cut, a failing write, a reset, a tampered section | 1,016,973 | the three of CerberusSafety |

Why these bounds are enough for what they show. *PFR*: a recovery update needs one
request, three checkpoints and the event it raises to be carried out; a third request is
the one that lands in the middle. A failing write, an expired timer and a power loss can
hit an update and the repair that follows it. Four requests allow two at-reset requests
and two resets' worth of queued events. The heap of three or four events overflows, so
the loss of an event is explored. *Signature*: two stagings are a certificate and the
firmware it is about, or two documents of which the second is read with what the first
left. Key id 2 is in the first policy word, 33 and 34 in the second, 130 and 258 beyond the last id
and beyond a byte. *Capsule*: three troubles are an update, a cut in it and another in
the recovery; with blocks of two pages, regions start and end inside a block. *Mailbox*:
payloads of three bytes and one byte are enough for an index that is not reset and a
drain that is late. *SPDM*: two measurements, certificates in two parts and two slots
make every loop of the requester go round twice; two session slots overflow with one
orphan. *Cerberus*: two of three slots share a page.

`CHECK_DEADLOCK FALSE` is set where the system may stop: a thread with an empty FIFO and
surroundings that used their bounds waits, as the firmware does (`MCPfr`, `MCMailbox`,
whose script may have ended); a platform that is locked down or decommissioned does
nothing more (`MCSignature`, `MCCapsule` in phase `DOWN`, `MCCerberus`). `spdm` and
`spdm_live` check for deadlock.

**Fairness.** Of `PfrStateMachine` only `WF_vars(Thread)`: the thread is the firmware's
own and blocks only in `k_fifo_get(..., K_FOREVER)`. Hosts, timers, faults and power are
not fair: `Settles` needs none of them to act. The one loop without an exit,
`handle_update_requested` on a bit of the second intent register that this build does not
serve (`pc = "hung"`), is reached in `platform`; `settles` uses the requests the build
serves. `PfrMailbox`: the notifyee and the state machine are threads of the firmware; an
update comes to its end, which is `Settles`; the host that provisions goes on with its
script, writing a trigger again when it is not taken, since otherwise nothing can be said
of the script's end. Requests and power are not fair. `SpdmAttestation`: attester and
responder threads are weakly fair (written out as `CanRun`/`ThreadStep` and
`CanRespond`/`RespondStep`, since TLC evaluates the whole action for `WF`), the timer
ticks, the platform reaches RUNTIME and the I3C manager starts its attestation; sessions
expire (strong fairness, since an attestation under way disables the step and ends).
Losses, stops, reboots, changes and foreign requests are not fair.

## 5. Where comments and code disagree

Three runs end with a counterexample; PROJECT.json quotes the lines.

| Run | Comment says | Code does |
|---|---|---|
| `pch_released` | a host with invalid firmware won't boot (`enter_tzero`) | after a reset of the PCH alone, the PCH is released without a look at its image, even if its recovery just failed |
| `unowned_flash` | no PCH update in a BMC-only reset (`has_pending_update`) | a PCH intent queued during the verification is served, on a flash that is not switched to the RoT |
| `pfm_truncated` | the PFM is updated from the capsule (`update_active_pfm`) | the length copied leaves out the signature block, so a PFM whose content nearly fills its last page loses its tail |

Further places where the models do what the code does although a comment suggests
something else, or nothing is said:
- The active image is updated first so that the staged firmware is known to boot
  (`AspeedStateMachine.c:1441`); only a hash of the staging region ties the two, and
  another active update in between breaks the tie.
- `BmcToPchStatus` outlives a bypassed BMC request and redirects a later one of the PCH
  (`:1557`); a recovery clears the pending flag of the last host recovered only (`:1010`).
- A payload whose programming fails is marked provisioned all the same
  (`Smbus_mailbox.c:148`, `:1231`).
- A device that speaks SPDM 1.1 and is attested with a session fails its measurement
  (`SPDMRequester.c:283`, `SPDMGetMeasurements.c:103`): only 1.2 is offered in one.
- A certificate staged by the PCH is refused in a seamless update, because the capsule
  type is read at the address a previous handler left (`intel_pfr_update.c:1065`).
- `update_firmware_image` of the Cerberus build takes one parameter fewer
  (`cerberus_pfr_update.c:357`) than its header declares (`cerberus_pfr_update.h:17`) and
  the state machine passes; the model follows the call.
- A document of the other kind of curve in an active region makes a good recovery image
  unusable (`intel_pfr_recovery.c:311`).

## 6. Proofs

Every theorem holds for all values of the constants that satisfy the assumptions of the
modules (TLC evaluates those on every run) and, where the last column names one, an extra
hypothesis.

| Theorem | Property | Of | Hypothesis |
|---|---|---|---|
| `PfrTypes!TypeCorrect` | `TypeOK` | `PfrStateMachine` | |
| `PfrProofs!HasFlash` | `RunningHostHasFlash` | | |
| `PfrProofs!Lockdown` | `LockdownHolds` | | |
| `PfrProofs!SvnMonotone` | `SvnFloorMonotone` | | |
| `PfrProofs!NeverStranded` | `CompletionPending` | | |
| `PfrEventProofs!UndefinedBytes` | `UndefinedNeverRead` | | |
| `PfrEventProofs!PchIntents` | `PchIntentStaysInPch` | | |
| `PfrEventProofs!RotSurvives` | `SingleFaultKeepsRot` | | `RotShipped` |
| `PfrEventProofs!HostKeepsImage` | one host's part of `ImageSurvives`, after at most one mishap | | `OwnCapsules(h)`, `Shipped(h)` |
| `PfrEventProofs!ImagesSurvive` | `ImageSurvives`, after at most one mishap | | the same of every host |
| `PfrEventProofs!TimeoutRestores` | `TimeoutRestoresRecovery` | | `OwnCapsules` of every host |
| `PfrReleaseProofs!RunningHosts` | `RunningHostVerified` | | |
| `PfrReleaseProofs!BmcReleased` | `BmcReleasedVerified` | | `BmcAsks` |
| `PfrReleaseProofs!ImplementsOpenGate` | `PfrBootGate` with no host guarded | | |
| `PfrReleaseProofs!GateImplemented` | `ImplementsGate` | | `BmcAsks` |
| `PfrReleaseProofs!RecoveredFloors` | `RecoveryRaisesFloor` | | `NoErase` |
| `MailboxProofs!MailboxTypes` | `MailboxTypeOK` | `PfrMailbox` | |
| `MailboxProofs!PayloadIsWhole` | `PayloadWhole` | | |
| `MailboxProofs!LockIsKept` | `LockKept` | | |
| `MailboxProofs!AcknowledgementIsDone` | `AcknowledgedIsDone` | | |
| `SignatureProofs!GenuineAccepted` | `VerdictsAreGenuine` | `PfrAuthentication` | |
| `SignatureProofs!PfmSparedAlways` | `CancellationSparesPfm` | | |
| `SignatureProofs!InstalledGenuine` | `InstalledWasGenuine` | | |
| `SignatureProofs!ReleasedOnGenuine` | `RunsGenuine` | | |
| `SpdmProofs!AttestationTypes` | `SpdmTypeOK` | `SpdmAttestation` | `OneWay`, `FreshSecrets` |
| `SpdmProofs!KeysAgree` | `SessionKeysAgree` | | the same |
| `SpdmProofs!SealsNeverRepeat` | `SealsAdvance` | | the same |
| `SpdmProofs!OnlyGenuinePass` | `NoFalsePass` | | the same, `OwnIndices` |
| `CerberusProofs!FloorsHold` | `FloorHolds` | `CerberusPfr` | |
| `CerberusProofs!CancelledKeysStayOut` | `CancelledStaysOut` | | `KeysHaveOnePlace` |
| `CerberusProofs!LockdownNeedsLoss` | first half of `HostHeals` | | `KeysHaveOnePlace` |
| `CerberusProofs!HostHealsAlways` | `HostHeals` | | `KeysHaveOnePlace`, `FreshPlatforms`, `ImagesComplete` |

**Assumptions and hypotheses.**
- `SvnMaxAssumption`, `ConfigAssumption`: types of the parameters, room for one event, one
  allowed failure.
- `RotShipped`: the RoT's two partitions are good when a platform is first switched on.
- `Shipped(h)`: both images of the host are good when the platform is first switched on.
- `OwnCapsules(h)`: what is in the host's flash, and what is staged in it, is for that host.
  Without it one mishap can cost a host both images: a corrupted recovery image of the BMC,
  a BMC whose boot times out, and a PCH capsule waiting in the BMC's staging region make
  `recover_image` copy that capsule over the BMC's recovery image, since
  `pfr_staging_verify` skips the capsule type while recovering (TLC finds this in the
  recovery scenario). The PCH is safe there: its own flash is what its hypothesis is about.
- `NoErase`: a UFM that a host may erase is locked. Otherwise TLC finds an erase and a new
  provisioning while the hosts run: the policies are zero, and the recovery image found
  good before is newer than they are until the next verification.
- `BmcAsks`: of the first intent registers only the BMC's is used; both hosts may ask for
  seamless updates. So it is in every scenario of the runs but `pch`. It is needed: a failing
  region posts `UPDATE_FAILED` and the end of the handler posts a second result
  (`AspeedStateMachine.c:1721`, `:1730`), and the PCH, up while only the BMC is held, can
  get a request in between. The second result then starts a verification of its own later
  on, and the `VERIFY_DONE` of one of them is still queued when the hosts run again. If
  the BMC's image goes bad then, and a request queued earlier resets the platform, the next
  verification fails, but the old verdict is before its result in the queue and
  releases the BMC. TLC finds this in 36 states on a platform with updates that fail (nothing
  is staged), three requests and one image that goes bad; in `pch` none does.
  (`RunningHostVerified` leaves requests aside by itself, see `unowned_flash`.)
- `SizeAssumption`, `ScenarioAssumption`: a payload fits the FIFO, and a UFM that the RoT
  finds has whole payloads under its status bits.
- `ImagesAssumption`: what is staged is made the way an issuer makes it, with at most one
  flaw. Ids of signing keys fit the policy words, keys have the permission for what they
  sign, the documents of a staged image are of one kind of curve. A region that was
  lost holds issued documents too, of any kind.
- `UfmAssumption`: no key is cancelled when the platform is provisioned.
- `SlotsAssumption`, `ManifestsAssumption`, `CapsulesAssumption`, `ScenariosAssumption`:
  types of the slots, manifests and capsules; names that do not clash with what a torn or
  an erased page reads as; at most eight keys in a manifest (`key_list`); a platform that
  was provisioned has filled its slots in order.
- `KeysHaveOnePlace`: a key has one id and one digest type in all manifests that list it. A
  certificate names a key by its id and a cancellation bit is one of a slot and an id, so
  a key listed twice in a manifest stays usable under its other id.
- `FreshPlatforms`: a platform is delivered with no key cancelled, and with key manifests
  only if it is provisioned. Bits of an earlier owner would reject a new image's key.
- `ImagesComplete`: an image carries its PFM and every region the PFM has a digest of, none
  in an RW region that recovery erases or keeps. `pfr_recover_active_region` writes
  only what is listed, so an image without it repairs nothing.
  `MCCerberus` checks these three for its instance.
- `AttestationConstants`, `SpdmConstants`, `SlotsFromZero`: types of the devices and of the
  parameters; certificate slots are numbered from 0.
- `OneWay`: a node that attests is not attested itself. Requester and responder of a node
  share the session table, and `spdm_session_get` and the search for the pending session do
  not look at the direction: with two nodes that attest each other, TLC finds a `FINISH` of
  the peer that makes a node release the session of its own handshake and then write to
  the released slot, so `SpdmTypeOK` fails. Several nodes may attest the same device.
- `FreshSecrets`: the session identifiers of different nodes, and that of the foreign
  requester, differ. They stand for the randomness of a key exchange.
- `OwnIndices`: the index in an AFM entry, by which a session is looked up later, is the
  entry's own. `MCSpdm` checks these three for its instance.

**Arguments.**
- *Types.* `TypeInv` is `TypeOK` and `Aimed` (an update that copies or programs has an
  image); one lemma per group of actions, on lemmas for posting, record updates, reads and
  writes.
- *`HasFlash`, `Lockdown`, `SvnMonotone`.* `PinSteps` and `SvnSteps` isolate the few steps
  that touch reset, mux and floors. `LockedDown`: in lockdown both hosts are held and both
  flashes taken, no event leads out, and the run function changes neither.
- *`NeverStranded`.* `LoopInv` is `CompletionPending` and `Placed`, the state in which each
  `pc` value can occur. `CompletionPending` says nothing of a thread that is not waiting;
  with `Placed`, a run function starts with its completion still to be posted and posts it
  before it waits, posting only appends, and an event taken without leaving the state is
  never a completion of it.
- *Events.* Every step that queues is one of a few forms (`QueueSteps`), so an invariant of
  the FIFO is one lemma on what is posted and one on dispatch. `UndefInv`: bytes nobody set
  travel with verdicts only, verdicts are posted only after the first verification, and the
  states that read event bytes are entered with events that have them. `IntentInv`: a PCH
  intent in the FIFO, in `ev`, in an update under way or pending in UFM names PCH regions only.
- *`RotSurvives`.* `RotInv` counts: a partition is lost only to one of the failures so far,
  and the handlers erase the active one only when it is lost already and copy from the
  other one.
- *Images of the hosts.* `ImageInv` counts mishaps (failing writes, power failures, images
  gone bad) against images lost: one bad region takes one, two take two. Every step keeps
  both images or loses one and counts one (`ImageMoves`), since a write is of one region
  and, if it succeeds, of an image for the host (`WrittenImage`, `PlannedImage`).
- *`TimeoutRestores`.* `RestoreInv` follows `handle_recovery` call by call: the image blamed
  for the timeout stays bad until the second call about its host, which unpacks the recovery
  image into it, and no later call touches that host. Meanwhile both hosts are held, so
  nobody else writes their flash.
- *`RecoveredFloors`.* An image found good is not newer than the policy (`Floored`), but a
  region that recovery or an update has just written need not be. `FloorInv` says that such
  a host does not reach RUNTIME without a verification (`CheckedFirst`), which takes an
  invariant of the FIFO: `RECOVERY_DONE` is queued once and no `VERIFY_DONE` is behind it
  (`OrderInv`), so a stale verdict cannot release what recovery wrote. `UfmKept`: no erase
  is queued, or the UFM is locked, so no policy falls.
- *`RunningHosts`.* `ReleaseInv` holds of a platform without requests:
  `QuietInv` (no update event, state or status) and `JudgeInv`. Of the verdicts in the FIFO
  there is at most one, none outside the judging states; a queued `VERIFY_DONE` still
  agrees with the flash, since nothing writes a held host's flash between verdict and
  release; and what is out of reset was found good. The verdicts being the thing that may
  grow stale, the invariant ties queue, flash and reset lines.
- *`BmcReleased`.* With updates several results and verdicts are queued at once, so what
  counts is their order. `LineInv` says what may be behind what: an update posts its
  results with no request or verdict between them, since the only host that asks is held;
  a verification finds results first, then requests, and no verdict, so it queues the only one,
  behind both. A request taken before that verdict starts an update, which takes and drops the
  verdict before its own results. So a `VERIFY_DONE` taken in `FIRMWARE_VERIFY` is that
  of the verification just made, of a BMC held since (`BmcHeld`, `TrueInv`). That the BMC is
  held at every entry of T-1 needs `SourceInv`: no event and no flag, saved or worked on,
  comes from the PCH's first register.
- *Boot gate.* Every step is a step of `PfrBootGate` or a stutter under the mapping of
  `PfrSafety`. `GateInv`: the RoT has the flash of no running host, so what it rewrites is
  held; it starts and locks down with every host held. The open gate needs no hypothesis;
  the guarded one adds `AskInv`, the invariant of `BmcReleased`.
- *Mailbox.* `MailboxInv` has five parts on top of types. `SectorInv`: the sector in flash
  after the rest of the read-erase-write plan (`Goal`) is whole, at every cut. `WholeInv`: a
  status bit, now or planned, stands for the host's bytes. `TriggerInv`: a trigger is one
  token, in its semaphore, in the notifyee's hand, in the event queue or being handled, so
  a command register is not overwritten under a handler. `StreamInv`: what the drained and
  the hardware FIFO hold, one after the other, is a prefix of what the host sends.
  `AnswerInv`: a status read after the trigger was cleared is this command's.
- *Authentication.* `Holdings(flash)` (regions hold well-made images, whatever was stored,
  lost or copied) and `Tied` (what is verified last is what `manifest` describes) are
  inductive. Acceptance is then followed document by document against genuineness.
  Distinct key ids have distinct policy bits (`Bit` is injective below 128), so a
  certificate that spares the PFM's key spares the PFM. `RunsGenuine` needs `Checked`: a
  verdict of the present check is still about the flash.
- *Cerberus floors.* `FloorInv` says what a queue of flash operations may hold in each
  phase (`Fit`): a floor is written by itself, to a value not below the present one, and a
  section in phase `VERIFY` only from an image at or above the floor; `RecInv`: a recovery
  image judged good is a capsule. The queues that follow the order of a list or of a
  certificate are built by `InOrder`; `Positions` and `InOrderType` show that it ranks its
  set without a gap.
- *Cerberus keys.* A queue cut anywhere must not bring back a cancelled key, so `KeyInv` is
  about what the slots *will* hold when the queue is done (`After`): filled in order, and
  every dead key's bit set at the first slot that lists it (`Good`), unless a write that
  could lose bits was interrupted (`lost`). Erasures and the steps of provisioning come
  first in their queue, a cancellation sets the bit of a first place, and an append goes
  to the first free slot and puts the page's other slot back, so no first place moves.
- *Cerberus healing.* Three invariants together. `StoredInv`: every manifest the RoT was given
  is in a slot when the queue is done, and every bit is a cancelled key's; with `KeyInv`, an
  image that is `Sound` is judged good (`SoundOk`). `HealInv` follows the repair: between two
  calls of `recover_image` the verdicts in `ram` are true of the flash (`MendIdle`); while it
  writes, what is queued suffices (`MendActive`, `MendRecovery`); when the calls are used up,
  the active image is good or no region has a good one. Verification then finds what
  recovery left, since only floors are written in between. The verdicts are compared over
  steps as functions of the key manifests and the bits (`OkAt`, `ActAt`).
- *Sessions.* `AgreeInv` is `TypesInv` (contexts, tables, and an attester that has at most
  one session that is not established, the one of the handshake it is in), `HandshakeInv` and
  `SessionKeysAgree`. An attester establishes a session after the responder did, on what the
  answer to `FINISH` says, so agreement alone is not inductive: `HandshakeInv` says, for each
  point of the handshake and each message on its way, that what the attester holds is what the
  responder's slot of that identifier holds, and that no responder has established a session
  of that identifier before it answered the `FINISH`. A `FINISH` is accepted only with a MAC
  over the responder's transcript, which makes both transcripts one, and traffic keys are a
  function of it. That a sequence of messages determines where a `FINISH` stands in it is
  the lemma that ties the two.
- *Seals.* A key is named by secret, transcript, direction and epoch. The sessions that know
  the key of a seal have its identifier, hence are the two ends of one session, and only one
  end seals in that direction: there the number is used up, the key updated or the slot released.
- *Verdicts.* `PassInv` is about what an attestation has learned: up to `CHALLENGE`, the
  chains it holds are the device's own; after it, one of them leads to a root and the device
  has its key (`Proven`); while it measures, the first expected values were found in order
  among the blocks read so far (`Progress`). Each answer on its way is one the device gives
  to the question asked (`Told`, `Asked`), also if it is taken for an answer to something
  else. An attestation within a session reads no certificates; an established session vouches
  for the device of its AFM entry (`Vouchers`) because it was set up by an attestation that
  had passed its measurements. Firmware that changes leaves a block that says so (`Altered`).

**Only model-checked.**
- `ImageSurvives` after more than one mishap: `bmc_update` allows a failing write and a
  power failure in one run. `BmcReleasedVerified` and `ImplementsGate` where the PCH asks
  for updates, as in `pch`.
- `RecoveryRepairs`: its exception depends on what an earlier handler left.
- The capsule: page operations come from recursive functions over bitmaps, and what those
  compute is a matter of induction over data.
- `NoFalseFail`: it needs the converse of every lemma about an answer, that the requester
  takes what an undisturbed device says, for both ends at once.
- Liveness: `Settles`, `ScriptEnds`, `LastRequestDelivered`, `AttestationRecovers`,
  `ChangeDetected`. The provers do not treat fairness and `ENABLED`.

## 7. Not modelled, and why

- *State machine*: PIT and platform-CPLD (RSU) branches, off in the build modelled; what it
  does with `ATTESTATION_FAILED`; the ME watchdog; LEDs and platform logs.
- *Authentication*: hashes and elliptic-curve arithmetic, LMS trees (`lib/lms`):
  cryptography, whose outcome is a document's genuineness. AFM documents.
- *Decompression and filters*: dual-flash hosts, SMBus filter rules, the AFM's areas;
  register programming of the filters.
- *Mailbox and UFM*: registers that only report; restricted mode; PIT and AFM commands;
  the key and state regions an erase also clears; a page torn within one programming; two
  hosts that provision at once (the code has one command register for all).
- *SPDM*: answers that arrive after their timeout; reading and validating the AFM in
  flash; AFM format 3; PSK exchange, key update and end of session as a requester, which
  this firmware never sends (a foreign requester does); the shell; framing, buses and
  discovery of MCTP, which is a channel that loses messages.
- *Cerberus*: filters, version reporting, the BMC's own images (taken as good). So the branch of
  a recovery update that compares the staged with the active image is not there: it is taken
  when the BMC's `RestrictActiveUpdate` is set (`cerberus_pfr_update.c:537`), whichever host the
  update is for (`AspeedStateMachine.c:1431`).
- *OTP, I3C, HAL drivers*: register access. *Start-up*: runs once before the state
  machine. *Preload firmware, SPDM sample*: separate programs.
- *Key material of the SVN and key-cancellation encodings* beyond word and bit of a key id.

## 8. Plan

Done: the models of section 2, their properties, the refinement of the boot gate, and the
theorems of section 6. Next, proofs, in this order:

1. `BmcReleasedVerified` where the PCH asks for updates too, on a platform on which no running
   image goes bad.
2. `HostCannotBreak`, with the filter as the last record that covers a page.
3. `NoFalseFail`, of a platform without disturbance.
