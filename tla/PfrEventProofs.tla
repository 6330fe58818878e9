--------------------------- MODULE PfrEventProofs ---------------------------
(***************************************************************************)
(* Events and images of PfrStateMachine, for every value of its constants:  *)
(* the bytes an update and a reset policy are decided by are always ones    *)
(* somebody wrote, an intent of the PCH never updates the BMC or the RoT,   *)
(* no single fault takes the RoT's own firmware or, where the hosts stage   *)
(* their own capsules, both images of a host, and a host that failed to     *)
(* boot is given its recovery image.                                        *)
(***************************************************************************)
EXTENDS PfrProofs

-----------------------------------------------------------------------------
(* Who posts what.                                                          *)

\* The verdicts of handle_image_verification and handle_recovery.
Verdicts == {"VERIFY_UNPROVISIONED", "VERIFY_FAILED", "VERIFY_DONE",
             "RECOVERY_DONE", "RECOVERY_FAILED"}

\* What the thread posts in each state.
ThreadPosts(n, d) ==
    \/ /\ state = "INIT" /\ d = NULL
       /\ n = IF flash["ROT"]["active"].kind = "ROT" THEN "INIT_DONE"
                                                     ELSE "INIT_ROT_SECONDARY_BOOTED"
    \/ state = "ROT_RECOVERY" /\ n \in {"RECOVERY_DONE", "RECOVERY_FAILED"} /\ d = NULL
    \/ state = "FIRMWARE_VERIFY" /\ n \in Verdicts \ {"RECOVERY_DONE"} /\ d = ev.d
    \/ /\ state = "FIRMWARE_VERIFY" /\ n = "UPDATE_REQUESTED" /\ Honoured(ev.d.reset) # {}
       /\ d = [ev.d EXCEPT !.src = PendingSource(ev.d.reset),
                           !.intent = PendingIntent(ev.d.reset)]
    \/ /\ state = "FIRMWARE_RECOVERY" /\ n = "RECOVERY_DONE"
       /\ d = [NULL EXCEPT !.src = "undef", !.reset = ev.d.reset]
    \/ state = "FIRMWARE_RECOVERY" /\ n = "RECOVERY_FAILED" /\ d = NULL
    \/ /\ state = "FIRMWARE_UPDATE" /\ n \in {"UPDATE_DONE", "UPDATE_FAILED"}
       /\ d.src = ev.d.src /\ d.intent = ev.d.intent /\ d.reset \subseteq ev.d.reset
    \/ state = "RUNTIME" /\ n = "UPDATE_REQUESTED" /\ BootDoneIntent # {} /\ d = BootDoneData
    \/ state \in {"SEAMLESS_UPDATE", "SEAMLESS_VERIFY"} /\ n \in SeamlessEvents /\ d = NULL

\* What the hosts and the timers post, in any state; a failed checkpoint is
\* reported like an expired timer.
HostPosts(n, d) ==
    \/ n = "RESET_DETECTED" /\ d = NULL
    \/ n = "WDT_TIMEOUT" /\ \E h \in Hosts : d = [NULL EXCEPT !.src = h]
    \/ \E r \in Around.requests :
          /\ n = r.ev /\ d = [NULL EXCEPT !.src = r.src, !.intent = Masked(r)]
          /\ Up(Sender(r.src))
    \/ /\ n = "WDT_CHECKPOINT"
       /\ \E c \in Around.checkpoints : d = [NULL EXCEPT !.src = c[1], !.intent = {c[2]}]
    \/ /\ n = "PROVISION_CMD"
       /\ \E cmd \in Around.provisions :
             d = [NULL EXCEPT !.src = "UfmCommand", !.intent = {cmd}]

Posts(n, d) == ThreadPosts(n, d) \/ HostPosts(n, d)

\* A step that posts an event of the list, or none.
Queues ==
    \/ UNCHANGED fifo
    \/ \E n \in Events, d \in Data : Posts(n, d) /\ fifo' = Append(fifo, Evt(n, d))

\* A step of the hosts or the timers: it posts one of theirs, or none.
Hears ==
    \/ UNCHANGED fifo
    \/ \E n \in Events, d \in Data : HostPosts(n, d) /\ fifo' = Append(fifo, Evt(n, d))

\* GenerateStateMachineEvent appends the event or loses it.
LEMMA PostHears ==
    ASSUME NEW n \in Events, NEW d \in Data, HostPosts(n, d), GenerateStateMachineEvent(n, d)
    PROVE  Hears
  BY DEF GenerateStateMachineEvent, Hears

LEMMA PostQueues ==
    ASSUME NEW n \in Events, NEW d \in Data, Posts(n, d), GenerateStateMachineEvent(n, d)
    PROVE  Queues
  BY DEF GenerateStateMachineEvent, Queues

\* do_init and do_rot_recovery.
LEMMA RotQueues ==
    ASSUME TypeInv, Placed, DoInit \/ DoRotErase \/ DoRotCopy \/ DoLockdown
    PROVE  Queues /\ UNCHANGED <<state, ev>>
  <1>1. CASE DoInit
    <2> DEFINE n == IF flash["ROT"]["active"].kind = "ROT" THEN "INIT_DONE"
                                                           ELSE "INIT_ROT_SECONDARY_BOOTED"
    <2>1. n \in Events /\ Posts(n, NULL)
      BY <1>1 DEF DoInit, Running, Posts, ThreadPosts, Events
    <2> QED
      BY <1>1, <2>1, PostQueues, NullType DEF DoInit
  <1>2. CASE DoRotErase
    <2>1. "RECOVERY_FAILED" \in Events /\ Posts("RECOVERY_FAILED", NULL)
      BY <1>2 DEF DoRotErase, Running, Posts, ThreadPosts, Events
    <2>2. UNCHANGED fifo \/ GenerateStateMachineEvent("RECOVERY_FAILED", NULL)
      BY <1>2 DEF DoRotErase
    <2>3. Queues
      BY <2>1, <2>2, PostQueues, NullType DEF Queues
    <2> QED
      BY <1>2, <2>3 DEF DoRotErase
  <1>3. CASE DoRotCopy
    <2>1. PICK n \in {"RECOVERY_DONE", "RECOVERY_FAILED"} : GenerateStateMachineEvent(n, NULL)
      BY <1>3 DEF DoRotCopy
    <2>2. n \in Events /\ Posts(n, NULL)
      BY <1>3, <2>1 DEF DoRotCopy, Placed, Posts, ThreadPosts, Events
    <2> QED
      BY <1>3, <2>1, <2>2, PostQueues, NullType DEF DoRotCopy
  <1>4. CASE DoLockdown
    BY <1>4 DEF DoLockdown, Queues
  <1> QED
    BY <1>1, <1>2, <1>3, <1>4

\* handle_image_verification.
LEMMA VerifyQueues ==
    ASSUME TypeInv, VerifySteps
    PROVE  Queues /\ UNCHANGED <<state, ev>>
  <1>0. ev.d \in Data /\ ev.d.reset \in SUBSET ResetBits
    BY EventParts DEF TypeInv, TypeOK
  <1>1. CASE VerifyUnprovisioned
    <2>1. "VERIFY_UNPROVISIONED" \in Events /\ Posts("VERIFY_UNPROVISIONED", ev.d)
      BY <1>1 DEF VerifyUnprovisioned, Running, Posts, ThreadPosts, Verdicts, Events
    <2> QED
      BY <1>0, <1>1, <2>1, PostQueues DEF VerifyUnprovisioned
  <1>2. CASE VerifyPendingUpdate
    <2> DEFINE d == [ev.d EXCEPT !.src = PendingSource(ev.d.reset),
                                 !.intent = PendingIntent(ev.d.reset)]
    <2>1. d \in Data
      BY <1>0, PendingType, DataExcept
    <2>2. "UPDATE_REQUESTED" \in Events /\ Posts("UPDATE_REQUESTED", d)
      BY <1>2 DEF VerifyPendingUpdate, Running, Posts, ThreadPosts, Events
    <2>3. GenerateStateMachineEvent("UPDATE_REQUESTED", d)
      BY <1>2 DEF VerifyPendingUpdate
    <2>4. Queues
      BY <2>1, <2>2, <2>3, PostQueues
    <2> QED
      BY <1>2, <2>4 DEF VerifyPendingUpdate
  <1>3. CASE VerifyImages
    <2> DEFINE n == VerifyOutcome([h \in Hosts |-> Checked(h)])
    <2>1. n \in Events /\ Posts(n, ev.d)
      BY <1>3 DEF VerifyImages, Running, VerifyOutcome, Posts, ThreadPosts, Verdicts, Events
    <2> QED
      BY <1>0, <1>3, <2>1, PostQueues DEF VerifyImages
  <1> QED
    BY <1>1, <1>2, <1>3 DEF VerifySteps

\* The end of handle_recovery.
LEMMA RecoveryEndQueues ==
    ASSUME TypeInv, Placed, pc = "rec", NEW r, RecoveryEnd(r)
    PROVE  Queues
  <1> DEFINE d == [NULL EXCEPT !.src = "undef", !.reset = ev.d.reset]
  <1>1. d \in Data
    <2>1. ev.d.reset \in SUBSET ResetBits /\ "undef" \in Origins
      BY EventParts DEF TypeInv, TypeOK, Origins
    <2> QED
      BY <2>1, NullType, DataExcept
  <1>2. /\ "RECOVERY_DONE" \in Events /\ Posts("RECOVERY_DONE", d)
        /\ "RECOVERY_FAILED" \in Events /\ Posts("RECOVERY_FAILED", NULL)
    BY DEF Placed, Posts, ThreadPosts, Events
  <1>3. \/ GenerateStateMachineEvent("RECOVERY_DONE", d)
        \/ GenerateStateMachineEvent("RECOVERY_FAILED", NULL)
    BY DEF RecoveryEnd
  <1> QED
    BY <1>1, <1>2, <1>3, NullType, PostQueues

\* handle_recovery.
LEMMA RecoverQueues ==
    ASSUME TypeInv, Placed, RecoverSteps
    PROVE  Queues /\ UNCHANGED <<state, ev>>
  <1>1. CASE RecoveryStart
    BY <1>1 DEF RecoveryStart, Queues
  <1>2. CASE RecoverImages
    <2>1. pc = "rec" /\ UNCHANGED <<state, ev>>
      BY <1>2 DEF RecoverImages
    <2>2. \/ \E k, r : RecoveryGoesOn(k, r)
          \/ UNCHANGED fifo
      BY <1>2 DEF RecoverImages, RecoverNothing, RecoverRegion, RecoverFetch
    <2>3. UNCHANGED fifo \/ \E r : RecoveryEnd(r)
      BY <2>2 DEF RecoveryGoesOn
    <2> QED
      BY <2>1, <2>3, RecoveryEndQueues DEF Queues
  <1>3. CASE RecoveryDone
    BY <1>3, RecoveryEndQueues DEF RecoveryDone
  <1> QED
    BY <1>1, <1>2, <1>3 DEF RecoverSteps

\* What handle_update_requested leaves of its event: it records what it handled.
Handling == \/ UNCHANGED ev
            \/ \E H \in SUBSET Intent1 : ev' = [ev EXCEPT !.d.handled = H]

\* The end of an iteration of the update loop.
LEMMA IterationQueues ==
    ASSUME TypeInv, state = "FIRMWARE_UPDATE", NEW ok, NEW h \in SUBSET Intent1, NEW status,
           NEW i, EndIteration(ok, h, status, i)
    PROVE  Queues /\ Handling
  <1> DEFINE d == [ev.d EXCEPT !.handled = h]
  <1>1. ev.d \in Data
    BY EventParts DEF TypeInv, TypeOK
  <1>2. /\ d \in Data /\ d.src = ev.d.src /\ d.intent = ev.d.intent
        /\ d.reset \subseteq ev.d.reset
    BY <1>1 DEF Data
  <1>3. "UPDATE_FAILED" \in Events /\ Posts("UPDATE_FAILED", d)
    BY <1>2 DEF Posts, ThreadPosts, Events
  <1>4. UNCHANGED fifo \/ GenerateStateMachineEvent("UPDATE_FAILED", d)
    BY DEF EndIteration
  <1>5. Handling
    BY DEF EndIteration, Handling
  <1> QED
    BY <1>2, <1>3, <1>4, <1>5, PostQueues DEF Queues

\* handle_update_requested.
LEMMA UpdateQueues ==
    ASSUME TypeInv, Placed, UpdateSteps
    PROVE  Queues /\ Handling /\ UNCHANGED state
  <1>0. upd.handled \in SUBSET Intent1 /\ upd.left \in SUBSET Intent1
    BY DEF TypeInv, TypeOK, Update
  <1>1. CASE UpdateStart
    BY <1>1 DEF UpdateStart, Queues, Handling
  <1>2. CASE UpdateSelect
    <2>1. pc = "upd" /\ state = "FIRMWARE_UPDATE" /\ UNCHANGED state
      BY <1>2 DEF UpdateSelect, UpdateBypass, UpdateTampered, UpdateRecoveryRegion,
                  UpdateActiveRegion, Placed
    <2>2. (upd.handled \cup {RecoveryBit(NextImage)}) \in SUBSET Intent1
      BY <1>0, NextImageType, BitsType
    <2>3. CASE UpdateBypass
      <3>1. EndIteration(upd.ok, upd.handled, lcpld, NextImage)
        BY <2>3 DEF UpdateBypass
      <3> QED
        BY <1>0, <2>1, <3>1, IterationQueues
    <2>4. CASE UpdateTampered
      <3> DEFINE status == [lcpld EXCEPT !.recovery[NextImage] = "HANDLED"]
      <3>1. EndIteration(upd.ok, upd.handled \cup {RecoveryBit(NextImage)}, status, NextImage)
        BY <2>4 DEF UpdateTampered
      <3> QED
        BY <2>1, <2>2, <3>1, IterationQueues
    <2>5. CASE UpdateRecoveryRegion \/ UpdateActiveRegion
      BY <2>1, <2>5 DEF UpdateRecoveryRegion, UpdateActiveRegion, Queues, Handling
    <2> QED
      BY <1>2, <2>1, <2>3, <2>4, <2>5 DEF UpdateSelect
  <1>3. CASE UpdateCopy \/ UpdateRefused \/ UpdateProgram
    <2>1. state = "FIRMWARE_UPDATE" /\ UNCHANGED state
      BY <1>3 DEF UpdateCopy, UpdateRefused, UpdateProgram, Placed
    <2>2. \/ UNCHANGED <<fifo, ev>>
          \/ \E ok, log, status : UpdateReturns(ok, log, status)
      BY <1>3 DEF UpdateCopy, UpdateRefused, UpdateProgram
    <2>3. \/ UNCHANGED <<fifo, ev>>
          \/ \E ok, status, i : EndIteration(ok, upd.handled, status, i)
      BY <2>2 DEF UpdateReturns
    <2> QED
      BY <1>0, <2>1, <2>3, IterationQueues DEF Queues, Handling
  <1>4. CASE UpdateEnd
    <2> DEFINE n == IF upd.ok THEN "UPDATE_DONE" ELSE "UPDATE_FAILED"
               d == [ev.d EXCEPT !.reset = @ \ {"BootDoneRecovery"}]
    <2>1. ev.d \in Data /\ (ev.d.reset \ {"BootDoneRecovery"}) \in SUBSET ResetBits
      BY EventParts DEF TypeInv, TypeOK
    <2>2. /\ d \in Data /\ d.src = ev.d.src /\ d.intent = ev.d.intent
          /\ d.reset \subseteq ev.d.reset
      BY <2>1 DEF Data
    <2>3. n \in Events /\ Posts(n, d)
      BY <1>4, <2>2 DEF UpdateEnd, Placed, Posts, ThreadPosts, Events
    <2>4. GenerateStateMachineEvent(n, d) /\ UNCHANGED <<state, ev>>
      BY <1>4 DEF UpdateEnd
    <2> QED
      BY <2>2, <2>3, <2>4, PostQueues DEF Handling
  <1> QED
    BY <1>1, <1>2, <1>3, <1>4 DEF UpdateSteps

\* do_runtime, do_unprovisioned and the seamless handlers.
LEMMA RuntimeQueues ==
    ASSUME TypeInv, RuntimeSteps \/ SeamlessSteps
    PROVE  Queues /\ UNCHANGED <<state, ev>>
  <1>1. CASE UpdateAtReset \/ HandleProvision \/ RunNothing
    BY <1>1 DEF UpdateAtReset, HandleProvision, RunNothing, Queues
  <1>2. CASE HandleCheckpoint
    <2>1. /\ UNCHANGED <<state, ev>> /\ state = "RUNTIME"
          /\ \/ GenerateStateMachineEvent("WDT_TIMEOUT", [NULL EXCEPT !.src = BlamedBy(ev.d.src)])
             \/ /\ GenerateStateMachineEvent("UPDATE_REQUESTED", BootDoneData)
                /\ BootDoneIntent # {}
             \/ UNCHANGED fifo
      BY <1>2 DEF HandleCheckpoint, Running
    <2>2. BlamedBy(ev.d.src) \in Hosts /\ Hosts \subseteq Origins
      BY DEF BlamedBy, Hosts, Origins
    <2>3. /\ [NULL EXCEPT !.src = BlamedBy(ev.d.src)] \in Data
          /\ Posts("WDT_TIMEOUT", [NULL EXCEPT !.src = BlamedBy(ev.d.src)])
      BY <2>2, NullType, DataExcept DEF Posts, HostPosts, Data
    <2>4. BootDoneData \in Data
      <3>1. /\ BootDoneIntent \in SUBSET IntentBits /\ {"BootDoneRecovery"} \in SUBSET ResetBits
            /\ "PchUpdateIntent" \in Origins /\ "BmcUpdateIntent" \in Origins
        BY DEF BootDoneIntent, IntentBits, Intent1, Origins, ResetBits
      <3> QED
        BY <3>1, NullType, DataExcept DEF BootDoneData, Data
    <2>5. BootDoneIntent # {} => Posts("UPDATE_REQUESTED", BootDoneData)
      BY <2>1 DEF Posts, ThreadPosts
    <2>6. "WDT_TIMEOUT" \in Events /\ "UPDATE_REQUESTED" \in Events
      BY DEF Events
    <2> QED
      BY <2>1, <2>3, <2>4, <2>5, <2>6, PostQueues DEF Queues
  <1>3. CASE SeamlessSteps
    <2>1. /\ state \in {"SEAMLESS_UPDATE", "SEAMLESS_VERIFY"} /\ UNCHANGED <<state, ev>>
          /\ \E n \in SeamlessEvents : GenerateStateMachineEvent(n, NULL)
      BY <1>3 DEF SeamlessSteps, SeamlessUpdate, SeamlessVerify, Running, SeamlessEvents
    <2>2. \A n \in SeamlessEvents : n \in Events /\ Posts(n, NULL)
      BY <2>1 DEF SeamlessEvents, Events, Posts, ThreadPosts
    <2> QED
      BY <2>1, <2>2, NullType, PostQueues
  <1> QED
    BY <1>1, <1>2, <1>3 DEF RuntimeSteps

\* The hosts and the timers.
LEMMA HostQueues ==
    ASSUME TypeInv, Environment, ~PowerLoss
    PROVE  Hears /\ UNCHANGED <<state, pc, ev>>
  <1>t. spent \in Budget
    BY DEF TypeInv, TypeOK
  <1>1. CASE BmcReset
    <2>1. "RESET_DETECTED" \in Events /\ HostPosts("RESET_DETECTED", NULL)
      BY DEF Events, HostPosts
    <2> QED
      BY <1>1, <2>1, NullType, PostHears DEF BmcReset
  <1>2. CASE MailboxIntent
    <2>1. PICK r \in Around.requests :
            /\ GenerateStateMachineEvent(r.ev, [NULL EXCEPT !.src = r.src, !.intent = Masked(r)])
            /\ Up(Sender(r.src))
      BY <1>2 DEF MailboxIntent
    <2>2. r.ev \in Events /\ r.src \in Origins /\ r.intent \in SUBSET IntentBits
      BY <1>t, AroundType DEF Surroundings, Request, Events, Origins
    <2>3. Masked(r) \in SUBSET IntentBits
      BY <2>2 DEF Masked
    <2>4. [NULL EXCEPT !.src = r.src, !.intent = Masked(r)] \in Data
      BY <2>2, <2>3, NullType, DataExcept
    <2>5. HostPosts(r.ev, [NULL EXCEPT !.src = r.src, !.intent = Masked(r)])
      BY <2>1 DEF HostPosts
    <2> QED
      BY <1>2, <2>1, <2>2, <2>4, <2>5, PostHears DEF MailboxIntent
  <1>3. CASE MailboxCheckpoint
    <2>1. PICK c \in Around.checkpoints :
            GenerateStateMachineEvent("WDT_CHECKPOINT",
                [NULL EXCEPT !.src = c[1], !.intent = {c[2]}])
      BY <1>3 DEF MailboxCheckpoint
    <2>2. c[1] \in Origins /\ {c[2]} \in SUBSET IntentBits
      BY <1>t, AroundType DEF Surroundings, Origins, IntentBits
    <2>3. [NULL EXCEPT !.src = c[1], !.intent = {c[2]}] \in Data
      BY <2>2, NullType, DataExcept
    <2>4. /\ "WDT_CHECKPOINT" \in Events
          /\ HostPosts("WDT_CHECKPOINT", [NULL EXCEPT !.src = c[1], !.intent = {c[2]}])
      BY <2>1 DEF Events, HostPosts
    <2> QED
      BY <1>3, <2>1, <2>3, <2>4, PostHears DEF MailboxCheckpoint
  <1>4. CASE MailboxProvision
    <2>1. PICK cmd \in Around.provisions :
            GenerateStateMachineEvent("PROVISION_CMD",
                [NULL EXCEPT !.src = "UfmCommand", !.intent = {cmd}])
      BY <1>4 DEF MailboxProvision
    <2>2. "UfmCommand" \in Origins /\ {cmd} \in SUBSET IntentBits
      BY <1>t, AroundType DEF Surroundings, Origins, IntentBits
    <2>3. [NULL EXCEPT !.src = "UfmCommand", !.intent = {cmd}] \in Data
      BY <2>2, NullType, DataExcept
    <2>4. /\ "PROVISION_CMD" \in Events
          /\ HostPosts("PROVISION_CMD", [NULL EXCEPT !.src = "UfmCommand", !.intent = {cmd}])
      BY <2>1 DEF Events, HostPosts
    <2> QED
      BY <1>4, <2>1, <2>3, <2>4, PostHears DEF MailboxProvision
  <1>5. CASE TimerExpire
    <2>1. PICK t \in timers :
            \/ GenerateStateMachineEvent("RESET_DETECTED", NULL)
            \/ GenerateStateMachineEvent("WDT_TIMEOUT", [NULL EXCEPT !.src = BlamedBy(t)])
      BY <1>5 DEF TimerExpire
    <2>2. BlamedBy(t) \in Hosts /\ Hosts \subseteq Origins
      BY DEF BlamedBy, Hosts, Origins
    <2>3. /\ [NULL EXCEPT !.src = BlamedBy(t)] \in Data
          /\ "WDT_TIMEOUT" \in Events /\ "RESET_DETECTED" \in Events
          /\ HostPosts("WDT_TIMEOUT", [NULL EXCEPT !.src = BlamedBy(t)])
          /\ HostPosts("RESET_DETECTED", NULL)
      BY <2>2, NullType, DataExcept DEF Events, HostPosts, Data
    <2> QED
      BY <1>5, <2>1, <2>3, NullType, PostHears DEF TimerExpire
  <1>6. CASE StageCapsule \/ CorruptFlash
    BY <1>6 DEF StageCapsule, CorruptFlash, smVars, Hears
  <1> QED
    BY <1>1, <1>2, <1>3, <1>4, <1>5, <1>6 DEF Environment

LEMMA HearsQueues == Hears => Queues
  BY DEF Hears, Queues, Posts

\* Every step takes an event, starts the RoT anew, or queues what Posts lists.
LEMMA QueueSteps ==
    ASSUME TypeInv, Placed, [Next]_vars
    PROVE  \/ Dispatch
           \/ \E f : Reset(f)
           \/ /\ Queues /\ UNCHANGED state
              /\ UNCHANGED ev \/ (state = "FIRMWARE_UPDATE" /\ Handling)
  <1>1. CASE RotSteps
    BY <1>1, RotQueues DEF RotSteps, DoReboot
  <1>2. CASE VerifySteps \/ RecoverSteps
    BY <1>2, VerifyQueues, RecoverQueues
  <1>3. CASE UpdateSteps
    <2>1. state = "FIRMWARE_UPDATE"
      BY <1>3 DEF UpdateSteps, UpdateStart, Running, UpdateSelect, UpdateBypass, UpdateTampered,
                  UpdateRecoveryRegion, UpdateActiveRegion, UpdateCopy, UpdateRefused,
                  UpdateProgram, UpdateEnd, Placed
    <2> QED
      BY <1>3, <2>1, UpdateQueues
  <1>4. CASE RuntimeSteps \/ SeamlessSteps
    BY <1>4, RuntimeQueues
  <1>5. CASE Environment
    <2>1. PowerLoss => \E f : Reset(f)
      BY DEF PowerLoss
    <2> QED
      BY <1>5, <2>1, HostQueues, HearsQueues
  <1>6. CASE UNCHANGED vars
    BY <1>6 DEF vars, smVars, Queues
  <1> QED
    BY <1>1, <1>2, <1>3, <1>4, <1>5, <1>6 DEF Next, Thread

\* The FIFO as a sequence over a set: what is taken from it is in the set, and
\* it stays one when what is posted is.
LEMMA TakenFrom ==
    ASSUME NEW S, fifo \in Seq(S), Take
    PROVE  Head(fifo) \in S /\ fifo' \in Seq(S)
  BY DEF Take

LEMMA QueuedIn ==
    ASSUME NEW S, fifo \in Seq(S), Queues,
           \A n \in Events, d \in Data : Posts(n, d) => Evt(n, d) \in S
    PROVE  fifo' \in Seq(S)
  BY DEF Queues

\* The FIFO after a reset of the RoT.
LEMMA ResetIn ==
    ASSUME NEW S, Evt("START_STATE_MACHINE", NULL) \in S, NEW f, Reset(f)
    PROVE  fifo' \in Seq(S) /\ ev' \in S
  BY DEF Reset

\* The event a dispatch step leaves: the one taken, with the reset policy of
\* enter_tmin1, or the one before.
LEMMA DispatchedEvent ==
    ASSUME Dispatch
    PROVE  \/ UNCHANGED ev
           \/ ev' = Head(fifo)
           \/ ev' = [Head(fifo) EXCEPT !.d.reset = Tmin1Policy(@, HeldAtTmin1(Head(fifo)))]
  <1>1. CASE Transition
    <2>1. PICK t : Goto(t)
      BY <1>1 DEF Transition
    <2> QED
      BY <2>1 DEF Goto
  <1>2. CASE RunInPlace \/ Discard
    BY <1>2 DEF RunInPlace, Discard
  <1> QED
    BY <1>1, <1>2 DEF Dispatch

-----------------------------------------------------------------------------
(* The bytes handle_recovery leaves uninitialised.                          *)

Defined == {e \in Event : e.d.src # "undef"}
\* Only a verdict carries them on.
Soft == {e \in Event : e.d.src = "undef" => e.ev \in Verdicts}
\* The states before the first verification.
Starting == {"BOOT", "INIT", "ROT_RECOVERY"}

\* The inductive invariant behind UndefinedNeverRead.
UndefInv ==
    /\ fifo \in Seq(Soft) /\ ev \in Soft
    /\ state \in Starting => fifo \in Seq(Defined) /\ ev \in Defined
    /\ state \in {"FIRMWARE_UPDATE", "SEAMLESS_UPDATE"} => ev \in Defined

\* Nobody posts undefined bytes with anything but a verdict, and nobody posts
\* them at all before the first verification.
LEMMA PostsSoft ==
    ASSUME TypeInv, UndefInv, NEW n \in Events, NEW d \in Data, Posts(n, d)
    PROVE  /\ Evt(n, d) \in Soft
           /\ state \in Starting => Evt(n, d) \in Defined
  <1>1. Evt(n, d) \in Event /\ Evt(n, d).ev = n /\ Evt(n, d).d = d
    BY EvtType DEF Evt
  <1>2. d.src = "undef" => n \in Verdicts /\ state \notin Starting
    <2>1. CASE ThreadPosts(n, d)
      <3>1. ev.d \in Data /\ (state = "FIRMWARE_UPDATE" => ev.d.src # "undef")
        BY EventParts DEF TypeInv, TypeOK, UndefInv, Defined
      <3>2. NULL.src = "none" /\ NULL \in Data
        BY NullType DEF NULL
      <3>3. CASE state = "FIRMWARE_VERIFY" /\ n = "UPDATE_REQUESTED"
                 /\ d = [ev.d EXCEPT !.src = PendingSource(ev.d.reset),
                                     !.intent = PendingIntent(ev.d.reset)]
        BY <3>1, <3>3 DEF Data, PendingSource
      <3>4. CASE state = "FIRMWARE_VERIFY" /\ n \in Verdicts
        BY <3>4 DEF Starting
      <3>5. CASE state = "FIRMWARE_RECOVERY"
        BY <2>1, <3>2, <3>5 DEF ThreadPosts, Starting, Verdicts
      <3>6. CASE state = "FIRMWARE_UPDATE"
        BY <2>1, <3>1, <3>6 DEF ThreadPosts
      <3>7. CASE state = "RUNTIME"
        <4>1. d = BootDoneData
          BY <2>1, <3>7 DEF ThreadPosts
        <4> QED
          BY <3>2, <4>1 DEF BootDoneData, Data
      <3>8. CASE state \in {"INIT", "ROT_RECOVERY", "SEAMLESS_UPDATE", "SEAMLESS_VERIFY"}
        BY <2>1, <3>2, <3>8 DEF ThreadPosts
      <3> QED
        BY <2>1, <3>3, <3>4, <3>5, <3>6, <3>7, <3>8 DEF ThreadPosts
    <2>2. CASE HostPosts(n, d)
      <3>1. NULL.src = "none" /\ NULL \in Data
        BY NullType DEF NULL
      <3>2. \A s, i : [NULL EXCEPT !.src = s].src = s /\ [NULL EXCEPT !.src = s, !.intent = i].src = s
        BY DEF NULL
      <3>3. "undef" \notin Hosts \cup Sources \cup {"UfmCommand"}
        BY DEF Hosts, Sources
      <3>4. \A r \in Around.requests : r.src # "undef"
        BY AroundType DEF TypeInv, TypeOK, Surroundings, Request
      <3>5. \A c \in Around.checkpoints : c[1] \in Sources
        BY AroundType DEF TypeInv, TypeOK, Surroundings
      <3>6. ASSUME NEW r \in Around.requests,
                   d = [NULL EXCEPT !.src = r.src, !.intent = Masked(r)]
            PROVE  d.src # "undef"
        BY <3>2, <3>4, <3>6
      <3>7. ASSUME NEW c \in Around.checkpoints, d = [NULL EXCEPT !.src = c[1], !.intent = {c[2]}]
            PROVE  d.src # "undef"
        BY <3>2, <3>3, <3>5, <3>7
      <3>8. ASSUME NEW cmd, d = [NULL EXCEPT !.src = "UfmCommand", !.intent = {cmd}]
            PROVE  d.src # "undef"
        BY <3>2, <3>8
      <3>9. ASSUME NEW h \in Hosts, d = [NULL EXCEPT !.src = h]
            PROVE  d.src # "undef"
        BY <3>2, <3>3, <3>9
      <3> QED
        BY <2>2, <3>1, <3>6, <3>7, <3>8, <3>9 DEF HostPosts
    <2> QED
      BY <2>1, <2>2 DEF Posts
  <1> QED
    BY <1>1, <1>2 DEF Soft, Defined

\* The states before the first verification are entered from each other only,
\* and the states that update something on no verdict.
LEMMA UndefEntry ==
    ASSUME NEW e, NEW t \in Successors(e)
    PROVE  /\ t \in Starting => state \in Starting
           /\ t \in {"FIRMWARE_UPDATE", "SEAMLESS_UPDATE"} => e.ev \notin Verdicts
  <1>1. \A row \in Transitions :
          /\ row[3] \in Starting => row[1] \in Starting
          /\ row[3] \in {"FIRMWARE_UPDATE", "SEAMLESS_UPDATE"} => row[2] \notin Verdicts
    BY DEF Transitions, Starting, Verdicts
  <1> QED
    BY <1>1 DEF Successors, AfterUpdate, Starting, Verdicts

\* A verdict takes the thread to T-1 only from T-1 or from the states before it.
LEMMA VerdictEntry ==
    ASSUME NEW e, e.ev \in Verdicts, state \notin Starting, NEW t \in Successors(e), t \in Tmin1
    PROVE  state \in Tmin1
  <1>1. \A row \in Transitions :
          row[2] \in Verdicts /\ row[1] \notin Starting => row[1] \in Tmin1
    BY DEF Transitions, Starting, Verdicts, Tmin1
  <1> QED
    BY <1>1 DEF Successors, Verdicts, Tmin1

\* A dispatched event is as defined as the one in the FIFO.
LEMMA DispatchUndef ==
    ASSUME TypeInv, UndefInv, Dispatch
    PROVE  UndefInv'
  <1> DEFINE e == Head(fifo)
  <1>1. /\ Take
        /\ e \in Soft /\ fifo' \in Seq(Soft)
        /\ state \in Starting => e \in Defined /\ fifo' \in Seq(Defined)
    <2>1. Take
      BY DEF Dispatch, Transition, RunInPlace, Discard
    <2> QED
      BY <2>1, TakenFrom DEF UndefInv
  <1>2. CASE Transition
    <2>1. PICK t \in Successors(e) : Goto(t)
      BY <1>2 DEF Transition
    <2>2. state' = t /\ ev' \in Event /\ ev'.ev = e.ev /\ ev'.d.src = e.d.src
      <3>1. e \in Event /\ e.d.reset \in SUBSET ResetBits
        BY <1>1, EventParts DEF Soft
      <3>2. \A r : [e EXCEPT !.d.reset = r].ev = e.ev /\ [e EXCEPT !.d.reset = r].d.src = e.d.src
        BY <3>1, EventParts DEF Event, Data
      <3>3. [e EXCEPT !.d.reset = Tmin1Policy(@, HeldAtTmin1(e))] \in Event
        BY <3>1, PolicyType, EventReset
      <3> QED
        BY <2>1, <3>1, <3>2, <3>3 DEF Goto
    <2>3. ev' \in Soft /\ (e \in Defined => ev' \in Defined)
      BY <1>1, <2>2 DEF Soft, Defined
    <2>4. t \in Starting => state \in Starting
      BY UndefEntry
    <2>5. t \in {"FIRMWARE_UPDATE", "SEAMLESS_UPDATE"} => e \in Defined
      BY <1>1, UndefEntry DEF Soft, Defined
    <2> QED
      BY <1>1, <2>2, <2>3, <2>4, <2>5 DEF UndefInv
  <1>3. CASE RunInPlace
    <2>1. UNCHANGED state /\ state \in {"RUNTIME", "UNPROVISIONED"} /\ ev' = e
      BY <1>3 DEF RunInPlace, RunsInPlace
    <2> QED
      BY <1>1, <2>1 DEF UndefInv, Starting
  <1>4. CASE Discard
    BY <1>1, <1>4 DEF Discard, UndefInv
  <1> QED
    BY <1>2, <1>3, <1>4 DEF Dispatch

\* Every step keeps the undefined bytes where nothing is decided by them.
LEMMA UndefStep == TypeInv /\ Placed /\ UndefInv /\ [Next]_vars => UndefInv'
  <1> SUFFICES ASSUME TypeInv, Placed, UndefInv, [Next]_vars PROVE UndefInv'
    OBVIOUS
  <1>1. CASE Dispatch
    BY <1>1, DispatchUndef
  <1>2. CASE \E f : Reset(f)
    <2> DEFINE e == Evt("START_STATE_MACHINE", NULL)
    <2>1. e \in Event /\ e.d.src = "none"
      BY EvtType, NullType DEF Evt, NULL, Events
    <2>2. e \in Soft /\ e \in Defined
      BY <2>1 DEF Soft, Defined
    <2>3. state' = "BOOT"
      BY <1>2 DEF Reset
    <2> QED
      BY <1>2, <2>2, <2>3, ResetIn DEF UndefInv
  <1>3. CASE /\ Queues /\ UNCHANGED state
             /\ UNCHANGED ev \/ (state = "FIRMWARE_UPDATE" /\ Handling)
    <2>1. fifo' \in Seq(Soft)
      BY <1>3, PostsSoft, QueuedIn DEF UndefInv
    <2>2. state \in Starting => fifo' \in Seq(Defined)
      BY <1>3, PostsSoft, QueuedIn DEF UndefInv
    <2>3. ev' \in Soft /\ (ev \in Defined => ev' \in Defined)
      <3>1. ev \in Soft
        BY DEF UndefInv
      <3>2. ASSUME NEW H \in SUBSET Intent1
            PROVE  /\ [ev EXCEPT !.d.handled = H] \in Event
                   /\ [ev EXCEPT !.d.handled = H].ev = ev.ev
                   /\ [ev EXCEPT !.d.handled = H].d.src = ev.d.src
        BY <3>1, EventHandled, EventParts DEF Soft, Event, Data
      <3> QED
        BY <1>3, <3>1, <3>2 DEF Handling, Soft, Defined
    <2> QED
      BY <1>3, <2>1, <2>2, <2>3 DEF UndefInv
  <1> QED
    BY <1>1, <1>2, <1>3, QueueSteps

\* The invariant says more than what is promised.
LEMMA UndefImplies == UndefInv => UndefinedNeverRead
  <1> SUFFICES ASSUME UndefInv PROVE UndefinedNeverRead
    OBVIOUS
  <1>1. ev.d.src = "undef" => state \notin {"FIRMWARE_UPDATE", "SEAMLESS_UPDATE"}
    BY DEF UndefInv, Defined
  <1>2. ASSUME fifo # <<>>, Head(fifo).d.src = "undef",
               NEW t \in Successors(Head(fifo)), t \in Tmin1
        PROVE  state \in Tmin1
    <2>1. Head(fifo) \in Soft /\ (state \in Starting => Head(fifo) \in Defined)
      BY <1>2 DEF UndefInv
    <2>2. Head(fifo).ev \in Verdicts /\ state \notin Starting
      BY <1>2, <2>1 DEF Soft, Defined
    <2> QED
      BY <1>2, <2>2, VerdictEntry
  <1> QED
    BY <1>1, <1>2 DEF UndefinedNeverRead

\* A handler that takes several steps stays in its state.
LEMMA PlacedAlways == Spec => []Placed
  <1>1. Init => LoopInv
    BY DEF Init, LoopInv, Placed, CompletionPending, Working
  <1>2. LoopInv => Placed
    BY DEF LoopInv
  <1> QED
    BY <1>1, <1>2, LoopStep, TypeInvariant, PTL DEF Spec

\* handle_recovery, enter_tmin1, handle_update_requested: the bytes of
\* RECOVERY_DONE nobody wrote never decide which host is reset or updated,
\* however many retries, pending updates and late events come after it.
THEOREM UndefinedBytes == Spec => []UndefinedNeverRead
  <1>1. Init => UndefInv
    <2> SUFFICES ASSUME Init PROVE UndefInv
      OBVIOUS
    <2> DEFINE e == Evt("START_STATE_MACHINE", NULL)
    <2>1. e \in Event /\ e.d.src = "none"
      BY EvtType, NullType DEF Evt, NULL, Events
    <2>2. e \in Soft /\ e \in Defined
      BY <2>1 DEF Soft, Defined
    <2>3. fifo = <<e>> /\ ev = e /\ state = "BOOT"
      BY DEF Init
    <2> QED
      BY <2>2, <2>3 DEF UndefInv
  <1> QED
    BY <1>1, UndefStep, UndefImplies, PlacedAlways, TypeInvariant, PTL DEF Spec

-----------------------------------------------------------------------------
(* The PCH's intents.                                                       *)

PchBits == {"PchActive", "PchRecovery"}
\* An event in the PCH's name asks for the PCH's regions only.
Proper == {e \in Event : e.d.src = "PchUpdateIntent" => e.d.intent \cap Intent1 \subseteq PchBits}
\* A CPLD_STATUS with an update at reset asked for by the PCH has no other.
PchMarked(c) ==
    "PCH_AT_RESET" \in {c.active["PCH"], c.recovery["PCH"]} => c.status \subseteq {"PCH"}
\* handle_update_requested is running.
Updating == pc \in {"upd", "copy", "prog"}

\* The inductive invariant behind PchIntentStaysInPch: in the FIFO, in the
\* flags kept for the next reset, and in the update under way.
QueueProper == fifo \in Seq(Proper) /\ ev \in Proper
FlagsProper == PchMarked(cpld) /\ PchMarked(lcpld)
UpdateProper ==
    /\ Updating => /\ ev.d.src \in {"BmcUpdateIntent", "PchUpdateIntent"}
                   /\ ev.d.src = "PchUpdateIntent" => upd.left \subseteq PchBits
    /\ upd.image \in {"BMC", "ROT"} => Updating /\ ev.d.src = "BmcUpdateIntent"
IntentInv == QueueProper /\ FlagsProper /\ UpdateProper

\* has_pending_update asks in the PCH's name only for what the PCH asked for.
LEMMA PendingProper ==
    ASSUME TypeInv, PchMarked(cpld), NEW r, PendingSource(r) = "PchUpdateIntent"
    PROVE  PendingIntent(r) \subseteq PchBits
  <1>1. cpld.status \subseteq {"PCH"}
    BY DEF PendingSource, PchMarked
  <1>2. Honoured(r) \subseteq {"PCH"}
    BY <1>1 DEF Honoured
  <1>3. "ROT" \notin Honoured(r) /\ "BMC" \notin Honoured(r)
    BY <1>2
  <1> QED
    BY <1>3 DEF PendingIntent, PchBits

\* Everything that is posted in the PCH's name is about the PCH.
LEMMA PostsProper ==
    ASSUME TypeInv, QueueProper, FlagsProper, NEW n \in Events, NEW d \in Data, Posts(n, d)
    PROVE  Evt(n, d) \in Proper
  <1>1. Evt(n, d) \in Event /\ Evt(n, d).d = d
    BY EvtType DEF Evt
  <1>2. NULL \in Data /\ NULL.src = "none" /\ ev.d \in Data
    BY NullType, EventParts DEF NULL, TypeInv, TypeOK
  <1>3. /\ \A s : [NULL EXCEPT !.src = s].src = s
        /\ \A s, r : [NULL EXCEPT !.src = s, !.reset = r].src = s
        /\ \A s, i : /\ [NULL EXCEPT !.src = s, !.intent = i].src = s
                     /\ [NULL EXCEPT !.src = s, !.intent = i].intent = i
    BY DEF NULL
  <1>4. "PchUpdateIntent" \notin Hosts \cup Sources \cup {"undef", "UfmCommand"}
    BY DEF Hosts, Sources
  <1>5. d.src = "PchUpdateIntent" => d.intent \cap Intent1 \subseteq PchBits
    <2>1. CASE ThreadPosts(n, d)
      <3>1. CASE d = ev.d \/ (d.src = ev.d.src /\ d.intent = ev.d.intent)
        BY <3>1 DEF QueueProper, Proper
      <3>2. CASE d = [ev.d EXCEPT !.src = PendingSource(ev.d.reset),
                                  !.intent = PendingIntent(ev.d.reset)]
        <4>1. d.src = PendingSource(ev.d.reset) /\ d.intent = PendingIntent(ev.d.reset)
          BY <1>2, <3>2 DEF Data
        <4> QED
          BY <4>1, PendingProper DEF FlagsProper
      <3>3. CASE d = BootDoneData
        <4>1. /\ d.intent = BootDoneIntent
              /\ d.src = "PchUpdateIntent" => cpld.recovery["PCH"] = "PCH_PENDING"
          BY <3>3 DEF BootDoneData, NULL
        <4> QED
          BY <4>1 DEF BootDoneIntent, PchBits
      <3>4. CASE d = NULL \/ d = [NULL EXCEPT !.src = "undef", !.reset = ev.d.reset]
        BY <1>2, <1>3, <1>4, <3>4
      <3> QED
        BY <2>1, <3>1, <3>2, <3>3, <3>4 DEF ThreadPosts
    <2>2. CASE HostPosts(n, d)
      <3>1. ASSUME NEW r \in Around.requests,
                   d = [NULL EXCEPT !.src = r.src, !.intent = Masked(r)]
            PROVE  d.src = "PchUpdateIntent" => d.intent \cap Intent1 \subseteq PchBits
        <4>1. d.src = r.src /\ d.intent = Masked(r)
          BY <1>3, <3>1
        <4>2. r.src = "PchUpdateIntent" => Masked(r) \subseteq PchBits \cup {"AtReset"}
          BY DEF Masked, PchBits
        <4>3. "AtReset" \notin Intent1
          BY DEF Intent1
        <4> QED
          BY <4>1, <4>2, <4>3
      <3>2. ASSUME NEW c \in Around.checkpoints, d = [NULL EXCEPT !.src = c[1], !.intent = {c[2]}]
            PROVE  d.src # "PchUpdateIntent"
        <4>1. c[1] \in Sources
          BY AroundType DEF TypeInv, TypeOK, Surroundings
        <4> QED
          BY <1>3, <1>4, <3>2, <4>1
      <3>3. ASSUME NEW cmd, d = [NULL EXCEPT !.src = "UfmCommand", !.intent = {cmd}]
            PROVE  d.src # "PchUpdateIntent"
        BY <1>3, <3>3
      <3>4. ASSUME NEW h \in Hosts, d = [NULL EXCEPT !.src = h]
            PROVE  d.src # "PchUpdateIntent"
        BY <1>3, <1>4, <3>4
      <3> QED
        BY <1>2, <2>2, <3>1, <3>2, <3>3, <3>4 DEF HostPosts
    <2> QED
      BY <2>1, <2>2 DEF Posts
  <1> QED
    BY <1>1, <1>5 DEF Proper

\* A dispatched event is as proper as the one in the FIFO.
LEMMA DispatchProper == QueueProper /\ Dispatch => QueueProper'
  <1> SUFFICES ASSUME QueueProper, Dispatch PROVE QueueProper'
    OBVIOUS
  <1> DEFINE e == Head(fifo)
  <1>1. Take
    BY DEF Dispatch, Transition, RunInPlace, Discard
  <1>2. e \in Proper /\ fifo' \in Seq(Proper) /\ e \in Event
    BY <1>1, TakenFrom DEF QueueProper, Proper
  <1>3. [e EXCEPT !.d.reset = Tmin1Policy(@, HeldAtTmin1(e))] \in Proper
    <2>1. e.d.reset \in SUBSET ResetBits
      BY <1>2, EventParts
    <2>2. [e EXCEPT !.d.reset = Tmin1Policy(@, HeldAtTmin1(e))] \in Event
      BY <1>2, <2>1, PolicyType, EventReset
    <2>3. \A r : /\ [e EXCEPT !.d.reset = r].d.src = e.d.src
                 /\ [e EXCEPT !.d.reset = r].d.intent = e.d.intent
      BY <1>2, EventParts DEF Event, Data
    <2> QED
      BY <1>2, <2>2, <2>3 DEF Proper
  <1> QED
    BY <1>2, <1>3, DispatchedEvent DEF QueueProper

\* Every step keeps the FIFO and the event under way proper.
LEMMA QueueProperStep ==
    ASSUME TypeInv, Placed, QueueProper, FlagsProper, [Next]_vars
    PROVE  QueueProper'
  <1>1. CASE Dispatch
    BY <1>1, DispatchProper
  <1>2. CASE \E f : Reset(f)
    <2>1. Evt("START_STATE_MACHINE", NULL) \in Proper
      BY EvtType, NullType DEF Evt, NULL, Events, Proper
    <2> QED
      BY <1>2, <2>1, ResetIn DEF QueueProper
  <1>3. CASE /\ Queues /\ UNCHANGED state
             /\ UNCHANGED ev \/ (state = "FIRMWARE_UPDATE" /\ Handling)
    <2>1. fifo' \in Seq(Proper)
      BY <1>3, PostsProper, QueuedIn DEF QueueProper
    <2>2. ev' \in Proper
      <3>1. ev \in Proper /\ ev \in Event
        BY DEF QueueProper, Proper
      <3>2. ASSUME NEW H \in SUBSET Intent1
            PROVE  /\ [ev EXCEPT !.d.handled = H] \in Event
                   /\ [ev EXCEPT !.d.handled = H].d.intent = ev.d.intent
                   /\ [ev EXCEPT !.d.handled = H].d.src = ev.d.src
        BY <3>1, EventHandled, EventParts DEF Event, Data
      <3> QED
        BY <1>3, <3>1, <3>2 DEF Handling, Proper
    <2> QED
      BY <2>1, <2>2 DEF QueueProper
  <1> QED
    BY <1>1, <1>2, <1>3, QueueSteps

\* Rewriting a recovery flag with another one than "at reset" keeps the flags
\* proper; so does rewriting BmcToPchStatus.
LEMMA MarkRecovery ==
    ASSUME NEW c \in CpldStatus, PchMarked(c), NEW i, NEW f, f # "PCH_AT_RESET"
    PROVE  PchMarked([c EXCEPT !.recovery[i] = f])
  <1>1. c.recovery \in [Images -> RcvFlags] /\ "PCH" \in Images
    BY DEF CpldStatus, Images, Hosts
  <1>2. [c.recovery EXCEPT ![i] = f]["PCH"] \in {c.recovery["PCH"], f}
    BY <1>1
  <1>3. [c EXCEPT !.recovery = [c.recovery EXCEPT ![i] = f]].recovery["PCH"]
          \in {c.recovery["PCH"], f}
    BY <1>2 DEF CpldStatus
  <1>4. /\ [c EXCEPT !.recovery[i] = f].active = c.active
        /\ [c EXCEPT !.recovery[i] = f].status = c.status
        /\ [c EXCEPT !.recovery[i] = f].recovery["PCH"] \in {c.recovery["PCH"], f}
    BY <1>3 DEF CpldStatus
  <1> QED
    BY <1>4 DEF PchMarked

LEMMA MarkToPch ==
    ASSUME NEW c \in CpldStatus, PchMarked(c), NEW b \in BOOLEAN
    PROVE  PchMarked([c EXCEPT !.toPch = b])
  <1>1. /\ [c EXCEPT !.toPch = b].active = c.active
        /\ [c EXCEPT !.toPch = b].status = c.status
        /\ [c EXCEPT !.toPch = b].recovery = c.recovery
    BY DEF CpldStatus
  <1> QED
    BY <1>1 DEF PchMarked

\* An empty CPLD_STATUS is proper.
LEMMA ClearMarked == PchMarked(ClearCpld)
  BY DEF PchMarked, ClearCpld, NoFlags, Images, Hosts

\* The steps that write the saved CPLD_STATUS.
LEMMA FlagSteps ==
    ASSUME [Next]_vars
    PROVE  \/ UNCHANGED cpld \/ DoRotErase \/ VerifyPendingUpdate \/ UpdateAtReset
           \/ HandleProvision \/ SeamlessUpdate \/ UpdateEnd \/ \E r : RecoveryEnd(r)
  <1>1. CASE Dispatch \/ UNCHANGED vars
    BY <1>1 DEF Dispatch, Transition, RunInPlace, Discard, vars, ufmVars
  <1>2. CASE RotSteps
    BY <1>2 DEF RotSteps, DoInit, DoRotCopy, DoLockdown, DoReboot, ufmVars
  <1>3. CASE VerifySteps
    BY <1>3 DEF VerifySteps, VerifyUnprovisioned, VerifyImages, ufmVars
  <1>4. CASE RecoverSteps
    BY <1>4 DEF RecoverSteps, RecoveryStart, RecoverImages, RecoverNothing, RecoverRegion,
                RecoverFetch, RecoveryGoesOn, RecoveryDone, ufmVars
  <1>5. CASE UpdateSteps
    BY <1>5 DEF UpdateSteps, UpdateStart, UpdateSelect, UpdateCopy, UpdateRefused,
                UpdateProgram, ufmVars
  <1>6. CASE RuntimeSteps \/ SeamlessSteps
    BY <1>6 DEF RuntimeSteps, HandleCheckpoint, RunNothing, SeamlessSteps, SeamlessVerify,
                ufmVars
  <1>7. CASE Environment
    BY <1>7 DEF Environment, BmcReset, MailboxIntent, MailboxCheckpoint, MailboxProvision,
                TimerExpire, StageCapsule, CorruptFlash, PowerLoss, ufmVars
  <1> QED
    BY <1>1, <1>2, <1>3, <1>4, <1>5, <1>6, <1>7 DEF Next, Thread

\* The saved flags, outside handle_update_requested.
LEMMA SavedFlags ==
    ASSUME TypeInv, Placed, QueueProper, FlagsProper, [Next]_vars, ~UpdateEnd
    PROVE  PchMarked(cpld')
  <1>0. cpld \in CpldStatus /\ PchMarked(cpld) /\ "none" # "PCH_AT_RESET"
    BY DEF TypeInv, TypeOK, FlagsProper
  <1>1. CASE UNCHANGED cpld
    BY <1>0, <1>1
  <1>2. CASE DoRotErase
    BY <1>0, <1>2, MarkRecovery DEF DoRotErase
  <1>3. CASE VerifyPendingUpdate
    <2> DEFINE H == Honoured(ev.d.reset)
    <2>1. cpld' = WithoutPending(ev.d.reset)
      BY <1>3 DEF VerifyPendingUpdate
    <2>2. /\ cpld'.status = cpld.status \ H
          /\ cpld'.active["PCH"] \in {"none", cpld.active["PCH"]}
          /\ cpld'.recovery["PCH"] = cpld.recovery["PCH"]
      BY <1>0, <2>1 DEF WithoutPending, CpldStatus, Images, Hosts
    <2> QED
      BY <1>0, <2>2 DEF PchMarked
  <1>4. CASE \E r : RecoveryEnd(r)
    <2>1. PICK r : cpld' = cpld \/ cpld' = [cpld EXCEPT !.recovery[r.index] = "none"]
      BY <1>4 DEF RecoveryEnd
    <2>2. PchMarked([cpld EXCEPT !.recovery[r.index] = "none"])
      BY <1>0, MarkRecovery
    <2> QED
      BY <1>0, <2>1, <2>2
  <1>5. CASE UpdateAtReset
    <2>1. cpld' = AtResetStatus(ev.d)
      BY <1>5 DEF UpdateAtReset
    <2>2. ev.d.src # "PchUpdateIntent" => "PCH_AT_RESET" \notin {cpld'.active["PCH"], cpld'.recovery["PCH"]}
      BY <2>1 DEF AtResetStatus, Images, Hosts
    <2>3. ev.d.src = "PchUpdateIntent" => cpld'.status \subseteq {"PCH"}
      <3>1. ASSUME ev.d.src = "PchUpdateIntent" PROVE ev.d.intent \cap Intent1 \subseteq PchBits
        BY <3>1 DEF QueueProper, Proper
      <3>2. ASSUME ev.d.src = "PchUpdateIntent"
            PROVE  /\ ev.d.intent \cap {"HROTActive"} = {}
                   /\ ev.d.intent \cap BitsFor("BMC") = {}
        BY <3>1, <3>2 DEF PchBits, Intent1, BitsFor, ActiveBit, RecoveryBit
      <3> QED
        BY <2>1, <3>2 DEF AtResetStatus, Images, Hosts
    <2> QED
      BY <2>2, <2>3 DEF PchMarked
  <1>6. CASE HandleProvision
    BY <1>0, <1>6, ClearMarked DEF HandleProvision, ufmVars
  <1>7. CASE SeamlessUpdate
    <2>1. cpld' = [cpld EXCEPT !.toPch = FALSE]
      BY <1>7 DEF SeamlessUpdate
    <2> QED
      BY <1>0, <2>1, MarkToPch
  <1> QED
    BY <1>1, <1>2, <1>3, <1>4, <1>5, <1>6, <1>7, FlagSteps

\* The end of an iteration of the update loop keeps the flags it works on proper.
LEMMA IterationFlags ==
    ASSUME NEW status \in CpldStatus, PchMarked(status), NEW ok, NEW h, NEW i,
           EndIteration(ok, h, status, i)
    PROVE  PchMarked(lcpld')
  <1>1. lcpld' = status \/ lcpld' = [status EXCEPT !.recovery[i] = "none"]
    BY DEF EndIteration
  <1> QED
    <2>1. PchMarked([status EXCEPT !.recovery[i] = "none"])
      BY MarkRecovery
    <2> QED
      BY <1>1, <2>1

\* The flags handle_update_requested works on.
LEMMA LocalFlags ==
    ASSUME TypeInv, FlagsProper, UpdateSteps
    PROVE  PchMarked(lcpld')
  <1>0. cpld \in CpldStatus /\ PchMarked(cpld) /\ lcpld \in CpldStatus /\ PchMarked(lcpld)
    BY DEF TypeInv, TypeOK, FlagsProper
  <1>a. \A i, f : f # "PCH_AT_RESET" => PchMarked([lcpld EXCEPT !.recovery[i] = f])
    BY <1>0, MarkRecovery
  <1>b. \A i : \A f \in RcvFlags : [lcpld EXCEPT !.recovery[i] = f] \in CpldStatus
    BY <1>0, CpldExcept
  <1>c. /\ PchMarked([lcpld EXCEPT !.toPch = FALSE])
        /\ [lcpld EXCEPT !.toPch = FALSE] \in CpldStatus
    BY <1>0, MarkToPch, CpldExcept DEF RcvFlags
  <1>1. CASE UpdateStart
    <2>1. lcpld' = cpld \/ lcpld' = [cpld EXCEPT !.toPch = TRUE]
      BY <1>1 DEF UpdateStart
    <2> QED
      BY <1>0, <2>1, MarkToPch
  <1>2. CASE UpdateSelect
    <2> DEFINE i == NextImage
               status == [lcpld EXCEPT !.recovery[i] = "HANDLED"]
    <2>1. CASE UpdateBypass
      <3>1. EndIteration(upd.ok, upd.handled, lcpld, i)
        BY <2>1 DEF UpdateBypass
      <3> QED
        BY <1>0, <3>1, IterationFlags
    <2>2. CASE UpdateTampered
      <3>1. EndIteration(upd.ok, upd.handled \cup {RecoveryBit(i)}, status, i)
        BY <2>2 DEF UpdateTampered
      <3>2. PchMarked(status) /\ status \in CpldStatus
        BY <1>a, <1>b DEF RcvFlags
      <3> QED
        BY <3>1, <3>2, IterationFlags
    <2>3. CASE UpdateRecoveryRegion \/ UpdateActiveRegion
      <3>1. \/ lcpld' = lcpld
            \/ \E f \in {"HANDLED", "BMC_PENDING", "PCH_PENDING"} :
                  lcpld' = [lcpld EXCEPT !.recovery[i] = f]
        BY <2>3 DEF UpdateRecoveryRegion, UpdateActiveRegion
      <3> QED
        BY <1>0, <1>a, <3>1
    <2> QED
      BY <1>2, <2>1, <2>2, <2>3 DEF UpdateSelect
  <1>3. CASE UpdateCopy
    <2> DEFINE status == [lcpld EXCEPT !.toPch = FALSE]
    <2>1. lcpld' = status \/ EndIteration(FALSE, upd.handled, status, upd.image)
      BY <1>3 DEF UpdateCopy, UpdateReturns
    <2> QED
      BY <1>c, <2>1, IterationFlags
  <1>4. CASE UpdateRefused \/ UpdateProgram
    <2> DEFINE status == JudgedStatus(Judged)
    <2>1. status \in CpldStatus /\ PchMarked(status)
      BY <1>0, <1>a, <1>b DEF JudgedStatus, RcvFlags, ActFlags
    <2>2. \E ok, log : UpdateReturns(ok, log, status)
      BY <1>4 DEF UpdateRefused, UpdateProgram
    <2>3. \E ok : EndIteration(ok, upd.handled, status, upd.image)
      BY <2>2 DEF UpdateReturns
    <2> QED
      BY <2>1, <2>3, IterationFlags
  <1>5. CASE UpdateEnd
    BY <1>5, ClearMarked DEF UpdateEnd
  <1> QED
    BY <1>1, <1>2, <1>3, <1>4, <1>5 DEF UpdateSteps

\* Outside handle_update_requested its locals are not touched, and it is not
\* entered or left.
LEMMA OutsideUpdate ==
    ASSUME [Next]_vars, ~UpdateSteps, ~(\E f : Reset(f))
    PROVE  /\ UNCHANGED <<upd, lcpld>>
           /\ UNCHANGED <<pc, ev>> \/ (~Updating /\ ~Updating')
  <1>1. CASE Dispatch
    BY <1>1 DEF Dispatch, Transition, Goto, RunInPlace, Discard, Take, localVars, Updating
  <1>2. CASE RotSteps
    BY <1>2 DEF RotSteps, DoInit, DoRotErase, DoRotCopy, DoLockdown, DoReboot, Running,
                localVars, Updating
  <1>3. CASE VerifySteps
    BY <1>3 DEF VerifySteps, VerifyUnprovisioned, VerifyPendingUpdate, VerifyImages, Running,
                localVars, Updating
  <1>4. CASE RecoverSteps
    BY <1>4 DEF RecoverSteps, RecoveryStart, RecoverImages, RecoverNothing, RecoverRegion,
                RecoverFetch, RecoveryGoesOn, RecoveryEnd, RecoveryDone, Running, localVars,
                Updating
  <1>5. CASE RuntimeSteps \/ SeamlessSteps
    BY <1>5 DEF RuntimeSteps, UpdateAtReset, HandleCheckpoint, HandleProvision, RunNothing,
                SeamlessSteps, SeamlessUpdate, SeamlessVerify, Running, localVars, Updating
  <1>6. CASE Environment
    BY <1>6 DEF Environment, BmcReset, MailboxIntent, MailboxCheckpoint, MailboxProvision,
                TimerExpire, StageCapsule, CorruptFlash, PowerLoss, smVars, localVars
  <1>7. CASE UNCHANGED vars
    BY <1>7 DEF vars, smVars, localVars
  <1> QED
    BY <1>1, <1>2, <1>3, <1>4, <1>5, <1>6, <1>7 DEF Next, Thread

\* In the PCH's name the loop takes the PCH's image.
LEMMA PchTakesPch ==
    ASSUME upd.left \subseteq PchBits, upd.left # {}
    PROVE  NextImage = "PCH"
  <1>1. upd.left \cap BitsFor("PCH") # {} /\ upd.left \cap BitsFor("BMC") = {}
    BY DEF PchBits, BitsFor, ActiveBit, RecoveryBit
  <1> QED
    BY <1>1 DEF NextImage

\* handle_update_requested works for whoever asked for the update.
LEMMA UpdateProperSteps ==
    ASSUME TypeInv, Placed, IntentInv, UpdateSteps
    PROVE  UpdateProper'
  <1>0. upd \in Update /\ ev \in Event
    BY DEF TypeInv, TypeOK
  <1>1. ev'.d.src = ev.d.src
    <2>1. \A H : [ev EXCEPT !.d.handled = H].d.src = ev.d.src
      BY <1>0, EventParts DEF Event, Data
    <2> QED
      BY <2>1, UpdateQueues DEF Handling
  <1>2. CASE UpdateStart
    <2>1. /\ upd' = [NoUpdate EXCEPT !.left = ev.d.intent \cap Intent1]
          /\ pc' = IF ev.d.src \in {"BmcUpdateIntent", "PchUpdateIntent"} THEN "upd" ELSE "hung"
      BY <1>2 DEF UpdateStart
    <2>2. upd'.left = ev.d.intent \cap Intent1 /\ upd'.image = "none"
      BY <2>1 DEF NoUpdate
    <2> QED
      BY <1>1, <2>1, <2>2 DEF UpdateProper, Updating, IntentInv, QueueProper, Proper
  <1>3. CASE UpdateSelect
    <2>1. /\ pc = "upd" /\ pc' \in {"upd", "copy", "prog"}
          /\ upd'.left \subseteq upd.left /\ upd.left # {}
          /\ upd'.image \in {"none", NextImage}
      <3>1. CASE UpdateBypass
        BY <1>0, <3>1 DEF UpdateBypass, EndIteration, Update
      <3>2. CASE UpdateTampered
        BY <1>0, <3>2 DEF UpdateTampered, EndIteration, Update
      <3>3. CASE UpdateRecoveryRegion
        BY <1>0, <3>3 DEF UpdateRecoveryRegion, Update
      <3>4. CASE UpdateActiveRegion
        BY <1>0, <3>4 DEF UpdateActiveRegion, Update
      <3> QED
        BY <1>3, <3>1, <3>2, <3>3, <3>4 DEF UpdateSelect
    <2>2. ev.d.src = "PchUpdateIntent" => NextImage = "PCH"
      BY <2>1, PchTakesPch DEF IntentInv, UpdateProper, Updating
    <2> QED
      BY <1>1, <2>1, <2>2 DEF IntentInv, UpdateProper, Updating
  <1>4. CASE UpdateCopy \/ UpdateRefused \/ UpdateProgram
    <2>1. /\ pc \in {"copy", "prog"} /\ pc' \in {"upd", "prog"}
          /\ upd' = upd \/ \E b : upd' = [upd EXCEPT !.ok = b]
      BY <1>4 DEF UpdateCopy, UpdateRefused, UpdateProgram, UpdateReturns, EndIteration
    <2>2. upd'.left = upd.left /\ upd'.image = upd.image
      BY <1>0, <2>1 DEF Update
    <2> QED
      BY <1>1, <2>1, <2>2 DEF IntentInv, UpdateProper, Updating
  <1>5. CASE UpdateEnd
    <2>1. pc' = "wait" /\ upd'.image = "none"
      BY <1>5 DEF UpdateEnd, NoUpdate
    <2> QED
      BY <2>1 DEF UpdateProper, Updating
  <1> QED
    BY <1>2, <1>3, <1>4, <1>5 DEF UpdateSteps

\* Every step keeps the PCH's intents where they belong.
LEMMA IntentStep == TypeInv /\ Placed /\ IntentInv /\ [Next]_vars => IntentInv'
  <1> SUFFICES ASSUME TypeInv, Placed, IntentInv, [Next]_vars PROVE IntentInv'
    OBVIOUS
  <1>0. QueueProper'
    BY QueueProperStep DEF IntentInv
  <1>a. PchMarked(cpld')
    <2>1. UpdateEnd => cpld' = lcpld
      BY DEF UpdateEnd
    <2> QED
      BY <2>1, SavedFlags DEF IntentInv, FlagsProper
  <1>1. CASE \E f : Reset(f)
    <2>1. PchMarked(lcpld') /\ upd' = NoUpdate
      BY <1>1, ClearMarked DEF Reset
    <2>2. UpdateProper'
      BY <1>1, <2>1 DEF Reset, UpdateProper, Updating, NoUpdate
    <2> QED
      BY <1>0, <1>a, <2>1, <2>2 DEF IntentInv, FlagsProper
  <1>2. CASE UpdateSteps
    <2>1. PchMarked(lcpld')
      BY <1>2, LocalFlags DEF IntentInv
    <2> QED
      BY <1>0, <1>a, <1>2, <2>1, UpdateProperSteps DEF IntentInv, FlagsProper
  <1>3. CASE ~UpdateSteps /\ ~(\E f : Reset(f))
    <2>1. /\ UNCHANGED <<upd, lcpld>>
          /\ UNCHANGED <<pc, ev>> \/ (~Updating /\ ~Updating')
      BY <1>3, OutsideUpdate
    <2>2. UpdateProper'
      BY <2>1 DEF IntentInv, UpdateProper, Updating
    <2> QED
      BY <1>0, <1>a, <2>1, <2>2 DEF IntentInv, FlagsProper
  <1> QED
    BY <1>1, <1>2, <1>3

LEMMA IntentAlways == Spec => []IntentInv
  <1>1. Init => IntentInv
    <2> SUFFICES ASSUME Init PROVE IntentInv
      OBVIOUS
    <2> DEFINE e == Evt("START_STATE_MACHINE", NULL)
    <2>1. e \in Proper
      BY EvtType, NullType DEF Evt, NULL, Events, Proper
    <2>2. fifo = <<e>> /\ ev = e /\ upd = NoUpdate /\ pc \in {"wait", "dead"}
          /\ cpld = ClearCpld /\ lcpld = ClearCpld
      BY DEF Init
    <2> QED
      BY <2>1, <2>2, ClearMarked
      DEF IntentInv, QueueProper, FlagsProper, UpdateProper, Updating, NoUpdate
  <1> QED
    BY <1>1, IntentStep, PlacedAlways, TypeInvariant, PTL DEF Spec

\* swmbx_notifyee_main, handle_update_at_reset, has_pending_update,
\* handle_update_requested: an update of the BMC's or the RoT's firmware is
\* always the BMC's own request, through all the events that carry it.
THEOREM PchIntents == Spec => []PchIntentStaysInPch
  <1>1. IntentInv => PchIntentStaysInPch
    BY DEF IntentInv, UpdateProper, PchIntentStaysInPch
  <1> QED
    BY <1>1, IntentAlways, PTL

-----------------------------------------------------------------------------
(* Writes.                                                                  *)

\* A write of a region the RoT owns installs the image or fails and leaves none;
\* one of a region it does not own changes nothing.
LEMMA WriteCases ==
    ASSUME NEW i, NEW s, NEW c, NEW w \in Writes(i, s, c)
    PROVE  \/ Reach(i, s) /\ w.c = c /\ w.fault = 0
           \/ Reach(i, s) /\ w.c = Corrupt /\ w.fault = 1
           \/ ~Reach(i, s) /\ w.c = flash[i][s] /\ w.fault = 0
  <1>1. CASE Reach(i, s)
    <2>1. \/ w = [c |-> c, ok |-> TRUE, fault |-> 0]
          \/ w = [c |-> Corrupt, ok |-> FALSE, fault |-> 1]
      BY <1>1, Zenon DEF Writes
    <2>2. CASE w = [c |-> c, ok |-> TRUE, fault |-> 0]
      BY <1>1, <2>2
    <2>3. CASE w = [c |-> Corrupt, ok |-> FALSE, fault |-> 1]
      BY <1>1, <2>3
    <2> QED
      BY <2>1, <2>2, <2>3
  <1>2. CASE ~Reach(i, s)
    <2>1. PICK b \in BOOLEAN : w = [c |-> flash[i][s], ok |-> b, fault |-> 0]
      BY <1>2, Zenon DEF Writes
    <2>2. w.c = flash[i][s] /\ w.fault = 0
      BY <2>1
    <2> QED
      BY <1>2, <2>2
  <1> QED
    BY <1>1, <1>2

\* Failing writes, power failures and images gone bad are counted.
LEMMA CountType ==
    /\ TypeInv => spent.fault \in Nat /\ spent.loss \in Nat /\ spent.corrupt \in Nat
    /\ TypeInv' => spent'.fault \in Nat /\ spent'.loss \in Nat /\ spent'.corrupt \in Nat
  <1>1. (TypeInv => spent \in Budget) /\ (TypeInv' => spent' \in Budget)
    BY Zenon DEF TypeInv, TypeOK
  <1> QED
    BY <1>1 DEF Budget

\* What a write does to the flash and to the bound on failing writes.
LEMMA RewriteCases ==
    ASSUME TypeInv, NEW i \in Images, NEW s \in Slots, NEW c, NEW w \in Writes(i, s, c),
           Rewrite(i, s, w)
    PROVE  /\ \A j \in Images, t \in Slots :
                 j # i \/ t # s => flash'[j][t] = flash[j][t]
           /\ flash'[i][s] = w.c
           /\ spent'.fault = spent.fault + w.fault /\ spent'.loss = spent.loss
           /\ spent'.corrupt = spent.corrupt /\ w.fault \in {0, 1}
  <1>1. w.fault = 0 \/ w.fault = 1
    BY WriteCases
  <1>2. flash \in [Images -> [Slots -> Content]] /\ spent \in Budget
    BY DEF TypeInv, TypeOK, Flash
  <1>3. flash' = [flash EXCEPT ![i][s] = w.c]
    BY DEF Rewrite
  <1>4. /\ spent'.fault = spent.fault + w.fault /\ spent'.loss = spent.loss
        /\ spent'.corrupt = spent.corrupt
    BY <1>2 DEF Rewrite, Budget
  <1> QED
    BY <1>1, <1>2, <1>3, <1>4

-----------------------------------------------------------------------------
(* The RoT's own firmware.                                                  *)

\* A partition that authenticates.
Good(s) == flash["ROT"][s].kind = "ROT"
\* Failing writes and power failures so far.
Failures == spent.fault + spent.loss
\* An event that does not announce a start from the recovery partition.
Primary == {e \in Event : e.ev # "INIT_ROT_SECONDARY_BOOTED"}

\* Every platform leaves the factory with two good partitions.
RotShipped ==
    \A n \in DOMAIN Scenario :
        /\ Scenario[n].flash["ROT"]["active"].kind = "ROT"
        /\ Scenario[n].flash["ROT"]["recovery"].kind = "ROT"

\* The inductive invariant behind SingleFaultKeepsRot: a partition is lost only
\* to a failure, and the active one is erased only when it is lost already.
RotInv ==
    /\ ~Good("active") \/ ~Good("recovery") => Failures >= 1
    /\ ~Good("active") /\ ~Good("recovery") => Failures >= 2
    /\ pc = "dead" => ~Good("active") /\ ~Good("recovery")
    /\ (pc = "run" /\ state = "ROT_RECOVERY") \/ pc = "rot" => ~Good("active")
    /\ state = "BOOT" \/ (state = "INIT" /\ Good("active")) => fifo \in Seq(Primary)

SameRot == (Good("active")' <=> Good("active")) /\ (Good("recovery")' <=> Good("recovery"))
\* A step that is not about the RoT's firmware.
Aside ==
    /\ SameRot /\ Failures' >= Failures
    /\ UNCHANGED state /\ Queues
    /\ UNCHANGED pc \/ pc' \in {"wait", "rec", "upd", "copy", "prog", "hung"}

\* A step that touches neither flash nor bounds.
LEMMA AsideUnchanged ==
    ASSUME TypeInv, UNCHANGED <<flash, spent>>
    PROVE  SameRot /\ Failures' >= Failures
  <1>1. spent.fault \in Nat /\ spent.loss \in Nat
    BY DEF TypeInv, TypeOK, Budget
  <1> QED
    BY <1>1 DEF SameRot, Good, Failures

\* A write of a host's region.
LEMMA AsideRewrite ==
    ASSUME TypeInv, NEW i \in Hosts, NEW s \in Slots, NEW c, NEW w \in Writes(i, s, c),
           Rewrite(i, s, w)
    PROVE  SameRot /\ Failures' >= Failures
  <1>1. i \in Images /\ i # "ROT" /\ "ROT" \in Images /\ {"active", "recovery"} \subseteq Slots
    BY DEF Images, Hosts, Slots
  <1>2. spent.fault \in Nat /\ spent.loss \in Nat
    BY DEF TypeInv, TypeOK, Budget
  <1> QED
    BY <1>1, <1>2, RewriteCases DEF SameRot, Good, Failures

\* handle_recovery is not about the RoT's firmware.
LEMMA RecoverAside == TypeInv /\ Placed /\ RecoverSteps => Aside
  <1> SUFFICES ASSUME TypeInv, Placed, RecoverSteps PROVE Aside
    OBVIOUS
  <1>1. Queues /\ UNCHANGED state
    BY RecoverQueues
  <1>2. pc' \in {"wait", "rec"} \/ UNCHANGED pc
    BY DEF RecoverSteps, RecoveryStart, RecoverImages, RecoverNothing, RecoverRegion, RecoverFetch,
           RecoveryGoesOn, RecoveryEnd, RecoveryDone
  <1>3. CASE UNCHANGED <<flash, spent>>
    BY <1>1, <1>2, <1>3, AsideUnchanged DEF Aside
  <1>4. CASE RecoverImages
    <2>1. PICK k \in NextCalls : RecoverNothing(k) \/ RecoverRegion(k) \/ RecoverFetch(k)
      BY <1>4 DEF RecoverImages
    <2>2. k \in 1 .. 4
      BY <2>1 DEF NextCalls, TypeInv, TypeOK, Recovery
    <2> DEFINE h == Step(k).h
               p == PlanOf(h)
    <2>3. h \in Hosts
      BY <2>2, StepType
    <2>4. CASE RecoverNothing(k)
      BY <1>3, <2>4 DEF RecoverNothing
    <2>5. CASE RecoverRegion(k)
      <3>1. p.slot \in Slots
        BY <2>3, <2>5, PlanType DEF RecoverRegion, Slots
      <3>2. PICK w \in Writes(h, p.slot, p.with) : Rewrite(h, p.slot, w)
        BY <2>5 DEF RecoverRegion
      <3> QED
        BY <1>1, <1>2, <2>3, <3>1, <3>2, AsideRewrite DEF Aside
    <2>6. CASE RecoverFetch(k)
      <3>1. PICK w \in Writes(h, "staging", p.with) : Rewrite(h, "staging", w)
        BY <2>6 DEF RecoverFetch
      <3> QED
        BY <1>1, <1>2, <2>3, <3>1, AsideRewrite DEF Aside, Slots
    <2> QED
      BY <2>1, <2>4, <2>5, <2>6
  <1>5. RecoveryStart \/ RecoveryDone => UNCHANGED <<flash, spent>>
    BY DEF RecoveryStart, RecoveryDone
  <1> QED
    BY <1>3, <1>4, <1>5 DEF RecoverSteps

\* Nor is handle_update_requested, but for an update of the RoT.
LEMMA UpdateAside ==
    ASSUME TypeInv, Placed, UpdateSteps, ~(UpdateProgram /\ upd.image = "ROT")
    PROVE  Aside
  <1>1. Queues /\ UNCHANGED state
    BY UpdateQueues
  <1>2. pc' \in {"wait", "upd", "copy", "prog", "hung"}
    BY DEF UpdateSteps, UpdateStart, UpdateSelect, UpdateBypass, UpdateTampered,
           UpdateRecoveryRegion, UpdateActiveRegion, UpdateCopy, UpdateRefused, UpdateProgram,
           UpdateReturns, EndIteration, UpdateEnd
  <1>3. CASE UNCHANGED <<flash, spent>>
    BY <1>1, <1>2, <1>3, AsideUnchanged DEF Aside
  <1>4. CASE UpdateCopy
    <2>1. \/ UNCHANGED <<flash, spent>>
          \/ \E w \in Writes("PCH", "staging", Read("BMC", "staging")) :
                Rewrite("PCH", "staging", w)
      BY <1>4 DEF UpdateCopy
    <2> QED
      BY <1>1, <1>2, <1>3, <2>1, AsideRewrite DEF Aside, Slots, Hosts
  <1>5. CASE UpdateProgram
    <2> DEFINE c == Installed(upd.image, upd.sel, Read(upd.image, "staging"))
    <2>1. upd.image \in Hosts /\ upd.sel \in Slots
      BY <1>5 DEF UpdateProgram, TypeInv, TypeOK, Aimed, Images, Update, Slots
    <2>2. \E w \in Writes(upd.image, upd.sel, c) : Rewrite(upd.image, upd.sel, w)
      BY <1>5 DEF UpdateProgram
    <2> QED
      BY <1>1, <1>2, <2>1, <2>2, AsideRewrite DEF Aside
  <1>6. UpdateStart \/ UpdateSelect \/ UpdateRefused \/ UpdateEnd => UNCHANGED <<flash, spent>>
    BY DEF UpdateStart, UpdateSelect, UpdateRefused, UpdateEnd
  <1> QED
    BY <1>3, <1>4, <1>5, <1>6 DEF UpdateSteps

\* The steps of the other handlers, and of what is around the RoT, are not.
LEMMA OthersAside ==
    ASSUME TypeInv, Placed,
           \/ DoInit \/ DoLockdown \/ VerifySteps \/ RuntimeSteps \/ SeamlessSteps
           \/ (Environment /\ ~PowerLoss) \/ UNCHANGED vars
    PROVE  Aside
  <1>t. spent \in Budget /\ flash \in Flash
    BY DEF TypeInv, TypeOK
  <1>1. CASE DoInit \/ DoLockdown
    <2>1. UNCHANGED <<flash, spent>> /\ pc' = "wait"
      BY <1>1 DEF DoInit, DoLockdown
    <2> QED
      BY <1>1, <2>1, RotQueues, AsideUnchanged DEF Aside
  <1>2. CASE VerifySteps
    <2>1. UNCHANGED <<flash, spent>> /\ pc' = "wait"
      BY <1>2 DEF VerifySteps, VerifyUnprovisioned, VerifyPendingUpdate, VerifyImages
    <2> QED
      BY <1>2, <2>1, VerifyQueues, AsideUnchanged DEF Aside
  <1>3. CASE RuntimeSteps
    <2>1. UNCHANGED <<flash, spent>> /\ pc' = "wait"
      BY <1>3 DEF RuntimeSteps, UpdateAtReset, HandleCheckpoint, HandleProvision, RunNothing
    <2> QED
      BY <1>3, <2>1, RuntimeQueues, AsideUnchanged DEF Aside
  <1>4. CASE SeamlessUpdate
    <2>0. PICK f \in {0, 1} :
            /\ spent' = [spent EXCEPT !.fault = @ + f]
            /\ flash' = [flash EXCEPT
                 !["PCH"]["staging"] = IF /\ ev.d.src = "BmcUpdateIntent2" \/ cpld.toPch
                                          /\ Copied.kind = "PCH"
                                       THEN Copied ELSE @,
                 !["PCH"]["active"] = IF f = 1 THEN Corrupt ELSE @]
      BY <1>4, Zenon DEF SeamlessUpdate
    <2>1. /\ spent' = [spent EXCEPT !.fault = @ + f]
          /\ \E c, d : flash' = [flash EXCEPT !["PCH"]["staging"] = c, !["PCH"]["active"] = d]
      BY <2>0
    <2>2. SameRot
      BY <1>t, <2>1 DEF SameRot, Good, Flash, Images, Hosts
    <2>3. Failures' >= Failures
      BY <1>t, <2>1 DEF Failures, Budget
    <2>4. pc' = "wait"
      BY <1>4 DEF SeamlessUpdate
    <2> QED
      BY <1>4, <2>2, <2>3, <2>4, RuntimeQueues DEF Aside, SeamlessSteps
  <1>5. CASE SeamlessVerify
    <2>1. UNCHANGED <<flash, spent>> /\ pc' = "wait"
      BY <1>5 DEF SeamlessVerify
    <2> QED
      BY <1>5, <2>1, RuntimeQueues, AsideUnchanged DEF Aside, SeamlessSteps
  <1>6. CASE Environment /\ ~PowerLoss
    <2>1. Queues /\ UNCHANGED <<state, pc, ev>>
      BY <1>6, HostQueues, HearsQueues
    <2>2. Failures' >= Failures
      <3>1. UNCHANGED <<spent.fault, spent.loss>>
        BY <1>t, <1>6 DEF Budget, Environment, BmcReset, MailboxIntent, MailboxCheckpoint,
                          MailboxProvision, TimerExpire, StageCapsule, CorruptFlash
      <3> QED
        BY <1>t, <3>1 DEF Failures, Budget
    <2>3. CASE UNCHANGED flash
      BY <2>1, <2>2, <2>3 DEF Aside, SameRot, Good
    <2>4. CASE StageCapsule
      <3>1. PICK i, c : flash' = [flash EXCEPT ![i]["staging"] = c]
        BY <2>4 DEF StageCapsule
      <3>2. SameRot
        BY <1>t, <3>1 DEF SameRot, Good, Flash, Images, Slots
      <3> QED
        BY <2>1, <2>2, <3>2 DEF Aside
    <2>5. CASE CorruptFlash
      <3>1. PICK h \in Hosts, slot \in {"active", "recovery"} :
              flash' = [flash EXCEPT ![h][slot] = Corrupt]
        BY <2>5 DEF CorruptFlash
      <3>2. SameRot
        BY <1>t, <3>1 DEF SameRot, Good, Flash, Images, Hosts
      <3> QED
        BY <2>1, <2>2, <3>2 DEF Aside
    <2> QED
      BY <1>6, <2>3, <2>4, <2>5
      DEF Environment, BmcReset, MailboxIntent, MailboxCheckpoint, MailboxProvision, TimerExpire
  <1>7. CASE UNCHANGED vars
    BY <1>7, AsideUnchanged DEF vars, smVars, Aside, Queues
  <1> QED
    BY <1>1, <1>2, <1>3, <1>4, <1>5, <1>6, <1>7 DEF SeamlessSteps

\* What a step that is not about the RoT's firmware keeps.
LEMMA RotAside ==
    ASSUME TypeInv, TypeInv', RotInv, Aside
    PROVE  RotInv'
  <1>1. Failures \in Nat /\ Failures' \in Nat
    BY CountType DEF Failures
  <1>2. state = "BOOT" \/ (state = "INIT" /\ Good("active")) => fifo' \in Seq(Primary)
    <2>1. ASSUME state = "BOOT" \/ (state = "INIT" /\ Good("active")),
                 NEW n \in Events, NEW d \in Data, Posts(n, d)
          PROVE  Evt(n, d) \in Primary
      <3>1. n # "INIT_ROT_SECONDARY_BOOTED"
        <4>1. CASE ThreadPosts(n, d)
          BY <2>1, <4>1 DEF ThreadPosts, Good
        <4>2. CASE HostPosts(n, d)
          <5>1. Around \in Surroundings
            BY AroundType DEF TypeInv, TypeOK
          <5> QED
            BY <4>2, <5>1 DEF HostPosts, Surroundings, Request
        <4> QED
          BY <2>1, <4>1, <4>2 DEF Posts
      <3>2. Evt(n, d).ev = n
        BY DEF Evt
      <3> QED
        BY <3>1, <3>2, EvtType DEF Primary
    <2> QED
      BY <2>1, QueuedIn DEF RotInv, Aside
  <1> QED
    BY <1>1, <1>2 DEF RotInv, Aside, SameRot

\* Dispatching an event: the RoT recovers its firmware only when the boot ROM
\* said that the active partition is lost.
LEMMA RotDispatch == TypeInv /\ RotInv /\ Dispatch => RotInv'
  <1> SUFFICES ASSUME TypeInv, RotInv, Dispatch PROVE RotInv'
    OBVIOUS
  <1>1. UNCHANGED <<flash, spent>> /\ fifo # <<>> /\ fifo' = Tail(fifo)
    BY DEF Dispatch, Transition, RunInPlace, Discard, Take
  <1>2. fifo \in Seq(Primary) => fifo' \in Seq(Primary) /\ Head(fifo) \in Primary
    BY <1>1
  <1>3. CASE Transition
    <2>1. PICK t \in Successors(Head(fifo)) : Goto(t)
      BY <1>3 DEF Transition
    <2>2. state' = t /\ pc' = "run"
      BY <2>1 DEF Goto
    <2>3. t # "BOOT" /\ (t = "INIT" => state = "BOOT")
          /\ (t = "ROT_RECOVERY" => state = "INIT" /\ Head(fifo).ev = "INIT_ROT_SECONDARY_BOOTED")
      BY <2>1 DEF Successors, Transitions, AfterUpdate
    <2>4. t = "ROT_RECOVERY" => ~Good("active")
      BY <1>2, <2>3 DEF RotInv, Primary
    <2> QED
      BY <1>1, <1>2, <2>2, <2>3, <2>4 DEF RotInv, Good, Failures
  <1>4. CASE RunInPlace
    <2>1. UNCHANGED state /\ pc' = "run" /\ state \in {"RUNTIME", "UNPROVISIONED"}
      BY <1>4 DEF RunInPlace, RunsInPlace
    <2> QED
      BY <1>1, <1>2, <2>1 DEF RotInv, Good, Failures
  <1>5. CASE Discard
    <2>1. UNCHANGED <<state, pc>>
      BY <1>5 DEF Discard
    <2> QED
      BY <1>1, <1>2, <2>1 DEF RotInv, Good, Failures
  <1> QED
    BY <1>3, <1>4, <1>5 DEF Dispatch

\* A partition and the failure it is lost to.
LEMMA OneLost ==
    ASSUME TypeInv, TypeInv', RotInv, Failures' = Failures + 1,
           \/ Good("active") => Good("active")'
           \/ Good("recovery") => Good("recovery")'
    PROVE  /\ ~Good("active")' \/ ~Good("recovery")' => Failures' >= 1
           /\ ~Good("active")' /\ ~Good("recovery")' => Failures' >= 2
  <1>1. Failures \in Nat
    BY CountType DEF Failures
  <1> QED
    BY <1>1 DEF RotInv

\* do_rot_recovery: the erase takes nothing that is not lost already.
LEMMA RotErase ==
    ASSUME TypeInv, TypeInv', RotInv, DoRotErase
    PROVE  RotInv'
  <1>t. spent \in Budget /\ flash \in Flash
    BY DEF TypeInv, TypeOK
  <1>1. state = "ROT_RECOVERY" /\ UNCHANGED state /\ pc = "run" /\ pc' = "rot"
    BY DEF DoRotErase, Running
  <1>2. ~Good("active")
    BY <1>1 DEF RotInv
  <1>3. /\ flash'["ROT"]["active"] = Corrupt
        /\ flash'["ROT"]["recovery"] = flash["ROT"]["recovery"]
    BY <1>t DEF DoRotErase, Flash, Images, Slots
  <1>4. SameRot /\ ~Good("active")'
    BY <1>2, <1>3 DEF SameRot, Good, Corrupt
  <1>5. Failures' >= Failures /\ Failures' \in Nat /\ Failures \in Nat
    BY <1>t DEF DoRotErase, Failures, Budget
  <1> QED
    BY <1>1, <1>4, <1>5 DEF RotInv, SameRot

\* do_rot_recovery: the copy restores the active partition or fails.
LEMMA RotCopied ==
    ASSUME TypeInv, TypeInv', RotInv, Placed, DoRotCopy
    PROVE  RotInv'
  <1>1. state = "ROT_RECOVERY" /\ UNCHANGED state /\ pc = "rot" /\ pc' = "wait"
    BY DEF DoRotCopy, Placed
  <1>2. ~Good("active")
    BY <1>1 DEF RotInv
  <1>3. PICK w \in Writes("ROT", "active", flash["ROT"]["recovery"]) :
          Rewrite("ROT", "active", w)
    BY DEF DoRotCopy
  <1>4. "ROT" \in Images /\ {"active", "recovery"} \subseteq Slots /\ Reach("ROT", "active")
    BY DEF Images, Slots, Reach
  <1>5. /\ flash'["ROT"]["recovery"] = flash["ROT"]["recovery"]
        /\ flash'["ROT"]["active"] = w.c
        /\ spent'.fault = spent.fault + w.fault /\ spent'.loss = spent.loss
    BY <1>3, <1>4, RewriteCases
  <1>6. \/ w.c = flash["ROT"]["recovery"] /\ w.fault = 0
        \/ w.c = Corrupt /\ w.fault = 1
    BY <1>4, WriteCases
  <1>7. Failures \in Nat /\ Failures' = Failures + w.fault
    <2>1. w.fault \in {0, 1}
      BY <1>6
    <2> QED
      BY <1>5, <2>1, CountType DEF Failures
  <1>8. (Good("recovery")' <=> Good("recovery")) /\ Failures' >= Failures
    BY <1>5, <1>6, <1>7 DEF Good
  <1>9. Good("active")' \/ ~Good("recovery") \/ Failures' = Failures + 1
    BY <1>5, <1>6, <1>7 DEF Good
  <1>10. Failures' \in Nat
    BY CountType DEF Failures
  <1> QED
    BY <1>1, <1>2, <1>7, <1>8, <1>9, <1>10 DEF RotInv

\* ast1060_update: the new firmware is the RoT's, or writing it fails.
LEMMA RotUpdated ==
    ASSUME TypeInv, TypeInv', RotInv, Placed, UpdateProgram, upd.image = "ROT"
    PROVE  RotInv'
  <1>1. state = "FIRMWARE_UPDATE" /\ UNCHANGED state /\ pc' = "upd"
    BY DEF UpdateProgram, UpdateReturns, EndIteration, Placed
  <1> DEFINE c == Read("ROT", "staging")
  <1>2. upd.sel \in {"active", "recovery"} /\ "ROT" \in Images /\ "ROT" \notin Hosts
        /\ {"active", "recovery", "staging"} = Slots
    BY DEF TypeInv, TypeOK, Update, Images, Hosts, Slots
  <1>3. c \in Content
    BY <1>2, ReadType DEF TypeInv, TypeOK
  <1>4. c.kind = "ROT"
    <2>1. UpdateRot(c, svn["ROT"]).pass
      BY DEF UpdateProgram, Judged
    <2> QED
      BY <1>3, <2>1 DEF UpdateRot, Verdict, Content, Images
  <1>5. PICK w \in Writes("ROT", upd.sel, c) : Rewrite("ROT", upd.sel, w)
    BY <1>2 DEF UpdateProgram, Installed
  <1>6. Reach("ROT", upd.sel) /\ upd.sel \in Slots
    BY <1>2 DEF Reach
  <1>7. /\ \A s \in Slots : s # upd.sel => flash'["ROT"][s] = flash["ROT"][s]
        /\ flash'["ROT"][upd.sel] = w.c
        /\ spent'.fault = spent.fault + w.fault /\ spent'.loss = spent.loss
    BY <1>2, <1>5, <1>6, RewriteCases
  <1>8. \/ w.c = c /\ w.fault = 0
        \/ w.c = Corrupt /\ w.fault = 1
    BY <1>6, WriteCases
  <1>9. Failures \in Nat /\ Failures' = Failures + w.fault
    <2>1. w.fault \in {0, 1}
      BY <1>8
    <2> QED
      BY <1>7, <2>1, CountType DEF Failures
  <1>10. /\ ~Good("active")' \/ ~Good("recovery")' => Failures' >= 1
         /\ ~Good("active")' /\ ~Good("recovery")' => Failures' >= 2
    <2>1. CASE w.c = c /\ w.fault = 0
      BY <1>2, <1>4, <1>7, <1>9, <2>1 DEF RotInv, Good
    <2>2. CASE w.c = Corrupt /\ w.fault = 1
      <3>1. Failures' = Failures + 1
        BY <1>9, <2>2
      <3>2. \/ Good("active") => Good("active")'
            \/ Good("recovery") => Good("recovery")'
        BY <1>2, <1>7 DEF Good
      <3> QED
        BY <3>1, <3>2, OneLost
    <2> QED
      BY <1>8, <2>1, <2>2
  <1> QED
    BY <1>1, <1>10 DEF RotInv

\* A reset of the RoT, and a power failure that also loses the region being
\* written: the RoT is dead when both partitions are lost.
LEMMA RotReset ==
    ASSUME TypeInv, TypeInv', RotInv, DoReboot \/ PowerLoss
    PROVE  RotInv'
  <1>t. spent \in Budget /\ flash \in Flash
    BY DEF TypeInv, TypeOK
  <1>1. state' = "BOOT" /\ fifo' \in Seq(Primary)
    <2>1. Evt("START_STATE_MACHINE", NULL) \in Primary
      BY EvtType, NullType DEF Evt, Primary, Events
    <2>2. \E f : Reset(f)
      BY DEF DoReboot, PowerLoss
    <2> QED
      BY <2>1, <2>2, ResetIn DEF Reset
  <1>2. pc' = IF Good("active")' \/ Good("recovery")' THEN "wait" ELSE "dead"
    BY DEF DoReboot, PowerLoss, Reset, Alive, Good
  <1>3. /\ ~Good("active")' \/ ~Good("recovery")' => Failures' >= 1
        /\ ~Good("active")' /\ ~Good("recovery")' => Failures' >= 2
    <2>1. CASE DoReboot
      BY <2>1 DEF DoReboot, RotInv, Good, Failures
    <2>2. CASE PowerLoss
      <3>1. Failures' = Failures + 1
        BY <1>t, <2>2 DEF PowerLoss, Failures, Budget
      <3>2. \/ Good("active") => Good("active")'
            \/ Good("recovery") => Good("recovery")'
        <4>1. CASE UNCHANGED flash
          BY <4>1 DEF Good
        <4>2. ASSUME NEW x, flash' = [flash EXCEPT ![x[1]][x[2]] = Corrupt]
              PROVE  \/ UNCHANGED flash["ROT"]["active"]
                     \/ UNCHANGED flash["ROT"]["recovery"]
          BY <1>t, <4>2 DEF Flash, Images, Slots
        <4>3. CASE \E x : flash' = [flash EXCEPT ![x[1]][x[2]] = Corrupt]
          BY <4>2, <4>3 DEF Good
        <4> QED
          BY <2>2, <4>1, <4>3 DEF PowerLoss
      <3> QED
        BY <3>1, <3>2, OneLost
    <2> QED
      BY <2>1, <2>2
  <1> QED
    BY <1>1, <1>2, <1>3 DEF RotInv

\* Every step loses a partition to a failure only.
LEMMA RotStep == TypeInv /\ Placed /\ RotInv /\ [Next]_vars => RotInv'
  <1> SUFFICES ASSUME TypeInv, Placed, RotInv, [Next]_vars PROVE RotInv'
    OBVIOUS
  <1>t. TypeInv'
    BY TypeStep
  <1>1. CASE Dispatch
    BY <1>1, RotDispatch
  <1>2. CASE DoRotErase \/ DoRotCopy \/ DoReboot \/ PowerLoss
    BY <1>t, <1>2, RotErase, RotCopied, RotReset
  <1>3. CASE UpdateSteps
    BY <1>t, <1>3, UpdateAside, RotAside, RotUpdated
  <1>4. CASE RecoverSteps
    BY <1>t, <1>4, RecoverAside, RotAside
  <1>5. CASE \/ DoInit \/ DoLockdown \/ VerifySteps \/ RuntimeSteps \/ SeamlessSteps
             \/ (Environment /\ ~PowerLoss) \/ UNCHANGED vars
    BY <1>t, <1>5, OthersAside, RotAside
  <1> QED
    BY <1>1, <1>2, <1>3, <1>4, <1>5 DEF Next, Thread, RotSteps

\* ast1060_update, do_rot_recovery: on a platform that left the factory with two
\* good partitions one failure, of a write or of the power and at whatever point
\* of an update, a recovery or the boot after it, never leaves the RoT without
\* firmware to start.
THEOREM RotSurvives ==
    ASSUME RotShipped
    PROVE  Spec => []SingleFaultKeepsRot
  <1>1. Init => RotInv
    <2> SUFFICES ASSUME Init PROVE RotInv
      OBVIOUS
    <2>1. Good("active") /\ Good("recovery") /\ pc = "wait"
      BY DEF Init, RotShipped, Good, Around, Alive
    <2>2. Evt("START_STATE_MACHINE", NULL) \in Primary
      BY EvtType, NullType DEF Evt, Primary, Events
    <2>3. fifo \in Seq(Primary) /\ state = "BOOT"
      BY <2>2 DEF Init
    <2> QED
      BY <2>1, <2>3 DEF RotInv
  <1>2. TypeInv /\ RotInv => SingleFaultKeepsRot
    BY CountType DEF RotInv, SingleFaultKeepsRot, Failures
  <1> QED
    BY <1>1, <1>2, RotStep, TypeInvariant, PlacedAlways, PTL DEF Spec

-----------------------------------------------------------------------------
(* The firmware of a host.                                                  *)

\* A host's capsule or firmware, or nothing that authenticates.
Own(h, c) == c.kind \in {h, "NONE"}
\* A region of a host that holds an image for it.
Sound(h, s) == flash[h][s].kind = h
OwnFlash(h) == \A s \in Slots : Own(h, flash[h][s])
\* Failing writes, power failures and images gone bad so far.
Mishaps == spent.fault + spent.loss + spent.corrupt

\* A host's flash never holds a capsule for another part: neither when power is
\* first applied nor by what is staged.
OwnCapsules(h) ==
    \A n \in DOMAIN Scenario :
        /\ \A s \in Slots : Own(h, Scenario[n].flash[h][s])
        /\ \A x \in Scenario[n].stageable : x[1] = h => Own(h, x[2])
\* The host leaves the factory with a good active and a good recovery image.
Shipped(h) ==
    \A n \in DOMAIN Scenario, s \in {"active", "recovery"} : Scenario[n].flash[h][s].kind = h

\* The inductive invariant behind ImageSurvives: an image of the host is lost
\* only to a mishap of its own.
ImageInv(h) ==
    /\ OwnFlash(h)
    /\ ~Sound(h, "active") \/ ~Sound(h, "recovery") => Mishaps >= 1
    /\ ~Sound(h, "active") /\ ~Sound(h, "recovery") => Mishaps >= 2

\* A step that loses no image of the host, and one that loses one to a mishap.
KeepsImages(h) ==
    /\ OwnFlash(h)' /\ Mishaps' >= Mishaps
    /\ Sound(h, "active") => Sound(h, "active")'
    /\ Sound(h, "recovery") => Sound(h, "recovery")'
LosesImage(h) ==
    /\ OwnFlash(h)' /\ Mishaps' = Mishaps + 1
    /\ \/ Sound(h, "active") => Sound(h, "active")'
       \/ Sound(h, "recovery") => Sound(h, "recovery")'

\* An unchanged flash keeps its images.
LEMMA StillImages ==
    ASSUME NEW h \in Hosts, OwnFlash(h), Mishaps' >= Mishaps,
           \A s \in Slots : flash'[h][s] = flash[h][s]
    PROVE  KeepsImages(h)
  BY DEF KeepsImages, OwnFlash, Own, Sound, Slots

LEMMA SameImages ==
    ASSUME TypeInv, NEW h \in Hosts, OwnFlash(h), UNCHANGED <<flash, spent>>
    PROVE  KeepsImages(h)
  <1>1. Mishaps \in Nat /\ UNCHANGED Mishaps
    BY CountType DEF Mishaps
  <1> QED
    BY <1>1 DEF KeepsImages, OwnFlash, Own, Sound

\* A region that goes bad is one region.
LEMMA RegionLost ==
    ASSUME TypeInv, NEW h \in Hosts, OwnFlash(h), NEW x,
           flash' = [flash EXCEPT ![x[1]][x[2]] = Corrupt]
    PROVE  /\ OwnFlash(h)'
           /\ \/ Sound(h, "active") => Sound(h, "active")'
              \/ Sound(h, "recovery") => Sound(h, "recovery")'
  <1>1. flash \in Flash /\ h \in Images
    BY DEF TypeInv, TypeOK, Images
  <1>2. \A s \in Slots : \/ flash'[h][s] = flash[h][s]
                         \/ s = x[2] /\ flash'[h][s] = Corrupt
    BY <1>1 DEF Flash
  <1> QED
    BY <1>2 DEF OwnFlash, Own, Sound, Corrupt, Slots

\* A write of a good image, or of what may be staged, that fails or succeeds.
LEMMA WrittenImage ==
    ASSUME TypeInv, NEW h \in Hosts, OwnFlash(h),
           NEW i \in Images, NEW s \in Slots, NEW c, NEW w \in Writes(i, s, c), Rewrite(i, s, w),
           i = h /\ Reach(i, s) => Own(h, c) /\ (s # "staging" => c.kind = h)
    PROVE  KeepsImages(h) \/ LosesImage(h)
  <1>1. /\ \A j \in Images, t \in Slots : j # i \/ t # s => flash'[j][t] = flash[j][t]
        /\ flash'[i][s] = w.c
        /\ spent'.fault = spent.fault + w.fault /\ spent'.loss = spent.loss
        /\ spent'.corrupt = spent.corrupt /\ w.fault \in {0, 1}
    BY RewriteCases
  <1>2. spent.fault \in Nat /\ spent.loss \in Nat /\ spent.corrupt \in Nat
    BY CountType
  <1>3. Mishaps' = Mishaps + w.fault /\ Mishaps' >= Mishaps
    BY <1>1, <1>2 DEF Mishaps
  <1>4. h \in Images /\ h # "NONE" /\ "active" \in Slots /\ "recovery" \in Slots
    BY DEF Images, Hosts, Slots
  <1>5. CASE i # h \/ (~Reach(i, s) /\ w.c = flash[i][s])
    <2>1. \A t \in Slots : flash'[h][t] = flash[h][t]
      BY <1>1, <1>4, <1>5
    <2> QED
      BY <1>3, <2>1, <1>4 DEF KeepsImages, OwnFlash, Own, Sound
  <1>6. CASE i = h /\ Reach(i, s) /\ w.c = c
    BY <1>1, <1>3, <1>4, <1>6 DEF KeepsImages, OwnFlash, Own, Sound
  <1>7. CASE i = h /\ w.c = Corrupt /\ w.fault = 1
    <2>1. \A t \in Slots : t # s => flash'[h][t] = flash[h][t]
      BY <1>1, <1>4, <1>7
    <2>2. flash'[h][s].kind = "NONE"
      BY <1>1, <1>7 DEF Corrupt
    <2>3. OwnFlash(h)'
      BY <2>1, <2>2 DEF OwnFlash, Own
    <2>4. \/ Sound(h, "active") => Sound(h, "active")'
          \/ Sound(h, "recovery") => Sound(h, "recovery")'
      BY <2>1, <1>4 DEF Sound
    <2> QED
      BY <1>3, <1>7, <2>3, <2>4 DEF LosesImage
  <1> QED
    BY <1>5, <1>6, <1>7, WriteCases

\* recover_image: what it writes over a region is an image for the host, when
\* nothing else is staged for the host.
LEMMA PlannedImage ==
    ASSUME TypeInv, NEW h \in Hosts, OwnFlash(h)
    PROVE  /\ PlanOf(h).do = "write" => PlanOf(h).with.kind = h
           /\ PlanOf(h).do = "fetch" => PlanOf(h).with.kind = h
  <1>1. Read(h, "recovery").kind \in {h, "NONE"} /\ Read(h, "staging").kind \in {h, "NONE"}
    BY DEF Read, OwnFlash, Own, Slots, Corrupt
  <1>2. "NONE" \notin Hosts
    BY DEF Hosts
  <1>3. CapsuleVerify(Read(h, "recovery")) => Unpacked(h, Read(h, "recovery")).kind = h
    BY <1>1, <1>2 DEF CapsuleVerify, Unpacked
  <1>4. StagingVerify(h, Read(h, "staging"), TRUE) => Read(h, "staging").kind = h
    BY <1>1, <1>2 DEF StagingVerify, CapsuleVerify
  <1>5. BmcStagedForPch(Read("BMC", "staging")) /\ h = "PCH" => Read("BMC", "staging").kind = h
    BY DEF BmcStagedForPch
  <1> QED
    BY <1>3, <1>4, <1>5 DEF PlanOf, RecoverImage, Plan

\* handle_recovery.
LEMMA RecoverImagesKept ==
    ASSUME TypeInv, NEW h \in Hosts, OwnFlash(h), RecoverSteps
    PROVE  KeepsImages(h) \/ LosesImage(h)
  <1>1. CASE UNCHANGED <<flash, spent>>
    BY <1>1, SameImages
  <1>2. CASE RecoverImages
    <2>1. PICK k \in NextCalls : RecoverNothing(k) \/ RecoverRegion(k) \/ RecoverFetch(k)
      BY <1>2 DEF RecoverImages
    <2>2. k \in 1 .. 4
      BY <2>1 DEF NextCalls, TypeInv, TypeOK, Recovery
    <2> DEFINE i == Step(k).h
               p == PlanOf(i)
    <2>3. i \in Hosts /\ i \in Images
      BY <2>2, StepType DEF Images
    <2>4. CASE RecoverNothing(k)
      BY <1>1, <2>4 DEF RecoverNothing
    <2>5. CASE RecoverRegion(k)
      <3>1. p.slot \in Slots /\ (i = h => p.with.kind = h)
        BY <2>3, <2>5, PlanType, PlannedImage DEF RecoverRegion, Slots
      <3>2. PICK w \in Writes(i, p.slot, p.with) : Rewrite(i, p.slot, w)
        BY <2>5 DEF RecoverRegion
      <3> QED
        BY <2>3, <3>1, <3>2, WrittenImage DEF Own
    <2>6. CASE RecoverFetch(k)
      <3>1. i = h => p.with.kind = h
        BY <2>3, <2>6, PlannedImage DEF RecoverFetch
      <3>2. PICK w \in Writes(i, "staging", p.with) : Rewrite(i, "staging", w)
        BY <2>6 DEF RecoverFetch
      <3> QED
        BY <2>3, <3>1, <3>2, WrittenImage DEF Own, Slots
    <2> QED
      BY <2>1, <2>4, <2>5, <2>6
  <1>3. RecoveryStart \/ RecoveryDone => UNCHANGED <<flash, spent>>
    BY DEF RecoveryStart, RecoveryDone
  <1> QED
    BY <1>1, <1>2, <1>3 DEF RecoverSteps

\* handle_update_requested: an update is installed for the host it was built for.
LEMMA UpdateImagesKept ==
    ASSUME TypeInv, Placed, NEW h \in Hosts, OwnFlash(h), UpdateSteps
    PROVE  KeepsImages(h) \/ LosesImage(h)
  <1>1. CASE UNCHANGED <<flash, spent>>
    BY <1>1, SameImages
  <1>2. CASE UpdateCopy
    <2>1. \/ UNCHANGED <<flash, spent>>
          \/ /\ Read("BMC", "staging").kind = "PCH"
             /\ \E w \in Writes("PCH", "staging", Read("BMC", "staging")) :
                   Rewrite("PCH", "staging", w)
      BY <1>2 DEF UpdateCopy, BmcStagedForPch
    <2>2. "PCH" \in Images /\ "staging" \in Slots
      BY DEF Images, Hosts, Slots
    <2> QED
      BY <1>1, <2>1, <2>2, WrittenImage DEF Own
  <1>3. CASE UpdateProgram
    <2> DEFINE i == upd.image
               c == Installed(i, upd.sel, Read(i, "staging"))
    <2>1. i \in Images /\ upd.sel \in {"active", "recovery"}
      BY <1>3 DEF UpdateProgram, TypeInv, TypeOK, Aimed, Update
    <2>2. i = h => c.kind = h
      <3>1. SUFFICES ASSUME i = h PROVE c.kind = h
        OBVIOUS
      <3>2. i # "ROT" /\ Judged.ok
        BY <1>3, <3>1 DEF UpdateProgram, Hosts
      <3>3. Read(i, "staging").kind = h
        BY <3>1, <3>2 DEF Judged, UpdateHost, Verdict, StagingVerify
      <3> QED
        BY <3>1, <3>3 DEF Installed, Unpacked
    <2>3. PICK w \in Writes(i, upd.sel, c) : Rewrite(i, upd.sel, w)
      BY <1>3 DEF UpdateProgram
    <2> QED
      BY <2>1, <2>2, <2>3, WrittenImage DEF Own, Slots
  <1>4. UpdateStart \/ UpdateSelect \/ UpdateRefused \/ UpdateEnd => UNCHANGED <<flash, spent>>
    BY DEF UpdateStart, UpdateSelect, UpdateRefused, UpdateEnd
  <1> QED
    BY <1>1, <1>2, <1>3, <1>4 DEF UpdateSteps

\* do_rot_recovery writes the RoT's partitions.
LEMMA RotImagesKept ==
    ASSUME TypeInv, NEW h \in Hosts, OwnFlash(h), DoRotErase \/ DoRotCopy
    PROVE  KeepsImages(h) \/ LosesImage(h)
  <1>t. spent \in Budget /\ flash \in Flash /\ h # "ROT" /\ h \in Images
    BY DEF TypeInv, TypeOK, Hosts, Images
  <1>1. CASE DoRotErase
    <2>1. \A s \in Slots : flash'[h][s] = flash[h][s]
      BY <1>t, <1>1 DEF DoRotErase, Flash
    <2>2. Mishaps' >= Mishaps
      BY <1>t, <1>1 DEF DoRotErase, Mishaps, Budget
    <2> QED
      BY <2>1, <2>2, StillImages
  <1>2. CASE DoRotCopy
    <2>1. PICK w \in Writes("ROT", "active", flash["ROT"]["recovery"]) :
             Rewrite("ROT", "active", w)
      BY <1>2 DEF DoRotCopy
    <2> QED
      BY <1>t, <2>1, WrittenImage DEF Images, Slots
  <1> QED
    BY <1>1, <1>2

\* perform_seamless_update stages a PCH capsule, and spoils the active image of
\* the PCH when a write fails.
LEMMA SeamlessImagesKept ==
    ASSUME TypeInv, NEW h \in Hosts, OwnFlash(h), SeamlessUpdate
    PROVE  KeepsImages(h) \/ LosesImage(h)
  <1>t. spent \in Budget /\ flash \in Flash /\ h \in Images
    BY DEF TypeInv, TypeOK, Images
  <1> DEFINE fetched == (ev.d.src = "BmcUpdateIntent2" \/ cpld.toPch) /\ Copied.kind = "PCH"
             c == IF fetched THEN Copied ELSE flash["PCH"]["staging"]
  <1>1. PICK f \in {0, 1} :
          /\ spent' = [spent EXCEPT !.fault = @ + f]
          /\ flash' = [flash EXCEPT !["PCH"]["staging"] = c,
                                    !["PCH"]["active"] = IF f = 1 THEN Corrupt ELSE @]
    BY DEF SeamlessUpdate
  <1>2. Own("PCH", c) \/ c = flash["PCH"]["staging"]
    BY DEF Own
  <1>3. Mishaps' = Mishaps + f /\ Mishaps' >= Mishaps
    BY <1>t, <1>1 DEF Mishaps, Budget
  <1> HIDE DEF c
  <1>4. CASE h # "PCH"
    <2>1. \A s \in Slots : flash'[h][s] = flash[h][s]
      BY <1>t, <1>1, <1>4 DEF Flash
    <2> QED
      BY <1>3, <2>1, StillImages
  <1>5. CASE h = "PCH"
    <2>1. /\ flash'[h]["recovery"] = flash[h]["recovery"] /\ flash'[h]["staging"] = c
          /\ flash'[h]["active"] = IF f = 1 THEN Corrupt ELSE flash[h]["active"]
      BY <1>t, <1>1, <1>5 DEF Flash, Slots
    <2>2. OwnFlash(h)'
      BY <1>2, <1>5, <2>1 DEF OwnFlash, Own, Slots, Corrupt
    <2>3. f = 0 \/ f = 1
      OBVIOUS
    <2> QED
      BY <1>3, <2>1, <2>2, <2>3 DEF KeepsImages, LosesImage, Sound
  <1> QED
    BY <1>4, <1>5

\* The hosts stage capsules of their own; an image gone bad and a power failure
\* are mishaps.
LEMMA OutsideImagesKept ==
    ASSUME TypeInv, NEW h \in Hosts, OwnCapsules(h), OwnFlash(h), Environment
    PROVE  KeepsImages(h) \/ LosesImage(h)
  <1>t. spent \in Budget /\ flash \in Flash /\ h \in Images
    BY DEF TypeInv, TypeOK, Images
  <1>1. CASE BmcReset \/ MailboxIntent \/ MailboxCheckpoint \/ MailboxProvision \/ TimerExpire
    <2>1. UNCHANGED flash
      BY <1>1 DEF BmcReset, MailboxIntent, MailboxCheckpoint, MailboxProvision, TimerExpire
    <2>2. UNCHANGED <<spent.fault, spent.loss, spent.corrupt>>
      BY <1>t, <1>1 DEF BmcReset, MailboxIntent, MailboxCheckpoint, MailboxProvision,
                        TimerExpire, Budget
    <2>3. Mishaps' >= Mishaps
      BY <2>2, CountType DEF Mishaps
    <2> QED
      BY <2>1, <2>3, StillImages
  <1>2. CASE StageCapsule
    <2>1. PICK x \in Around.stageable : flash' = [flash EXCEPT ![x[1]]["staging"] = x[2]]
      BY <1>2 DEF StageCapsule
    <2>2. x[1] = h => Own(h, x[2])
      BY <1>t, <2>1 DEF OwnCapsules, Around, Budget
    <2>3. \A s \in Slots : \/ flash'[h][s] = flash[h][s]
                           \/ s = "staging" /\ x[1] = h /\ flash'[h][s] = x[2]
      BY <1>t, <2>1 DEF Flash
    <2>4. OwnFlash(h)'
      BY <2>2, <2>3 DEF OwnFlash, Own
    <2>5. Mishaps' >= Mishaps
      BY <1>t, <1>2 DEF StageCapsule, Mishaps, Budget
    <2> QED
      BY <2>3, <2>4, <2>5 DEF KeepsImages, Sound, Slots
  <1>3. CASE CorruptFlash
    <2>1. PICK i \in Hosts, s \in {"active", "recovery"} :
            flash' = [flash EXCEPT ![i][s] = Corrupt]
      BY <1>3 DEF CorruptFlash
    <2>2. flash' = [flash EXCEPT ![<<i, s>>[1]][<<i, s>>[2]] = Corrupt]
      BY <2>1
    <2>3. Mishaps' = Mishaps + 1
      BY <1>t, <1>3 DEF CorruptFlash, Mishaps, Budget
    <2> QED
      BY <2>2, <2>3, RegionLost DEF LosesImage
  <1>4. CASE PowerLoss
    <2>1. Mishaps' = Mishaps + 1
      BY <1>t, <1>4 DEF PowerLoss, Mishaps, Budget
    <2>2. CASE UNCHANGED flash
      BY <2>1, <2>2 DEF LosesImage, OwnFlash, Own, Sound
    <2>3. CASE \E x : flash' = [flash EXCEPT ![x[1]][x[2]] = Corrupt]
      BY <2>1, <2>3, RegionLost DEF LosesImage
    <2> QED
      BY <1>4, <2>2, <2>3 DEF PowerLoss
  <1> QED
    BY <1>1, <1>2, <1>3, <1>4 DEF Environment

\* A host loses an image to a mishap only, and one image to each.
LEMMA ImageMoves ==
    ASSUME TypeInv, Placed, [Next]_vars, NEW h \in Hosts, OwnCapsules(h), OwnFlash(h)
    PROVE  KeepsImages(h) \/ LosesImage(h)
  <1>1. CASE UNCHANGED <<flash, spent>>
    BY <1>1, SameImages
  <1>2. CASE \/ Dispatch \/ DoInit \/ DoLockdown \/ DoReboot \/ VerifySteps \/ RuntimeSteps
             \/ SeamlessVerify \/ UNCHANGED vars
    <2>1. UNCHANGED <<flash, spent>>
      BY <1>2 DEF Dispatch, Transition, RunInPlace, Discard, DoInit, DoLockdown, DoReboot,
                  VerifySteps, VerifyUnprovisioned, VerifyPendingUpdate, VerifyImages,
                  RuntimeSteps, UpdateAtReset, HandleCheckpoint, HandleProvision, RunNothing,
                  SeamlessVerify, vars
    <2> QED
      BY <1>1, <2>1
  <1> QED
    BY <1>2, RecoverImagesKept, UpdateImagesKept, RotImagesKept, SeamlessImagesKept,
       OutsideImagesKept
    DEF Next, Thread, RotSteps, SeamlessSteps

LEMMA ImageStep ==
    ASSUME NEW h \in Hosts, OwnCapsules(h)
    PROVE  TypeInv /\ Placed /\ ImageInv(h) /\ [Next]_vars => ImageInv(h)'
  <1> SUFFICES ASSUME TypeInv, Placed, ImageInv(h), [Next]_vars PROVE ImageInv(h)'
    OBVIOUS
  <1>t. Mishaps \in Nat /\ Mishaps' \in Nat
    BY TypeStep, CountType DEF Mishaps
  <1>1. KeepsImages(h) \/ LosesImage(h)
    BY ImageMoves DEF ImageInv
  <1>2. CASE KeepsImages(h)
    BY <1>t, <1>2 DEF ImageInv, KeepsImages
  <1>3. CASE LosesImage(h)
    BY <1>t, <1>3 DEF ImageInv, LosesImage
  <1> QED
    BY <1>1, <1>2, <1>3

LEMMA ImageInit ==
    ASSUME NEW h \in Hosts, OwnCapsules(h), Shipped(h)
    PROVE  Init => ImageInv(h)
  <1> SUFFICES ASSUME Init PROVE ImageInv(h)
    OBVIOUS
  <1>1. flash = Scenario[spent.scn].flash /\ spent.scn \in DOMAIN Scenario
    BY DEF Init, Around
  <1>2. Sound(h, "active") /\ Sound(h, "recovery")
    BY <1>1 DEF Shipped, Sound
  <1>3. OwnFlash(h)
    BY <1>1 DEF OwnCapsules, OwnFlash
  <1> QED
    BY <1>2, <1>3 DEF ImageInv

\* update_firmware_image, recover_image: a host that left the factory with good
\* images, and in whose flash no capsule for another part is staged, is left with
\* an image by any one mishap (a failing write, a power failure at whatever point
\* of an update or a recovery, an image gone bad while it runs).
THEOREM HostKeepsImage ==
    ASSUME NEW h \in Hosts, OwnCapsules(h), Shipped(h)
    PROVE  Spec => [](Mishaps <= 1 => HasImage(h))
  <1>1. Init => ImageInv(h)
    BY ImageInit
  <1>2. TypeInv /\ Placed /\ ImageInv(h) /\ [Next]_vars => ImageInv(h)'
    BY ImageStep
  <1>3. TypeInv /\ ImageInv(h) => (Mishaps <= 1 => HasImage(h))
    BY CountType DEF ImageInv, Sound, HasImage, Mishaps
  <1> QED
    BY <1>1, <1>2, <1>3, TypeInvariant, PlacedAlways, PTL DEF Spec

\* The same of a platform: on one whose hosts each stage their own capsules no
\* single mishap leaves any host without an image.
THEOREM ImagesSurvive ==
    ASSUME \A h \in Hosts : OwnCapsules(h) /\ Shipped(h)
    PROVE  Spec => [](Mishaps <= 1 => ImageSurvives)
  <1> DEFINE Inv == \A h \in Hosts : ImageInv(h)
  <1>1. Init => Inv
    BY ImageInit
  <1>2. TypeInv /\ Placed /\ Inv /\ [Next]_vars => Inv'
    BY ImageStep
  <1>3. TypeInv /\ Inv => (Mishaps <= 1 => ImageSurvives)
    BY CountType DEF ImageInv, Sound, ImageSurvives, HasImage, Mishaps
  <1> QED
    BY <1>1, <1>2, <1>3, TypeInvariant, PlacedAlways, PTL DEF Spec

-----------------------------------------------------------------------------
(* A host that failed to boot.                                              *)

\* handle_recovery is at work on a host whose boot timed out.
TimedOut(h) ==
    /\ state = "FIRMWARE_RECOVERY" /\ pc \in {"run", "rec"}
    /\ ev.ev = "WDT_TIMEOUT" /\ ev.d.src = h

\* The inductive invariant behind TimeoutRestoresRecovery: both hosts are held
\* meanwhile, and once the image blamed counts as good again, the calls about its
\* host are over and it is the recovery image.  A PCH's is when the thread is done.
RestoreInv ==
    \A h \in Hosts :
        /\ OwnFlash(h)
        /\ TimedOut(h) => hold = Hosts
        /\ TimedOut(h) /\ pc = "rec" /\ ao[h].active =>
             /\ h = "BMC" /\ rec.step >= 3
             /\ flash[h]["active"] = flash[h]["recovery"]

\* The image of host h counts as good only after it was restored.
Restored(h) == ao[h].active => flash[h]["active"] = flash[h]["recovery"]

\* A call of recover_image is about one host, and an active image it repairs is
\* the recovery image.
LEMMA CallRestores ==
    ASSUME TypeInv, \A h \in Hosts : OwnFlash(h), NEW k \in NextCalls, k \in 1 .. 4,
           RecoverNothing(k) \/ RecoverRegion(k) \/ RecoverFetch(k)
    PROVE  /\ \A h \in Hosts \ {Step(k).h} :
                 /\ ao'[h] = ao[h]
                 /\ \A s \in Slots : flash'[h][s] = flash[h][s]
           /\ ~ao[Step(k).h].active => Restored(Step(k).h)'
           /\ ~ao[Step(k).h].active /\ k \in {1, 3} => ~ao'[Step(k).h].active
           /\ \/ UNCHANGED <<pc, rec, ao>>
              \/ k < 4 /\ pc' = "rec" /\ rec'.step = k + 1
              \/ k = 4 /\ pc' = "wait"
  <1> DEFINE i == Step(k).h
             p == PlanOf(i)
  <1>t. /\ flash \in Flash /\ ao \in [Hosts -> Ownership] /\ i \in Hosts /\ i \in Images
        /\ Hosts \subseteq Images /\ {"active", "recovery", "staging"} = Slots
    BY StepType DEF TypeInv, TypeOK, Images, Slots
  <1>0. \A r : RecoveryGoesOn(k, r) => /\ rec' = r
                                       /\ \/ k < 4 /\ pc' = "rec"
                                          \/ k = 4 /\ pc' = "wait"
    BY DEF RecoveryGoesOn, RecoveryEnd
  <1>r. \A failure : k < 4 => Return(k, failure).step = k + 1
    BY DEF Return
  <1>1. CASE RecoverNothing(k)
    <2>1. /\ ao' = [ao EXCEPT ![i].restrict = (@ \/ p.do = "restrict")] /\ UNCHANGED flash
          /\ RecoveryGoesOn(k, Return(k, p.do = "fail"))
      BY <1>1 DEF RecoverNothing
    <2>2. (\A h \in Hosts \ {i} : ao'[h] = ao[h]) /\ ao'[i].active = ao[i].active
      BY <1>t, <2>1 DEF Ownership
    <2> QED
      BY <1>0, <1>r, <2>1, <2>2 DEF Restored
  <1>2. CASE RecoverRegion(k)
    <2>1. p.do = "write" /\ p.slot \in {"active", "recovery"}
      BY <1>t, <1>2, PlanType DEF RecoverRegion
    <2>2. PICK w \in Writes(i, p.slot, p.with) :
            /\ Rewrite(i, p.slot, w)
            /\ ao' = IF w.ok THEN [ao EXCEPT ![i][p.slot] = TRUE] ELSE ao
            /\ RecoveryGoesOn(k, Return(k, ~w.ok))
      BY <1>2 DEF RecoverRegion
    <2>3. /\ \A j \in Images, t \in Slots : j # i \/ t # p.slot => flash'[j][t] = flash[j][t]
          /\ flash'[i][p.slot] = w.c
      BY <1>t, <2>1, <2>2, RewriteCases
    <2>4. /\ \A h \in Hosts \ {i} : ao'[h] = ao[h]
          /\ p.slot = "recovery" => ao'[i].active = ao[i].active
          /\ ~w.ok => ao'[i].active = ao[i].active
      BY <1>t, <2>1, <2>2 DEF Ownership
    <2>5. ASSUME ~ao[i].active, p.slot = "active"
          PROVE  ao[i].recovery /\ (w.ok => flash'[i]["active"] = flash'[i]["recovery"])
      <3>1. /\ ao[i].recovery /\ CapsuleVerify(Read(i, "recovery"))
            /\ p.with = Unpacked(i, Read(i, "recovery"))
        BY <2>1, <2>5 DEF PlanOf, RecoverImage, Plan
      <3>2. Reach(i, "recovery") /\ Read(i, "recovery") = flash[i]["recovery"]
        BY <3>1 DEF Read, CapsuleVerify, Corrupt, Hosts
      <3>3. flash[i]["recovery"].kind = i
        BY <1>t, <3>1, <3>2 DEF OwnFlash, Own, CapsuleVerify, Hosts
      <3>4. p.with = flash[i]["recovery"]
        BY <3>1, <3>2, <3>3 DEF Unpacked
      <3>5. Reach(i, "active")
        BY <1>t, <3>2 DEF Reach, Hosts
      <3>6. w.ok => w.c = p.with
        BY <2>2, <2>5, <3>5 DEF Writes
      <3> QED
        BY <1>t, <2>3, <2>5, <3>1, <3>4, <3>6
    <2>6. k \in {1, 3} => ~ao[i].recovery
      <3>1. k \in {1, 3} => Step(k).slot = "recovery"
        BY DEF Step
      <3>2. Bad(k)
        BY DEF NextCalls
      <3> QED
        BY <3>1, <3>2 DEF Bad
    <2> QED
      BY <1>0, <1>r, <1>t, <2>1, <2>2, <2>3, <2>4, <2>5, <2>6 DEF Restored
  <1>3. CASE RecoverFetch(k)
    <2>1. PICK w \in Writes(i, "staging", p.with) :
            /\ Rewrite(i, "staging", w)
            /\ \/ UNCHANGED <<pc, rec>>
               \/ RecoveryGoesOn(k, Return(k, TRUE))
      BY <1>3 DEF RecoverFetch
    <2>2. \A j \in Images, t \in Slots : j # i => flash'[j][t] = flash[j][t]
      BY <1>t, <2>1, RewriteCases
    <2>3. UNCHANGED ao
      BY <1>3 DEF RecoverFetch
    <2> QED
      <3>1. \A h \in Hosts \ {i} : ao'[h] = ao[h] /\ \A s \in Slots : flash'[h][s] = flash[h][s]
        BY <1>t, <2>2, <2>3
      <3>2. ~ao[i].active => ~ao'[i].active /\ Restored(i)'
        BY <2>3 DEF Restored
      <3>3. \/ UNCHANGED <<pc, rec, ao>>
            \/ k < 4 /\ pc' = "rec" /\ rec'.step = k + 1
            \/ k = 4 /\ pc' = "wait"
        <4>1. CASE UNCHANGED <<pc, rec>>
          BY <2>3, <4>1
        <4>2. CASE RecoveryGoesOn(k, Return(k, TRUE))
          <5>1. rec' = Return(k, TRUE)
            BY <4>2 DEF RecoveryGoesOn
          <5>2. (k < 4 /\ pc' = "rec") \/ (k = 4 /\ pc' = "wait")
            BY <1>0, <4>2, Zenon
          <5> QED
            BY <5>1, <5>2 DEF Return
        <4> QED
          BY <2>1, <4>1, <4>2
      <3> QED
        BY <3>1, <3>2, <3>3
  <1> QED
    BY <1>1, <1>2, <1>3

\* The dispatch that starts handle_recovery on a host that timed out holds both.
LEMMA TimeoutDispatch ==
    ASSUME TypeInv, RestoreInv, Dispatch, OwnFlash("BMC")', OwnFlash("PCH")'
    PROVE  RestoreInv'
  <1>1. CASE Transition
    <2>1. PICK t \in Successors(Head(fifo)) : Goto(t)
      BY <1>1 DEF Transition
    <2>2. state' = t /\ pc' = "run"
      BY <2>1 DEF Goto
    <2>3. ASSUME NEW h \in Hosts, TimedOut(h)'
          PROVE  hold' = Hosts
      <3>1. t = "FIRMWARE_RECOVERY" /\ ev'.ev = "WDT_TIMEOUT" /\ ev'.d.src = h
        BY <2>2, <2>3 DEF TimedOut
      <3>2. fifo # <<>> /\ Head(fifo) \in Event
        BY <1>1, TakeType DEF Transition, Take, TypeInv, TypeOK
      <3>3. Head(fifo).ev = "WDT_TIMEOUT" /\ Head(fifo).d.src = h
        <4>1. ev' = Head(fifo) \/ \E r : ev' = [Head(fifo) EXCEPT !.d.reset = r]
          BY <2>1, Zenon DEF Goto
        <4> QED
          BY <3>1, <3>2, <4>1 DEF Event, Data
      <3>4. state = "RUNTIME"
        BY <2>1, <3>1, <3>3 DEF Successors, Transitions, AfterUpdate
      <3>5. HeldAtTmin1(Head(fifo)) = Hosts
        BY <3>3 DEF HeldAtTmin1, Hosts
      <3>6. hold' = hold \cup Hosts
        BY <2>1, <3>1, <3>4, <3>5 DEF Goto, HeldOnEntry, Tmin1, Tzero
      <3>7. hold \subseteq Hosts
        BY DEF TypeInv, TypeOK
      <3> QED
        BY <3>6, <3>7
    <2> QED
      BY <2>2, <2>3 DEF RestoreInv, Hosts
  <1>2. CASE RunInPlace
    <2>1. state' # "FIRMWARE_RECOVERY"
      BY <1>2 DEF RunInPlace, RunsInPlace
    <2> QED
      BY <2>1 DEF RestoreInv, TimedOut, Hosts
  <1>3. CASE Discard
    <2>1. pc' = "wait"
      BY <1>3 DEF Discard, Take
    <2> QED
      BY <2>1 DEF RestoreInv, TimedOut, Hosts
  <1> QED
    BY <1>1, <1>2, <1>3 DEF Dispatch

\* handle_recovery restores the image it blamed, or leaves it blamed.
LEMMA RecoverRestores ==
    ASSUME TypeInv, Placed, RestoreInv, RecoverSteps, OwnFlash("BMC")', OwnFlash("PCH")'
    PROVE  /\ RestoreInv'
           /\ pc = "rec" /\ pc' = "wait" /\ ev.ev = "WDT_TIMEOUT" =>
                \A h \in {ev.d.src} \cap Hosts : Restored(h)'
  <1>t. ao \in [Hosts -> Ownership] /\ rec \in Recovery
    BY DEF TypeInv, TypeOK
  <1>0. UNCHANGED <<state, ev, hold>>
    BY DEF RecoverSteps, RecoveryStart, RecoverImages, RecoveryDone, pinVars
  <1>1. CASE RecoveryStart
    <2>1. pc = "run" /\ pc' = "rec" /\ state = "FIRMWARE_RECOVERY"
      BY <1>1 DEF RecoveryStart, Running
    <2>2. ASSUME NEW h \in Hosts, TimedOut(h)'
          PROVE  hold' = Hosts /\ ~ao'[h].active
      <3>1. TimedOut(h)
        BY <1>0, <2>1, <2>2 DEF TimedOut
      <3>2. ao'[h] = [ao[h] EXCEPT !.active = FALSE]
        BY <1>1, <2>2, <3>1 DEF RecoveryStart, TimedOut
      <3> QED
        BY <1>t, <1>0, <3>1, <3>2 DEF RestoreInv, Ownership
    <2> QED
      BY <2>1, <2>2 DEF RestoreInv, Hosts
  <1>2. CASE RecoverImages
    <2>1. PICK k \in NextCalls : RecoverNothing(k) \/ RecoverRegion(k) \/ RecoverFetch(k)
      BY <1>2 DEF RecoverImages
    <2>2. k \in 1 .. 4 /\ k >= rec.step /\ pc = "rec" /\ state = "FIRMWARE_RECOVERY"
      BY <1>t, <1>2, <2>1 DEF NextCalls, Recovery, RecoverImages, Placed
    <2>3. /\ \A h \in Hosts \ {Step(k).h} :
                /\ ao'[h] = ao[h]
                /\ \A s \in Slots : flash'[h][s] = flash[h][s]
          /\ ~ao[Step(k).h].active => Restored(Step(k).h)'
          /\ ~ao[Step(k).h].active /\ k \in {1, 3} => ~ao'[Step(k).h].active
          /\ \/ UNCHANGED <<pc, rec, ao>>
             \/ k < 4 /\ pc' = "rec" /\ rec'.step = k + 1
             \/ k = 4 /\ pc' = "wait"
      BY <2>1, <2>2, CallRestores DEF RestoreInv
    <2>4. Step(k).h = IF k <= 2 THEN "BMC" ELSE "PCH"
      BY <2>2 DEF Step
    <2>5. k = 4 => ~ao["PCH"].active
      <3>1. Bad(k)
        BY <2>1 DEF NextCalls
      <3>2. k = 4 => Step(k).h = "PCH" /\ Step(k).slot = "active"
        BY DEF Step
      <3> QED
        BY <3>1, <3>2 DEF Bad
    <2>6. ASSUME NEW h \in Hosts, TimedOut(h)
          PROVE  /\ hold' = Hosts
                 /\ pc' = "rec" /\ ao'[h].active =>
                      h = "BMC" /\ rec'.step >= 3 /\ flash'[h]["active"] = flash'[h]["recovery"]
                 /\ pc' = "wait" => Restored(h)'
      <3>1. /\ hold' = Hosts
            /\ ao[h].active => /\ h = "BMC" /\ rec.step >= 3
                               /\ flash[h]["active"] = flash[h]["recovery"]
        BY <1>0, <2>2, <2>6 DEF RestoreInv
      <3>2. h = "BMC" \/ h = "PCH"
        BY DEF Hosts
      <3>3. CASE h = "BMC" /\ k <= 2
        <4>1. ~ao[h].active
          BY <1>t, <2>2, <3>1, <3>3 DEF Recovery
        <4> QED
          BY <2>2, <2>3, <2>4, <3>1, <3>3, <4>1 DEF Restored
      <3>4. CASE h = "BMC" /\ k > 2
        <4>1. ao'[h] = ao[h] /\ \A s \in Slots : flash'[h][s] = flash[h][s]
          <5>1. Step(k).h = "PCH"
            BY <2>2, <2>4, <3>4
          <5>2. h \in Hosts \ {Step(k).h}
            BY <3>4, <5>1
          <5> QED
            BY <2>3, <5>2
        <4>2. \A s \in {"active", "recovery"} : flash'[h][s] = flash[h][s]
          BY <4>1 DEF Slots
        <4>3. rec.step >= 3 => UNCHANGED rec \/ rec'.step >= 3 \/ pc' = "wait"
          BY <2>2, <2>3, <3>4
        <4> QED
          BY <3>1, <3>4, <4>1, <4>2, <4>3 DEF Restored
      <3>5. CASE h = "PCH"
        <4>1. ~ao[h].active
          BY <3>1, <3>5
        <4>2. pc' = "rec" => ~ao'[h].active
          BY <2>2, <2>3, <2>4, <3>5, <4>1
        <4>3. pc' = "wait" => Restored(h)'
          BY <2>2, <2>3, <2>4, <3>5, <4>1
        <4> QED
          BY <3>1, <4>2, <4>3
      <3> QED
        BY <2>2, <3>2, <3>3, <3>4, <3>5
    <2>7. \A h \in Hosts : TimedOut(h)' => TimedOut(h)
      BY <1>0, <2>2 DEF TimedOut
    <2>8. RestoreInv'
      BY <2>6, <2>7 DEF RestoreInv, Hosts
    <2>9. \A h \in Hosts : ev.ev = "WDT_TIMEOUT" /\ h = ev.d.src => TimedOut(h)
      BY <2>2 DEF TimedOut
    <2> QED
      BY <2>6, <2>8, <2>9
  <1>3. CASE RecoveryDone
    <2>1. pc' = "wait" /\ pc = "rec" /\ UNCHANGED <<ao, flash>> /\ state = "FIRMWARE_RECOVERY"
      BY <1>3 DEF RecoveryDone, RecoveryEnd, aoVars, Placed
    <2>2. RestoreInv'
      BY <2>1 DEF RestoreInv, TimedOut, Hosts
    <2>3. \A h \in Hosts : ev.ev = "WDT_TIMEOUT" /\ h = ev.d.src => Restored(h)'
      BY <2>1 DEF RestoreInv, TimedOut, Restored
    <2> QED
      BY <2>2, <2>3
  <1> QED
    BY <1>1, <1>2, <1>3 DEF RecoverSteps

\* Nothing touches the images of a host that is held but what works on them.
LEMMA OutsideRestores ==
    ASSUME TypeInv, RestoreInv, Environment, OwnFlash("BMC")', OwnFlash("PCH")'
    PROVE  RestoreInv' /\ (pc = "rec" /\ pc' = "wait" => \A h \in Hosts : Restored(h)')
  <1>1. CASE PowerLoss
    <2>1. state' = "BOOT" /\ \A h \in Hosts : ~ao'[h].active
      <3>1. \E f : Reset(f)
        BY <1>1 DEF PowerLoss
      <3> QED
        BY <3>1 DEF Reset, BadImage
    <2> QED
      BY <2>1 DEF RestoreInv, TimedOut, Hosts, Restored
  <1>2. CASE ~PowerLoss
    <2>1. UNCHANGED <<state, pc, ev, hold, ao, rec>>
      BY <1>2 DEF Environment, BmcReset, MailboxIntent, MailboxCheckpoint, MailboxProvision,
                  TimerExpire, StageCapsule, CorruptFlash, smVars, pinVars, aoVars, localVars
    <2>2. ASSUME NEW h \in Hosts, hold = Hosts
          PROVE  /\ flash'[h]["active"] = flash[h]["active"]
                 /\ flash'[h]["recovery"] = flash[h]["recovery"]
      <3>1. flash \in Flash /\ h \in Images
        BY DEF TypeInv, TypeOK, Images
      <3>2. ~CorruptFlash
        BY <2>2 DEF CorruptFlash, Up
      <3>3. UNCHANGED flash \/ \E i, c : flash' = [flash EXCEPT ![i]["staging"] = c]
        BY <1>2, <3>2 DEF Environment, BmcReset, MailboxIntent, MailboxCheckpoint,
                          MailboxProvision, TimerExpire, StageCapsule
      <3> QED
        BY <3>1, <3>3 DEF Flash, Slots
    <2>3. \A h \in Hosts : TimedOut(h)' = TimedOut(h)
      BY <2>1 DEF TimedOut
    <2> QED
      BY <2>1, <2>2, <2>3 DEF RestoreInv, Hosts
  <1> QED
    BY <1>1, <1>2

\* Every step keeps the invariant, and ends a recovery with the image restored.
LEMMA RestoreStep ==
    ASSUME \A h \in Hosts : OwnCapsules(h)
    PROVE  TypeInv /\ Placed /\ RestoreInv /\ [Next]_vars =>
             /\ RestoreInv'
             /\ pc = "rec" /\ pc' = "wait" /\ ev.ev = "WDT_TIMEOUT" =>
                  \A h \in {ev.d.src} \cap Hosts : Restored(h)'
  <1> SUFFICES ASSUME TypeInv, Placed, RestoreInv, [Next]_vars
               PROVE  /\ RestoreInv'
                      /\ pc = "rec" /\ pc' = "wait" /\ ev.ev = "WDT_TIMEOUT" =>
                           \A h \in {ev.d.src} \cap Hosts : Restored(h)'
    OBVIOUS
  <1>1. \A h \in Hosts : OwnFlash(h)'
    BY ImageMoves DEF RestoreInv, KeepsImages, LosesImage
  <1>2. OwnFlash("BMC")' /\ OwnFlash("PCH")'
    BY <1>1 DEF Hosts
  <1>3. CASE Dispatch
    <2>1. pc = "wait"
      BY <1>3 DEF Dispatch, Transition, RunInPlace, Discard, Take
    <2> QED
      BY <1>2, <1>3, <2>1, TimeoutDispatch
  <1>4. CASE RecoverSteps
    BY <1>2, <1>4, RecoverRestores
  <1>5. CASE Environment
    BY <1>2, <1>5, OutsideRestores
  <1>6. CASE RotSteps \/ VerifySteps \/ UpdateSteps \/ RuntimeSteps \/ SeamlessSteps
    <2>1. pc # "rec" /\ (state' # "FIRMWARE_RECOVERY" \/ pc' = "wait")
      BY <1>6 DEF RotSteps, DoInit, DoRotErase, DoRotCopy, DoLockdown, DoReboot, Reset,
                  VerifySteps, VerifyUnprovisioned, VerifyPendingUpdate, VerifyImages,
                  UpdateSteps, UpdateStart, UpdateSelect, UpdateBypass, UpdateTampered,
                  UpdateRecoveryRegion, UpdateActiveRegion, UpdateCopy, UpdateRefused,
                  UpdateProgram, UpdateEnd, RuntimeSteps, UpdateAtReset, HandleCheckpoint,
                  HandleProvision, RunNothing, SeamlessSteps, SeamlessUpdate, SeamlessVerify,
                  Running, Placed
    <2> QED
      BY <1>2, <2>1 DEF RestoreInv, TimedOut, Hosts
  <1>7. CASE UNCHANGED vars
    BY <1>7 DEF vars, smVars, pinVars, aoVars, localVars, RestoreInv, TimedOut, OwnFlash, Own
  <1> QED
    BY <1>3, <1>4, <1>5, <1>6, <1>7 DEF Next, Thread

\* handle_recovery on WDT_TIMEOUT: on a platform whose hosts stage their own
\* capsules, a host that failed to boot is given its recovery image or is not
\* reported as repaired, whatever writes fail and whatever else was wrong with it.
THEOREM TimeoutRestores ==
    ASSUME \A h \in Hosts : OwnCapsules(h)
    PROVE  Spec => TimeoutRestoresRecovery
  <1>1. Init => RestoreInv
    <2> SUFFICES ASSUME Init PROVE RestoreInv
      OBVIOUS
    <2>1. flash = Scenario[spent.scn].flash /\ spent.scn \in DOMAIN Scenario /\ state = "BOOT"
      BY DEF Init, Around
    <2> QED
      BY <2>1 DEF OwnCapsules, OwnFlash, RestoreInv, TimedOut
  <1>2. TypeInv /\ Placed /\ RestoreInv /\ [Next]_vars =>
          /\ RestoreInv'
          /\ [(pc = "rec" /\ pc' = "wait" /\ ev.ev = "WDT_TIMEOUT") =>
                \A h \in {ev.d.src} \cap Hosts :
                    ao'[h].active => flash'[h]["active"] = flash'[h]["recovery"]]_vars
    BY RestoreStep DEF Restored
  <1> QED
    BY <1>1, <1>2, TypeInvariant, PlacedAlways, PTL DEF Spec, TimeoutRestoresRecovery
=============================================================================
