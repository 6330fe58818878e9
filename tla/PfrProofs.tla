----------------------------- MODULE PfrProofs -----------------------------
(***************************************************************************)
(* Safety of PfrStateMachine, for every value of its constants: who has the *)
(* flash of a running host, lockdown, anti-rollback and the event loop.     *)
(***************************************************************************)
EXTENDS PfrSafety, PfrTypes

-----------------------------------------------------------------------------
(* The steps that leave the reset lines and the multiplexers alone.         *)

\* Only a transition, do_init, a seamless update and a reset of the RoT touch
\* the reset lines and the multiplexers; every other step keeps the state too.
LEMMA PinSteps ==
    ASSUME [Next]_vars
    PROVE  \/ Transition \/ DoInit \/ SeamlessUpdate \/ SeamlessVerify
           \/ \E f : Reset(f)
           \/ UNCHANGED <<state, hold, mux>>
  <1>1. CASE Dispatch
    BY <1>1 DEF Dispatch, RunInPlace, Discard, pinVars
  <1>2. CASE RotSteps
    BY <1>2 DEF RotSteps, DoRotErase, DoRotCopy, DoLockdown, DoReboot, pinVars
  <1>3. CASE VerifySteps \/ RecoverSteps
    BY <1>3 DEF VerifySteps, VerifyUnprovisioned, VerifyPendingUpdate, VerifyImages,
                RecoverSteps, RecoveryStart, RecoverImages, RecoveryDone, pinVars
  <1>4. CASE UpdateSteps
    BY <1>4 DEF UpdateSteps, UpdateStart, UpdateSelect, UpdateCopy, UpdateRefused, UpdateProgram,
                UpdateEnd, pinVars
  <1>5. CASE RuntimeSteps \/ SeamlessSteps
    BY <1>5 DEF RuntimeSteps, UpdateAtReset, HandleCheckpoint, HandleProvision, RunNothing,
                SeamlessSteps, pinVars
  <1>6. CASE Environment
    BY <1>6 DEF Environment, BmcReset, MailboxIntent, MailboxCheckpoint, MailboxProvision,
                TimerExpire, StageCapsule, CorruptFlash, PowerLoss, smVars, pinVars
  <1>7. CASE UNCHANGED vars
    BY <1>7 DEF vars, smVars, pinVars
  <1> QED
    BY <1>1, <1>2, <1>3, <1>4, <1>5, <1>6, <1>7 DEF Next, Thread

-----------------------------------------------------------------------------
(* A running host has its flash.                                            *)

\* A step keeps every multiplexer the RoT holds on a host that is held.
LEMMA HasFlashStep == RunningHostHasFlash /\ [Next]_vars => RunningHostHasFlash'
  <1> SUFFICES ASSUME RunningHostHasFlash, [Next]_vars PROVE RunningHostHasFlash'
    OBVIOUS
  <1>1. CASE Transition
    <2>1. PICK t : Goto(t)
      BY <1>1 DEF Transition
    <2> QED
      BY <2>1 DEF Goto, RunningHostHasFlash
  <1>2. CASE DoInit
    BY <1>2 DEF DoInit, RunningHostHasFlash
  <1>3. CASE SeamlessUpdate \/ SeamlessVerify
    BY <1>3 DEF SeamlessUpdate, SeamlessVerify, RunningHostHasFlash
  <1>4. CASE \E f : Reset(f)
    BY <1>4 DEF Reset, RunningHostHasFlash
  <1>5. CASE UNCHANGED <<state, hold, mux>>
    BY <1>5 DEF RunningHostHasFlash
  <1> QED
    BY <1>1, <1>2, <1>3, <1>4, <1>5, PinSteps

\* BMCBootHold, BMCBootRelease, PCHBootHold, PCHBootRelease and the seamless
\* update: the RoT never leaves a running host without its flash.
THEOREM HasFlash == Spec => []RunningHostHasFlash
  <1>1. Init => RunningHostHasFlash
    BY DEF Init, RunningHostHasFlash
  <1> QED
    BY <1>1, HasFlashStep, PTL DEF Spec

-----------------------------------------------------------------------------
(* Lockdown.                                                                *)

\* In SYSTEM_LOCKDOWN both hosts are held and both flashes are the RoT's.
LockedDown == state = "SYSTEM_LOCKDOWN" => hold = Hosts /\ mux = Hosts

\* No event leaves SYSTEM_LOCKDOWN.
LEMMA LockdownIsFinal ==
    ASSUME state = "SYSTEM_LOCKDOWN", NEW e
    PROVE  Successors(e) = {}
  <1>1. \A row \in Transitions : row[1] # "SYSTEM_LOCKDOWN"
    BY DEF Transitions
  <1> QED
    BY <1>1 DEF Successors

\* A step into or in SYSTEM_LOCKDOWN holds both hosts.
LEMMA LockedDownStep == TypeInv /\ LockedDown /\ [Next]_vars => LockedDown'
  <1> SUFFICES ASSUME TypeInv, LockedDown, [Next]_vars PROVE LockedDown'
    OBVIOUS
  <1>1. CASE Transition
    <2>1. PICK t \in Successors(Head(fifo)) : Goto(t)
      BY <1>1 DEF Transition
    <2>2. CASE t = "SYSTEM_LOCKDOWN"
      <3>1. HeldOnEntry(t, Head(fifo)) = Hosts /\ t \notin Tzero
        BY <2>2 DEF HeldOnEntry, Tzero
      <3>2. hold' = hold \cup Hosts /\ mux' = mux \cup Hosts
        BY <2>1, <3>1 DEF Goto
      <3> QED
        BY <3>2 DEF TypeInv, TypeOK, LockedDown
    <2>3. CASE t # "SYSTEM_LOCKDOWN"
      BY <2>1, <2>3 DEF Goto, LockedDown
    <2> QED
      BY <2>2, <2>3
  <1>2. CASE DoInit \/ SeamlessUpdate \/ SeamlessVerify
    BY <1>2 DEF DoInit, SeamlessUpdate, SeamlessVerify, Running, LockedDown
  <1>3. CASE \E f : Reset(f)
    BY <1>3 DEF Reset, LockedDown
  <1>4. CASE UNCHANGED <<state, hold, mux>>
    BY <1>4 DEF LockedDown
  <1> QED
    BY <1>1, <1>2, <1>3, <1>4, PinSteps

\* A reset of the RoT out of SYSTEM_LOCKDOWN is a power failure.
LEMMA LeavingLockdown ==
    ASSUME state = "SYSTEM_LOCKDOWN", [Next]_vars
    PROVE  UNCHANGED state \/ PowerLoss
  <1>1. CASE Dispatch
    <2>1. ~Transition
      BY LockdownIsFinal DEF Transition
    <2> QED
      BY <1>1, <2>1 DEF Dispatch, RunInPlace, Discard
  <1>2. CASE RotSteps
    BY <1>2 DEF RotSteps, DoInit, DoRotErase, DoRotCopy, DoLockdown, DoReboot, Running
  <1>3. CASE VerifySteps \/ RecoverSteps
    BY <1>3 DEF VerifySteps, VerifyUnprovisioned, VerifyPendingUpdate, VerifyImages,
                RecoverSteps, RecoveryStart, RecoverImages, RecoveryDone
  <1>4. CASE UpdateSteps
    BY <1>4 DEF UpdateSteps, UpdateStart, UpdateSelect, UpdateCopy, UpdateRefused, UpdateProgram,
                UpdateEnd
  <1>5. CASE RuntimeSteps \/ SeamlessSteps
    BY <1>5 DEF RuntimeSteps, UpdateAtReset, HandleCheckpoint, HandleProvision, RunNothing,
                SeamlessSteps, SeamlessUpdate, SeamlessVerify
  <1>6. CASE Environment
    BY <1>6 DEF Environment, BmcReset, MailboxIntent, MailboxCheckpoint, MailboxProvision,
                TimerExpire, StageCapsule, CorruptFlash, smVars
  <1>7. CASE UNCHANGED vars
    BY <1>7 DEF vars, smVars
  <1> QED
    BY <1>1, <1>2, <1>3, <1>4, <1>5, <1>6, <1>7 DEF Next, Thread

\* enter_lockdown: until power is cycled nothing the hosts, the timers or the
\* queued events do gets a host out of reset or the RoT out of the flashes.
THEOREM Lockdown == Spec => LockdownHolds
  <1> DEFINE A == state = "SYSTEM_LOCKDOWN" =>
                    \/ state' = "SYSTEM_LOCKDOWN" /\ hold' = Hosts /\ mux' = Hosts
                    \/ spent'.loss = spent.loss + 1
  <1>1. Init => LockedDown
    BY DEF Init, LockedDown
  <1>2. TypeInv /\ LockedDown /\ [Next]_vars => A
    <2> SUFFICES ASSUME TypeInv, LockedDown, [Next]_vars, state = "SYSTEM_LOCKDOWN"
                 PROVE  \/ state' = "SYSTEM_LOCKDOWN" /\ hold' = Hosts /\ mux' = Hosts
                        \/ spent'.loss = spent.loss + 1
      OBVIOUS
    <2>1. CASE UNCHANGED state
      BY <2>1, LockedDownStep DEF LockedDown
    <2>2. CASE PowerLoss
      BY <2>2 DEF PowerLoss, TypeInv, TypeOK, Budget
    <2> QED
      BY <2>1, <2>2, LeavingLockdown
  <1>3. LockdownHolds <=> [][A]_vars
    BY DEF LockdownHolds
  <1> QED
    BY <1>1, <1>2, <1>3, LockedDownStep, TypeInvariant, PTL DEF Spec
-----------------------------------------------------------------------------
(* Anti-rollback.                                                           *)

\* Only a verification, an update and a UFM command write an SVN policy.
LEMMA SvnSteps ==
    ASSUME [Next]_vars
    PROVE  VerifyImages \/ UpdateProgram \/ HandleProvision \/ UNCHANGED svn
  <1>1. CASE Dispatch
    BY <1>1 DEF Dispatch, Transition, RunInPlace, Discard, ufmVars
  <1>2. CASE RotSteps
    BY <1>2 DEF RotSteps, DoInit, DoRotErase, DoRotCopy, DoLockdown, DoReboot, ufmVars
  <1>3. CASE VerifySteps \/ RecoverSteps
    BY <1>3 DEF VerifySteps, VerifyUnprovisioned, VerifyPendingUpdate,
                RecoverSteps, RecoveryStart, RecoverImages, RecoveryDone, ufmVars
  <1>4. CASE UpdateSteps
    BY <1>4 DEF UpdateSteps, UpdateStart, UpdateSelect, UpdateCopy, UpdateRefused, UpdateEnd,
                ufmVars
  <1>5. CASE RuntimeSteps \/ SeamlessSteps
    BY <1>5 DEF RuntimeSteps, UpdateAtReset, HandleCheckpoint, RunNothing,
                SeamlessSteps, SeamlessUpdate, SeamlessVerify, ufmVars
  <1>6. CASE Environment
    BY <1>6 DEF Environment, BmcReset, MailboxIntent, MailboxCheckpoint, MailboxProvision,
                TimerExpire, StageCapsule, CorruptFlash, PowerLoss, ufmVars
  <1>7. CASE UNCHANGED vars
    BY <1>7 DEF vars, ufmVars
  <1> QED
    BY <1>1, <1>2, <1>3, <1>4, <1>5, <1>6, <1>7 DEF Next, Thread

\* A capsule that update_firmware_image or ast1060_update accepts is not older
\* than the policy of its image.
LEMMA AcceptedSvn ==
    ASSUME Judged.ok, Judged.pass
    PROVE  svn[upd.image] <= Read(upd.image, "staging").svn
  <1>1. CASE upd.image = "ROT"
    BY <1>1 DEF Judged, UpdateRot, Verdict, SvnPolicyVerify
  <1>2. CASE upd.image # "ROT"
    BY <1>2 DEF Judged, UpdateHost, Verdict, SvnPolicyVerify
  <1> QED
    BY <1>1, <1>2

\* Whatever is not a UFM command leaves the policies or raises them.
LEMMA RisingSvn ==
    ASSUME TypeInv, [Next]_vars, ~HandleProvision
    PROVE  \A i \in Images : svn'[i] >= svn[i]
  <1>1. \A i \in Images : svn[i] \in Nat
    BY SvnMaxAssumption DEF TypeInv, TypeOK, Svns
  <1>2. CASE VerifyImages
    <2>1. \A i \in Images : \A c \in Content : RaisedFloor(c, svn[i]) >= svn[i]
      BY <1>1, SvnMaxAssumption DEF RaisedFloor, Content, Svns
    <2>2. \A i \in Images : Read(i, "recovery") \in Content
      BY ReadType DEF TypeInv, TypeOK, Slots
    <2>3. \A i \in Images : svn'[i] \in {svn[i], RaisedFloor(Read(i, "recovery"), svn[i])}
      BY <1>2 DEF VerifyImages
    <2> QED
      BY <1>1, <2>1, <2>2, <2>3
  <1>3. CASE UpdateProgram
    <2> DEFINE i == upd.image
    <2>1. svn' = svn \/ svn' = [svn EXCEPT ![i] = Read(i, "staging").svn]
      BY <1>3 DEF UpdateProgram
    <2>2. i \in Images /\ svn \in [Images -> Svns]
      BY <1>3 DEF UpdateProgram, TypeInv, TypeOK, Aimed
    <2>3. Read(i, "staging") \in Content
      BY <2>2, ReadType DEF TypeInv, TypeOK, Slots
    <2>4. Read(i, "staging").svn \in Nat
      BY <2>3, SvnMaxAssumption DEF Content, Svns
    <2>5. svn[i] <= Read(i, "staging").svn
      BY <1>3, AcceptedSvn DEF UpdateProgram
    <2> QED
      BY <1>1, <2>1, <2>2, <2>4, <2>5
  <1> QED
    BY <1>1, <1>2, <1>3, SvnSteps

\* set_ufm_svn, pfr_recovery_verify: the SVN policy of an image is lowered only
\* by erasing a UFM that is not locked.
THEOREM SvnMonotone == Spec => SvnFloorMonotone
  <1> DEFINE A == \/ \A i \in Images : svn'[i] >= svn[i]
                  \/ "lock" \notin ufm /\ ufm' = {}
  <1>1. TypeInv /\ [Next]_vars => A
    <2> SUFFICES ASSUME TypeInv, [Next]_vars PROVE A
      OBVIOUS
    <2>1. \A i \in Images : svn[i] \in Nat
      BY SvnMaxAssumption DEF TypeInv, TypeOK, Svns
    <2>2. CASE HandleProvision
      <3>1. UNCHANGED svn \/ ("lock" \notin ufm /\ ufm' = {})
        BY <2>2 DEF HandleProvision, ufmVars
      <3> QED
        BY <2>1, <3>1
    <2> QED
      BY <2>2, RisingSvn
  <1>2. SvnFloorMonotone <=> [][A]_vars
    BY DEF SvnFloorMonotone
  <1> QED
    BY <1>1, <1>2, TypeInvariant, PTL DEF Spec
-----------------------------------------------------------------------------
(* The event loop.                                                          *)

\* A handler that takes several steps runs in the state that started it.
Placed ==
    /\ pc = "rot" => state = "ROT_RECOVERY"
    /\ pc = "rec" => state = "FIRMWARE_RECOVERY"
    /\ pc \in {"upd", "copy", "prog"} => state = "FIRMWARE_UPDATE"

\* The inductive invariant behind CompletionPending.
LoopInv == Placed /\ CompletionPending

\* GenerateStateMachineEvent: unless the event is lost, it is in the FIFO.
LEMMA Posted ==
    ASSUME fifo \in Seq(Event), NEW n, NEW d, Evt(n, d) \in Event,
           GenerateStateMachineEvent(n, d), ~dropped'
    PROVE  \E k \in 1 .. Len(fifo') : fifo'[k].ev = n
  <1>1. HeapEvents \in Nat /\ Len(fifo) \in Nat
    BY ConfigAssumption
  <1>2. Len(fifo) < HeapEvents
    <2>1. ~(Len(fifo) >= HeapEvents)
      BY Zenon DEF GenerateStateMachineEvent
    <2> QED
      BY <1>1, <2>1
  <1>3. fifo' = Append(fifo, Evt(n, d))
    BY <1>2 DEF GenerateStateMachineEvent
  <1>4. /\ Len(fifo') = Len(fifo) + 1 /\ fifo'[Len(fifo) + 1] = Evt(n, d)
    BY <1>3
  <1>5. Evt(n, d).ev = n
    BY DEF Evt
  <1> QED
    BY <1>1, <1>4, <1>5

\* Posting an event removes none, and forgets no loss.
LEMMA PostKeeps ==
    ASSUME fifo \in Seq(Event), NEW n, NEW d, Evt(n, d) \in Event,
           GenerateStateMachineEvent(n, d)
    PROVE  /\ dropped => dropped'
           /\ \A k \in 1 .. Len(fifo) : k \in 1 .. Len(fifo') /\ fifo'[k] = fifo[k]
  <1>1. fifo' = fifo \/ fifo' = Append(fifo, Evt(n, d))
    BY DEF GenerateStateMachineEvent
  <1>2. dropped => dropped'
    BY DEF GenerateStateMachineEvent
  <1> QED
    BY <1>1, <1>2

\* An event that completes a state takes the thread out of it, and is therefore
\* never discarded there.
LEMMA CompletionsLeave ==
    ASSUME state \in Working, NEW e, e.ev \in Completions(state)
    PROVE  Successors(e) # {}
  <1>1. CASE state = "FIRMWARE_UPDATE" /\ e.ev = "UPDATE_DONE"
    BY <1>1 DEF Successors
  <1>2. CASE ~(state = "FIRMWARE_UPDATE" /\ e.ev = "UPDATE_DONE")
    <2>1. \E row \in Transitions : row[1] = state /\ row[2] = e.ev
      BY <1>2 DEF Working, Completions, Transitions
    <2> QED
      BY <2>1 DEF Successors
  <1> QED
    BY <1>1, <1>2
\* Lemma for the steps that end a handler: they post a completing event.
LEMMA EndsWith ==
    ASSUME TypeInv, NEW n \in Completions(state), NEW d \in Data, n \in Events,
           GenerateStateMachineEvent(n, d), UNCHANGED state
    PROVE  CompletionPending'
  <1>1. fifo \in Seq(Event) /\ Evt(n, d) \in Event
    BY EvtType DEF TypeInv, TypeOK
  <1>2. ASSUME ~dropped' PROVE \E k \in 1 .. Len(fifo') : fifo'[k].ev = n
    BY <1>1, <1>2, Posted
  <1>3. Completions(state)' = Completions(state)
    BY DEF Completions
  <1> QED
    BY <1>2, <1>3 DEF CompletionPending

\* Lemma for the steps beside the thread: what is pending stays pending.
LEMMA PostedBeside ==
    ASSUME TypeInv, CompletionPending, NEW n \in Events, NEW d \in Data,
           GenerateStateMachineEvent(n, d), UNCHANGED <<state, pc>>
    PROVE  CompletionPending'
  <1>1. fifo \in Seq(Event) /\ Evt(n, d) \in Event
    BY EvtType DEF TypeInv, TypeOK
  <1>2. /\ dropped => dropped'
        /\ \A k \in 1 .. Len(fifo) : k \in 1 .. Len(fifo') /\ fifo'[k] = fifo[k]
    BY <1>1, PostKeeps
  <1>3. Completions(state)' = Completions(state)
    BY DEF Completions
  <1> QED
    BY <1>2, <1>3 DEF CompletionPending

\* The dispatcher: a discarded event is not the one that was waited for.
LEMMA DispatchLoop == TypeInv /\ LoopInv /\ Dispatch => LoopInv'
  <1>1. ASSUME TypeInv, LoopInv, Transition PROVE LoopInv'
    <2>1. pc' = "run"
      BY <1>1 DEF Transition, Goto
    <2> QED
      BY <2>1 DEF LoopInv, Placed, CompletionPending
  <1>2. ASSUME TypeInv, LoopInv, RunInPlace PROVE LoopInv'
    BY <1>2 DEF RunInPlace, LoopInv, Placed, CompletionPending
  <1>3. ASSUME TypeInv, LoopInv, Discard PROVE LoopInv'
    <2>1. /\ pc = "wait" /\ fifo # <<>> /\ fifo' = Tail(fifo) /\ UNCHANGED <<state, pc, dropped>>
          /\ fifo \in Seq(Event) /\ Successors(Head(fifo)) = {}
      BY <1>3 DEF Discard, Take, TypeInv, TypeOK
    <2>2. ASSUME state \in Working, ~dropped
          PROVE  \E n \in 1 .. Len(fifo') : fifo'[n].ev \in Completions(state)
      <3>1. PICK n \in 1 .. Len(fifo) : fifo[n].ev \in Completions(state)
        BY <1>3, <2>1, <2>2 DEF LoopInv, CompletionPending
      <3>2. Head(fifo) = fifo[1]
        BY <2>1
      <3>3. n # 1
        BY <2>1, <2>2, <3>1, <3>2, CompletionsLeave
      <3>4. n - 1 \in 1 .. Len(fifo') /\ fifo'[n - 1] = fifo[n]
        BY <2>1, <3>1, <3>3
      <3> QED
        BY <3>1, <3>4
    <2>3. Completions(state)' = Completions(state)
      BY <2>1 DEF Completions
    <2>4. CompletionPending'
      BY <2>1, <2>2, <2>3 DEF CompletionPending
    <2> QED
      BY <1>3, <2>1, <2>4 DEF LoopInv, Placed
  <1> QED
    BY <1>1, <1>2, <1>3 DEF Dispatch

\* do_init, do_rot_recovery, do_lockdown and do_reboot.
LEMMA RotLoop == TypeInv /\ LoopInv /\ RotSteps => LoopInv'
  <1>1. ASSUME TypeInv, LoopInv, DoInit PROVE LoopInv'
    <2> DEFINE n == IF flash["ROT"]["active"].kind = "ROT" THEN "INIT_DONE"
                                                           ELSE "INIT_ROT_SECONDARY_BOOTED"
    <2>1. n \in Completions(state) /\ n \in Events
      BY <1>1 DEF DoInit, Running, Completions, Events
    <2>2. CompletionPending'
      BY <1>1, <2>1, EndsWith, NullType DEF DoInit
    <2> QED
      BY <1>1, <2>2 DEF DoInit, LoopInv, Placed
  <1>2. ASSUME TypeInv, LoopInv, DoRotErase PROVE LoopInv'
    BY <1>2 DEF DoRotErase, Running, LoopInv, Placed, CompletionPending
  <1>3. ASSUME TypeInv, LoopInv, DoRotCopy PROVE LoopInv'
    <2>1. PICK n \in {"RECOVERY_DONE", "RECOVERY_FAILED"} : GenerateStateMachineEvent(n, NULL)
      BY <1>3 DEF DoRotCopy
    <2>2. n \in Completions(state) /\ n \in Events
      BY <1>3, <2>1 DEF DoRotCopy, LoopInv, Placed, Completions, Events
    <2>3. CompletionPending'
      BY <1>3, <2>1, <2>2, EndsWith, NullType DEF DoRotCopy
    <2> QED
      BY <1>3, <2>3 DEF DoRotCopy, LoopInv, Placed
  <1>4. ASSUME TypeInv, LoopInv, DoLockdown PROVE LoopInv'
    BY <1>4 DEF DoLockdown, Running, LoopInv, Placed, CompletionPending, Working
  <1>5. ASSUME TypeInv, LoopInv, DoReboot PROVE LoopInv'
    BY <1>5 DEF DoReboot, Reset, LoopInv, Placed, CompletionPending, Working
  <1> QED
    BY <1>1, <1>2, <1>3, <1>4, <1>5 DEF RotSteps

\* handle_image_verification always ends with a verdict or a pending update.
LEMMA VerifyLoop == TypeInv /\ LoopInv /\ VerifySteps => LoopInv'
  <1> SUFFICES ASSUME TypeInv, LoopInv, VerifySteps PROVE LoopInv'
    OBVIOUS
  <1>1. /\ Running("FIRMWARE_VERIFY") /\ pc' = "wait" /\ UNCHANGED state
        /\ \E n \in Completions("FIRMWARE_VERIFY") \cap Events, d \in Data :
              GenerateStateMachineEvent(n, d)
    <2>0. ev.d \in Data
      BY EventParts DEF TypeInv, TypeOK
    <2>1. CASE VerifyUnprovisioned
      <3>1. "VERIFY_UNPROVISIONED" \in Completions("FIRMWARE_VERIFY") \cap Events
        BY DEF Completions, Events
      <3> QED
        BY <2>0, <2>1, <3>1 DEF VerifyUnprovisioned
    <2>2. CASE VerifyPendingUpdate
      <3> DEFINE d == [ev.d EXCEPT !.src = PendingSource(ev.d.reset),
                                   !.intent = PendingIntent(ev.d.reset)]
      <3>0. PendingIntent(ev.d.reset) \in SUBSET IntentBits /\ PendingSource(ev.d.reset) \in Origins
        BY PendingType
      <3>1. d \in Data
        BY <2>0, <3>0 DEF Data
      <3>2. "UPDATE_REQUESTED" \in Completions("FIRMWARE_VERIFY") \cap Events
        BY DEF Completions, Events
      <3>3. GenerateStateMachineEvent("UPDATE_REQUESTED", d)
        BY <2>2 DEF VerifyPendingUpdate
      <3> QED
        BY <2>2, <3>1, <3>2, <3>3 DEF VerifyPendingUpdate
    <2>3. CASE VerifyImages
      <3>1. VerifyOutcome([h \in Hosts |-> Checked(h)])
              \in Completions("FIRMWARE_VERIFY") \cap Events
        BY DEF VerifyOutcome, Completions, Events
      <3> QED
        BY <2>0, <2>3, <3>1 DEF VerifyImages
    <2> QED
      BY <2>1, <2>2, <2>3 DEF VerifySteps
  <1>2. CompletionPending'
    BY <1>1, EndsWith DEF Running
  <1> QED
    BY <1>1, <1>2 DEF LoopInv, Placed
\* The end of handle_recovery posts RECOVERY_DONE or RECOVERY_FAILED.
LEMMA RecoveryEndLoop ==
    ASSUME TypeInv, pc = "rec", Placed, NEW r, RecoveryEnd(r), UNCHANGED state
    PROVE  CompletionPending'
  <1>1. [NULL EXCEPT !.src = "undef", !.reset = ev.d.reset] \in Data
    <2>1. ev.d.reset \in SUBSET ResetBits /\ "undef" \in Origins
      BY EventParts DEF TypeInv, TypeOK, Origins
    <2> QED
      BY <2>1, NullType DEF Data
  <1>2. PICK n \in {"RECOVERY_DONE", "RECOVERY_FAILED"}, d \in Data :
          GenerateStateMachineEvent(n, d)
    BY <1>1, NullType DEF RecoveryEnd
  <1>3. n \in Completions(state) /\ n \in Events
    BY <1>2 DEF Placed, Completions, Events
  <1> QED
    BY <1>2, <1>3, EndsWith

\* Hence a call that goes on or ends.
LEMMA GoesOnLoop ==
    ASSUME TypeInv, pc = "rec", Placed, NEW k, NEW r, RecoveryGoesOn(k, r), UNCHANGED state
    PROVE  LoopInv'
  <1>1. CASE k < 4
    BY <1>1 DEF RecoveryGoesOn, LoopInv, Placed, CompletionPending
  <1>2. CASE ~(k < 4)
    <2>1. RecoveryEnd(r) /\ pc' = "wait"
      BY <1>2 DEF RecoveryGoesOn, RecoveryEnd
    <2>2. CompletionPending'
      BY <2>1, RecoveryEndLoop
    <2> QED
      BY <2>1, <2>2 DEF LoopInv, Placed
  <1> QED
    BY <1>1, <1>2

\* handle_recovery.
LEMMA RecoverLoop == TypeInv /\ LoopInv /\ RecoverSteps => LoopInv'
  <1>1. ASSUME TypeInv, LoopInv, RecoveryStart PROVE LoopInv'
    BY <1>1 DEF RecoveryStart, Running, LoopInv, Placed, CompletionPending
  <1>2. ASSUME TypeInv, LoopInv, RecoverImages PROVE LoopInv'
    <2>1. pc = "rec" /\ UNCHANGED state /\ Placed
      BY <1>2 DEF RecoverImages, LoopInv
    <2>2. \/ \E k, r : RecoveryGoesOn(k, r)
          \/ UNCHANGED pc
      BY <1>2 DEF RecoverImages, RecoverNothing, RecoverRegion, RecoverFetch
    <2>3. CASE UNCHANGED pc
      BY <2>1, <2>3 DEF LoopInv, Placed, CompletionPending
    <2> QED
      BY <1>2, <2>1, <2>2, <2>3, GoesOnLoop
  <1>3. ASSUME TypeInv, LoopInv, RecoveryDone PROVE LoopInv'
    <2>1. pc = "rec" /\ UNCHANGED state /\ Placed /\ RecoveryEnd(rec) /\ pc' = "wait"
      BY <1>3 DEF RecoveryDone, RecoveryEnd, LoopInv
    <2>2. CompletionPending'
      BY <1>3, <2>1, RecoveryEndLoop
    <2> QED
      BY <2>1, <2>2 DEF LoopInv, Placed
  <1> QED
    BY <1>1, <1>2, <1>3 DEF RecoverSteps

\* handle_update_requested: whatever its regions came to, it ends with a result.
LEMMA UpdateLoop == TypeInv /\ LoopInv /\ UpdateSteps => LoopInv'
  <1>1. ASSUME TypeInv, LoopInv, UpdateStart PROVE LoopInv'
    BY <1>1 DEF UpdateStart, Running, LoopInv, Placed, CompletionPending
  <1>2. ASSUME TypeInv, LoopInv, UpdateSelect PROVE LoopInv'
    <2>1. pc = "upd" /\ pc' \in {"upd", "copy", "prog"} /\ UNCHANGED state
      BY <1>2 DEF UpdateSelect, UpdateBypass, UpdateTampered, UpdateRecoveryRegion,
                  UpdateActiveRegion, EndIteration
    <2> QED
      BY <1>2, <2>1 DEF LoopInv, Placed, CompletionPending
  <1>3. ASSUME TypeInv, LoopInv, UpdateCopy PROVE LoopInv'
    <2>1. pc = "copy" /\ pc' \in {"upd", "prog"} /\ UNCHANGED state
      BY <1>3 DEF UpdateCopy, UpdateReturns, EndIteration
    <2> QED
      BY <1>3, <2>1 DEF LoopInv, Placed, CompletionPending
  <1>4. ASSUME TypeInv, LoopInv, UpdateRefused \/ UpdateProgram PROVE LoopInv'
    <2>1. pc = "prog" /\ pc' = "upd" /\ UNCHANGED state
      BY <1>4 DEF UpdateRefused, UpdateProgram, UpdateReturns, EndIteration
    <2> QED
      BY <1>4, <2>1 DEF LoopInv, Placed, CompletionPending
  <1>5. ASSUME TypeInv, LoopInv, UpdateEnd PROVE LoopInv'
    <2> DEFINE n == IF upd.ok THEN "UPDATE_DONE" ELSE "UPDATE_FAILED"
               d == [ev.d EXCEPT !.reset = @ \ {"BootDoneRecovery"}]
    <2>1. d \in Data
      <3>1. ev.d \in Data /\ (ev.d.reset \ {"BootDoneRecovery"}) \in SUBSET ResetBits
        BY <1>5, EventParts DEF TypeInv, TypeOK
      <3> QED
        BY <3>1 DEF Data
    <2>2. n \in Completions(state) /\ n \in Events
      BY <1>5 DEF UpdateEnd, LoopInv, Placed, Completions, Events
    <2>3. GenerateStateMachineEvent(n, d) /\ UNCHANGED state /\ pc' = "wait"
      BY <1>5 DEF UpdateEnd
    <2>4. CompletionPending'
      BY <1>5, <2>1, <2>2, <2>3, EndsWith
    <2> QED
      BY <2>3, <2>4 DEF LoopInv, Placed
  <1> QED
    BY <1>1, <1>2, <1>3, <1>4, <1>5 DEF UpdateSteps

\* The states in which hosts run wait for nothing, and a seamless update ends
\* with a result.
LEMMA RuntimeLoop == TypeInv /\ LoopInv /\ (RuntimeSteps \/ SeamlessSteps) => LoopInv'
  <1>1. ASSUME TypeInv, LoopInv, RuntimeSteps PROVE LoopInv'
    <2>1. pc' = "wait" /\ state \notin Working /\ UNCHANGED state
      BY <1>1 DEF RuntimeSteps, UpdateAtReset, HandleCheckpoint, HandleProvision, RunNothing,
                  Running, Working
    <2> QED
      BY <2>1 DEF LoopInv, Placed, CompletionPending, Working
  <1>2. ASSUME TypeInv, LoopInv, SeamlessUpdate PROVE LoopInv'
    <2>1. PICK n \in {"SEAMLESS_UPDATE_DONE", "SEAMLESS_UPDATE_FAILED"} :
            GenerateStateMachineEvent(n, NULL)
      BY <1>2 DEF SeamlessUpdate
    <2>2. n \in Completions(state) /\ n \in Events
      BY <1>2, <2>1 DEF SeamlessUpdate, Running, Completions, Events
    <2>3. CompletionPending'
      BY <1>2, <2>1, <2>2, EndsWith, NullType DEF SeamlessUpdate
    <2> QED
      BY <1>2, <2>3 DEF SeamlessUpdate, LoopInv, Placed
  <1>3. ASSUME TypeInv, LoopInv, SeamlessVerify PROVE LoopInv'
    BY <1>3 DEF SeamlessVerify, Running, LoopInv, Placed, CompletionPending, Working
  <1> QED
    BY <1>1, <1>2, <1>3 DEF SeamlessSteps

\* The hosts and the timers add events and take none away.
LEMMA EnvironmentLoop == TypeInv /\ LoopInv /\ Environment => LoopInv'
  <1>1. ASSUME TypeInv, LoopInv, NEW n \in Events, NEW d \in Data,
               GenerateStateMachineEvent(n, d), UNCHANGED <<state, pc>>
        PROVE  LoopInv'
    BY <1>1, PostedBeside DEF LoopInv, Placed
  <1>2. ASSUME TypeInv,
               BmcReset \/ MailboxIntent \/ MailboxCheckpoint \/ MailboxProvision \/ TimerExpire
        PROVE  /\ \E n \in Events, d \in Data : GenerateStateMachineEvent(n, d)
               /\ UNCHANGED <<state, pc>>
    <2>t. spent \in Budget
      BY <1>2 DEF TypeInv, TypeOK
    <2>1. CASE BmcReset
      BY <2>1, NullType DEF BmcReset, Events
    <2>2. CASE MailboxIntent
      <3>1. PICK r \in Around.requests :
              GenerateStateMachineEvent(r.ev, [NULL EXCEPT !.src = r.src, !.intent = Masked(r)])
        BY <2>2 DEF MailboxIntent
      <3>2. r.ev \in Events /\ r.src \in Origins /\ r.intent \in SUBSET IntentBits
        BY <2>t, AroundType DEF Surroundings, Request, Events, Origins
      <3>3. Masked(r) \in SUBSET IntentBits
        BY <3>2 DEF Masked
      <3>4. [NULL EXCEPT !.src = r.src, !.intent = Masked(r)] \in Data
        BY <3>2, <3>3, NullType DEF Data
      <3> QED
        BY <2>2, <3>1, <3>2, <3>4 DEF MailboxIntent
    <2>3. CASE MailboxCheckpoint
      <3>1. PICK c \in Around.checkpoints :
              GenerateStateMachineEvent("WDT_CHECKPOINT",
                  [NULL EXCEPT !.src = c[1], !.intent = {c[2]}])
        BY <2>3 DEF MailboxCheckpoint
      <3>2. c[1] \in Origins /\ {c[2]} \in SUBSET IntentBits
        BY <2>t, AroundType DEF Surroundings, Origins, IntentBits
      <3>3. [NULL EXCEPT !.src = c[1], !.intent = {c[2]}] \in Data
        BY <3>2, NullType DEF Data
      <3>4. "WDT_CHECKPOINT" \in Events
        BY DEF Events
      <3> QED
        BY <2>3, <3>1, <3>3, <3>4 DEF MailboxCheckpoint
    <2>4. CASE MailboxProvision
      <3>1. PICK cmd \in Around.provisions :
              GenerateStateMachineEvent("PROVISION_CMD",
                  [NULL EXCEPT !.src = "UfmCommand", !.intent = {cmd}])
        BY <2>4 DEF MailboxProvision
      <3>2. "UfmCommand" \in Origins /\ {cmd} \in SUBSET IntentBits
        BY <2>t, AroundType DEF Surroundings, Origins, IntentBits
      <3>3. [NULL EXCEPT !.src = "UfmCommand", !.intent = {cmd}] \in Data
        BY <3>2, NullType DEF Data
      <3>4. "PROVISION_CMD" \in Events
        BY DEF Events
      <3> QED
        BY <2>4, <3>1, <3>3, <3>4 DEF MailboxProvision
    <2>5. CASE TimerExpire
      <3>1. PICK t \in timers :
              \/ GenerateStateMachineEvent("RESET_DETECTED", NULL)
              \/ GenerateStateMachineEvent("WDT_TIMEOUT", [NULL EXCEPT !.src = BlamedBy(t)])
        BY <2>5 DEF TimerExpire
      <3>2. [NULL EXCEPT !.src = BlamedBy(t)] \in Data
        BY NullType DEF Data, BlamedBy, Origins, Hosts
      <3>3. "RESET_DETECTED" \in Events /\ "WDT_TIMEOUT" \in Events
        BY DEF Events
      <3> QED
        BY <2>5, <3>1, <3>2, <3>3, NullType DEF TimerExpire
    <2> QED
      BY <1>2, <2>1, <2>2, <2>3, <2>4, <2>5
  <1>3. ASSUME LoopInv, StageCapsule \/ CorruptFlash PROVE LoopInv'
    BY <1>3 DEF StageCapsule, CorruptFlash, smVars, LoopInv, Placed, CompletionPending, Completions
  <1>4. ASSUME PowerLoss PROVE LoopInv'
    <2>1. state' = "BOOT" /\ pc' \in {"wait", "dead"}
      BY <1>4 DEF PowerLoss, Reset
    <2> QED
      BY <2>1 DEF LoopInv, Placed, CompletionPending, Working
  <1> QED
    BY <1>1, <1>2, <1>3, <1>4 DEF Environment

\* Every step keeps a completing event pending.
LEMMA LoopStep == TypeInv /\ LoopInv /\ [Next]_vars => LoopInv'
  <1> SUFFICES ASSUME TypeInv, LoopInv, [Next]_vars PROVE LoopInv'
    OBVIOUS
  <1>1. CASE Thread
    BY <1>1, DispatchLoop, RotLoop, VerifyLoop, RecoverLoop, UpdateLoop, RuntimeLoop DEF Thread
  <1>2. CASE Environment
    BY <1>2, EnvironmentLoop
  <1>3. CASE UNCHANGED vars
    BY <1>3 DEF vars, smVars, LoopInv, Placed, CompletionPending, Completions
  <1> QED
    BY <1>1, <1>2, <1>3 DEF Next

\* AspeedStateMachine: a thread that waits in a state it entered to do some work
\* has the event in the FIFO that takes it out of that state, whatever was queued
\* before and is discarded on the way, unless an event was lost.
THEOREM NeverStranded == Spec => []CompletionPending
  <1>1. Init => LoopInv
    BY DEF Init, LoopInv, Placed, CompletionPending, Working
  <1>2. LoopInv => CompletionPending
    BY DEF LoopInv
  <1> QED
    BY <1>1, <1>2, LoopStep, TypeInvariant, PTL DEF Spec
=============================================================================
