-------------------------- MODULE PfrReleaseProofs --------------------------
(***************************************************************************)
(* What the hosts run on, for every value of the constants of               *)
(* PfrStateMachine.  As long as no host asks for an update, a host that     *)
(* runs was found good by the last verification of it; as long as the PCH   *)
(* does not, the verdict the BMC is released by is the one of the boot that *)
(* releases it.  The state machine implements the boot gate of PfrBootGate: *)
(* the initial states map to initial states and every step to a step of the *)
(* gate or a stutter.  A recovery image a host runs with is recorded in its *)
(* SVN policy.                                                              *)
(***************************************************************************)
EXTENDS PfrEventProofs, SequenceTheorems

-----------------------------------------------------------------------------
(* A platform on which no host asks for an update.                          *)

Quiet == Around.requests = {}

UpdateEvents == {"UPDATE_REQUESTED", "UPDATE_DONE", "UPDATE_FAILED",
                 "UPDATE_INTENT_2_REQUESTED"} \cup SeamlessEvents
UpdateStates == {"FIRMWARE_UPDATE", "SEAMLESS_UPDATE", "SEAMLESS_VERIFY"}
\* Events that neither ask for an update nor reset the PCH alone.
QuietEvents == {e \in Event : /\ e.ev \notin UpdateEvents
                              /\ "PchOnlyReset" \notin e.d.reset
                              /\ e.d.src \notin {"BmcUpdateIntent", "PchUpdateIntent"}}

\* Nothing is updated on a quiet platform.
QuietInv ==
    /\ fifo \in Seq(QuietEvents) /\ ev \in QuietEvents
    /\ cpld.status = {} /\ \A i \in Images : cpld.recovery[i] = "none"
    /\ state \notin UpdateStates

\* The surroundings of a run are chosen once.
LEMMA SameAround ==
    ASSUME TypeInv, [Next]_vars
    PROVE  UNCHANGED Around
  <1>t. spent \in Budget
    BY DEF TypeInv, TypeOK
  <1>1. CASE UNCHANGED spent
    BY <1>1 DEF Around
  <1>2. CASE \E i, s, w : Rewrite(i, s, w)
    BY <1>t, <1>2 DEF Rewrite, Budget, Around
  <1>3. CASE DoRotErase \/ SeamlessUpdate \/ Environment
    <2>1. spent'.scn = spent.scn
      BY <1>t, <1>3 DEF Budget, DoRotErase, SeamlessUpdate, Environment, BmcReset, MailboxIntent,
                        MailboxCheckpoint, MailboxProvision, TimerExpire, StageCapsule,
                        CorruptFlash, PowerLoss
    <2> QED
      BY <2>1 DEF Around
  <1>4. CASE Dispatch \/ UNCHANGED vars
    BY <1>1, <1>4 DEF Dispatch, Transition, RunInPlace, Discard, vars
  <1>5. CASE RotSteps
    BY <1>1, <1>2, <1>3, <1>5 DEF RotSteps, DoInit, DoRotCopy, DoLockdown, DoReboot
  <1>6. CASE VerifySteps \/ RecoverSteps
    BY <1>1, <1>2, <1>6 DEF VerifySteps, VerifyUnprovisioned, VerifyPendingUpdate, VerifyImages,
                            RecoverSteps, RecoveryStart, RecoverImages, RecoverNothing,
                            RecoverRegion, RecoverFetch, RecoveryDone
  <1>7. CASE UpdateSteps
    BY <1>1, <1>2, <1>7 DEF UpdateSteps, UpdateStart, UpdateSelect, UpdateCopy, UpdateRefused,
                            UpdateProgram, UpdateEnd
  <1>8. CASE RuntimeSteps \/ SeamlessSteps
    BY <1>1, <1>3, <1>8 DEF RuntimeSteps, UpdateAtReset, HandleCheckpoint, HandleProvision,
                            RunNothing, SeamlessSteps, SeamlessVerify
  <1> QED
    BY <1>3, <1>4, <1>5, <1>6, <1>7, <1>8 DEF Next, Thread

\* The handlers of updates do not run.
LEMMA QuietSteps ==
    ASSUME Placed, QuietInv
    PROVE  /\ ~UpdateSteps /\ ~SeamlessSteps /\ ~UpdateAtReset /\ ~VerifyPendingUpdate
           /\ \A r : Honoured(r) = {}
           /\ BootDoneIntent = {}
  <1>1. ~UpdateSteps
    BY DEF UpdateSteps, UpdateStart, Running, UpdateSelect, UpdateBypass, UpdateTampered,
           UpdateRecoveryRegion, UpdateActiveRegion, UpdateCopy, UpdateRefused, UpdateProgram,
           UpdateEnd, Placed, QuietInv, UpdateStates
  <1>2. ~SeamlessSteps
    BY DEF SeamlessSteps, SeamlessUpdate, SeamlessVerify, Running, QuietInv, UpdateStates
  <1>3. ~UpdateAtReset
    BY DEF UpdateAtReset, QuietInv, QuietEvents, UpdateEvents
  <1>4. \A r : Honoured(r) = {}
    BY DEF Honoured, QuietInv
  <1>5. ~VerifyPendingUpdate
    BY <1>4 DEF VerifyPendingUpdate
  <1>6. BootDoneIntent = {}
    BY DEF BootDoneIntent, QuietInv, Images, Hosts
  <1> QED
    BY <1>1, <1>2, <1>3, <1>4, <1>5, <1>6

\* What is posted on a quiet platform.
LEMMA PostsQuiet ==
    ASSUME TypeInv, Placed, QuietInv, Quiet, NEW n \in Events, NEW d \in Data, Posts(n, d)
    PROVE  Evt(n, d) \in QuietEvents
  <1>1. Evt(n, d) \in Event /\ Evt(n, d).d = d /\ Evt(n, d).ev = n
    BY EvtType DEF Evt
  <1>2. ev.d.src \notin {"BmcUpdateIntent", "PchUpdateIntent"} /\ "PchOnlyReset" \notin ev.d.reset
    BY DEF QuietInv, QuietEvents
  <1>3. NULL.src = "none" /\ NULL.reset = {}
    BY DEF NULL
  <1> DEFINE quiet == /\ n \notin UpdateEvents /\ "PchOnlyReset" \notin d.reset
                      /\ d.src \notin {"BmcUpdateIntent", "PchUpdateIntent"}
  <1>4. quiet
    <2>1. CASE ThreadPosts(n, d)
      <3>1. ASSUME state = "FIRMWARE_VERIFY", n \in Verdicts \ {"RECOVERY_DONE"}, d = ev.d
            PROVE  quiet
        BY <1>2, <3>1 DEF Verdicts, UpdateEvents, SeamlessEvents
      <3>2. ASSUME n = "RECOVERY_DONE", d = [NULL EXCEPT !.src = "undef", !.reset = ev.d.reset]
            PROVE  quiet
        <4>1. d.src = "undef" /\ d.reset = ev.d.reset
          BY <3>2 DEF NULL
        <4> QED
          BY <1>2, <3>2, <4>1 DEF UpdateEvents, SeamlessEvents
      <3>3. ASSUME d = NULL, n \notin UpdateEvents
            PROVE  quiet
        BY <1>3, <3>3
      <3> QED
        BY <2>1, <3>1, <3>2, <3>3, QuietSteps
        DEF ThreadPosts, UpdateEvents, SeamlessEvents, QuietInv, UpdateStates
    <2>2. CASE HostPosts(n, d)
      <3>1. /\ \A x : [NULL EXCEPT !.src = x].src = x /\ [NULL EXCEPT !.src = x].reset = {}
            /\ \A x, y : /\ [NULL EXCEPT !.src = x, !.intent = y].src = x
                         /\ [NULL EXCEPT !.src = x, !.intent = y].reset = {}
        BY DEF NULL
      <3>2. CASE n = "RESET_DETECTED" /\ d = NULL
        BY <1>3, <3>2 DEF UpdateEvents, SeamlessEvents
      <3>3. ASSUME n = "WDT_TIMEOUT", NEW h \in Hosts, d = [NULL EXCEPT !.src = h]
            PROVE  quiet
        BY <3>1, <3>3 DEF UpdateEvents, SeamlessEvents, Hosts
      <3>4. ASSUME n = "WDT_CHECKPOINT", NEW c \in Around.checkpoints,
                   d = [NULL EXCEPT !.src = c[1], !.intent = {c[2]}]
            PROVE  quiet
        <4>1. c[1] \in Sources
          BY AroundType DEF TypeInv, TypeOK, Surroundings
        <4> QED
          BY <3>1, <3>4, <4>1 DEF UpdateEvents, SeamlessEvents, Sources
      <3>5. ASSUME n = "PROVISION_CMD", NEW cmd,
                   d = [NULL EXCEPT !.src = "UfmCommand", !.intent = {cmd}]
            PROVE  quiet
        BY <3>1, <3>5 DEF UpdateEvents, SeamlessEvents
      <3> QED
        BY <2>2, <3>2, <3>3, <3>4, <3>5 DEF HostPosts, Quiet
    <2> QED
      BY <2>1, <2>2 DEF Posts
  <1> QED
    BY <1>1, <1>4 DEF QuietEvents
\* A dispatched event is as quiet as the one in the FIFO, and a quiet event
\* starts no update.
LEMMA DispatchQuiet == QuietInv /\ Dispatch => QuietInv'
  <1> SUFFICES ASSUME QuietInv, Dispatch PROVE QuietInv'
    OBVIOUS
  <1> DEFINE e == Head(fifo)
  <1>1. Take /\ UNCHANGED cpld
    BY DEF Dispatch, Transition, RunInPlace, Discard, ufmVars
  <1>2. e \in QuietEvents /\ fifo' \in Seq(QuietEvents) /\ e \in Event
    BY <1>1, TakenFrom DEF QuietInv, QuietEvents
  <1>3. [e EXCEPT !.d.reset = Tmin1Policy(@, HeldAtTmin1(e))] \in QuietEvents
    <2> DEFINE r == Tmin1Policy(e.d.reset, HeldAtTmin1(e))
    <2>1. e.d.reset \in SUBSET ResetBits
      BY <1>2, EventParts
    <2>2. r \in SUBSET ResetBits
      BY <2>1, PolicyType
    <2>3. [e EXCEPT !.d.reset = r] \in Event
      BY <1>2, <2>2, EventReset
    <2>4. /\ [e EXCEPT !.d.reset = r].ev = e.ev
          /\ [e EXCEPT !.d.reset = r].d.src = e.d.src
          /\ [e EXCEPT !.d.reset = r].d.reset = r
      BY <1>2, EventParts DEF Event, Data
    <2>5. HeldAtTmin1(e) \in {{"BMC"}, Hosts}
      BY <1>2 DEF HeldAtTmin1, QuietEvents
    <2>6. "PchOnlyReset" \notin r
      BY <1>2, <2>5 DEF Tmin1Policy, OnlyBit, QuietEvents, Hosts
    <2> QED
      BY <1>2, <2>3, <2>4, <2>6 DEF QuietEvents
  <1>4. state' \notin UpdateStates
    <2>1. CASE Transition
      <3>1. PICK t \in Successors(e) : Goto(t)
        BY <2>1 DEF Transition
      <3>2. e.ev \notin UpdateEvents /\ state \notin UpdateStates
        BY <1>2 DEF QuietEvents, QuietInv
      <3>3. \A row \in Transitions : row[3] \in UpdateStates => row[2] \in UpdateEvents
        BY DEF Transitions, UpdateStates, UpdateEvents, SeamlessEvents
      <3>4. t \notin UpdateStates
        BY <3>2, <3>3 DEF Successors, UpdateStates, UpdateEvents, SeamlessEvents
      <3> QED
        BY <3>1, <3>4 DEF Goto
    <2>2. CASE RunInPlace \/ Discard
      BY <2>2 DEF RunInPlace, Discard, QuietInv
    <2> QED
      BY <2>1, <2>2 DEF Dispatch
  <1> QED
    BY <1>1, <1>2, <1>3, <1>4, DispatchedEvent DEF QuietInv

\* Cleared flags leave none to honour.
LEMMA QuietFlags == ClearCpld.status = {} /\ \A i \in Images : ClearCpld.recovery[i] = "none"
  BY DEF ClearCpld, NoFlags

\* A quiet platform stays one.
LEMMA QuietStep ==
    ASSUME TypeInv, Placed, Quiet, QuietInv, [Next]_vars
    PROVE  QuietInv'
  <1>1. cpld'.status = {} /\ \A i \in Images : cpld'.recovery[i] = "none"
    <2>0. cpld \in CpldStatus /\ cpld.status = {} /\ \A i \in Images : cpld.recovery[i] = "none"
      BY DEF TypeInv, TypeOK, QuietInv
    <2>1. \/ UNCHANGED cpld \/ cpld' = ClearCpld
          \/ \E k : cpld' = [cpld EXCEPT !.recovery[k] = "none"]
      BY FlagSteps, QuietSteps
      DEF DoRotErase, HandleProvision, RecoveryEnd, UpdateSteps, SeamlessSteps, ufmVars
    <2>2. CASE UNCHANGED cpld \/ cpld' = ClearCpld
      BY <2>0, <2>2, QuietFlags
    <2>3. ASSUME NEW k, cpld' = [cpld EXCEPT !.recovery[k] = "none"]
          PROVE  cpld'.status = {} /\ \A i \in Images : cpld'.recovery[i] = "none"
      BY <2>0, <2>3 DEF CpldStatus
    <2> QED
      BY <2>1, <2>2, <2>3
  <1>2. CASE Dispatch
    BY <1>2, DispatchQuiet
  <1>3. CASE \E f : Reset(f)
    <2> DEFINE e == Evt("START_STATE_MACHINE", NULL)
    <2>1. /\ e \in Event /\ e.ev = "START_STATE_MACHINE" /\ e.d.src = "none"
          /\ e.d.reset = {}
      BY EvtType, NullType DEF Evt, NULL, Events
    <2>2. e \in QuietEvents
      BY <2>1 DEF QuietEvents, UpdateEvents, SeamlessEvents
    <2>3. state' = "BOOT"
      BY <1>3 DEF Reset
    <2> QED
      BY <1>1, <1>3, <2>2, <2>3, ResetIn DEF QuietInv, UpdateStates
  <1>4. CASE /\ Queues /\ UNCHANGED state
             /\ UNCHANGED ev \/ (state = "FIRMWARE_UPDATE" /\ Handling)
    <2>1. fifo' \in Seq(QuietEvents)
      BY <1>4, PostsQuiet, QueuedIn DEF QuietInv
    <2> QED
      BY <1>1, <1>4, <2>1 DEF QuietInv, UpdateStates
  <1> QED
    BY <1>2, <1>3, <1>4, QueueSteps

-----------------------------------------------------------------------------
(* The verdict a host is released by.                                       *)

\* States in which verdicts are awaited, and states left by a reset only.
Judging == {"FIRMWARE_VERIFY", "FIRMWARE_RECOVERY"}
Final == {"ROT_RECOVERY", "SYSTEM_LOCKDOWN", "SYSTEM_REBOOT"}

\* Events that are not verdicts.
Idle == {e \in QuietEvents : e.ev \notin Verdicts}
\* At most one verdict is queued.
Alone == \A j, k \in 1 .. Len(fifo) : fifo[j].ev \in Verdicts /\ fifo[k].ev \in Verdicts => j = k
\* The hosts out of reset were found good by the last verification.
Trusted(held) == \A h \in Hosts \ held : last[h].active

\* A queued verdict of handle_image_verification still says what is the case.
StillTrue(e) ==
    /\ e.ev # "RECOVERY_DONE" /\ e.d.reset = ev.d.reset
    /\ e.ev = "VERIFY_UNPROVISIONED" => ~Provisioned
    /\ e.ev = "VERIFY_DONE" =>
          /\ Provisioned
          /\ \A h \in Hosts : ao[h].active => last[h].active
          /\ ao["BMC"].active /\ ActiveVerify("BMC", flash["BMC"]["active"])
VerifyFit == {e \in QuietEvents : e.ev \in Verdicts => StillTrue(e)}
\* A queued verdict of handle_recovery is about the hosts that were recovered.
RecoverFit ==
    {e \in QuietEvents : e.ev \in Verdicts =>
        /\ e.ev \in {"RECOVERY_DONE", "RECOVERY_FAILED"}
        /\ e.ev = "RECOVERY_DONE" => e.d.reset = ev.d.reset}

\* The inductive invariant behind RunningHostVerified: verdicts are queued one
\* at a time and taken before anything they are about changes.
Unjudged == state \notin Final /\ ~(state \in Judging /\ pc = "wait") => fifo \in Seq(Idle)
OneVerdict ==
    /\ state \in Judging => Alone
    /\ state = "FIRMWARE_VERIFY" => fifo \in Seq(VerifyFit)
    /\ state = "FIRMWARE_RECOVERY" => fifo \in Seq(RecoverFit)
HeldHosts ==
    /\ state \in {"BOOT", "INIT"} => hold = Hosts
    /\ state \in Judging => Scope(ev.d.reset) \subseteq hold
    /\ state \in Judging /\ Provisioned => Trusted(hold)
    /\ state = "RUNTIME" => Trusted(hold)
JudgeInv == Unjudged /\ OneVerdict /\ HeldHosts

\* Without a verdict in the FIFO every queue condition holds.
LEMMA IdleQueue ==
    ASSUME fifo' \in Seq(Idle)
    PROVE  OneVerdict'
  <1>1. Idle \subseteq VerifyFit' /\ Idle \subseteq RecoverFit'
    BY DEF Idle, VerifyFit, RecoverFit
  <1>2. fifo' \in Seq(VerifyFit') /\ fifo' \in Seq(RecoverFit')
    BY <1>1
  <1>3. \A k \in 1 .. Len(fifo') : fifo'[k].ev \notin Verdicts
    BY DEF Idle
  <1> QED
    BY <1>2, <1>3 DEF Alone, OneVerdict

\* Taking the only verdict leaves none.
LEMMA TakeVerdict ==
    ASSUME fifo \in Seq(QuietEvents), fifo # <<>>, Alone, Head(fifo).ev \in Verdicts
    PROVE  Tail(fifo) \in Seq(Idle)
  <1>1. \A k \in 1 .. Len(Tail(fifo)) : Tail(fifo)[k] = fifo[k + 1] /\ k + 1 \in 1 .. Len(fifo)
    OBVIOUS
  <1>2. Head(fifo) = fifo[1] /\ 1 \in 1 .. Len(fifo)
    OBVIOUS
  <1>3. \A k \in 1 .. Len(Tail(fifo)) : Tail(fifo)[k] \in Idle
    <2> SUFFICES ASSUME NEW k \in 1 .. Len(Tail(fifo)) PROVE Tail(fifo)[k] \in Idle
      OBVIOUS
    <2>1. fifo[k + 1] \in QuietEvents /\ k + 1 # 1
      BY <1>1
    <2>2. fifo[k + 1].ev \notin Verdicts
      BY <1>1, <1>2, <2>1 DEF Alone
    <2> QED
      BY <1>1, <2>1, <2>2 DEF Idle
  <1>4. Tail(fifo) \in Seq(QuietEvents)
    OBVIOUS
  <1>5. Len(Tail(fifo)) \in Nat /\ Tail(fifo) \in [1 .. Len(Tail(fifo)) -> QuietEvents]
    BY <1>4, LenProperties
  <1>6. Tail(fifo) \in [1 .. Len(Tail(fifo)) -> Idle]
    BY <1>3, <1>5
  <1> QED
    BY <1>5, <1>6, SeqDef

\* Taking an event, or queueing one that is no verdict, adds no verdict.
LEMMA TakeAlone ==
    ASSUME fifo \in Seq(Event), Alone, Take
    PROVE  Alone'
  <1>1. \A k \in 1 .. Len(fifo') : fifo'[k] = fifo[k + 1] /\ k + 1 \in 1 .. Len(fifo)
    BY DEF Take
  <1>2. Len(fifo') \in Nat
    BY DEF Take
  <1> QED
    BY <1>1, <1>2 DEF Alone

LEMMA AppendAlone ==
    ASSUME fifo \in Seq(Event), Alone, NEW e, e.ev \notin Verdicts, fifo' = Append(fifo, e)
    PROVE  Alone'
  <1>1. /\ Len(fifo') = Len(fifo) + 1 /\ fifo'[Len(fifo) + 1] = e /\ Len(fifo) \in Nat
        /\ \A k \in 1 .. Len(fifo) : fifo'[k] = fifo[k]
    OBVIOUS
  <1> QED
    BY <1>1 DEF Alone

\* The only verdict of a FIFO that held none.
LEMMA FirstVerdict ==
    ASSUME fifo \in Seq(Idle), NEW e, fifo' = Append(fifo, e) \/ fifo' = fifo
    PROVE  Alone'
  <1>1. \A k \in 1 .. Len(fifo) : fifo[k].ev \notin Verdicts
    BY DEF Idle
  <1>2. CASE fifo' = Append(fifo, e)
    <2>1. /\ Len(fifo') = Len(fifo) + 1 /\ Len(fifo) \in Nat
          /\ \A k \in 1 .. Len(fifo) : fifo'[k] = fifo[k]
      BY <1>2
    <2> QED
      BY <1>1, <2>1 DEF Alone
  <1>3. CASE fifo' = fifo
    BY <1>1, <1>3 DEF Alone
  <1> QED
    BY <1>2, <1>3

\* The transitions of a quiet platform.
LEMMA QuietMoves ==
    ASSUME state \notin UpdateStates, NEW e \in QuietEvents, NEW t \in Successors(e)
    PROVE  \/ t \in Final
           \/ state = "BOOT" /\ t = "INIT"
           \/ state = "INIT" /\ t = "FIRMWARE_VERIFY"
           \/ /\ state \in {"RUNTIME", "UNPROVISIONED"} /\ t = "FIRMWARE_VERIFY"
              /\ e.ev = "RESET_DETECTED"
           \/ state = "RUNTIME" /\ t = "FIRMWARE_RECOVERY" /\ e.ev = "WDT_TIMEOUT"
           \/ state = "FIRMWARE_RECOVERY" /\ t = "FIRMWARE_VERIFY" /\ e.ev = "RECOVERY_DONE"
           \/ state = "FIRMWARE_VERIFY" /\ t = "FIRMWARE_RECOVERY" /\ e.ev = "VERIFY_FAILED"
           \/ /\ state = "FIRMWARE_VERIFY" /\ t = "UNPROVISIONED"
              /\ e.ev = "VERIFY_UNPROVISIONED"
           \/ state = "FIRMWARE_VERIFY" /\ t = "RUNTIME" /\ e.ev = "VERIFY_DONE"
  <1>1. e.ev \notin {"UPDATE_REQUESTED", "UPDATE_DONE", "UPDATE_INTENT_2_REQUESTED"}
    BY DEF QuietEvents, UpdateEvents
  <1>2. \/ state = "RUNTIME" /\ e.ev = "WDT_TIMEOUT" /\ t = "FIRMWARE_RECOVERY"
        \/ \E row \in Transitions : row[1] = state /\ row[2] = e.ev /\ row[3] = t
    BY <1>1 DEF Successors, UpdateStates
  <1>3. ASSUME NEW row \in Transitions, row[1] = state, row[2] = e.ev, row[3] = t
        PROVE  \/ t \in Final
               \/ state = "BOOT" /\ t = "INIT"
               \/ state = "INIT" /\ t = "FIRMWARE_VERIFY"
               \/ /\ state \in {"RUNTIME", "UNPROVISIONED"} /\ t = "FIRMWARE_VERIFY"
                  /\ e.ev = "RESET_DETECTED"
               \/ state = "FIRMWARE_RECOVERY" /\ t = "FIRMWARE_VERIFY" /\ e.ev = "RECOVERY_DONE"
               \/ state = "FIRMWARE_VERIFY" /\ t = "FIRMWARE_RECOVERY" /\ e.ev = "VERIFY_FAILED"
               \/ /\ state = "FIRMWARE_VERIFY" /\ t = "UNPROVISIONED"
                  /\ e.ev = "VERIFY_UNPROVISIONED"
               \/ state = "FIRMWARE_VERIFY" /\ t = "RUNTIME" /\ e.ev = "VERIFY_DONE"
    BY <1>1, <1>3 DEF Transitions, Final, UpdateStates
  <1> QED
    BY <1>2, <1>3

\* No event leaves the final states for another.
LEMMA FinalMoves ==
    ASSUME state \in Final, NEW e, NEW t \in Successors(e)
    PROVE  t \in Final
  <1>1. \A row \in Transitions : row[1] \in Final => row[3] \in Final
    BY DEF Transitions, Final
  <1> QED
    BY <1>1 DEF Successors, Final

\* enter_tmin1 records the hosts it holds.
LEMMA EntryScope ==
    ASSUME NEW e \in QuietEvents
    PROVE  /\ HeldAtTmin1(e) \in {{"BMC"}, Hosts}
           /\ Scope(Tmin1Policy(e.d.reset, HeldAtTmin1(e))) \subseteq HeldAtTmin1(e)
  <1>1. HeldAtTmin1(e) \in {{"BMC"}, Hosts}
    BY DEF HeldAtTmin1, QuietEvents
  <1>2. CASE HeldAtTmin1(e) = Hosts
    BY <1>2 DEF Scope, Hosts
  <1>3. CASE HeldAtTmin1(e) = {"BMC"}
    BY <1>3 DEF Scope, Tmin1Policy, OnlyBit, Hosts
  <1> QED
    BY <1>1, <1>2, <1>3

\* What a dispatched event leaves in the FIFO.
LEMMA LeftInFifo ==
    ASSUME QuietInv, Unjudged, OneVerdict, Transition, state \notin Final
    PROVE  fifo' \in Seq(Idle)
  <1>1. PICK t \in Successors(Head(fifo)) : Goto(t)
    BY DEF Transition
  <1>2. Take /\ pc = "wait" /\ fifo # <<>> /\ fifo' = Tail(fifo)
    BY DEF Transition, Take
  <1>3. Head(fifo) \in QuietEvents
    BY <1>2, TakenFrom DEF QuietInv
  <1>4. CASE state \notin Judging
    BY <1>2, <1>4, TakenFrom DEF Unjudged
  <1>5. CASE state \in Judging
    <2>1. Head(fifo).ev \in Verdicts
      <3>1. Head(fifo).ev \notin UpdateEvents
        BY <1>3 DEF QuietEvents
      <3>2. \A row \in Transitions :
              row[1] \in Judging => row[2] \in Verdicts \cup UpdateEvents
        BY DEF Transitions, Judging, Verdicts, UpdateEvents
      <3>3. PICK row \in Transitions : row[1] = state /\ row[2] = Head(fifo).ev
        BY <1>5, <3>1 DEF Successors, Judging, UpdateEvents
      <3> QED
        BY <1>5, <3>1, <3>2, <3>3
    <2> QED
      BY <1>2, <1>5, <2>1, TakeVerdict DEF QuietInv, OneVerdict
  <1> QED
    BY <1>4, <1>5

\* Every state is entered with the hosts it works on held, and RUNTIME with the
\* hosts out of reset verified.
LEMMA TransitionHeld ==
    ASSUME TypeInv, QuietInv, JudgeInv, Transition
    PROVE  HeldHosts'
  <1> DEFINE e == Head(fifo)
  <1>1. PICK t \in Successors(e) : Goto(t)
    BY DEF Transition
  <1>2. /\ state' = t /\ UNCHANGED <<aoVars, flash, ufm>>
        /\ pc = "wait" /\ fifo # <<>>
    BY <1>1 DEF Transition, Goto, Take, ufmVars
  <1>3. e \in QuietEvents /\ state \notin UpdateStates /\ e \in Event
    BY TakenFrom DEF Transition, QuietInv, QuietEvents
  <1>4. UNCHANGED last /\ Provisioned' = Provisioned
        /\ \A H, G : G \subseteq H /\ Trusted(G) => Trusted(H)'
    BY <1>2 DEF Provisioned, Trusted, aoVars
  <1>5. CASE t \in Final
    BY <1>2, <1>5 DEF HeldHosts, Final, Judging
  <1>6. CASE state = "BOOT" /\ t = "INIT"
    <2>1. hold' = hold
      BY <1>1, <1>6 DEF Goto, HeldOnEntry, Tmin1, Tzero
    <2> QED
      BY <1>2, <1>6, <2>1 DEF JudgeInv, HeldHosts, Judging
  <1>7. ASSUME t \in Judging, state \notin Tmin1
        PROVE  /\ hold' = hold \cup HeldAtTmin1(e)
               /\ ev'.d.reset = Tmin1Policy(e.d.reset, HeldAtTmin1(e))
               /\ Scope(ev'.d.reset) \subseteq hold'
    <2>1. HeldOnEntry(t, e) = HeldAtTmin1(e) /\ t \notin Tzero /\ t \in Tmin1
      BY <1>7 DEF HeldOnEntry, Judging, Tmin1, Tzero
    <2>2. hold' = hold \cup HeldAtTmin1(e)
      BY <1>1, <2>1 DEF Goto
    <2>3. ev' = [e EXCEPT !.d.reset = Tmin1Policy(e.d.reset, HeldAtTmin1(e))]
      BY <1>1, <1>7, <2>1 DEF Goto
    <2>4. ev'.d.reset = Tmin1Policy(e.d.reset, HeldAtTmin1(e))
      BY <1>3, <2>3, EventParts DEF Event, Data
    <2> QED
      BY <1>3, <2>2, <2>4, EntryScope
  <1>8. CASE state = "INIT" /\ t = "FIRMWARE_VERIFY"
    <2>1. hold = Hosts /\ HeldAtTmin1(e) \subseteq Hosts
      BY <1>3, <1>8, EntryScope DEF JudgeInv, HeldHosts, Hosts
    <2>2. hold' = Hosts /\ Scope(ev'.d.reset) \subseteq hold'
      BY <1>7, <1>8, <2>1 DEF Judging, Tmin1
    <2> QED
      BY <1>2, <1>8, <2>2 DEF HeldHosts, Judging, Trusted
  <1>9. CASE state \in {"RUNTIME", "UNPROVISIONED"} /\ t \in Judging
    <2>1. /\ hold' = hold \cup HeldAtTmin1(e)
          /\ Scope(ev'.d.reset) \subseteq hold'
      BY <1>7, <1>9 DEF Tmin1
    <2>2. Provisioned' => Trusted(hold)'
      <3>1. CASE state = "RUNTIME"
        <4>1. Trusted(hold)
          BY <3>1 DEF JudgeInv, HeldHosts
        <4> QED
          BY <1>4, <2>1, <4>1 DEF Trusted
      <3>2. CASE state = "UNPROVISIONED" /\ Provisioned
        <4>1. HeldAtTmin1(e) = Hosts
          <5>1. e.ev = "RESET_DETECTED"
            BY <1>3, <1>9, <3>2, QuietMoves DEF Judging, Final
          <5> QED
            BY <1>3, <3>2, <5>1 DEF HeldAtTmin1, QuietEvents
        <4>2. hold' = Hosts
          BY <2>1, <4>1 DEF TypeInv, TypeOK
        <4> QED
          BY <4>2 DEF Trusted
      <3> QED
        BY <1>4, <1>9, <3>1, <3>2
    <2> QED
      BY <1>2, <1>9, <2>1, <2>2 DEF HeldHosts, Judging, Trusted
  <1>10. CASE /\ state \in Judging /\ t \in Judging
    <2>1. e.d.reset = ev.d.reset
      <3>1. CASE state = "FIRMWARE_VERIFY"
        <4>1. e \in VerifyFit
          BY <3>1, TakenFrom DEF Transition, JudgeInv, OneVerdict
        <4>2. e.ev = "VERIFY_FAILED"
          BY <1>3, <1>10, <3>1, QuietMoves DEF Judging, Final
        <4> QED
          BY <4>1, <4>2 DEF VerifyFit, StillTrue, Verdicts
      <3>2. CASE state = "FIRMWARE_RECOVERY"
        <4>1. e \in RecoverFit
          BY <3>2, TakenFrom DEF Transition, JudgeInv, OneVerdict
        <4>2. e.ev = "RECOVERY_DONE"
          BY <1>3, <1>10, <3>2, QuietMoves DEF Judging, Final
        <4> QED
          BY <4>1, <4>2 DEF RecoverFit, Verdicts
      <3> QED
        BY <1>10, <3>1, <3>2 DEF Judging
    <2>2. hold' = hold /\ ev' = e
      BY <1>1, <1>10 DEF Goto, HeldOnEntry, Judging, Tmin1, Tzero
    <2> QED
      BY <1>2, <1>4, <1>10, <2>1, <2>2 DEF JudgeInv, HeldHosts, Judging, Trusted
  <1>11. CASE state = "FIRMWARE_VERIFY" /\ t = "UNPROVISIONED"
    BY <1>2, <1>11 DEF HeldHosts, Judging
  <1>12. CASE state = "FIRMWARE_VERIFY" /\ t = "RUNTIME"
    <2>1. e \in VerifyFit
      BY <1>12, TakenFrom DEF Transition, JudgeInv, OneVerdict
    <2>2. e.ev = "VERIFY_DONE"
      BY <1>3, <1>12, QuietMoves DEF Judging, Final
    <2>3. /\ Provisioned /\ ao["BMC"].active
          /\ \A h \in Hosts : ao[h].active => last[h].active
      BY <2>1, <2>2 DEF VerifyFit, StillTrue, Verdicts
    <2>4. Trusted(hold)
      BY <1>12, <2>3 DEF JudgeInv, HeldHosts, Judging
    <2>5. hold' = hold \ ReleasedAtTzero(t, e.d)
      BY <1>1, <1>12 DEF Goto, HeldOnEntry, Tmin1, Tzero
    <2>6. \A h \in ReleasedAtTzero(t, e.d) : ao[h].active
      BY <1>3, <1>12, <2>3 DEF ReleasedAtTzero, Scope, QuietEvents, Hosts
    <2> QED
      BY <1>2, <1>4, <1>12, <2>3, <2>4, <2>5, <2>6 DEF HeldHosts, Judging, Trusted
  <1> QED
    <2>1. t \in Judging <=> t \in {"FIRMWARE_VERIFY", "FIRMWARE_RECOVERY"}
      BY DEF Judging
    <2> QED
      BY <1>3, <1>5, <1>6, <1>8, <1>9, <1>10, <1>11, <1>12, <2>1, QuietMoves DEF Judging

\* A transition.
LEMMA TransitionJudge ==
    ASSUME TypeInv, QuietInv, JudgeInv, Transition
    PROVE  JudgeInv'
  <1>1. HeldHosts'
    BY TransitionHeld
  <1>2. CASE state \in Final
    <2>1. state' \in Final
      BY <1>2, FinalMoves DEF Transition, Goto
    <2> QED
      BY <1>1, <2>1 DEF JudgeInv, Unjudged, OneVerdict, Final, Judging
  <1>3. CASE state \notin Final
    <2>1. fifo' \in Seq(Idle)
      BY <1>3, LeftInFifo DEF JudgeInv
    <2> QED
      BY <1>1, <2>1, IdleQueue DEF JudgeInv, Unjudged
  <1> QED
    BY <1>2, <1>3

\* The other ways to take an event.
LEMMA TakenJudge ==
    ASSUME TypeInv, QuietInv, JudgeInv, RunInPlace \/ Discard
    PROVE  JudgeInv'
  <1>1. /\ Take /\ UNCHANGED <<state, hold, ao, last, flash, ufm>>
        /\ UNCHANGED <<pc, ev>> \/ state \in {"RUNTIME", "UNPROVISIONED"}
    BY DEF RunInPlace, RunsInPlace, Discard, pinVars, aoVars, ufmVars
  <1>2. HeldHosts'
    BY <1>1 DEF JudgeInv, HeldHosts, Judging, Trusted, Provisioned
  <1>3. Unjudged'
    <2>1. fifo \in Seq(Idle) => fifo' \in Seq(Idle)
      BY <1>1, TakenFrom
    <2> QED
      BY <1>1, <2>1 DEF JudgeInv, Unjudged, Judging, Final
  <1>4. OneVerdict'
    <2>1. CASE state \notin Judging
      BY <1>1, <2>1 DEF OneVerdict, Judging
    <2>2. CASE state \in Judging
      <3>1. UNCHANGED ev
        BY <1>1, <2>2 DEF Judging
      <3>2. VerifyFit' = VerifyFit /\ RecoverFit' = RecoverFit
        BY <1>1, <3>1 DEF VerifyFit, RecoverFit, StillTrue, Provisioned
      <3>3. Alone'
        BY <1>1, <2>2, TakeAlone DEF JudgeInv, OneVerdict, TypeInv, TypeOK
      <3>4. /\ fifo \in Seq(VerifyFit) => fifo' \in Seq(VerifyFit)
            /\ fifo \in Seq(RecoverFit) => fifo' \in Seq(RecoverFit)
        BY <1>1, TakenFrom
      <3> QED
        BY <1>1, <3>2, <3>3, <3>4 DEF JudgeInv, OneVerdict
    <2> QED
      BY <2>1, <2>2
  <1> QED
    BY <1>2, <1>3, <1>4 DEF JudgeInv

\* The hosts and the timers post no verdict, nor does the thread where it has
\* nothing to judge.
LEMMA PostsIdle ==
    ASSUME TypeInv, Placed, QuietInv, Quiet, NEW n \in Events, NEW d \in Data,
           HostPosts(n, d) \/ (Posts(n, d) /\ state \notin Judging \cup Final)
    PROVE  Evt(n, d) \in Idle
  <1>1. Evt(n, d) \in QuietEvents /\ Evt(n, d).ev = n
    BY PostsQuiet DEF Posts, Evt
  <1>2. CASE HostPosts(n, d)
    BY <1>1, <1>2 DEF HostPosts, Quiet, Verdicts, Idle
  <1>3. CASE ThreadPosts(n, d) /\ state \notin Judging \cup Final
    BY <1>1, <1>3 DEF ThreadPosts, Judging, Final, Verdicts, SeamlessEvents, Idle
  <1> QED
    BY <1>2, <1>3 DEF Posts

\* A state in which nothing is judged.
LEMMA UnjudgedStep ==
    ASSUME TypeInv, Placed, QuietInv, Quiet, JudgeInv, Queues, UNCHANGED <<state, last>>,
           state \notin Judging \cup Final, UNCHANGED hold \/ hold' = Hosts
    PROVE  JudgeInv'
  <1>1. fifo' \in Seq(Idle)
    BY PostsIdle DEF JudgeInv, Unjudged, Queues
  <1>2. HeldHosts'
    BY DEF JudgeInv, HeldHosts, Trusted
  <1> QED
    BY <1>1, <1>2, IdleQueue DEF JudgeInv, Unjudged

\* The hosts change nothing a queued verdict is about: the BMC, which they
\* all are about, is held.
LEMMA HostJudge ==
    ASSUME TypeInv, Placed, QuietInv, Quiet, JudgeInv, Environment, ~PowerLoss
    PROVE  JudgeInv'
  <1>1. Hears /\ UNCHANGED <<state, pc, ev>>
    BY HostQueues
  <1>2. UNCHANGED <<hold, ao, last, ufm>>
    BY DEF Environment, BmcReset, MailboxIntent, MailboxCheckpoint, MailboxProvision,
           TimerExpire, StageCapsule, CorruptFlash, pinVars, aoVars, ufmVars
  <1>3. HeldHosts'
    BY <1>1, <1>2 DEF JudgeInv, HeldHosts, Judging, Trusted, Provisioned
  <1>4. UNCHANGED fifo \/ \E e \in Idle : fifo' = Append(fifo, e)
    BY <1>1, PostsIdle DEF Hears
  <1>5. Unjudged'
    BY <1>1, <1>4 DEF JudgeInv, Unjudged, Judging, Final
  <1>6. CASE state \notin Judging
    BY <1>1, <1>3, <1>5, <1>6 DEF JudgeInv, OneVerdict, Judging
  <1>7. CASE state \in Judging
    <2>1. "BMC" \in hold
      <3>1. Scope(ev.d.reset) \subseteq hold
        BY <1>7 DEF JudgeInv, HeldHosts
      <3> QED
        BY <3>1 DEF Scope, QuietInv, QuietEvents, Hosts
    <2>2. UNCHANGED flash["BMC"]["active"]
      <3>1. flash \in Flash
        BY DEF TypeInv, TypeOK
      <3>2. CASE StageCapsule
        BY <3>1, <3>2 DEF StageCapsule, Flash, Images, Hosts, Slots
      <3>3. CASE CorruptFlash
        BY <2>1, <3>1, <3>3 DEF CorruptFlash, Up, Flash, Images, Hosts, Slots
      <3> QED
        BY <3>2, <3>3 DEF Environment, BmcReset, MailboxIntent, MailboxCheckpoint,
                          MailboxProvision, TimerExpire
    <2>3. VerifyFit' = VerifyFit /\ RecoverFit' = RecoverFit
      BY <1>1, <1>2, <2>2 DEF VerifyFit, RecoverFit, StillTrue, Provisioned
    <2>4. Idle \subseteq VerifyFit /\ Idle \subseteq RecoverFit
      BY DEF Idle, VerifyFit, RecoverFit
    <2>5. Alone'
      <3>1. Alone /\ fifo \in Seq(Event)
        BY <1>7 DEF JudgeInv, OneVerdict, TypeInv, TypeOK
      <3>2. \A e \in Idle : e.ev \notin Verdicts
        BY DEF Idle
      <3>3. UNCHANGED fifo => Alone'
        BY <3>1 DEF Alone
      <3> QED
        BY <1>4, <3>1, <3>2, <3>3, AppendAlone
    <2>6. /\ fifo \in Seq(VerifyFit) => fifo' \in Seq(VerifyFit)
          /\ fifo \in Seq(RecoverFit) => fifo' \in Seq(RecoverFit)
      BY <1>4, <2>4
    <2> QED
      BY <1>1, <1>3, <1>5, <1>7, <2>3, <2>5, <2>6 DEF JudgeInv, OneVerdict
  <1> QED
    BY <1>6, <1>7

\* The step that ends a judging state posts the only verdict.
LEMMA VerdictPosted ==
    ASSUME JudgeInv, state \in Judging, pc # "wait", pc' = "wait", UNCHANGED state, HeldHosts',
           NEW e, UNCHANGED fifo \/ fifo' = Append(fifo, e),
           state = "FIRMWARE_VERIFY" => e \in VerifyFit',
           state = "FIRMWARE_RECOVERY" => e \in RecoverFit'
    PROVE  JudgeInv'
  <1>1. fifo \in Seq(Idle)
    BY DEF JudgeInv, Unjudged, Judging, Final
  <1>2. Idle \subseteq VerifyFit' /\ Idle \subseteq RecoverFit'
    BY DEF Idle, VerifyFit, RecoverFit
  <1>3. /\ fifo \in Seq(VerifyFit') /\ fifo \in Seq(RecoverFit')
    BY <1>1, <1>2
  <1>4. /\ state = "FIRMWARE_VERIFY" => fifo' \in Seq(VerifyFit')
        /\ state = "FIRMWARE_RECOVERY" => fifo' \in Seq(RecoverFit')
    BY <1>3
  <1>5. Alone'
    BY <1>1, FirstVerdict
  <1> QED
    BY <1>4, <1>5 DEF JudgeInv, Unjudged, OneVerdict

\* handle_image_verification.
LEMMA VerifyJudge ==
    ASSUME TypeInv, Placed, QuietInv, Quiet, JudgeInv, VerifySteps
    PROVE  JudgeInv'
  <1>t. ev.d \in Data /\ ev.d.reset \in SUBSET ResetBits
    BY EventParts DEF TypeInv, TypeOK
  <1>h. Scope(ev.d.reset) \subseteq hold /\ "BMC" \in Scope(ev.d.reset)
    <2>1. state \in Judging
      BY DEF VerifySteps, VerifyUnprovisioned, VerifyPendingUpdate, VerifyImages, Running, Judging
    <2> QED
      BY <2>1 DEF JudgeInv, HeldHosts, Scope, QuietInv, QuietEvents, Hosts
  <1>1. CASE VerifyUnprovisioned
    <2> DEFINE e == Evt("VERIFY_UNPROVISIONED", ev.d)
    <2>1. /\ state = "FIRMWARE_VERIFY" /\ pc = "run" /\ pc' = "wait" /\ ~Provisioned
          /\ UNCHANGED <<state, ev, hold, ao, last, flash, ufm>>
          /\ UNCHANGED fifo \/ fifo' = Append(fifo, e)
      BY <1>1 DEF VerifyUnprovisioned, Running, GenerateStateMachineEvent, pinVars, aoVars, ufmVars
    <2>2. HeldHosts'
      BY <2>1 DEF JudgeInv, HeldHosts, Judging, Trusted, Provisioned
    <2>3. e \in QuietEvents /\ e.ev = "VERIFY_UNPROVISIONED" /\ e.d = ev.d
      <3>1. Posts("VERIFY_UNPROVISIONED", ev.d) /\ "VERIFY_UNPROVISIONED" \in Events
        BY <2>1 DEF Posts, ThreadPosts, Verdicts, Events
      <3> QED
        BY <1>t, <3>1, PostsQuiet DEF Evt
    <2>4. e \in VerifyFit'
      BY <2>1, <2>3 DEF VerifyFit, StillTrue, Provisioned
    <2> QED
      BY <2>1, <2>2, <2>4, VerdictPosted DEF Judging
  <1>2. CASE VerifyImages
    <2> DEFINE n == VerifyOutcome([h \in Hosts |-> Checked(h)])
               e == Evt(n, ev.d)
    <2>1. /\ state = "FIRMWARE_VERIFY" /\ pc = "run" /\ pc' = "wait" /\ Provisioned
          /\ UNCHANGED <<state, ev, hold, flash, ufm>>
          /\ UNCHANGED fifo \/ fifo' = Append(fifo, e)
          /\ ao' = [h \in Hosts |-> Checked(h)]
          /\ last' = [h \in Hosts |-> [Checked(h) EXCEPT !.restrict = FALSE]]
      BY <1>2 DEF VerifyImages, Running, GenerateStateMachineEvent, pinVars
    <2>2. \A h \in Hosts : /\ ao'[h].active <=> Verified(h).active
                           /\ last'[h].active <=> Verified(h).active
      BY <2>1 DEF Checked
    <2>3. HeldHosts'
      <3>1. \A h \in Hosts \ hold : Verified(h).active <=> last[h].active
        BY <1>h DEF Verified
      <3>2. Trusted(hold)
        BY <2>1 DEF JudgeInv, HeldHosts, Judging
      <3> QED
        BY <1>h, <2>1, <2>2, <3>1, <3>2 DEF HeldHosts, Judging, Trusted
    <2>4. n \in Verdicts \ {"RECOVERY_DONE", "VERIFY_UNPROVISIONED"}
      BY DEF VerifyOutcome, Verdicts
    <2>5. n = "VERIFY_DONE" => Verified("BMC").active
      BY DEF VerifyOutcome, Checked, Hosts
    <2>6. Verified("BMC").active => ActiveVerify("BMC", flash["BMC"]["active"])
      BY <1>h DEF Verified, ActiveVerify, Read, Corrupt
    <2>7. e \in QuietEvents /\ e.ev = n /\ e.d = ev.d
      <3>1. Posts(n, ev.d) /\ n \in Events
        BY <2>1, <2>4 DEF Posts, ThreadPosts, Verdicts, Events
      <3> QED
        BY <1>t, <3>1, PostsQuiet DEF Evt
    <2>8. e \in VerifyFit'
      <3>1. e.ev # "RECOVERY_DONE" /\ e.ev # "VERIFY_UNPROVISIONED" /\ e.d.reset = ev'.d.reset
        BY <2>1, <2>4, <2>7
      <3>2. /\ Provisioned' /\ \A h \in Hosts : ao'[h].active => last'[h].active
        BY <2>1, <2>2 DEF Provisioned
      <3>3. e.ev = "VERIFY_DONE" =>
              ao'["BMC"].active /\ ActiveVerify("BMC", flash'["BMC"]["active"])
        BY <2>1, <2>2, <2>5, <2>6, <2>7 DEF Hosts
      <3> QED
        BY <2>7, <3>1, <3>2, <3>3 DEF VerifyFit, StillTrue
    <2> QED
      BY <2>1, <2>3, <2>8, VerdictPosted DEF Judging
  <1> QED
    BY <1>1, <1>2, QuietSteps DEF VerifySteps

\* handle_recovery.
LEMMA RecoverJudge ==
    ASSUME TypeInv, Placed, QuietInv, Quiet, JudgeInv, RecoverSteps
    PROVE  JudgeInv'
  <1>1. /\ state = "FIRMWARE_RECOVERY" /\ pc # "wait" /\ state \in Judging
        /\ UNCHANGED <<state, ev, hold, last, ufm>>
    BY DEF RecoverSteps, RecoveryStart, RecoverImages, RecoveryDone, Running, Placed, Judging,
           pinVars, aoVars, ufmVars
  <1>2. HeldHosts'
    BY <1>1 DEF JudgeInv, HeldHosts, Judging, Trusted, Provisioned
  <1>3. CASE pc' # "wait" /\ UNCHANGED fifo
    <2>1. fifo \in Seq(Idle)
      BY <1>1 DEF JudgeInv, Unjudged, Final
    <2> QED
      BY <1>1, <1>2, <1>3, <2>1, IdleQueue DEF JudgeInv, Unjudged
  <1>4. CASE \E r : RecoveryEnd(r)
    <2> DEFINE d == [NULL EXCEPT !.src = "undef", !.reset = ev.d.reset]
    <2>0. d \in Data /\ d.reset = ev.d.reset
      <3>1. ev.d.reset \in SUBSET ResetBits /\ "undef" \in Origins
        BY EventParts DEF TypeInv, TypeOK, Origins
      <3> QED
        BY <3>1, NullType, DataExcept DEF NULL
    <2>1. /\ pc' = "wait"
          /\ \/ GenerateStateMachineEvent("RECOVERY_DONE", d)
             \/ GenerateStateMachineEvent("RECOVERY_FAILED", NULL)
      BY <1>4 DEF RecoveryEnd
    <2>2. Evt("RECOVERY_DONE", d) \in RecoverFit' /\ Evt("RECOVERY_FAILED", NULL) \in RecoverFit'
      <3>1. /\ Evt("RECOVERY_DONE", d) \in QuietEvents
            /\ Evt("RECOVERY_FAILED", NULL) \in QuietEvents
        <4>1. /\ Posts("RECOVERY_DONE", d) /\ "RECOVERY_DONE" \in Events
              /\ Posts("RECOVERY_FAILED", NULL) /\ "RECOVERY_FAILED" \in Events
          BY <1>1 DEF Posts, ThreadPosts, Events
        <4> QED
          BY <2>0, <4>1, NullType, PostsQuiet
      <3> QED
        BY <1>1, <2>0, <3>1 DEF RecoverFit, Evt
    <2>3. PICK e \in RecoverFit' : UNCHANGED fifo \/ fifo' = Append(fifo, e)
      BY <2>1, <2>2 DEF GenerateStateMachineEvent
    <2> QED
      BY <1>1, <1>2, <2>1, <2>3, VerdictPosted
  <1>5. (pc' # "wait" /\ UNCHANGED fifo) \/ \E r : RecoveryEnd(r)
    BY <1>1 DEF RecoverSteps, RecoveryStart, RecoverImages, RecoverNothing, RecoverRegion,
                RecoverFetch, RecoveryGoesOn, RecoveryDone
  <1> QED
    BY <1>3, <1>4, <1>5

\* A reset of the RoT, and the steps that judge nothing.
LEMMA OthersJudge ==
    ASSUME TypeInv, Placed, QuietInv, Quiet, JudgeInv,
           RotSteps \/ PowerLoss \/ RuntimeSteps \/ UNCHANGED vars
    PROVE  JudgeInv'
  <1>1. CASE DoReboot \/ PowerLoss
    <2>1. /\ state' = "BOOT" /\ hold' = Hosts
          /\ fifo' = <<Evt("START_STATE_MACHINE", NULL)>>
      BY <1>1 DEF DoReboot, PowerLoss, Reset
    <2>2. Evt("START_STATE_MACHINE", NULL) \in Idle
      BY EvtType, NullType
      DEF Idle, QuietEvents, UpdateEvents, SeamlessEvents, Verdicts, Evt, NULL, Events
    <2>3. fifo' \in Seq(Idle)
      BY <2>1, <2>2
    <2> QED
      BY <2>1, <2>3 DEF JudgeInv, Unjudged, OneVerdict, HeldHosts, Judging
  <1>2. CASE DoInit
    <2>1. state \notin Judging \cup Final /\ UNCHANGED <<state, last>> /\ hold' = Hosts
      BY <1>2 DEF DoInit, Running, Judging, Final
    <2> QED
      BY <1>2, <2>1, RotQueues, UnjudgedStep
  <1>3. CASE DoRotErase \/ DoRotCopy \/ DoLockdown
    <2>1. state \in Final /\ UNCHANGED state
      BY <1>3 DEF DoRotErase, DoRotCopy, DoLockdown, Running, Placed, Final
    <2> QED
      BY <2>1 DEF JudgeInv, Unjudged, OneVerdict, HeldHosts, Judging, Final
  <1>4. CASE RuntimeSteps
    <2>1. /\ state \notin Judging \cup Final /\ UNCHANGED <<state, hold, last>>
      BY <1>4 DEF RuntimeSteps, UpdateAtReset, HandleCheckpoint, HandleProvision, RunNothing,
                  Running, Judging, Final, pinVars, aoVars
    <2> QED
      BY <1>4, <2>1, RuntimeQueues, UnjudgedStep
  <1>5. CASE UNCHANGED vars
    <2>1. UNCHANGED <<state, pc, ev, fifo, hold, ao, last, flash, ufm>>
      BY <1>5 DEF vars, smVars, pinVars, aoVars, ufmVars
    <2>2. Unjudged' /\ HeldHosts'
      BY <2>1 DEF JudgeInv, Unjudged, HeldHosts, Judging, Trusted, Provisioned
    <2>3. VerifyFit' = VerifyFit /\ RecoverFit' = RecoverFit /\ (Alone => Alone')
      BY <2>1 DEF VerifyFit, RecoverFit, StillTrue, Provisioned, Alone
    <2> QED
      BY <2>1, <2>2, <2>3 DEF JudgeInv, OneVerdict
  <1> QED
    BY <1>1, <1>2, <1>3, <1>4, <1>5 DEF RotSteps

\* The inductive invariant of every platform: what has to hold of a quiet one.
ReleaseInv == Quiet => QuietInv /\ JudgeInv

\* Every step keeps the queued verdicts true.
LEMMA ReleaseStep == TypeInv /\ Placed /\ ReleaseInv /\ [Next]_vars => ReleaseInv'
  <1> SUFFICES ASSUME TypeInv, Placed, ReleaseInv, [Next]_vars, Quiet'
               PROVE  QuietInv' /\ JudgeInv'
    BY DEF ReleaseInv
  <1>1. Quiet /\ QuietInv /\ JudgeInv
    BY SameAround DEF Quiet, ReleaseInv
  <1>2. QuietInv'
    BY <1>1, QuietStep
  <1>3. ~UpdateSteps /\ ~SeamlessSteps
    BY <1>1, QuietSteps
  <1>4. CASE Dispatch
    BY <1>1, <1>2, <1>4, TransitionJudge, TakenJudge DEF Dispatch
  <1>5. CASE VerifySteps
    BY <1>1, <1>2, <1>5, VerifyJudge
  <1>6. CASE RecoverSteps
    BY <1>1, <1>2, <1>6, RecoverJudge
  <1>7. CASE Environment /\ ~PowerLoss
    BY <1>1, <1>2, <1>7, HostJudge
  <1>8. CASE RotSteps \/ PowerLoss \/ RuntimeSteps \/ UNCHANGED vars
    BY <1>1, <1>2, <1>8, OthersJudge
  <1> QED
    BY <1>2, <1>3, <1>4, <1>5, <1>6, <1>7, <1>8 DEF Next, Thread

\* Power on.
LEMMA ReleaseInit == Init => ReleaseInv
  <1> SUFFICES ASSUME Init PROVE QuietInv /\ JudgeInv
    BY DEF ReleaseInv
  <1> DEFINE e == Evt("START_STATE_MACHINE", NULL)
  <1>1. e \in Idle /\ Idle \subseteq QuietEvents
    BY EvtType, NullType
    DEF Idle, QuietEvents, UpdateEvents, SeamlessEvents, Verdicts, Evt, NULL, Events
  <1>2. state = "BOOT" /\ hold = Hosts /\ ev = e /\ fifo = <<e>> /\ cpld = ClearCpld
    BY DEF Init
  <1>3. fifo \in Seq(Idle) /\ fifo \in Seq(QuietEvents) /\ ev \in QuietEvents
    BY <1>1, <1>2
  <1>4. QuietInv
    BY <1>2, <1>3, QuietFlags DEF QuietInv, UpdateStates
  <1> QED
    BY <1>2, <1>3, <1>4 DEF JudgeInv, Unjudged, OneVerdict, HeldHosts, Judging

LEMMA ReleaseAlways == Spec => []ReleaseInv
  BY ReleaseInit, ReleaseStep, PlacedAlways, TypeInvariant, PTL DEF Spec

\* enter_tmin1, enter_tzero: on a platform on which no host asks for an update, a
\* host that runs in RUNTIME was found good by the last verification, whatever is
\* provisioned, erased, corrupted, timed out, reset or recovered, and in whatever
\* order the events of it are queued.
THEOREM RunningHosts == Spec => []RunningHostVerified
  <1>1. ReleaseInv => RunningHostVerified
    BY DEF ReleaseInv, Quiet, JudgeInv, HeldHosts, Trusted, RunningHostVerified
  <1> QED
    BY <1>1, ReleaseAlways, PTL

-----------------------------------------------------------------------------
(* The release of the BMC, on a platform on which only the BMC asks for     *)
(* updates of the first intent register.                                    *)

\* Each register posts its own event, and the PCH does not use its first one.
OwnRegister(r) ==
    IF r.ev = "UPDATE_REQUESTED" THEN r.src = "BmcUpdateIntent"
                                 ELSE r.src \in {"BmcUpdateIntent2", "PchUpdateIntent2"}
BmcAsks == \A n \in DOMAIN Scenario : \A r \in Scenario[n].requests : OwnRegister(r)
OwnRequests == \A r \in Around.requests : OwnRegister(r)

\* Events that neither come from the PCH's first register nor are about it alone.
BmcEvents == {e \in Event : "PchOnlyReset" \notin e.d.reset /\ e.d.src # "PchUpdateIntent"}
\* A CPLD_STATUS without an update the PCH asked for.
Unmarked(c) == /\ c.active["PCH"] # "PCH_AT_RESET"
               /\ c.recovery["PCH"] \notin {"PCH_AT_RESET", "PCH_PENDING"}

SourceInv ==
    /\ fifo \in Seq(BmcEvents) /\ ev \in BmcEvents
    /\ Unmarked(cpld) /\ Unmarked(lcpld)

\* No event of the PCH's first register is posted.
LEMMA PostsBmc ==
    ASSUME TypeInv, SourceInv, OwnRequests, NEW n \in Events, NEW d \in Data, Posts(n, d)
    PROVE  Evt(n, d) \in BmcEvents
  <1>1. Evt(n, d) \in Event /\ Evt(n, d).d = d
    BY EvtType DEF Evt
  <1>2. /\ NULL \in Data /\ NULL.src = "none" /\ NULL.reset = {}
        /\ ev.d \in Data /\ ev.d.src # "PchUpdateIntent" /\ "PchOnlyReset" \notin ev.d.reset
    BY NullType, EventParts DEF NULL, TypeInv, TypeOK, SourceInv, BmcEvents
  <1>3. /\ \A s : [NULL EXCEPT !.src = s].src = s /\ [NULL EXCEPT !.src = s].reset = {}
        /\ \A s, r : /\ [NULL EXCEPT !.src = s, !.reset = r].src = s
                     /\ [NULL EXCEPT !.src = s, !.reset = r].reset = r
        /\ \A s, i : /\ [NULL EXCEPT !.src = s, !.intent = i].src = s
                     /\ [NULL EXCEPT !.src = s, !.intent = i].reset = {}
    BY DEF NULL
  <1>4. "PchUpdateIntent" \notin Hosts \cup Sources \cup {"undef", "UfmCommand"}
    BY DEF Hosts, Sources
  <1> DEFINE ours == "PchOnlyReset" \notin d.reset /\ d.src # "PchUpdateIntent"
  <1>5. ours
    <2>1. CASE ThreadPosts(n, d)
      <3>1. CASE d = ev.d \/ (d.src = ev.d.src /\ d.reset \subseteq ev.d.reset)
        BY <1>2, <3>1
      <3>2. CASE d = [ev.d EXCEPT !.src = PendingSource(ev.d.reset),
                                  !.intent = PendingIntent(ev.d.reset)]
        <4>1. d.src = PendingSource(ev.d.reset) /\ d.reset = ev.d.reset
          BY <1>2, <3>2 DEF Data
        <4>2. PendingSource(ev.d.reset) # "PchUpdateIntent"
          BY DEF PendingSource, SourceInv, Unmarked
        <4> QED
          BY <1>2, <4>1, <4>2
      <3>3. CASE d = BootDoneData
        <4>1. cpld.recovery["PCH"] # "PCH_PENDING"
          BY DEF SourceInv, Unmarked
        <4>2. d.src = "BmcUpdateIntent" /\ d.reset = {"BootDoneRecovery"}
          BY <3>3, <4>1 DEF BootDoneData, NULL
        <4> QED
          BY <4>2
      <3>4. CASE d = NULL \/ d = [NULL EXCEPT !.src = "undef", !.reset = ev.d.reset]
        <4>1. CASE d = NULL
          BY <1>2, <4>1
        <4>2. CASE d = [NULL EXCEPT !.src = "undef", !.reset = ev.d.reset]
          <5>1. d.src = "undef" /\ d.reset = ev.d.reset
            BY <1>3, <4>2
          <5> QED
            BY <1>2, <5>1
        <4> QED
          BY <3>4, <4>1, <4>2
      <3> QED
        BY <2>1, <3>1, <3>2, <3>3, <3>4 DEF ThreadPosts
    <2>2. CASE HostPosts(n, d)
      <3>1. ASSUME NEW r \in Around.requests,
                   d = [NULL EXCEPT !.src = r.src, !.intent = Masked(r)]
            PROVE  ours
        BY <1>3, <3>1 DEF OwnRequests, OwnRegister
      <3>2. ASSUME NEW c \in Around.checkpoints, d = [NULL EXCEPT !.src = c[1], !.intent = {c[2]}]
            PROVE  ours
        <4>1. c[1] \in Sources
          BY AroundType DEF TypeInv, TypeOK, Surroundings
        <4> QED
          BY <1>3, <1>4, <3>2, <4>1
      <3>3. ASSUME NEW cmd, d = [NULL EXCEPT !.src = "UfmCommand", !.intent = {cmd}]
            PROVE  ours
        BY <1>3, <3>3
      <3>4. ASSUME NEW h \in Hosts, d = [NULL EXCEPT !.src = h]
            PROVE  ours
        BY <1>3, <1>4, <3>4
      <3> QED
        BY <1>2, <2>2, <3>1, <3>2, <3>3, <3>4 DEF HostPosts
    <2> QED
      BY <2>1, <2>2 DEF Posts
  <1> QED
    BY <1>1, <1>5 DEF BmcEvents

\* enter_tmin1 holds the BMC for any of these events.
LEMMA BmcIsHeld ==
    ASSUME NEW e \in BmcEvents
    PROVE  HeldAtTmin1(e) \in {{"BMC"}, Hosts}
  BY DEF HeldAtTmin1, BmcEvents

LEMMA DispatchBmc ==
    ASSUME fifo \in Seq(BmcEvents), ev \in BmcEvents, Dispatch
    PROVE  fifo' \in Seq(BmcEvents) /\ ev' \in BmcEvents
  <1> DEFINE e == Head(fifo)
             r == Tmin1Policy(e.d.reset, HeldAtTmin1(e))
  <1>1. Take
    BY DEF Dispatch, Transition, RunInPlace, Discard
  <1>2. e \in BmcEvents /\ fifo' \in Seq(BmcEvents) /\ e \in Event
    BY <1>1, TakenFrom DEF BmcEvents
  <1>3. e.d.reset \in SUBSET ResetBits
    BY <1>2, EventParts
  <1>4. r \in SUBSET ResetBits
    BY <1>3, PolicyType
  <1>5. [e EXCEPT !.d.reset = r] \in Event
    BY <1>2, <1>4, EventReset
  <1>6. /\ [e EXCEPT !.d.reset = r].d.src = e.d.src
        /\ [e EXCEPT !.d.reset = r].d.reset = r
    BY <1>2, EventParts DEF Event, Data
  <1>7. "PchOnlyReset" \notin r
    BY <1>2, BmcIsHeld DEF Tmin1Policy, OnlyBit, BmcEvents, Hosts
  <1>8. [e EXCEPT !.d.reset = r] \in BmcEvents
    BY <1>2, <1>5, <1>6, <1>7 DEF BmcEvents
  <1> QED
    BY <1>2, <1>8, DispatchedEvent

\* Rewriting a recovery flag with one that is not the PCH's, or BmcToPchStatus.
LEMMA UnmarkedExcept ==
    ASSUME NEW c \in CpldStatus, Unmarked(c)
    PROVE  /\ \A i, f : f \notin {"PCH_AT_RESET", "PCH_PENDING"}
                          => Unmarked([c EXCEPT !.recovery[i] = f])
           /\ \A b \in BOOLEAN : Unmarked([c EXCEPT !.toPch = b])
  <1>1. c.recovery \in [Images -> RcvFlags] /\ "PCH" \in Images
    BY DEF CpldStatus, Images, Hosts
  <1>2. ASSUME NEW i, NEW f, f \notin {"PCH_AT_RESET", "PCH_PENDING"}
        PROVE  Unmarked([c EXCEPT !.recovery[i] = f])
    <2>1. [c.recovery EXCEPT ![i] = f]["PCH"] \in {c.recovery["PCH"], f}
      BY <1>1
    <2>2. /\ [c EXCEPT !.recovery[i] = f].active = c.active
          /\ [c EXCEPT !.recovery[i] = f].recovery = [c.recovery EXCEPT ![i] = f]
      BY DEF CpldStatus
    <2> QED
      BY <1>2, <2>1, <2>2 DEF Unmarked
  <1>3. \A b \in BOOLEAN : Unmarked([c EXCEPT !.toPch = b])
    BY DEF Unmarked, CpldStatus
  <1> QED
    BY <1>2, <1>3

LEMMA ClearUnmarked == Unmarked(ClearCpld)
  BY DEF Unmarked, ClearCpld, NoFlags, Images, Hosts

\* The saved flags.
LEMMA SavedUnmarked ==
    ASSUME TypeInv, SourceInv, [Next]_vars
    PROVE  Unmarked(cpld')
  <1>0. cpld \in CpldStatus /\ Unmarked(cpld) /\ Unmarked(lcpld)
    BY DEF TypeInv, TypeOK, SourceInv
  <1>c. /\ \A i : Unmarked([cpld EXCEPT !.recovery[i] = "none"])
        /\ Unmarked([cpld EXCEPT !.toPch = FALSE])
    BY <1>0, UnmarkedExcept
  <1>1. CASE DoRotErase
    BY <1>c, <1>1 DEF DoRotErase
  <1>2. CASE VerifyPendingUpdate
    <2>1. cpld' = WithoutPending(ev.d.reset)
      BY <1>2 DEF VerifyPendingUpdate
    <2>2. /\ cpld'.active["PCH"] \in {"none", cpld.active["PCH"]}
          /\ cpld'.recovery["PCH"] = cpld.recovery["PCH"]
      BY <1>0, <2>1 DEF WithoutPending, CpldStatus, Images, Hosts
    <2> QED
      BY <1>0, <2>2 DEF Unmarked
  <1>3. CASE \E r : RecoveryEnd(r)
    <2>1. PICK r : cpld' = cpld \/ cpld' = [cpld EXCEPT !.recovery[r.index] = "none"]
      BY <1>3 DEF RecoveryEnd
    <2> QED
      BY <1>0, <1>c, <2>1
  <1>4. CASE UpdateAtReset
    <2>1. cpld' = AtResetStatus(ev.d) /\ ev.d.src # "PchUpdateIntent"
      BY <1>4 DEF UpdateAtReset, SourceInv, BmcEvents
    <2> QED
      BY <2>1 DEF AtResetStatus, Unmarked, Images, Hosts
  <1>5. CASE HandleProvision
    BY <1>0, <1>5, ClearUnmarked DEF HandleProvision, ufmVars
  <1>6. CASE SeamlessUpdate
    BY <1>c, <1>6 DEF SeamlessUpdate
  <1>7. CASE UpdateEnd
    BY <1>0, <1>7 DEF UpdateEnd
  <1> QED
    BY <1>0, <1>1, <1>2, <1>3, <1>4, <1>5, <1>6, <1>7, FlagSteps

\* The flags handle_update_requested works on.
LEMMA IterationUnmarked ==
    ASSUME NEW status \in CpldStatus, Unmarked(status), NEW ok, NEW h, NEW i,
           EndIteration(ok, h, status, i)
    PROVE  Unmarked(lcpld')
  <1>1. lcpld' = status \/ lcpld' = [status EXCEPT !.recovery[i] = "none"]
    BY DEF EndIteration
  <1>2. Unmarked([status EXCEPT !.recovery[i] = "none"])
    BY UnmarkedExcept
  <1> QED
    BY <1>1, <1>2

LEMMA LocalUnmarked ==
    ASSUME TypeInv, IntentInv, SourceInv, UpdateSteps
    PROVE  Unmarked(lcpld')
  <1>0. cpld \in CpldStatus /\ Unmarked(cpld) /\ lcpld \in CpldStatus /\ Unmarked(lcpld)
    BY DEF TypeInv, TypeOK, SourceInv
  <1>a. /\ \A i, f : f \notin {"PCH_AT_RESET", "PCH_PENDING"}
                       => Unmarked([lcpld EXCEPT !.recovery[i] = f])
        /\ Unmarked([lcpld EXCEPT !.toPch = FALSE])
    BY <1>0, UnmarkedExcept
  <1>b. \A i : \A f \in RcvFlags : [lcpld EXCEPT !.recovery[i] = f] \in CpldStatus
    BY <1>0, CpldExcept
  <1>c. [lcpld EXCEPT !.toPch = FALSE] \in CpldStatus
    BY <1>0, CpldExcept DEF RcvFlags
  <1>1. CASE UpdateStart
    <2>1. lcpld' = cpld \/ lcpld' = [cpld EXCEPT !.toPch = TRUE]
      BY <1>1 DEF UpdateStart
    <2> QED
      BY <1>0, <2>1, UnmarkedExcept
  <1>2. CASE UpdateSelect
    <2> DEFINE i == NextImage
               status == [lcpld EXCEPT !.recovery[i] = "HANDLED"]
    <2>1. CASE UpdateBypass
      <3>1. EndIteration(upd.ok, upd.handled, lcpld, i)
        BY <2>1 DEF UpdateBypass
      <3> QED
        BY <1>0, <3>1, IterationUnmarked
    <2>2. CASE UpdateTampered
      <3>1. EndIteration(upd.ok, upd.handled \cup {RecoveryBit(i)}, status, i)
        BY <2>2 DEF UpdateTampered
      <3>2. Unmarked(status) /\ status \in CpldStatus
        BY <1>a, <1>b DEF RcvFlags
      <3> QED
        BY <3>1, <3>2, IterationUnmarked
    <2>3. CASE UpdateRecoveryRegion \/ UpdateActiveRegion
      <3>1. ev.d.src = "BmcUpdateIntent"
        BY <2>3
        DEF UpdateRecoveryRegion, UpdateActiveRegion, IntentInv, UpdateProper, Updating,
            SourceInv, BmcEvents
      <3>2. \/ lcpld' = lcpld
            \/ \E f \in {"HANDLED", "BMC_PENDING"} : lcpld' = [lcpld EXCEPT !.recovery[i] = f]
        BY <2>3, <3>1 DEF UpdateRecoveryRegion, UpdateActiveRegion
      <3> QED
        BY <1>0, <1>a, <3>2
    <2> QED
      BY <1>2, <2>1, <2>2, <2>3 DEF UpdateSelect
  <1>3. CASE UpdateCopy
    <2> DEFINE status == [lcpld EXCEPT !.toPch = FALSE]
    <2>1. lcpld' = status \/ EndIteration(FALSE, upd.handled, status, upd.image)
      BY <1>3 DEF UpdateCopy, UpdateReturns
    <2> QED
      BY <1>a, <1>c, <2>1, IterationUnmarked
  <1>4. CASE UpdateRefused \/ UpdateProgram
    <2> DEFINE status == JudgedStatus(Judged)
    <2>1. status \in CpldStatus /\ Unmarked(status)
      BY <1>0, <1>a, <1>b DEF JudgedStatus, RcvFlags, ActFlags
    <2>2. \E ok, log : UpdateReturns(ok, log, status)
      BY <1>4 DEF UpdateRefused, UpdateProgram
    <2>3. \E ok : EndIteration(ok, upd.handled, status, upd.image)
      BY <2>2 DEF UpdateReturns
    <2> QED
      BY <2>1, <2>3, IterationUnmarked
  <1>5. CASE UpdateEnd
    BY <1>5, ClearUnmarked DEF UpdateEnd
  <1> QED
    BY <1>1, <1>2, <1>3, <1>4, <1>5 DEF UpdateSteps

\* Every step keeps the PCH's first register out of it.
LEMMA SourceStep ==
    ASSUME TypeInv, Placed, IntentInv, OwnRequests, SourceInv, [Next]_vars
    PROVE  SourceInv'
  <1>1. Unmarked(cpld')
    BY SavedUnmarked
  <1>2. Unmarked(lcpld')
    <2>1. CASE \E f : Reset(f)
      BY <2>1, ClearUnmarked DEF Reset
    <2>2. CASE UpdateSteps
      BY <2>2, LocalUnmarked
    <2>3. CASE ~UpdateSteps /\ ~(\E f : Reset(f))
      BY <2>3, OutsideUpdate DEF SourceInv
    <2> QED
      BY <2>1, <2>2, <2>3
  <1>3. CASE Dispatch
    BY <1>1, <1>2, <1>3, DispatchBmc DEF SourceInv
  <1>4. CASE \E f : Reset(f)
    <2>1. Evt("START_STATE_MACHINE", NULL) \in BmcEvents
      BY EvtType, NullType DEF Evt, NULL, Events, BmcEvents
    <2> QED
      BY <1>1, <1>2, <1>4, <2>1, ResetIn DEF SourceInv
  <1>5. CASE /\ Queues /\ UNCHANGED state
             /\ UNCHANGED ev \/ (state = "FIRMWARE_UPDATE" /\ Handling)
    <2>1. fifo' \in Seq(BmcEvents)
      BY <1>5, PostsBmc, QueuedIn DEF SourceInv
    <2>2. ev' \in BmcEvents
      <3>1. ev \in BmcEvents /\ ev \in Event
        BY DEF SourceInv, BmcEvents
      <3>2. ASSUME NEW H \in SUBSET Intent1
            PROVE  /\ [ev EXCEPT !.d.handled = H] \in Event
                   /\ [ev EXCEPT !.d.handled = H].d.reset = ev.d.reset
                   /\ [ev EXCEPT !.d.handled = H].d.src = ev.d.src
        BY <3>1, EventHandled, EventParts DEF Event, Data
      <3> QED
        BY <1>5, <3>1, <3>2 DEF Handling, BmcEvents
    <2> QED
      BY <1>1, <1>2, <2>1, <2>2 DEF SourceInv
  <1> QED
    BY <1>3, <1>4, <1>5, QueueSteps

\* The order of the queue.  Results of an update, verdicts, and requests:
Results == {"UPDATE_DONE", "UPDATE_FAILED"}
Waiting == Verdicts \cup {"UPDATE_REQUESTED"}
None(A) == \A n \in 1 .. Len(fifo) : fifo[n].ev \notin A
\* Nothing of A is queued behind something of B.
NoneBehind(A, B) ==
    \A m, n \in 1 .. Len(fifo) : m < n /\ fifo[m].ev \in B => fifo[n].ev \notin A

\* An update reports its results while the BMC is held, so no verdict or request
\* comes between them; those that are left are gone before the next verdict.
LineInv ==
    /\ state \in Tzero \cup {"BOOT", "INIT"} => None(Results) /\ None(Verdicts)
    /\ state = "FIRMWARE_VERIFY" =>
         /\ NoneBehind(Results, Waiting) /\ NoneBehind(Waiting, Verdicts)
         /\ pc = "run" => None(Verdicts)
    /\ state = "FIRMWARE_UPDATE" =>
         /\ NoneBehind(Waiting, Results)
         /\ pc = "run" => None(Results)
    /\ state = "FIRMWARE_RECOVERY" =>
         /\ None(Results) /\ NoneBehind(Waiting, Verdicts)
         /\ pc # "wait" => None(Verdicts)
\* A verdict that would release the BMC still says what is the case.
TrueInv ==
    state = "FIRMWARE_VERIFY" => \A n \in 1 .. Len(fifo) :
        /\ fifo[n].ev = "VERIFY_UNPROVISIONED" => ~Provisioned
        /\ fifo[n].ev = "VERIFY_DONE" => /\ Provisioned
                                         /\ ActiveVerify("BMC", flash["BMC"]["active"])
\* Outside T0 the BMC is held.
BmcHeld == state \notin Tzero => "BMC" \in hold
AskInv == SourceInv /\ LineInv /\ TrueInv /\ BmcHeld

\* Taking an event keeps the order, and leaves nothing that may not be behind it.
LEMMA TakenLine ==
    ASSUME fifo \in Seq(Event), Take
    PROVE  /\ \A A : None(A) => None(A)'
           /\ \A A, B : NoneBehind(A, B) => NoneBehind(A, B)'
           /\ \A A, B : NoneBehind(A, B) /\ Head(fifo).ev \in B => None(A)'
           /\ \E n \in 1 .. Len(fifo) : Head(fifo) = fifo[n]
           /\ \A k \in 1 .. Len(fifo') : fifo'[k] = fifo[k + 1] /\ k + 1 \in 1 .. Len(fifo)
  <1>1. /\ \A k \in 1 .. Len(fifo') : fifo'[k] = fifo[k + 1] /\ k + 1 \in 1 .. Len(fifo)
        /\ Len(fifo') \in Nat /\ Head(fifo) = fifo[1] /\ 1 \in 1 .. Len(fifo) /\ Len(fifo) \in Nat
    BY DEF Take
  <1>2. ASSUME NEW A, None(A) PROVE None(A)'
    BY <1>1, <1>2 DEF None
  <1>3. ASSUME NEW A, NEW B, NoneBehind(A, B) PROVE NoneBehind(A, B)'
    <2> SUFFICES ASSUME NEW m \in 1 .. Len(fifo'), NEW n \in 1 .. Len(fifo'), m < n,
                        fifo'[m].ev \in B
                 PROVE  fifo'[n].ev \notin A
      BY DEF NoneBehind
    <2>1. m + 1 < n + 1
      BY <1>1
    <2> QED
      BY <1>1, <1>3, <2>1 DEF NoneBehind
  <1>4. ASSUME NEW A, NEW B, NoneBehind(A, B), Head(fifo).ev \in B PROVE None(A)'
    <2> SUFFICES ASSUME NEW k \in 1 .. Len(fifo') PROVE fifo'[k].ev \notin A
      BY DEF None
    <2>1. 1 < k + 1
      BY <1>1
    <2> QED
      BY <1>1, <1>4, <2>1 DEF NoneBehind
  <1> QED
    BY <1>1, <1>2, <1>3, <1>4

\* So does queueing one that may be behind the others.
LEMMA PostedLine ==
    ASSUME fifo \in Seq(Event), NEW e, fifo' = Append(fifo, e)
    PROVE  /\ \A A : None(A) /\ e.ev \notin A => None(A)'
           /\ \A A, B : NoneBehind(A, B) /\ (e.ev \notin A \/ None(B)) => NoneBehind(A, B)'
           /\ \A n \in 1 .. Len(fifo') : fifo'[n] = e \/ (n \in 1 .. Len(fifo) /\ fifo'[n] = fifo[n])
  <1>1. /\ Len(fifo') = Len(fifo) + 1 /\ fifo'[Len(fifo) + 1] = e /\ Len(fifo) \in Nat
        /\ \A k \in 1 .. Len(fifo) : fifo'[k] = fifo[k]
    OBVIOUS
  <1>2. \A A : None(A) /\ e.ev \notin A => None(A)'
    BY <1>1 DEF None
  <1>3. ASSUME NEW A, NEW B, NoneBehind(A, B), e.ev \notin A \/ None(B) PROVE NoneBehind(A, B)'
    <2> SUFFICES ASSUME NEW m \in 1 .. Len(fifo'), NEW n \in 1 .. Len(fifo'), m < n,
                        fifo'[m].ev \in B
                 PROVE  fifo'[n].ev \notin A
      BY DEF NoneBehind
    <2>1. m \in 1 .. Len(fifo) /\ fifo'[m] = fifo[m]
      BY <1>1
    <2>2. CASE n \in 1 .. Len(fifo)
      BY <1>1, <1>3, <2>1, <2>2 DEF NoneBehind
    <2>3. CASE n = Len(fifo) + 1
      BY <1>1, <1>3, <2>1, <2>3 DEF None
    <2> QED
      BY <1>1, <2>2, <2>3
  <1> QED
    BY <1>1, <1>2, <1>3

LEMMA SameLine ==
    ASSUME UNCHANGED fifo
    PROVE  /\ \A A : None(A)' <=> None(A)
           /\ \A A, B : NoneBehind(A, B)' <=> NoneBehind(A, B)
  BY DEF None, NoneBehind

\* The transitions between the states the queue is ordered in.
LEMMA LineMoves ==
    ASSUME NEW e, NEW t \in Successors(e)
    PROVE  \/ t \in Final
           \/ /\ state \in Tzero \cup {"BOOT", "INIT"}
              /\ t \in Tzero \cup {"INIT", "FIRMWARE_VERIFY", "FIRMWARE_RECOVERY", "FIRMWARE_UPDATE"}
              /\ t \in Tzero => state \in Tzero
              /\ t = "INIT" => state = "BOOT"
           \/ /\ state = "FIRMWARE_VERIFY" /\ t = "FIRMWARE_UPDATE"
              /\ e.ev = "UPDATE_REQUESTED"
           \/ state = "FIRMWARE_VERIFY" /\ t = "FIRMWARE_RECOVERY" /\ e.ev = "VERIFY_FAILED"
           \/ state = "FIRMWARE_VERIFY" /\ t = "RUNTIME" /\ e.ev = "VERIFY_DONE"
           \/ /\ state = "FIRMWARE_VERIFY" /\ t = "UNPROVISIONED"
              /\ e.ev = "VERIFY_UNPROVISIONED"
           \/ state = "FIRMWARE_RECOVERY" /\ t = "FIRMWARE_VERIFY" /\ e.ev = "RECOVERY_DONE"
           \/ state = "FIRMWARE_UPDATE" /\ t = "FIRMWARE_VERIFY" /\ e.ev \in Results
  <1> DEFINE Moves(s, n, u) ==
        \/ u \in Final
        \/ /\ s \in Tzero \cup {"BOOT", "INIT"}
           /\ u \in Tzero \cup {"INIT", "FIRMWARE_VERIFY", "FIRMWARE_RECOVERY", "FIRMWARE_UPDATE"}
           /\ u \in Tzero => s \in Tzero
           /\ u = "INIT" => s = "BOOT"
        \/ s = "FIRMWARE_VERIFY" /\ u = "FIRMWARE_UPDATE" /\ n = "UPDATE_REQUESTED"
        \/ s = "FIRMWARE_VERIFY" /\ u = "FIRMWARE_RECOVERY" /\ n = "VERIFY_FAILED"
        \/ s = "FIRMWARE_VERIFY" /\ u = "RUNTIME" /\ n = "VERIFY_DONE"
        \/ s = "FIRMWARE_VERIFY" /\ u = "UNPROVISIONED" /\ n = "VERIFY_UNPROVISIONED"
        \/ s = "FIRMWARE_RECOVERY" /\ u = "FIRMWARE_VERIFY" /\ n = "RECOVERY_DONE"
        \/ s = "FIRMWARE_UPDATE" /\ u = "FIRMWARE_VERIFY" /\ n \in Results
  <1>1. ASSUME NEW row \in Transitions
        PROVE  Moves(row[1], row[2], row[3])
    BY <1>1 DEF Transitions, Final, Tzero, Results
  <1>2. ASSUME ~\E row \in Transitions : row[1] = state /\ row[2] = e.ev /\ row[3] = t
        PROVE  Moves(state, e.ev, t)
    BY <1>2 DEF Successors, AfterUpdate, Final, Tzero, Results
  <1>3. Moves(state, e.ev, t)
    BY <1>1, <1>2
  <1> QED
    BY <1>3

\* A transition finds the queue it needs.
LEMMA TransitionLine ==
    ASSUME TypeInv, LineInv, Transition
    PROVE  LineInv' /\ (state' = "FIRMWARE_VERIFY" => None(Verdicts)')
  <1>t. fifo \in Seq(Event) /\ Take
    BY DEF TypeInv, TypeOK, Transition
  <1>1. PICK t \in Successors(Head(fifo)) : Goto(t)
    BY DEF Transition
  <1>2. state' = t /\ pc' = "run"
    BY <1>1 DEF Goto
  <1>w. /\ "UPDATE_REQUESTED" \in Waiting /\ Verdicts \subseteq Waiting
        /\ {"VERIFY_FAILED", "VERIFY_DONE", "VERIFY_UNPROVISIONED", "RECOVERY_DONE"} \subseteq Verdicts
    BY DEF Waiting, Verdicts
  <1>s. \A A, B : A \subseteq B /\ None(B)' => None(A)'
    BY DEF None
  <1>3. ASSUME t \in Tzero \cup {"INIT"}
        PROVE  None(Results)' /\ None(Verdicts)'
    <2>1. CASE state \in Tzero \cup {"BOOT", "INIT"}
      BY <1>t, <2>1, TakenLine DEF LineInv
    <2>2. CASE state = "FIRMWARE_VERIFY" /\ Head(fifo).ev \in Verdicts
      <3>1. NoneBehind(Results, Waiting) /\ NoneBehind(Waiting, Verdicts)
        BY <2>2 DEF LineInv
      <3>2. None(Results)' /\ None(Waiting)'
        BY <1>t, <1>w, <2>2, <3>1, TakenLine
      <3> QED
        BY <1>s, <1>w, <3>2
    <2> QED
      BY <1>3, <1>w, <2>1, <2>2, LineMoves DEF Tzero, Final
  <1>4. ASSUME t = "FIRMWARE_VERIFY"
        PROVE  None(Verdicts)' /\ (None(Results)' \/ None(Waiting)')
    <2>1. CASE state \in Tzero \cup {"BOOT", "INIT"}
      BY <1>t, <2>1, TakenLine DEF LineInv
    <2>2. CASE state = "FIRMWARE_RECOVERY" /\ Head(fifo).ev \in Verdicts
      <3>1. NoneBehind(Waiting, Verdicts)
        BY <2>2 DEF LineInv
      <3>2. None(Waiting)'
        BY <1>t, <2>2, <3>1, TakenLine
      <3> QED
        BY <1>s, <1>w, <3>2
    <2>3. CASE state = "FIRMWARE_UPDATE" /\ Head(fifo).ev \in Results
      <3>1. NoneBehind(Waiting, Results)
        BY <2>3 DEF LineInv
      <3>2. None(Waiting)'
        BY <1>t, <2>3, <3>1, TakenLine
      <3> QED
        BY <1>s, <1>w, <3>2
    <2> QED
      BY <1>4, <1>w, <2>1, <2>2, <2>3, LineMoves DEF Final
  <1>5. ASSUME t = "FIRMWARE_UPDATE"
        PROVE  None(Results)'
    <2>1. CASE state \in Tzero \cup {"BOOT", "INIT"}
      BY <1>t, <2>1, TakenLine DEF LineInv
    <2>2. CASE state = "FIRMWARE_VERIFY" /\ Head(fifo).ev = "UPDATE_REQUESTED"
      <3>1. NoneBehind(Results, Waiting)
        BY <2>2 DEF LineInv
      <3> QED
        BY <1>t, <1>w, <2>2, <3>1, TakenLine
    <2> QED
      BY <1>5, <2>1, <2>2, LineMoves DEF Final
  <1>6. ASSUME t = "FIRMWARE_RECOVERY"
        PROVE  None(Results)' /\ None(Verdicts)'
    <2>1. CASE state \in Tzero \cup {"BOOT", "INIT"}
      BY <1>t, <2>1, TakenLine DEF LineInv
    <2>2. CASE state = "FIRMWARE_VERIFY" /\ Head(fifo).ev = "VERIFY_FAILED"
      <3>1. NoneBehind(Results, Waiting) /\ NoneBehind(Waiting, Verdicts)
        BY <2>2 DEF LineInv
      <3>2. None(Results)' /\ None(Waiting)'
        BY <1>t, <1>w, <2>2, <3>1, TakenLine
      <3> QED
        BY <1>s, <1>w, <3>2
    <2> QED
      BY <1>6, <2>1, <2>2, LineMoves DEF Final
  <1>7. t # "BOOT"
    BY LineMoves DEF Final, Tzero
  <1>8. \A A, B : None(A)' \/ None(B)' => NoneBehind(A, B)'
    BY DEF None, NoneBehind
  <1> QED
    BY <1>2, <1>3, <1>4, <1>5, <1>6, <1>7, <1>8 DEF LineInv

\* A step that posts no verdict and no result, and no request while the BMC is
\* held.
LEMMA PlainLine ==
    ASSUME TypeInv, LineInv, UNCHANGED state,
           UNCHANGED fifo \/ \E e : /\ e.ev \notin Results \cup Verdicts
                                    /\ e.ev = "UPDATE_REQUESTED" => state \in Tzero
                                    /\ fifo' = Append(fifo, e),
           UNCHANGED pc \/ (pc # "wait" /\ pc' # "run")
    PROVE  LineInv'
  <1>t. fifo \in Seq(Event)
    BY DEF TypeInv, TypeOK
  <1> DEFINE kept ==
        /\ None(Results) => None(Results)'
        /\ None(Verdicts) => None(Verdicts)'
        /\ NoneBehind(Results, Waiting) => NoneBehind(Results, Waiting)'
        /\ state \notin Tzero =>
             /\ NoneBehind(Waiting, Verdicts) => NoneBehind(Waiting, Verdicts)'
             /\ NoneBehind(Waiting, Results) => NoneBehind(Waiting, Results)'
  <1>1. kept
    <2>1. CASE UNCHANGED fifo
      BY <2>1, SameLine
    <2>2. ASSUME NEW e, e.ev \notin Results \cup Verdicts,
                 e.ev = "UPDATE_REQUESTED" => state \in Tzero, fifo' = Append(fifo, e)
          PROVE  kept
      BY <1>t, <2>2, PostedLine DEF Waiting
    <2> QED
      BY <2>1, <2>2
  <1>2. "FIRMWARE_VERIFY" \notin Tzero /\ "FIRMWARE_UPDATE" \notin Tzero
        /\ "FIRMWARE_RECOVERY" \notin Tzero
    BY DEF Tzero
  <1> QED
    BY <1>1, <1>2 DEF LineInv

\* What the hosts post: no verdict and no result, and a request only while the
\* BMC is up.
LEMMA HostsLine ==
    ASSUME TypeInv, OwnRequests, NEW n, NEW d, HostPosts(n, d)
    PROVE  n \notin Results \cup Verdicts /\ (n = "UPDATE_REQUESTED" => "BMC" \notin hold)
  <1>1. Around \in Surroundings
    BY AroundType DEF TypeInv, TypeOK
  <1>2. ASSUME NEW r \in Around.requests, n = r.ev, Up(Sender(r.src))
        PROVE  n \notin Results \cup Verdicts /\ (n = "UPDATE_REQUESTED" => "BMC" \notin hold)
    <2>1. n \in {"UPDATE_REQUESTED", "UPDATE_INTENT_2_REQUESTED"}
      BY <1>1, <1>2 DEF Surroundings, Request
    <2>2. n = "UPDATE_REQUESTED" => Sender(r.src) = "BMC"
      BY <1>2 DEF OwnRequests, OwnRegister, Sender
    <2> QED
      BY <1>2, <2>1, <2>2 DEF Up, Results, Verdicts
  <1>3. n \in {"RESET_DETECTED", "WDT_TIMEOUT", "WDT_CHECKPOINT", "PROVISION_CMD"}
          => n \notin Results \cup Verdicts /\ n # "UPDATE_REQUESTED"
    BY DEF Results, Verdicts
  <1> QED
    BY <1>2, <1>3 DEF HostPosts

\* AspeedStateMachine(): the dispatch of an event.
LEMMA DispatchLine ==
    ASSUME TypeInv, LineInv, TrueInv, Dispatch
    PROVE  LineInv' /\ TrueInv'
  <1>1. CASE Transition
    <2>1. LineInv' /\ (state' = "FIRMWARE_VERIFY" => None(Verdicts)')
      BY <1>1, TransitionLine
    <2> QED
      BY <2>1 DEF TrueInv, None, Verdicts
  <1>2. CASE RunInPlace \/ Discard
    <2>1. /\ Take /\ UNCHANGED <<state, flash, ufm>>
          /\ UNCHANGED pc \/ state \in {"RUNTIME", "UNPROVISIONED"}
      BY <1>2 DEF RunInPlace, RunsInPlace, Discard, ufmVars
    <2>2. /\ \A A : None(A) => None(A)'
          /\ \A A, B : NoneBehind(A, B) => NoneBehind(A, B)'
          /\ \A k \in 1 .. Len(fifo') : fifo'[k] = fifo[k + 1] /\ k + 1 \in 1 .. Len(fifo)
      BY <2>1, TakenLine DEF TypeInv, TypeOK
    <2>3. LineInv'
      BY <2>1, <2>2 DEF LineInv
    <2>4. TrueInv'
      BY <2>1, <2>2 DEF TrueInv, Provisioned
    <2> QED
      BY <2>3, <2>4
  <1> QED
    BY <1>1, <1>2 DEF Dispatch

\* handle_image_verification.
LEMMA VerifyLine ==
    ASSUME TypeInv, SourceInv, LineInv, BmcHeld, VerifySteps
    PROVE  LineInv' /\ TrueInv'
  <1>t. fifo \in Seq(Event)
    BY DEF TypeInv, TypeOK
  <1>e. \A n, d : Evt(n, d).ev = n
    BY DEF Evt
  <1>0. /\ state = "FIRMWARE_VERIFY" /\ pc = "run" /\ pc' = "wait"
        /\ UNCHANGED <<state, flash, ufm>>
    BY DEF VerifySteps, VerifyUnprovisioned, VerifyPendingUpdate, VerifyImages, Running, ufmVars
  <1>1. PICK n \in Waiting : /\ \E d : GenerateStateMachineEvent(n, d)
                             /\ n = "VERIFY_UNPROVISIONED" => ~Provisioned
                             /\ n = "VERIFY_DONE" => VerifyImages /\ Checked("BMC").active
    <2>1. CASE VerifyUnprovisioned
      BY <2>1 DEF VerifyUnprovisioned, Waiting, Verdicts
    <2>2. CASE VerifyPendingUpdate
      BY <2>2 DEF VerifyPendingUpdate, Waiting
    <2>3. CASE VerifyImages
      <3> DEFINE k == VerifyOutcome([h \in Hosts |-> Checked(h)])
      <3>1. k \in {"VERIFY_DONE", "VERIFY_FAILED", "RECOVERY_FAILED"}
        BY DEF VerifyOutcome
      <3>2. k = "VERIFY_DONE" => Checked("BMC").active
        BY DEF VerifyOutcome, Hosts
      <3>3. GenerateStateMachineEvent(k, ev.d)
        BY <2>3 DEF VerifyImages
      <3> QED
        BY <2>3, <3>1, <3>2, <3>3 DEF Waiting, Verdicts
    <2> QED
      BY <2>1, <2>2, <2>3 DEF VerifySteps
  <1>2. n = "VERIFY_DONE" => Provisioned /\ ActiveVerify("BMC", flash["BMC"]["active"])
    <2> SUFFICES ASSUME n = "VERIFY_DONE"
                 PROVE  Provisioned /\ ActiveVerify("BMC", flash["BMC"]["active"])
      OBVIOUS
    <2>1. Provisioned /\ Checked("BMC").active
      BY <1>1 DEF VerifyImages
    <2>2. "BMC" \in Scope(ev.d.reset)
      BY DEF Scope, SourceInv, BmcEvents, Hosts
    <2>3. ActiveVerify("BMC", Read("BMC", "active"))
      BY <2>1, <2>2 DEF Checked, Verified
    <2> QED
      BY <2>1, <2>3 DEF ActiveVerify, Read, Corrupt
  <1>3. None(Verdicts) /\ NoneBehind(Results, Waiting) /\ NoneBehind(Waiting, Verdicts)
    BY <1>0 DEF LineInv
  <1>4. CASE UNCHANGED fifo
    <2>1. LineInv'
      BY <1>0, <1>3, <1>4, SameLine DEF LineInv, Tzero
    <2>2. TrueInv'
      BY <1>3, <1>4 DEF TrueInv, None, Verdicts
    <2> QED
      BY <2>1, <2>2
  <1>5. ASSUME NEW e, e.ev = n, fifo' = Append(fifo, e)
        PROVE  LineInv' /\ TrueInv'
    <2>1. n \notin Results
      BY <1>1 DEF Waiting, Verdicts, Results
    <2>2. /\ NoneBehind(Results, Waiting)' /\ NoneBehind(Waiting, Verdicts)'
          /\ \A k \in 1 .. Len(fifo') :
               fifo'[k] = e \/ (k \in 1 .. Len(fifo) /\ fifo'[k] = fifo[k])
      BY <1>t, <1>3, <1>5, <2>1, PostedLine
    <2>3. LineInv'
      BY <1>0, <2>2 DEF LineInv, Tzero
    <2>4. \A k \in 1 .. Len(fifo) : fifo[k].ev \notin {"VERIFY_UNPROVISIONED", "VERIFY_DONE"}
      BY <1>3 DEF None, Verdicts
    <2>5. Provisioned' = Provisioned
      BY <1>0 DEF Provisioned
    <2>6. TrueInv'
      BY <1>0, <1>1, <1>2, <1>5, <2>2, <2>4, <2>5 DEF TrueInv
    <2> QED
      BY <2>3, <2>6
  <1> QED
    BY <1>e, <1>1, <1>4, <1>5 DEF GenerateStateMachineEvent

\* handle_recovery.
LEMMA RecoverLine ==
    ASSUME TypeInv, Placed, LineInv, RecoverSteps
    PROVE  LineInv' /\ TrueInv'
  <1>t. fifo \in Seq(Event)
    BY DEF TypeInv, TypeOK
  <1>e. \A n, d : Evt(n, d).ev = n
    BY DEF Evt
  <1>0. UNCHANGED state /\ state = "FIRMWARE_RECOVERY" /\ pc # "wait"
    BY DEF RecoverSteps, RecoveryStart, RecoverImages, RecoveryDone, Running, Placed
  <1>1. None(Results) /\ None(Verdicts) /\ NoneBehind(Waiting, Verdicts)
    BY <1>0 DEF LineInv
  <1>2. TrueInv'
    BY <1>0 DEF TrueInv
  <1>3. \/ UNCHANGED fifo
        \/ pc' = "wait" /\ \E n \in {"RECOVERY_DONE", "RECOVERY_FAILED"} : \E d :
                             GenerateStateMachineEvent(n, d)
    <2>1. ASSUME NEW r, RecoveryEnd(r)
          PROVE  pc' = "wait" /\ \E n \in {"RECOVERY_DONE", "RECOVERY_FAILED"} : \E d :
                                   GenerateStateMachineEvent(n, d)
      BY <2>1, Zenon DEF RecoveryEnd
    <2>2. \A k, r : RecoveryGoesOn(k, r) => RecoveryEnd(r) \/ UNCHANGED fifo
      BY DEF RecoveryGoesOn
    <2>3. UNCHANGED fifo \/ \E r : RecoveryEnd(r)
      <3>1. CASE RecoverImages
        <4>1. UNCHANGED fifo \/ \E k, r : RecoveryGoesOn(k, r)
          BY <3>1 DEF RecoverImages, RecoverNothing, RecoverRegion, RecoverFetch
        <4> QED
          BY <4>1, <2>2
      <3> QED
        BY <3>1 DEF RecoverSteps, RecoveryStart, RecoveryDone
    <2> QED
      BY <2>1, <2>3
  <1>4. CASE UNCHANGED fifo
    BY <1>0, <1>1, <1>2, <1>4, SameLine DEF LineInv, Tzero
  <1>5. ASSUME pc' = "wait", NEW n \in {"RECOVERY_DONE", "RECOVERY_FAILED"}, NEW d,
               fifo' = Append(fifo, Evt(n, d))
        PROVE  LineInv'
    <2>1. n \notin Results
      BY DEF Results
    <2>2. None(Results)' /\ NoneBehind(Waiting, Verdicts)'
      BY <1>t, <1>e, <1>1, <1>5, <2>1, PostedLine
    <2> QED
      BY <1>0, <1>5, <2>2 DEF LineInv, Tzero
  <1> QED
    BY <1>2, <1>3, <1>4, <1>5 DEF GenerateStateMachineEvent

\* handle_update_requested.
LEMMA UpdateLine ==
    ASSUME TypeInv, Placed, OwnRequests, LineInv, BmcHeld, UpdateSteps
    PROVE  LineInv' /\ TrueInv'
  <1>t. fifo \in Seq(Event)
    BY DEF TypeInv, TypeOK
  <1>0. UNCHANGED state /\ state = "FIRMWARE_UPDATE" /\ pc' # "run" /\ pc # "wait"
    BY DEF UpdateSteps, UpdateStart, Running, UpdateSelect, UpdateBypass, UpdateTampered,
           UpdateRecoveryRegion, UpdateActiveRegion, UpdateCopy, UpdateRefused, UpdateProgram,
           UpdateReturns, EndIteration, UpdateEnd, Placed
  <1>1. TrueInv'
    BY <1>0 DEF TrueInv
  <1>2. ASSUME NEW n \in Events, NEW d \in Data, Posts(n, d)
        PROVE  Evt(n, d).ev \notin Waiting
    <2>1. n \notin Waiting
      <3>1. CASE HostPosts(n, d)
        <4>1. "BMC" \in hold
          BY <1>0 DEF BmcHeld, Tzero
        <4> QED
          BY <3>1, <4>1, HostsLine DEF Waiting
      <3>2. CASE ThreadPosts(n, d)
        BY <1>0, <3>2 DEF ThreadPosts, Waiting, Verdicts
      <3> QED
        BY <1>2, <3>1, <3>2 DEF Posts
    <2> QED
      BY <2>1 DEF Evt
  <1>3. NoneBehind(Waiting, Results)'
    <2>1. NoneBehind(Waiting, Results)
      BY <1>0 DEF LineInv
    <2>2. UNCHANGED fifo \/ \E e : e.ev \notin Waiting /\ fifo' = Append(fifo, e)
      BY <1>2, UpdateQueues DEF Queues
    <2>3. CASE UNCHANGED fifo
      BY <2>1, <2>3, SameLine
    <2>4. ASSUME NEW e, e.ev \notin Waiting, fifo' = Append(fifo, e)
          PROVE  NoneBehind(Waiting, Results)'
      BY <1>t, <2>1, <2>4, PostedLine
    <2> QED
      BY <2>2, <2>3, <2>4
  <1> QED
    BY <1>0, <1>1, <1>3 DEF LineInv, Tzero

\* The hosts and the timers: the BMC, which the verdicts are about, is held.
LEMMA HostLine ==
    ASSUME TypeInv, OwnRequests, LineInv, TrueInv, BmcHeld, Environment, ~PowerLoss
    PROVE  LineInv' /\ TrueInv'
  <1>t. fifo \in Seq(Event) /\ flash \in Flash
    BY DEF TypeInv, TypeOK
  <1>1. Hears /\ UNCHANGED <<state, pc>>
    BY HostQueues
  <1>2. UNCHANGED fifo \/ \E e : /\ e.ev \notin Results \cup Verdicts
                                 /\ e.ev = "UPDATE_REQUESTED" => state \in Tzero
                                 /\ fifo' = Append(fifo, e)
    <2>1. ASSUME NEW n, NEW d, HostPosts(n, d)
          PROVE  /\ Evt(n, d).ev \notin Results \cup Verdicts
                 /\ Evt(n, d).ev = "UPDATE_REQUESTED" => state \in Tzero
      BY <2>1, HostsLine DEF Evt, BmcHeld
    <2> QED
      BY <1>1, <2>1 DEF Hears
  <1>3. LineInv'
    BY <1>1, <1>2, PlainLine
  <1>4. TrueInv'
    <2> SUFFICES ASSUME state = "FIRMWARE_VERIFY"
                 PROVE  TrueInv'
      BY <1>1 DEF TrueInv
    <2>1. UNCHANGED ufm /\ UNCHANGED flash["BMC"]["active"]
      <3>1. "BMC" \in hold
        BY DEF BmcHeld, Tzero
      <3>2. CASE StageCapsule
        BY <1>t, <3>2 DEF StageCapsule, Flash, Images, Hosts, Slots, ufmVars
      <3>3. CASE CorruptFlash
        BY <1>t, <3>1, <3>3 DEF CorruptFlash, Up, Flash, Images, Hosts, Slots, ufmVars
      <3>4. CASE UNCHANGED <<ufm, flash>>
        BY <3>4
      <3> QED
        BY <3>2, <3>3, <3>4 DEF Environment, BmcReset, MailboxIntent, MailboxCheckpoint,
                                MailboxProvision, TimerExpire, ufmVars
    <2>2. Provisioned' = Provisioned
      BY <2>1 DEF Provisioned
    <2>3. CASE UNCHANGED fifo
      BY <1>1, <2>1, <2>2, <2>3 DEF TrueInv
    <2>4. ASSUME NEW e, e.ev \notin Results \cup Verdicts, fifo' = Append(fifo, e)
          PROVE  TrueInv'
      <3>1. \A n \in 1 .. Len(fifo') :
              fifo'[n] = e \/ (n \in 1 .. Len(fifo) /\ fifo'[n] = fifo[n])
        BY <1>t, <2>4, PostedLine
      <3>2. e.ev \notin {"VERIFY_UNPROVISIONED", "VERIFY_DONE"}
        BY <2>4 DEF Verdicts
      <3> QED
        BY <1>1, <2>1, <2>2, <3>1, <3>2 DEF TrueInv
    <2> QED
      BY <1>2, <2>3, <2>4
  <1> QED
    BY <1>3, <1>4

\* A reset of the RoT, and the steps that judge and update nothing.
LEMMA OthersLine ==
    ASSUME TypeInv, Placed, OwnRequests, LineInv, TrueInv,
           RotSteps \/ PowerLoss \/ RuntimeSteps \/ SeamlessSteps \/ UNCHANGED vars
    PROVE  LineInv' /\ TrueInv'
  <1>e. \A n, d : Evt(n, d).ev = n
    BY DEF Evt
  <1>1. CASE DoReboot \/ PowerLoss
    <2>1. /\ state' = "BOOT"
          /\ fifo' = <<Evt("START_STATE_MACHINE", NULL)>>
      BY <1>1 DEF DoReboot, PowerLoss, Reset
    <2>2. Len(fifo') = 1 /\ fifo'[1].ev = "START_STATE_MACHINE"
      BY <1>e, <2>1
    <2>3. None(Results)' /\ None(Verdicts)'
      BY <2>2 DEF None, Results, Verdicts
    <2> QED
      BY <2>1, <2>3 DEF LineInv, TrueInv, Tzero
  <1>2. CASE DoRotErase \/ DoRotCopy \/ DoLockdown
    <2>1. state \in Final /\ UNCHANGED state
      BY <1>2 DEF DoRotErase, DoRotCopy, DoLockdown, Running, Placed, Final
    <2> QED
      BY <2>1 DEF LineInv, TrueInv, Final, Tzero
  <1>3. CASE DoInit
    <2>1. /\ state = "INIT" /\ UNCHANGED state /\ pc = "run" /\ pc' = "wait"
          /\ \E n \in {"INIT_DONE", "INIT_ROT_SECONDARY_BOOTED"} :
                GenerateStateMachineEvent(n, NULL)
      BY <1>3 DEF DoInit, Running
    <2>2. UNCHANGED fifo \/ \E e : /\ e.ev \notin Results \cup Verdicts
                                   /\ e.ev = "UPDATE_REQUESTED" => state \in Tzero
                                   /\ fifo' = Append(fifo, e)
      BY <1>e, <2>1 DEF GenerateStateMachineEvent, Results, Verdicts
    <2>3. LineInv'
      BY <2>1, <2>2, PlainLine
    <2> QED
      BY <2>1, <2>3 DEF TrueInv
  <1>4. CASE RuntimeSteps \/ SeamlessSteps
    <2>1. /\ state \in Tzero /\ pc = "run" /\ pc' = "wait"
      BY <1>4 DEF RuntimeSteps, UpdateAtReset, HandleCheckpoint, HandleProvision, RunNothing,
                  SeamlessSteps, SeamlessUpdate, SeamlessVerify, Running, Tzero
    <2>2. Queues /\ UNCHANGED state
      BY <1>4, RuntimeQueues
    <2>3. ASSUME NEW n \in Events, NEW d \in Data, Posts(n, d)
          PROVE  Evt(n, d).ev \notin Results \cup Verdicts
      <3>1. CASE HostPosts(n, d)
        BY <1>e, <3>1, HostsLine
      <3>2. CASE ThreadPosts(n, d)
        BY <1>e, <2>1, <3>2 DEF ThreadPosts, Tzero, SeamlessEvents, Results, Verdicts
      <3> QED
        BY <2>3, <3>1, <3>2 DEF Posts
    <2>4. UNCHANGED fifo \/ \E e : /\ e.ev \notin Results \cup Verdicts
                                   /\ e.ev = "UPDATE_REQUESTED" => state \in Tzero
                                   /\ fifo' = Append(fifo, e)
      BY <2>1, <2>2, <2>3 DEF Queues
    <2>5. LineInv'
      BY <2>1, <2>2, <2>4, PlainLine
    <2> QED
      BY <2>1, <2>2, <2>5 DEF TrueInv, Tzero
  <1>5. CASE UNCHANGED vars
    <2>1. UNCHANGED <<state, pc, fifo, flash, ufm>>
      BY <1>5 DEF vars, smVars, ufmVars
    <2>2. LineInv'
      BY <2>1, PlainLine
    <2> QED
      BY <2>1, <2>2 DEF TrueInv, Provisioned
  <1> QED
    BY <1>1, <1>2, <1>3, <1>4, <1>5 DEF RotSteps

\* Every state but those of T0 is entered and kept with the BMC held.
LEMMA BmcHeldStep ==
    ASSUME TypeInv, SourceInv, BmcHeld, [Next]_vars
    PROVE  BmcHeld'
  <1>1. CASE Transition
    <2> DEFINE e == Head(fifo)
    <2>1. PICK t \in Successors(e) : Goto(t)
      BY <1>1 DEF Transition
    <2>2. e \in BmcEvents
      BY <1>1, TakenFrom DEF Transition, SourceInv
    <2> SUFFICES ASSUME t \notin Tzero PROVE "BMC" \in hold'
      BY <2>1 DEF Goto, BmcHeld
    <2>3. hold' = hold \cup HeldOnEntry(t, e)
      BY <2>1 DEF Goto
    <2>4. CASE state \notin Tzero
      BY <2>3, <2>4 DEF BmcHeld
    <2>5. CASE state \in Tzero
      <3>1. t \in Tmin1 /\ state \notin Tmin1
        <4>1. \A row \in Transitions : row[1] \in Tzero /\ row[3] \notin Tzero => row[3] \in Tmin1
          BY DEF Transitions, Tzero, Tmin1
        <4>2. Tzero \cap Tmin1 = {} /\ "FIRMWARE_UPDATE" \notin Tzero
          BY DEF Tzero, Tmin1
        <4> QED
          BY <2>5, <4>1, <4>2 DEF Successors, Tzero, Tmin1
      <3>2. HeldOnEntry(t, e) = Hosts \/ HeldOnEntry(t, e) = HeldAtTmin1(e)
        BY <3>1 DEF HeldOnEntry
      <3> QED
        BY <2>2, <2>3, <3>2, BmcIsHeld DEF Hosts
    <2> QED
      BY <2>4, <2>5
  <1>2. CASE DoInit \/ \E f : Reset(f)
    BY <1>2 DEF DoInit, Reset, BmcHeld, Hosts
  <1>3. CASE SeamlessUpdate \/ SeamlessVerify
    BY <1>3 DEF SeamlessUpdate, SeamlessVerify, BmcHeld
  <1>4. CASE UNCHANGED <<state, hold, mux>>
    BY <1>4 DEF BmcHeld
  <1> QED
    BY <1>1, <1>2, <1>3, <1>4, PinSteps

\* Every step keeps the queue in order and its verdicts true.
LEMMA AskStep ==
    ASSUME BmcAsks
    PROVE  TypeInv /\ Placed /\ IntentInv /\ AskInv /\ [Next]_vars => AskInv'
  <1> SUFFICES ASSUME TypeInv, Placed, IntentInv, AskInv, [Next]_vars
               PROVE  AskInv'
    OBVIOUS
  <1>0. OwnRequests
    BY DEF OwnRequests, BmcAsks, Around, TypeInv, TypeOK, Budget
  <1>1. SourceInv' /\ BmcHeld'
    BY <1>0, SourceStep, BmcHeldStep DEF AskInv
  <1>2. LineInv' /\ TrueInv'
    BY <1>0, DispatchLine, VerifyLine, RecoverLine, UpdateLine, HostLine, OthersLine
    DEF AskInv, Next, Thread
  <1> QED
    BY <1>1, <1>2 DEF AskInv

\* Power on.
LEMMA AskInit == Init => AskInv
  <1> SUFFICES ASSUME Init PROVE AskInv
    OBVIOUS
  <1> DEFINE e == Evt("START_STATE_MACHINE", NULL)
  <1>1. e \in BmcEvents /\ e.ev = "START_STATE_MACHINE"
    BY EvtType, NullType DEF Evt, NULL, Events, BmcEvents
  <1>2. /\ state = "BOOT" /\ hold = Hosts /\ ev = e /\ fifo = <<e>>
        /\ cpld = ClearCpld /\ lcpld = ClearCpld
    BY DEF Init
  <1>3. fifo \in Seq(BmcEvents) /\ ev \in BmcEvents
    BY <1>1, <1>2
  <1>4. Len(fifo) = 1 /\ fifo[1].ev = "START_STATE_MACHINE"
    BY <1>1, <1>2
  <1>5. None(Results) /\ None(Verdicts)
    BY <1>4 DEF None, Results, Verdicts
  <1> QED
    BY <1>2, <1>3, <1>5, ClearUnmarked
    DEF AskInv, SourceInv, LineInv, TrueInv, BmcHeld, Hosts

LEMMA AskAlways ==
    ASSUME BmcAsks
    PROVE  Spec => []AskInv
  <1>1. TypeInv /\ Placed /\ IntentInv /\ AskInv /\ [Next]_vars => AskInv'
    BY AskStep
  <1> QED
    BY <1>1, AskInit, IntentAlways, PlacedAlways, TypeInvariant, PTL DEF Spec

\* A step that lets the BMC run.
LEMMA BmcRelease ==
    ASSUME TypeInv, AskInv, [Next]_vars, "BMC" \in hold, "BMC" \notin hold', Provisioned
    PROVE  ActiveVerify("BMC", flash["BMC"]["active"])
  <1>1. Transition
    BY PinSteps DEF DoInit, SeamlessUpdate, SeamlessVerify, Reset, Hosts
  <1>2. PICK t \in Successors(Head(fifo)) : Goto(t)
    BY <1>1 DEF Transition
  <1>3. t \in Tzero /\ state \notin Tzero
    BY <1>2 DEF Goto
  <1>4. /\ state = "FIRMWARE_VERIFY"
        /\ Head(fifo).ev \in {"VERIFY_UNPROVISIONED", "VERIFY_DONE"}
    BY <1>3, LineMoves DEF Final, Tzero
  <1>5. \E n \in 1 .. Len(fifo) : Head(fifo) = fifo[n]
    BY <1>1, TakenLine DEF Transition, TypeInv, TypeOK
  <1> QED
    BY <1>4, <1>5 DEF AskInv, TrueInv

\* enter_tzero: where the PCH asks for no update of the first register, the BMC of
\* a provisioned platform is released only when its active image authenticates at
\* that moment: no update, reset, time-out, recovery, power failure or late event
\* makes the verdict a stale one.
THEOREM BmcReleased ==
    ASSUME BmcAsks
    PROVE  Spec => BmcReleasedVerified
  <1> DEFINE A == ("BMC" \in hold /\ "BMC" \notin hold' /\ Provisioned)
                     => ActiveVerify("BMC", flash["BMC"]["active"])
  <1>1. TypeInv /\ AskInv /\ [Next]_vars => A
    BY BmcRelease
  <1>2. BmcReleasedVerified <=> [][A]_vars
    BY DEF BmcReleasedVerified
  <1>3. Spec => []AskInv
    BY AskAlways
  <1> QED
    BY <1>1, <1>2, <1>3, TypeInvariant, PTL DEF Spec

-----------------------------------------------------------------------------
(* The gate.                                                                *)

\* The gate that takes, serves and locks as PfrSafety!Gate does, and opens for
\* any host.
OpenGate == INSTANCE PfrBootGate WITH
    Guarded <- {}, phase <- GatePhase, running <- Hosts \ hold, fit <- FitHosts,
    secured <- Provisioned

\* What the mapping needs of the states the RoT can be in: it has the flash of no
\* running host, starts with every host held, and locks down with every host held.
GateInv ==
    /\ Placed /\ RunningHostHasFlash /\ LockedDown
    /\ state \in Starting => hold = Hosts

-----------------------------------------------------------------------------
(* The invariant.                                                           *)

LEMMA GateInvStep == TypeInv /\ GateInv /\ Placed' /\ [Next]_vars => GateInv'
  <1> SUFFICES ASSUME TypeInv, GateInv, [Next]_vars, state' \in Starting
               PROVE  hold' = Hosts
    BY HasFlashStep, LockedDownStep DEF GateInv
  <1>1. CASE Transition
    <2>1. PICK t \in Successors(Head(fifo)) : Goto(t)
      BY <1>1 DEF Transition
    <2>2. state' = t /\ t \in Starting /\ state \in Starting
      BY <2>1 DEF Goto, Successors, Transitions, AfterUpdate, Starting
    <2>3. t \notin Tmin1 \cup Tzero
      BY <2>2 DEF Starting, Tmin1, Tzero
    <2>4. hold' = hold
      BY <2>1, <2>2, <2>3 DEF Goto, HeldOnEntry, Starting
    <2> QED
      BY <2>2, <2>4 DEF GateInv
  <1>2. CASE DoInit \/ \E f : Reset(f)
    BY <1>2 DEF DoInit, Reset
  <1>3. CASE SeamlessUpdate \/ SeamlessVerify \/ UNCHANGED <<state, hold, mux>>
    BY <1>3 DEF SeamlessUpdate, SeamlessVerify, GateInv
  <1> QED
    BY <1>1, <1>2, <1>3, PinSteps

LEMMA GateInvAlways == Spec => []GateInv
  <1>1. Init => RunningHostHasFlash /\ LockedDown /\ (state \in Starting => hold = Hosts)
    BY DEF Init, RunningHostHasFlash, LockedDown
  <1>2. Init => LoopInv
    BY DEF Init, LoopInv, Placed, CompletionPending, Working
  <1>3. LoopInv => Placed
    BY DEF LoopInv
  <1>4. Init => GateInv
    BY <1>1, <1>2, <1>3 DEF GateInv
  <1> QED
    BY <1>4, GateInvStep, PlacedAlways, TypeInvariant, PTL DEF Spec

-----------------------------------------------------------------------------
(* How a step changes which active images authenticate.                     *)

SameFit == \A h \in Hosts : flash'[h]["active"] = flash[h]["active"]

\* The phase follows the state, the fit hosts their active images.
LEMMA PhaseOf == UNCHANGED state => UNCHANGED GatePhase
  BY DEF GatePhase

LEMMA ServingIn == state \in Tzero => GatePhase = "serving"
  <1>1. "SYSTEM_LOCKDOWN" \notin Tzero
    BY DEF Tzero
  <1> QED
    BY <1>1, Zenon DEF GatePhase

LEMMA FitOf == SameFit => UNCHANGED FitHosts
  BY DEF SameFit, FitHosts, ActiveVerify

\* A write of one region is work on that host when it is its active region, and
\* nothing to the gate otherwise.
LEMMA RewriteFit ==
    ASSUME TypeInv, NEW i \in Images, NEW s \in Slots, NEW c, NEW w \in Writes(i, s, c),
           Rewrite(i, s, w)
    PROVE  \/ SameFit
           \/ /\ i \in mux \cap Hosts
              /\ \A h \in Hosts \ {i} : flash'[h]["active"] = flash[h]["active"]
  <1>1. /\ \A j \in Images, t \in Slots : j # i \/ t # s => flash'[j][t] = flash[j][t]
        /\ flash'[i][s] = w.c
    BY RewriteCases
  <1>2. "active" \in Slots /\ Hosts \subseteq Images /\ "ROT" \notin Hosts
    BY DEF Slots, Images, Hosts
  <1>3. CASE i \notin Hosts \/ s # "active"
    BY <1>1, <1>2, <1>3 DEF SameFit
  <1>4. CASE i \in Hosts /\ s = "active" /\ ~Reach(i, s)
    <2>1. w.c = flash[i][s]
      BY <1>4, WriteCases
    <2> QED
      BY <1>1, <1>2, <1>4, <2>1 DEF SameFit
  <1>5. CASE i \in Hosts /\ s = "active" /\ Reach(i, s)
    <2>1. i \in mux
      BY <1>2, <1>5 DEF Reach
    <2> QED
      BY <1>1, <1>2, <1>5, <2>1
  <1> QED
    BY <1>3, <1>4, <1>5

-----------------------------------------------------------------------------
(* The steps.                                                               *)

GateStutter == UNCHANGED <<GatePhase, Hosts \ hold, FitHosts, Provisioned>>

\* A step that neither moves the state machine, drives a reset line, provisions
\* nor touches an active image.
LEMMA StillGate == UNCHANGED <<state, hold, ufm>> /\ SameFit => GateStutter
  <1> SUFFICES ASSUME UNCHANGED <<state, hold, ufm>>, SameFit PROVE GateStutter
    OBVIOUS
  <1>1. UNCHANGED GatePhase /\ UNCHANGED FitHosts
    BY PhaseOf, FitOf
  <1>2. UNCHANGED (Hosts \ hold) /\ UNCHANGED Provisioned
    BY DEF Provisioned
  <1> QED
    BY <1>1, <1>2 DEF GateStutter

\* The firmware of a host whose flash the RoT has is rewritten outside T0.
LEMMA ReworkGate ==
    ASSUME GateInv, UNCHANGED <<state, hold, ufm>>, GatePhase = "working",
           NEW i \in mux \cap Hosts,
           \A h \in Hosts \ {i} : flash'[h]["active"] = flash[h]["active"]
    PROVE  OpenGate!Rework({i})
  <1>1. {i} \cap (Hosts \ hold) = {}
    BY DEF GateInv, RunningHostHasFlash
  <1>2. FitHosts' = (FitHosts \ {i}) \cup (FitHosts' \cap {i})
    BY DEF FitHosts, ActiveVerify
  <1>3. FitHosts' \cap {i} \in SUBSET {i}
    OBVIOUS
  <1>4. FitHosts' \in {(FitHosts \ {i}) \cup good : good \in SUBSET {i}}
    BY <1>2, <1>3
  <1>5. UNCHANGED GatePhase
    BY PhaseOf
  <1>6. UNCHANGED <<Hosts \ hold, Provisioned>>
    BY DEF Provisioned
  <1> QED
    BY <1>1, <1>4, <1>5, <1>6 DEF OpenGate!Rework

\* An active image goes bad.
LEMMA DecayGate ==
    ASSUME UNCHANGED <<state, hold, ufm>>, NEW i \in Hosts,
           i \notin hold \/ GatePhase = "serving",
           ~ActiveVerify(i, flash'[i]["active"]),
           \A h \in Hosts \ {i} : flash'[h]["active"] = flash[h]["active"]
    PROVE  OpenGate!Decay(i)
  <1>1. FitHosts' = FitHosts \ {i}
    BY DEF FitHosts, ActiveVerify
  <1>2. UNCHANGED GatePhase
    BY PhaseOf
  <1>3. UNCHANGED <<Hosts \ hold, Provisioned>>
    BY DEF Provisioned
  <1> QED
    BY <1>1, <1>2, <1>3 DEF OpenGate!Decay

\* A reset of the RoT, which may leave an active image half written.
LEMMA PowerGate ==
    ASSUME NEW f, Reset(f), UNCHANGED ufm,
           \A h \in Hosts : flash'[h]["active"] \in {flash[h]["active"], Corrupt}
    PROVE  OpenGate!PowerCycle
  <1>1. state' = "BOOT" /\ hold' = Hosts
    BY DEF Reset
  <1>2. GatePhase' = "working"
    BY <1>1, Zenon DEF GatePhase, Tzero
  <1>3. (Hosts \ hold)' = {}
    BY <1>1
  <1>4. FitHosts' \in SUBSET FitHosts
    BY DEF FitHosts, ActiveVerify, Corrupt, Hosts
  <1>5. UNCHANGED Provisioned
    BY DEF Provisioned
  <1> QED
    BY <1>2, <1>3, <1>4, <1>5 DEF OpenGate!PowerCycle

\* A transition takes hosts on the way out of T0, lets hosts run on the way in,
\* holds all of them on the way to SYSTEM_LOCKDOWN, and is nothing to the gate
\* otherwise.
LEMMA TransitionGate ==
    ASSUME TypeInv, GateInv, Transition
    PROVE  \/ \E hosts \in SUBSET Hosts : OpenGate!Close(hosts) \/ OpenGate!Open(hosts)
           \/ OpenGate!Lock \/ GateStutter
  <1>1. PICK t \in Successors(Head(fifo)) : Goto(t)
    BY DEF Transition
  <1> DEFINE taken == HeldOnEntry(t, Head(fifo))
             freed == IF t \in Tzero /\ state \notin Tzero
                      THEN ReleasedAtTzero(t, Head(fifo).d) ELSE {}
  <1>2. state' = t /\ hold' = (hold \cup taken) \ freed
    BY <1>1 DEF Goto
  <1>3. hold \subseteq Hosts /\ UNCHANGED FitHosts /\ UNCHANGED Provisioned
    BY DEF TypeInv, TypeOK, Transition, FitHosts, ActiveVerify, ufmVars, Provisioned
  <1>4. taken \subseteq Hosts
    BY DEF HeldOnEntry, HeldAtTmin1, Hosts
  <1>5. freed \subseteq Hosts
    BY DEF ReleasedAtTzero, Scope, Hosts
  <1>6. t # "SYSTEM_LOCKDOWN" => (t \in Tmin1 <=> t \in Tmin1 \ {"SYSTEM_LOCKDOWN"})
    OBVIOUS
  <1>7. Tzero \cap Tmin1 = {} /\ "SYSTEM_LOCKDOWN" \in Tmin1
    BY DEF Tzero, Tmin1
  <1>8. state # "SYSTEM_LOCKDOWN"
    BY <1>1, LockdownIsFinal
  <1>9. CASE t = "SYSTEM_LOCKDOWN"
    <2>1. taken = Hosts /\ freed = {} /\ state \notin Tzero
      <3>1. state \notin Tzero
        BY <1>1, <1>9 DEF Successors, Transitions, AfterUpdate, Tzero
      <3>2. taken = Hosts
        BY <1>9 DEF HeldOnEntry
      <3> QED
        BY <1>7, <1>9, <3>1, <3>2
    <2>2. GatePhase = "working" /\ GatePhase' = "locked"
      BY <1>2, <1>7, <1>8, <1>9, <2>1, Zenon DEF GatePhase
    <2>3. (Hosts \ hold)' = {}
      BY <1>2, <1>3, <2>1
    <2> QED
      BY <1>3, <2>2, <2>3 DEF OpenGate!Lock
  <1>10. CASE t # "SYSTEM_LOCKDOWN" /\ t \in Tzero /\ state \notin Tzero
    <2>1. taken = {}
      BY <1>7, <1>10 DEF HeldOnEntry
    <2>2. GatePhase = "working" /\ GatePhase' = "serving"
      BY <1>2, <1>8, <1>10, Zenon DEF GatePhase
    <2>3. (Hosts \ hold)' = (Hosts \ hold) \cup freed
      BY <1>2, <1>3, <1>5, <2>1
    <2>4. OpenGate!Open(freed)
      BY <1>3, <2>2, <2>3 DEF OpenGate!Open
    <2> QED
      BY <1>5, <2>4
  <1>11. CASE t # "SYSTEM_LOCKDOWN" /\ t \notin Tzero /\ state \in Tzero
    <2>1. (Hosts \ hold)' = (Hosts \ hold) \ taken
      BY <1>2, <1>3, <1>11
    <2>2. GatePhase = "serving" /\ GatePhase' = "working"
      BY <1>2, <1>8, <1>11, Zenon DEF GatePhase
    <2>3. OpenGate!Close(taken)
      BY <1>3, <2>1, <2>2 DEF OpenGate!Close
    <2> QED
      BY <1>4, <2>3
  <1>12. CASE t # "SYSTEM_LOCKDOWN" /\ (t \in Tzero <=> state \in Tzero)
    <2>1. UNCHANGED GatePhase
      BY <1>2, <1>8, <1>12, Zenon DEF GatePhase
    <2>2. UNCHANGED hold
      <3>1. freed = {}
        BY <1>12
      <3>2. CASE t \in Tmin1 /\ state \notin Tmin1
        <4>1. state \in Starting
          BY <1>1, <1>7, <1>12, <3>2
          DEF Successors, Transitions, AfterUpdate, Starting, Tmin1, Tzero
        <4> QED
          BY <1>2, <1>4, <3>1, <4>1 DEF GateInv
      <3>3. CASE ~(t \in Tmin1 /\ state \notin Tmin1)
        <4>1. taken = {}
          BY <1>12, <3>3 DEF HeldOnEntry
        <4> QED
          BY <1>2, <3>1, <4>1
      <3> QED
        BY <3>2, <3>3
    <2>3. UNCHANGED (Hosts \ hold)
      BY <2>2
    <2> QED
      BY <1>3, <2>1, <2>3 DEF GateStutter
  <1> QED
    BY <1>9, <1>10, <1>11, <1>12

\* What handle_recovery, handle_update_requested and the RoT's own recovery write
\* while the gate is working.
LEMMA WritesGate ==
    ASSUME TypeInv, GateInv,
           RecoverSteps \/ UpdateSteps \/ DoRotErase \/ DoRotCopy
    PROVE  GateStutter \/ \E hosts \in SUBSET Hosts : OpenGate!Rework(hosts)
  <1>1. UNCHANGED <<state, hold, ufm>>
    BY DEF RecoverSteps, RecoveryStart, RecoverImages, RecoveryDone, UpdateSteps, UpdateStart,
           UpdateSelect, UpdateCopy, UpdateRefused, UpdateProgram, UpdateEnd, DoRotErase, DoRotCopy,
           pinVars, ufmVars
  <1>2. state \in {"FIRMWARE_RECOVERY", "FIRMWARE_UPDATE", "ROT_RECOVERY"}
    BY DEF RecoverSteps, RecoveryStart, RecoverImages, RecoveryDone, UpdateSteps, UpdateStart,
           UpdateSelect, UpdateBypass, UpdateTampered, UpdateRecoveryRegion, UpdateActiveRegion,
           UpdateCopy, UpdateRefused, UpdateProgram, UpdateEnd, DoRotErase, DoRotCopy, Running,
           GateInv, Placed
  <1>3. GatePhase = "working"
    <2>1. state # "SYSTEM_LOCKDOWN" /\ state \notin Tzero
      BY <1>2 DEF Tzero
    <2> QED
      BY <2>1, Zenon DEF GatePhase
  <1>4. ASSUME NEW i \in Images, NEW s \in Slots, NEW c, NEW w \in Writes(i, s, c),
               Rewrite(i, s, w)
        PROVE  GateStutter \/ \E hosts \in SUBSET Hosts : OpenGate!Rework(hosts)
    <2>1. CASE SameFit
      BY <1>1, <2>1, StillGate
    <2>2. CASE /\ i \in mux \cap Hosts
               /\ \A h \in Hosts \ {i} : flash'[h]["active"] = flash[h]["active"]
      <3>1. OpenGate!Rework({i})
        BY <1>1, <1>3, <2>2, ReworkGate
      <3> QED
        BY <2>2, <3>1
    <2> QED
      BY <1>4, <2>1, <2>2, RewriteFit
  <1>5. CASE UNCHANGED flash
    BY <1>1, <1>5, StillGate DEF SameFit
  <1>6. CASE RecoverImages
    <2>1. PICK k \in NextCalls : RecoverNothing(k) \/ RecoverRegion(k) \/ RecoverFetch(k)
      BY <1>6 DEF RecoverImages
    <2>2. k \in 1 .. 4
      BY <2>1 DEF NextCalls, TypeInv, TypeOK, Recovery
    <2> DEFINE h == Step(k).h
               p == PlanOf(h)
    <2>3. h \in Hosts /\ h \in Images
      BY <2>2, StepType DEF Images
    <2>4. CASE RecoverNothing(k)
      BY <1>5, <2>4 DEF RecoverNothing
    <2>5. CASE RecoverRegion(k)
      <3>1. p.slot \in Slots
        BY <2>3, <2>5, PlanType DEF RecoverRegion, Slots
      <3>2. PICK w \in Writes(h, p.slot, p.with) : Rewrite(h, p.slot, w)
        BY <2>5 DEF RecoverRegion
      <3> QED
        BY <2>3, <3>1, <3>2, <1>4
    <2>6. CASE RecoverFetch(k)
      <3>1. PICK w \in Writes(h, "staging", p.with) : Rewrite(h, "staging", w)
        BY <2>6 DEF RecoverFetch
      <3> QED
        BY <2>3, <3>1, <1>4 DEF Slots
    <2> QED
      BY <2>1, <2>4, <2>5, <2>6
  <1>7. CASE UpdateCopy
    <2>1. \/ UNCHANGED flash
          \/ \E w \in Writes("PCH", "staging", Read("BMC", "staging")) :
                Rewrite("PCH", "staging", w)
      BY <1>7 DEF UpdateCopy
    <2> QED
      BY <1>4, <1>5, <2>1 DEF Slots, Images, Hosts
  <1>8. CASE UpdateProgram
    <2> DEFINE c == Installed(upd.image, upd.sel, Read(upd.image, "staging"))
    <2>1. upd.image \in Images /\ upd.sel \in Slots
      BY <1>8 DEF UpdateProgram, TypeInv, TypeOK, Aimed, Update, Slots
    <2>2. \E w \in Writes(upd.image, upd.sel, c) : Rewrite(upd.image, upd.sel, w)
      BY <1>8 DEF UpdateProgram
    <2> QED
      BY <1>4, <2>1, <2>2
  <1>9. CASE DoRotErase
    <2>1. SameFit
      BY <1>9 DEF DoRotErase, SameFit, TypeInv, TypeOK, Flash, Images, Hosts
    <2> QED
      BY <1>1, <2>1, StillGate
  <1>10. CASE DoRotCopy
    <2>1. \E w \in Writes("ROT", "active", flash["ROT"]["recovery"]) :
             Rewrite("ROT", "active", w)
      BY <1>10 DEF DoRotCopy
    <2> QED
      BY <1>4, <2>1 DEF Images, Slots
  <1>11. RecoveryStart \/ RecoveryDone \/ UpdateStart \/ UpdateSelect \/ UpdateRefused \/ UpdateEnd
           => UNCHANGED flash
    BY DEF RecoveryStart, RecoveryDone, UpdateStart, UpdateSelect, UpdateRefused, UpdateEnd
  <1> QED
    BY <1>5, <1>6, <1>7, <1>8, <1>9, <1>10, <1>11 DEF RecoverSteps, UpdateSteps

\* A seamless update, in T0, that fails half way.
LEMMA SeamlessGate ==
    ASSUME TypeInv, SeamlessSteps
    PROVE  GateStutter \/ \E host \in Hosts : OpenGate!Decay(host)
  <1>1. UNCHANGED <<state, hold, ufm>> /\ state \in Tzero
    BY DEF SeamlessSteps, SeamlessUpdate, SeamlessVerify, Running, ufmVars, Tzero
  <1>2. GatePhase = "serving"
    BY <1>1, ServingIn
  <1>3. CASE SeamlessVerify
    BY <1>1, <1>3, StillGate DEF SeamlessVerify, SameFit
  <1>4. CASE SeamlessUpdate
    <2> DEFINE c == IF (ev.d.src = "BmcUpdateIntent2" \/ cpld.toPch) /\ Copied.kind = "PCH"
                      THEN Copied ELSE flash["PCH"]["staging"]
    <2>1. PICK f \in {0, 1} :
            flash' = [flash EXCEPT !["PCH"]["staging"] = c,
                                   !["PCH"]["active"] = IF f = 1 THEN Corrupt ELSE @]
      BY <1>4 DEF SeamlessUpdate
    <2> HIDE DEF c
    <2>2. CASE f = 0
      <3>1. SameFit
        BY <2>1, <2>2 DEF SameFit, TypeInv, TypeOK, Flash, Images, Hosts, Slots
      <3> QED
        BY <1>1, <3>1, StillGate
    <2>3. CASE f = 1
      <3>1. /\ flash'["PCH"]["active"] = Corrupt
            /\ \A h \in Hosts \ {"PCH"} : flash'[h]["active"] = flash[h]["active"]
        BY <2>1, <2>3 DEF TypeInv, TypeOK, Flash, Images, Hosts, Slots
      <3>2. ~ActiveVerify("PCH", flash'["PCH"]["active"]) /\ "PCH" \in Hosts
        BY <3>1 DEF ActiveVerify, Corrupt, Hosts
      <3> QED
        BY <1>1, <1>2, <3>1, <3>2, DecayGate
    <2> QED
      BY <2>2, <2>3
  <1> QED
    BY <1>3, <1>4 DEF SeamlessSteps

\* What the hosts, the timers and the flash parts do.
LEMMA HostGate ==
    ASSUME TypeInv, Environment, ~PowerLoss
    PROVE  GateStutter \/ \E host \in Hosts : OpenGate!Decay(host)
  <1>1. UNCHANGED <<state, hold, ufm>>
    BY DEF Environment, BmcReset, MailboxIntent, MailboxCheckpoint, MailboxProvision, TimerExpire,
           StageCapsule, CorruptFlash, smVars, pinVars, ufmVars
  <1>2. CASE UNCHANGED flash
    BY <1>1, <1>2, StillGate DEF SameFit
  <1>3. CASE StageCapsule
    <2>1. PICK i, c : flash' = [flash EXCEPT ![i]["staging"] = c]
      BY <1>3 DEF StageCapsule
    <2>2. SameFit
      BY <2>1 DEF SameFit, TypeInv, TypeOK, Flash, Images, Hosts, Slots
    <2> QED
      BY <1>1, <2>2, StillGate
  <1>4. CASE CorruptFlash
    <2>1. PICK h \in Hosts, slot \in {"active", "recovery"} :
            Up(h) /\ flash' = [flash EXCEPT ![h][slot] = Corrupt]
      BY <1>4 DEF CorruptFlash
    <2>2. CASE slot = "recovery"
      <3>1. SameFit
        BY <2>1, <2>2 DEF SameFit, TypeInv, TypeOK, Flash, Images, Hosts, Slots
      <3> QED
        BY <1>1, <3>1, StillGate
    <2>3. CASE slot = "active"
      <3>1. /\ flash'[h]["active"] = Corrupt /\ h \notin hold
            /\ \A g \in Hosts \ {h} : flash'[g]["active"] = flash[g]["active"]
        BY <2>1, <2>3 DEF Up, TypeInv, TypeOK, Flash, Images, Hosts, Slots
      <3>2. ~ActiveVerify(h, flash'[h]["active"])
        BY <3>1 DEF ActiveVerify, Corrupt, Hosts
      <3> QED
        BY <1>1, <3>1, <3>2, DecayGate
    <2> QED
      BY <2>2, <2>3
  <1> QED
    BY <1>2, <1>3, <1>4
    DEF Environment, BmcReset, MailboxIntent, MailboxCheckpoint, MailboxProvision, TimerExpire

\* Resets of the RoT, and the steps that are nothing to the gate or provision it.
LEMMA OthersGate ==
    ASSUME TypeInv, GateInv,
           \/ DoInit \/ DoLockdown \/ DoReboot \/ PowerLoss \/ VerifySteps
           \/ RuntimeSteps \/ RunInPlace \/ Discard \/ UNCHANGED vars
    PROVE  GateStutter \/ OpenGate!PowerCycle \/ OpenGate!Provision
  <1>1. CASE DoInit
    <2>1. UNCHANGED <<state, hold, ufm, flash>>
      BY <1>1 DEF DoInit, Running, GateInv, Starting, ufmVars
    <2> QED
      BY <2>1, StillGate DEF SameFit
  <1>2. CASE DoReboot
    BY <1>2, PowerGate DEF DoReboot, ufmVars
  <1>3. CASE PowerLoss
    <2>1. PICK f : Reset(f)
      BY <1>3 DEF PowerLoss
    <2>2. UNCHANGED flash \/ \E x : flash' = [flash EXCEPT ![x[1]][x[2]] = Corrupt]
      BY <1>3 DEF PowerLoss
    <2>3. ASSUME NEW h \in Hosts
          PROVE  flash'[h]["active"] \in {flash[h]["active"], Corrupt}
      <3>1. ASSUME NEW i, NEW s, flash' = [flash EXCEPT ![i][s] = Corrupt]
            PROVE  flash'[h]["active"] \in {flash[h]["active"], Corrupt}
        <4>1. h \in DOMAIN flash /\ "active" \in DOMAIN flash[h]
          BY DEF TypeInv, TypeOK, Flash, Images, Slots
        <4>2. flash'[h] = IF h = i THEN [flash[h] EXCEPT ![s] = Corrupt] ELSE flash[h]
          BY <3>1, <4>1
        <4> QED
          BY <4>1, <4>2
      <3> QED
        BY <2>2, <3>1
    <2>4. UNCHANGED ufm
      BY <1>3 DEF PowerLoss, ufmVars
    <2> QED
      BY <2>1, <2>3, <2>4, PowerGate
  <1>4. CASE HandleProvision
    <2>1. UNCHANGED <<state, hold, flash>> /\ state \in Tzero
      BY <1>4 DEF HandleProvision, pinVars, Tzero
    <2>2. GatePhase = "serving" /\ UNCHANGED GatePhase
      BY <2>1, PhaseOf, ServingIn
    <2>3. UNCHANGED FitHosts
      BY <2>1, FitOf DEF SameFit
    <2>4. Provisioned' \in BOOLEAN
      BY Zenon DEF Provisioned
    <2>5. UNCHANGED (Hosts \ hold)
      BY <2>1
    <2> QED
      BY <2>2, <2>3, <2>4, <2>5 DEF OpenGate!Provision
  <1>5. CASE DoLockdown \/ VerifySteps \/ UpdateAtReset \/ HandleCheckpoint \/ RunNothing
               \/ RunInPlace \/ Discard \/ UNCHANGED vars
    <2>1. UNCHANGED <<state, hold, ufm, flash>>
      BY <1>5 DEF DoLockdown, VerifySteps, VerifyUnprovisioned, VerifyPendingUpdate, VerifyImages,
                  UpdateAtReset, HandleCheckpoint, RunNothing, RunInPlace, Discard,
                  vars, smVars, pinVars, ufmVars
    <2> QED
      BY <2>1, StillGate DEF SameFit
  <1> QED
    BY <1>1, <1>2, <1>3, <1>4, <1>5 DEF RuntimeSteps

\* Every step of the state machine is one of the gate, or nothing to it.
LEMMA GateStep ==
    ASSUME TypeInv, GateInv, [Next]_vars
    PROVE  [OpenGate!Next]_<<GatePhase, Hosts \ hold, FitHosts, Provisioned>>
  <1>1. CASE Transition
    BY <1>1, TransitionGate DEF OpenGate!Next, GateStutter
  <1>2. CASE RecoverSteps \/ UpdateSteps \/ DoRotErase \/ DoRotCopy
    BY <1>2, WritesGate DEF OpenGate!Next, GateStutter
  <1>3. CASE SeamlessSteps
    BY <1>3, SeamlessGate DEF OpenGate!Next, GateStutter
  <1>4. CASE Environment /\ ~PowerLoss
    BY <1>4, HostGate DEF OpenGate!Next, GateStutter
  <1>5. CASE \/ DoInit \/ DoLockdown \/ DoReboot \/ PowerLoss \/ VerifySteps
             \/ RuntimeSteps \/ RunInPlace \/ Discard \/ UNCHANGED vars
    BY <1>5, OthersGate DEF OpenGate!Next, GateStutter
  <1> QED
    BY <1>1, <1>2, <1>3, <1>4, <1>5 DEF Next, Thread, Dispatch, RotSteps

-----------------------------------------------------------------------------
(* The theorems.                                                            *)

\* Power on.
LEMMA GateInit == Init => OpenGate!Init /\ Gate!Init
  <1> SUFFICES ASSUME Init
               PROVE  /\ GatePhase = "working" /\ Hosts \ hold = {}
                      /\ FitHosts \subseteq Hosts /\ Provisioned \in BOOLEAN
    BY DEF OpenGate!Init, Gate!Init
  <1>1. state \notin Tzero /\ state # "SYSTEM_LOCKDOWN" /\ hold = Hosts
    BY DEF Init, Tzero
  <1>2. GatePhase = "working"
    BY <1>1, Zenon DEF GatePhase
  <1>3. Provisioned \in BOOLEAN
    BY Zenon DEF Provisioned
  <1> QED
    BY <1>1, <1>2, <1>3 DEF FitHosts

\* AspeedStateMachine, state_table: on every platform, with whatever requests, a
\* host is taken only on the way out of T0 and released only on the way in, the
\* firmware of a host is changed by the RoT only while that host is in reset, a
\* seamless update aside, the platform is provisioned only in T0, and lockdown
\* ends with the power.
THEOREM ImplementsOpenGate == Spec => OpenGate!Spec
  BY GateInit, GateStep, GateInvAlways, TypeInvariant, PTL
  DEF Spec, OpenGate!Spec, OpenGate!gate

\* The gate that PfrSafety states opens as this one does, for a fit BMC.
LEMMA GuardedStep ==
    ASSUME TypeInv, GateInv, AskInv, [Next]_vars
    PROVE  [Gate!Next]_<<GatePhase, Hosts \ hold, FitHosts, Provisioned>>
  <1>1. CASE UNCHANGED <<GatePhase, Hosts \ hold, FitHosts, Provisioned>>
    BY <1>1
  <1>2. ASSUME NEW hosts \in SUBSET Hosts, OpenGate!Open(hosts)
        PROVE  Gate!Open(hosts)
    <2>1. ASSUME Provisioned, "BMC" \in hosts \ (Hosts \ hold)
          PROVE  "BMC" \in FitHosts
      <3>1. "BMC" \in hold /\ "BMC" \notin hold'
        BY <1>2, <2>1 DEF OpenGate!Open
      <3>2. ActiveVerify("BMC", flash["BMC"]["active"])
        BY <2>1, <3>1, BmcRelease
      <3> QED
        BY <3>2 DEF FitHosts, Hosts
    <2>2. Provisioned => (hosts \ (Hosts \ hold)) \cap {"BMC"} \subseteq FitHosts
      BY <2>1
    <2> QED
      BY <1>2, <2>2 DEF OpenGate!Open, Gate!Open
  <1>3. /\ \A hosts : (OpenGate!Close(hosts) => Gate!Close(hosts))
                      /\ (OpenGate!Rework(hosts) => Gate!Rework(hosts))
        /\ \A host : OpenGate!Decay(host) => Gate!Decay(host)
        /\ OpenGate!Lock => Gate!Lock
        /\ OpenGate!Provision => Gate!Provision
        /\ OpenGate!PowerCycle => Gate!PowerCycle
    BY DEF OpenGate!Close, Gate!Close, OpenGate!Rework, Gate!Rework, OpenGate!Decay, Gate!Decay,
           OpenGate!Lock, Gate!Lock, OpenGate!Provision, Gate!Provision,
           OpenGate!PowerCycle, Gate!PowerCycle
  <1> QED
    BY <1>1, <1>2, <1>3, GateStep DEF OpenGate!Next, Gate!Next

\* The gate of PfrSafety, where the PCH asks for no update of the first register:
\* the BMC of a provisioned platform is released only with an image that
\* authenticates.
THEOREM GateImplemented ==
    ASSUME BmcAsks
    PROVE  Spec => ImplementsGate
  <1>1. TypeInv /\ GateInv /\ AskInv /\ [Next]_vars
          => [Gate!Next]_<<GatePhase, Hosts \ hold, FitHosts, Provisioned>>
    BY GuardedStep
  <1>2. Spec => []AskInv
    BY AskAlways
  <1> QED
    BY <1>1, <1>2, GateInit, GateInvAlways, TypeInvariant, PTL
    DEF Spec, ImplementsGate, Gate!Spec, Gate!gate

-----------------------------------------------------------------------------
(* Verdicts in order: RECOVERY_DONE is queued once, and no VERIFY_DONE that  *)
(* was posted before the recovery is taken after it.                        *)

Announced(name) == \E n \in 1 .. Len(fifo) : fifo[n].ev = name
InOrder ==
    \A m, n \in 1 .. Len(fifo) :
        m < n /\ fifo[m].ev = "RECOVERY_DONE" => fifo[n].ev \notin {"RECOVERY_DONE", "VERIFY_DONE"}
OrderInv ==
    /\ InOrder
    /\ Announced("RECOVERY_DONE") =>
         \/ state \in {"SYSTEM_LOCKDOWN", "SYSTEM_REBOOT"}
         \/ state \in {"ROT_RECOVERY", "FIRMWARE_RECOVERY"} /\ pc = "wait"

\* Taking an event keeps the order, and nothing that matters is behind
\* RECOVERY_DONE.
LEMMA TakenOrder ==
    ASSUME fifo \in Seq(Event), Take, InOrder
    PROVE  /\ InOrder'
           /\ \A name : Announced(name)' => Announced(name)
           /\ Announced(Head(fifo).ev)
           /\ Head(fifo).ev = "RECOVERY_DONE" =>
                ~Announced("RECOVERY_DONE")' /\ ~Announced("VERIFY_DONE")'
  <1>1. \A k \in 1 .. Len(fifo') : fifo'[k] = fifo[k + 1] /\ k + 1 \in 1 .. Len(fifo)
    BY DEF Take
  <1>2. Len(fifo') \in Nat /\ Head(fifo) = fifo[1] /\ 1 \in 1 .. Len(fifo) /\ Len(fifo) \in Nat
    BY DEF Take
  <1>3. InOrder'
    <2> SUFFICES ASSUME NEW m \in 1 .. Len(fifo'), NEW n \in 1 .. Len(fifo'), m < n,
                        fifo'[m].ev = "RECOVERY_DONE"
                 PROVE  fifo'[n].ev \notin {"RECOVERY_DONE", "VERIFY_DONE"}
      BY DEF InOrder
    <2>1. /\ fifo'[m] = fifo[m + 1] /\ fifo'[n] = fifo[n + 1] /\ m + 1 < n + 1
          /\ m + 1 \in 1 .. Len(fifo) /\ n + 1 \in 1 .. Len(fifo)
      BY <1>1, <1>2
    <2> QED
      BY <2>1 DEF InOrder
  <1>4. \A name : Announced(name)' => Announced(name)
    BY <1>1 DEF Announced
  <1>5. Announced(Head(fifo).ev)
    BY <1>2 DEF Announced
  <1>6. ASSUME Head(fifo).ev = "RECOVERY_DONE", NEW k \in 1 .. Len(fifo')
        PROVE  fifo'[k].ev \notin {"RECOVERY_DONE", "VERIFY_DONE"}
    <2>1. k + 1 \in 1 .. Len(fifo) /\ 1 < k + 1 /\ fifo'[k] = fifo[k + 1]
      BY <1>1, <1>2
    <2> QED
      BY <1>2, <1>6, <2>1 DEF InOrder
  <1> QED
    BY <1>3, <1>4, <1>5, <1>6 DEF Announced

\* So does queueing one, unless a verdict would follow RECOVERY_DONE.
LEMMA PostedOrder ==
    ASSUME fifo \in Seq(Event), InOrder, NEW e, fifo' = Append(fifo, e),
           e.ev \in {"RECOVERY_DONE", "VERIFY_DONE"} => ~Announced("RECOVERY_DONE")
    PROVE  /\ InOrder'
           /\ \A name : Announced(name)' => Announced(name) \/ e.ev = name
  <1>1. /\ Len(fifo') = Len(fifo) + 1 /\ fifo'[Len(fifo) + 1] = e /\ Len(fifo) \in Nat
        /\ \A k \in 1 .. Len(fifo) : fifo'[k] = fifo[k]
    OBVIOUS
  <1>2. InOrder'
    <2> SUFFICES ASSUME NEW m \in 1 .. Len(fifo'), NEW n \in 1 .. Len(fifo'), m < n,
                        fifo'[m].ev = "RECOVERY_DONE"
                 PROVE  fifo'[n].ev \notin {"RECOVERY_DONE", "VERIFY_DONE"}
      BY DEF InOrder
    <2>1. m \in 1 .. Len(fifo) /\ fifo'[m] = fifo[m]
      BY <1>1
    <2>2. CASE n \in 1 .. Len(fifo)
      BY <1>1, <2>1, <2>2 DEF InOrder
    <2>3. CASE n = Len(fifo) + 1
      BY <1>1, <2>1, <2>3 DEF Announced
    <2> QED
      BY <1>1, <2>2, <2>3
  <1>3. \A name : Announced(name)' => Announced(name) \/ e.ev = name
    BY <1>1 DEF Announced
  <1> QED
    BY <1>2, <1>3

\* A step that posts neither verdict, where none waits that it would disturb.
LEMMA PlainOrder ==
    ASSUME TypeInv, OrderInv, UNCHANGED state,
           UNCHANGED fifo \/ \E e : /\ e.ev \notin {"RECOVERY_DONE", "VERIFY_DONE"}
                                    /\ fifo' = Append(fifo, e),
           UNCHANGED pc \/ pc' = "wait" \/ ~Announced("RECOVERY_DONE")
             \/ state \notin {"ROT_RECOVERY", "FIRMWARE_RECOVERY"}
    PROVE  OrderInv' /\ (Announced("VERIFY_DONE")' => Announced("VERIFY_DONE"))
  <1>t. fifo \in Seq(Event)
    BY DEF TypeInv, TypeOK
  <1>1. InOrder' /\ \A name \in {"RECOVERY_DONE", "VERIFY_DONE"} :
                       Announced(name)' => Announced(name)
    <2>1. CASE UNCHANGED fifo
      BY <2>1 DEF OrderInv, InOrder, Announced
    <2>2. ASSUME NEW e, e.ev \notin {"RECOVERY_DONE", "VERIFY_DONE"}, fifo' = Append(fifo, e)
          PROVE  InOrder' /\ \A name \in {"RECOVERY_DONE", "VERIFY_DONE"} :
                                Announced(name)' => Announced(name)
      BY <1>t, <2>2, PostedOrder DEF OrderInv
    <2> QED
      BY <2>1, <2>2
  <1> QED
    BY <1>1 DEF OrderInv

\* The hosts and the timers, and the handlers that judge nothing.
LEMMA OthersOrder ==
    ASSUME TypeInv, OrderInv, UNCHANGED state,
           \/ Hears /\ UNCHANGED pc
           \/ Queues /\ state \notin {"FIRMWARE_VERIFY", "ROT_RECOVERY", "FIRMWARE_RECOVERY"}
    PROVE  OrderInv' /\ (Announced("VERIFY_DONE")' => Announced("VERIFY_DONE"))
  <1>1. ASSUME NEW n \in Events, NEW d \in Data,
               \/ HostPosts(n, d)
               \/ Posts(n, d)
                  /\ state \notin {"FIRMWARE_VERIFY", "ROT_RECOVERY", "FIRMWARE_RECOVERY"}
        PROVE  Evt(n, d).ev \notin {"RECOVERY_DONE", "VERIFY_DONE"}
    <2>1. Evt(n, d).ev = n
      BY DEF Evt
    <2>2. CASE HostPosts(n, d)
      <3>1. Around \in Surroundings
        BY AroundType DEF TypeInv, TypeOK
      <3> QED
        BY <2>1, <2>2, <3>1 DEF HostPosts, Surroundings, Request
    <2>3. CASE ThreadPosts(n, d)
                 /\ state \notin {"FIRMWARE_VERIFY", "ROT_RECOVERY", "FIRMWARE_RECOVERY"}
      BY <2>1, <2>3 DEF ThreadPosts, SeamlessEvents
    <2> QED
      BY <1>1, <2>2, <2>3 DEF Posts
  <1>2. UNCHANGED fifo \/ \E e : /\ e.ev \notin {"RECOVERY_DONE", "VERIFY_DONE"}
                                 /\ fifo' = Append(fifo, e)
    BY <1>1 DEF Hears, Queues
  <1> QED
    BY <1>2, PlainOrder

\* do_init and do_rot_recovery: RECOVERY_DONE is the last thing posted.
LEMMA RotOrder ==
    ASSUME TypeInv, Placed, OrderInv, DoInit \/ DoRotErase \/ DoRotCopy \/ DoLockdown
    PROVE  OrderInv' /\ UNCHANGED state
             /\ (Announced("VERIFY_DONE")' => Announced("VERIFY_DONE"))
  <1>t. fifo \in Seq(Event)
    BY DEF TypeInv, TypeOK
  <1>0. UNCHANGED state
    BY DEF DoInit, DoRotErase, DoRotCopy, DoLockdown
  <1>e. \A n, d : Evt(n, d).ev = n
    BY DEF Evt
  <1>1. CASE DoInit \/ DoRotErase \/ DoLockdown
    <2>1. UNCHANGED fifo \/ \E e : /\ e.ev \notin {"RECOVERY_DONE", "VERIFY_DONE"}
                                   /\ fifo' = Append(fifo, e)
      <3>1. UNCHANGED fifo \/ \E n \in {"INIT_DONE", "INIT_ROT_SECONDARY_BOOTED",
                                        "RECOVERY_FAILED"} : GenerateStateMachineEvent(n, NULL)
        BY <1>1 DEF DoInit, DoRotErase, DoLockdown
      <3> QED
        BY <1>e, <3>1 DEF GenerateStateMachineEvent
    <2>2. ~Announced("RECOVERY_DONE") \/ pc' = "wait"
      BY <1>1 DEF DoInit, DoRotErase, DoLockdown, Running, OrderInv
    <2> QED
      BY <1>0, <2>1, <2>2, PlainOrder
  <1>2. CASE DoRotCopy
    <2>1. pc = "rot" /\ pc' = "wait" /\ state = "ROT_RECOVERY"
      BY <1>2 DEF DoRotCopy, Placed
    <2>2. ~Announced("RECOVERY_DONE")
      BY <2>1 DEF OrderInv
    <2>3. PICK n \in {"RECOVERY_DONE", "RECOVERY_FAILED"} : GenerateStateMachineEvent(n, NULL)
      BY <1>2 DEF DoRotCopy
    <2>4. CASE UNCHANGED fifo
      BY <1>0, <2>2, <2>4, PlainOrder
    <2>5. CASE fifo' = Append(fifo, Evt(n, NULL))
      <3>1. InOrder' /\ \A name : Announced(name)' => Announced(name) \/ n = name
        BY <1>e, <1>t, <2>2, <2>5, PostedOrder DEF OrderInv
      <3> QED
        BY <1>0, <2>1, <3>1 DEF OrderInv
    <2> QED
      BY <2>3, <2>4, <2>5 DEF GenerateStateMachineEvent
  <1> QED
    BY <1>1, <1>2

\* handle_recovery: likewise.
LEMMA RecoverOrder ==
    ASSUME TypeInv, Placed, OrderInv, RecoverSteps
    PROVE  OrderInv' /\ UNCHANGED state
  <1>t. fifo \in Seq(Event)
    BY DEF TypeInv, TypeOK
  <1>e. \A n, d : Evt(n, d).ev = n
    BY DEF Evt
  <1>0. /\ UNCHANGED state /\ state = "FIRMWARE_RECOVERY" /\ pc # "wait"
    BY DEF RecoverSteps, RecoveryStart, RecoverImages, RecoveryDone, Running, Placed
  <1>1. ~Announced("RECOVERY_DONE")
    BY <1>0 DEF OrderInv
  <1>2. \/ UNCHANGED fifo
        \/ pc' = "wait" /\ \E n \in {"RECOVERY_DONE", "RECOVERY_FAILED"} : \E d :
                             GenerateStateMachineEvent(n, d)
    <2>1. ASSUME NEW r, RecoveryEnd(r)
          PROVE  pc' = "wait" /\ \E n \in {"RECOVERY_DONE", "RECOVERY_FAILED"} : \E d :
                                   GenerateStateMachineEvent(n, d)
      BY <2>1, Zenon DEF RecoveryEnd
    <2>2. \A k, r : RecoveryGoesOn(k, r) => RecoveryEnd(r) \/ UNCHANGED fifo
      BY DEF RecoveryGoesOn
    <2>3. UNCHANGED fifo \/ \E r : RecoveryEnd(r)
      <3>1. CASE RecoverImages
        <4>1. UNCHANGED fifo \/ \E k, r : RecoveryGoesOn(k, r)
          BY <3>1 DEF RecoverImages, RecoverNothing, RecoverRegion, RecoverFetch
        <4> QED
          BY <4>1, <2>2
      <3> QED
        BY <3>1 DEF RecoverSteps, RecoveryStart, RecoveryDone
    <2> QED
      BY <2>1, <2>3
  <1>3. CASE UNCHANGED fifo
    BY <1>0, <1>1, <1>3, PlainOrder
  <1>4. ASSUME pc' = "wait", NEW n \in {"RECOVERY_DONE", "RECOVERY_FAILED"}, NEW d,
               fifo' = Append(fifo, Evt(n, d))
        PROVE  OrderInv'
    <2>1. InOrder'
      BY <1>e, <1>t, <1>1, <1>4, PostedOrder DEF OrderInv
    <2> QED
      BY <1>0, <1>4, <2>1 DEF OrderInv
  <1> QED
    BY <1>0, <1>2, <1>3, <1>4 DEF GenerateStateMachineEvent

\* handle_image_verification runs only when no recovery is reported.
LEMMA VerifyOrder ==
    ASSUME TypeInv, OrderInv, VerifySteps
    PROVE  /\ OrderInv' /\ UNCHANGED state /\ state = "FIRMWARE_VERIFY"
           /\ ~VerifyImages => (Announced("VERIFY_DONE")' => Announced("VERIFY_DONE"))
  <1>t. fifo \in Seq(Event)
    BY DEF TypeInv, TypeOK
  <1>e. \A n, d : Evt(n, d).ev = n
    BY DEF Evt
  <1>0. UNCHANGED state /\ state = "FIRMWARE_VERIFY" /\ pc = "run"
    BY DEF VerifySteps, VerifyUnprovisioned, VerifyPendingUpdate, VerifyImages, Running
  <1>1. ~Announced("RECOVERY_DONE")
    BY <1>0 DEF OrderInv
  <1>2. CASE VerifyUnprovisioned \/ VerifyPendingUpdate
    <2>1. \E n \in {"VERIFY_UNPROVISIONED", "UPDATE_REQUESTED"} : \E d :
             GenerateStateMachineEvent(n, d)
      BY <1>2 DEF VerifyUnprovisioned, VerifyPendingUpdate
    <2>2. UNCHANGED fifo \/ \E e : /\ e.ev \notin {"RECOVERY_DONE", "VERIFY_DONE"}
                                   /\ fifo' = Append(fifo, e)
      BY <1>e, <2>1 DEF GenerateStateMachineEvent
    <2> QED
      BY <1>0, <1>1, <2>2, PlainOrder
  <1>3. CASE VerifyImages
    <2>1. PICK n \in {"VERIFY_DONE", "VERIFY_FAILED", "RECOVERY_FAILED"} :
            GenerateStateMachineEvent(n, ev.d)
      BY <1>3 DEF VerifyImages, VerifyOutcome
    <2>2. CASE UNCHANGED fifo
      BY <1>0, <1>1, <1>3, <2>2, PlainOrder
    <2>3. CASE fifo' = Append(fifo, Evt(n, ev.d))
      <3>1. InOrder' /\ \A name : Announced(name)' => Announced(name) \/ n = name
        BY <1>e, <1>t, <1>1, <2>3, PostedOrder DEF OrderInv
      <3> QED
        BY <1>0, <1>1, <1>3, <3>1 DEF OrderInv
    <2> QED
      BY <2>1, <2>2, <2>3 DEF GenerateStateMachineEvent
  <1> QED
    BY <1>0, <1>2, <1>3 DEF VerifySteps


\* AspeedStateMachine(): the dispatch of an event keeps the order.
LEMMA DispatchOrder ==
    ASSUME TypeInv, OrderInv, Dispatch
    PROVE  /\ OrderInv' /\ Take
           /\ \A name : Announced(name)' => Announced(name)
           /\ Announced(Head(fifo).ev)
           /\ Head(fifo).ev = "RECOVERY_DONE" => ~Announced("VERIFY_DONE")'
  <1>1. Take
    BY DEF Dispatch, Transition, RunInPlace, Discard
  <1>2. /\ InOrder'
        /\ \A name : Announced(name)' => Announced(name)
        /\ Announced(Head(fifo).ev)
        /\ Head(fifo).ev = "RECOVERY_DONE" =>
             ~Announced("RECOVERY_DONE")' /\ ~Announced("VERIFY_DONE")'
    BY <1>1, TakenOrder DEF TypeInv, TypeOK, OrderInv
  <1> SUFFICES ASSUME Announced("RECOVERY_DONE")'
               PROVE  \/ state' \in {"SYSTEM_LOCKDOWN", "SYSTEM_REBOOT"}
                      \/ state' \in {"ROT_RECOVERY", "FIRMWARE_RECOVERY"} /\ pc' = "wait"
    BY <1>1, <1>2 DEF OrderInv
  <1>3. Announced("RECOVERY_DONE") /\ Head(fifo).ev # "RECOVERY_DONE"
    BY <1>2
  <1>4. state \in {"SYSTEM_LOCKDOWN", "SYSTEM_REBOOT", "ROT_RECOVERY", "FIRMWARE_RECOVERY"}
    BY <1>3 DEF OrderInv
  <1>5. CASE Transition
    <2>1. PICK t \in Successors(Head(fifo)) : state' = t
      BY <1>5 DEF Transition, Goto
    <2>2. t = "SYSTEM_LOCKDOWN"
      BY <1>3, <1>4, <2>1 DEF Successors, Transitions
    <2> QED
      BY <2>1, <2>2
  <1>6. CASE RunInPlace \/ Discard
    BY <1>1, <1>3, <1>4, <1>6 DEF RunInPlace, RunsInPlace, Discard, Take, OrderInv
  <1> QED
    BY <1>5, <1>6 DEF Dispatch

-----------------------------------------------------------------------------
(* Anti-rollback.  A UFM that is erased while the platform runs forgets its  *)
(* SVN policies and nothing else.                                           *)

\* Every UFM that can be erased is locked.
NoErase ==
    \A n \in DOMAIN Scenario :
        "lock" \in Scenario[n].ufm \/ "ERASE_CURRENT" \notin Scenario[n].provisions
\* Any event but one that erases the UFM.
Tame == {e \in Event : e.ev = "PROVISION_CMD" => "ERASE_CURRENT" \notin e.d.intent}
UfmKept ==
    \/ "lock" \in ufm
    \/ "ERASE_CURRENT" \notin Around.provisions /\ fifo \in Seq(Tame) /\ ev \in Tame

\* Nobody else asks for an erase.
LEMMA PostsTame ==
    ASSUME TypeInv, "ERASE_CURRENT" \notin Around.provisions,
           NEW n \in Events, NEW d \in Data, Posts(n, d)
    PROVE  Evt(n, d) \in Tame
  <1>1. Evt(n, d) \in Event /\ Evt(n, d).ev = n /\ Evt(n, d).d = d
    BY EvtType DEF Evt
  <1>2. CASE ThreadPosts(n, d)
    BY <1>1, <1>2 DEF ThreadPosts, Tame, Verdicts, SeamlessEvents
  <1>3. CASE HostPosts(n, d)
    <2>1. Around \in Surroundings
      BY AroundType DEF TypeInv, TypeOK
    <2>2. \A r \in Around.requests : r.ev # "PROVISION_CMD"
      BY <2>1 DEF Surroundings, Request
    <2>3. n = "PROVISION_CMD" => \E cmd \in Around.provisions : d.intent = {cmd}
      BY <1>3, <2>2 DEF HostPosts, NULL
    <2> QED
      BY <1>1, <2>3 DEF Tame
  <1> QED
    BY <1>2, <1>3 DEF Posts

\* Only a UFM command writes the status word.
LEMMA UfmSteps ==
    ASSUME [Next]_vars
    PROVE  HandleProvision \/ UNCHANGED ufm
  <1>1. CASE Dispatch
    BY <1>1 DEF Dispatch, Transition, RunInPlace, Discard, ufmVars
  <1>2. CASE RotSteps
    BY <1>2 DEF RotSteps, DoInit, DoRotErase, DoRotCopy, DoLockdown, DoReboot, ufmVars
  <1>3. CASE VerifySteps \/ RecoverSteps
    BY <1>3 DEF VerifySteps, VerifyUnprovisioned, VerifyPendingUpdate, VerifyImages,
                RecoverSteps, RecoveryStart, RecoverImages, RecoveryDone, ufmVars
  <1>4. CASE UpdateSteps
    BY <1>4 DEF UpdateSteps, UpdateStart, UpdateSelect, UpdateCopy, UpdateRefused,
                UpdateProgram, UpdateEnd, ufmVars
  <1>5. CASE RuntimeSteps \/ SeamlessSteps
    BY <1>5 DEF RuntimeSteps, UpdateAtReset, HandleCheckpoint, RunNothing,
                SeamlessSteps, SeamlessUpdate, SeamlessVerify, ufmVars
  <1>6. CASE Environment
    BY <1>6 DEF Environment, BmcReset, MailboxIntent, MailboxCheckpoint, MailboxProvision,
                TimerExpire, StageCapsule, CorruptFlash, PowerLoss, ufmVars
  <1>7. CASE UNCHANGED vars
    BY <1>7 DEF vars, ufmVars
  <1> QED
    BY <1>1, <1>2, <1>3, <1>4, <1>5, <1>6, <1>7 DEF Next, Thread

\* A UFM that is kept stays so, and its policies never fall.
LEMMA KeptStep ==
    ASSUME TypeInv, Placed, UfmKept, [Next]_vars
    PROVE  UfmKept' /\ \A i \in Images : svn'[i] >= svn[i]
  <1>1. HandleProvision => UNCHANGED svn /\ ("lock" \in ufm => UNCHANGED ufm)
    BY DEF HandleProvision, UfmKept, Tame, ufmVars
  <1>2. \A i \in Images : svn'[i] >= svn[i]
    <2>1. \A i \in Images : svn[i] \in Nat
      BY SvnMaxAssumption DEF TypeInv, TypeOK, Svns
    <2> QED
      BY <1>1, <2>1, RisingSvn
  <1>3. CASE "lock" \in ufm
    BY <1>1, <1>2, <1>3, UfmSteps DEF UfmKept
  <1>4. CASE "ERASE_CURRENT" \notin Around.provisions /\ fifo \in Seq(Tame) /\ ev \in Tame
    <2>1. UNCHANGED Around
      BY SameAround
    <2>2. fifo' \in Seq(Tame) /\ ev' \in Tame
      <3>1. CASE Dispatch
        <4>1. Head(fifo) \in Tame /\ fifo' \in Seq(Tame)
          BY <1>4, <3>1, TakenFrom DEF Dispatch, Transition, RunInPlace, Discard
        <4>2. /\ [Head(fifo) EXCEPT !.d.reset = Tmin1Policy(@, HeldAtTmin1(Head(fifo)))] \in Event
              /\ [Head(fifo) EXCEPT !.d.reset = Tmin1Policy(@, HeldAtTmin1(Head(fifo)))].ev
                   = Head(fifo).ev
              /\ [Head(fifo) EXCEPT !.d.reset = Tmin1Policy(@, HeldAtTmin1(Head(fifo)))].d.intent
                   = Head(fifo).d.intent
          BY <4>1, EventParts, PolicyType DEF Tame, Event, Data
        <4> QED
          BY <1>4, <4>1, <4>2, <3>1, DispatchedEvent DEF Tame
      <3>2. CASE \E f : Reset(f)
        <4>1. Evt("START_STATE_MACHINE", NULL) \in Tame
          BY EvtType, NullType DEF Tame, Evt, Events
        <4> QED
          BY <3>2, <4>1, ResetIn
      <3>3. CASE Queues /\ (UNCHANGED ev \/ Handling)
        <4>1. fifo' \in Seq(Tame)
          BY <1>4, <3>3, PostsTame, QueuedIn
        <4>2. ASSUME NEW H \in SUBSET Intent1
              PROVE  /\ [ev EXCEPT !.d.handled = H] \in Event
                     /\ [ev EXCEPT !.d.handled = H].ev = ev.ev
                     /\ [ev EXCEPT !.d.handled = H].d.intent = ev.d.intent
          BY <1>4, EventHandled, EventParts DEF Tame, Event, Data
        <4> QED
          BY <1>4, <3>3, <4>1, <4>2 DEF Handling, Tame
      <3> QED
        BY <3>1, <3>2, <3>3, QueueSteps
    <2> QED
      BY <1>2, <1>4, <2>1, <2>2 DEF UfmKept
  <1> QED
    BY <1>3, <1>4 DEF UfmKept

\* A recovery image found good by the last verification is not newer than the
\* policy of its host.
Floored(h) ==
    last[h].recovery => ao[h].recovery /\ flash[h]["recovery"].svn <= svn[h]
\* A recovery region written since the last verification.
Lags(h) == ao[h].recovery /\ ~last[h].recovery
\* The states a host with such a region is not in, and those it leaves for
\* RUNTIME only by a verification.
Settled == {"BOOT", "INIT", "ROT_RECOVERY", "RUNTIME", "SEAMLESS_UPDATE", "SEAMLESS_VERIFY"}
Checking == {"FIRMWARE_VERIFY", "FIRMWARE_UPDATE", "UNPROVISIONED"}
CheckedFirst(h) ==
    Lags(h) => /\ state \notin Settled
               /\ state \in Checking => ~Announced("VERIFY_DONE")

\* The inductive invariant behind RecoveryRaisesFloor: a region written by a
\* recovery is verified, and its SVN recorded, before a host runs.
FloorInv ==
    /\ OrderInv
    /\ \A h \in Hosts : Floored(h) /\ CheckedFirst(h)
    /\ state \in {"BOOT", "INIT"} => \A h \in Hosts : ~last[h].recovery

\* The verdicts stand, and the recovery region keeps its image or loses it.
Stands(h) ==
    /\ flash'[h]["recovery"] = flash[h]["recovery"] \/ flash'[h]["recovery"] = Corrupt
    /\ UNCHANGED <<ao, last>>

LEMMA SvnNat ==
    ASSUME NEW h \in Hosts
    PROVE  /\ TypeInv => svn[h] \in Nat /\ flash[h]["recovery"].svn \in Nat
           /\ TypeInv' => svn'[h] \in Nat
  <1>1. h \in Images /\ "recovery" \in Slots /\ Svns \subseteq Nat
    BY SvnMaxAssumption DEF Images, Slots, Svns
  <1>2. TypeInv => svn \in [Images -> Svns] /\ flash \in Flash
    BY DEF TypeInv, TypeOK
  <1>3. TypeInv' => svn' \in [Images -> Svns]
    BY DEF TypeInv, TypeOK
  <1>4. flash \in Flash => flash[h]["recovery"].svn \in Nat
    BY <1>1 DEF Flash, Content
  <1> QED
    BY <1>1, <1>2, <1>3, <1>4

LEMMA FlooredStands ==
    ASSUME TypeInv, TypeInv', NEW h \in Hosts, Floored(h), Stands(h), svn'[h] >= svn[h]
    PROVE  Floored(h)'
  <1>1. svn[h] \in Nat /\ flash[h]["recovery"].svn \in Nat /\ svn'[h] \in Nat
    BY SvnNat
  <1>2. Corrupt.svn = 0
    BY DEF Corrupt
  <1>3. flash[h]["recovery"].svn <= svn[h] => flash'[h]["recovery"].svn <= svn'[h]
    BY <1>1, <1>2 DEF Stands
  <1> QED
    BY <1>3 DEF Floored, Stands

\* Whatever does not verify, recover or update an image.
LEMMA OthersStand ==
    ASSUME TypeInv, Placed, [Next]_vars, ~(\E f : Reset(f)), ~DoInit, ~VerifyImages,
           ~RecoverSteps, ~UpdateProgram, NEW h \in Hosts
    PROVE  Stands(h)
  <1>t. flash \in Flash /\ h \in Images /\ h # "ROT" /\ "recovery" \in Slots
    BY DEF TypeInv, TypeOK, Images, Hosts, Slots
  <1>1. CASE \/ Dispatch \/ DoLockdown \/ VerifySteps \/ RuntimeSteps \/ SeamlessVerify
             \/ UNCHANGED vars
    BY <1>1 DEF Dispatch, Transition, RunInPlace, Discard, DoLockdown, VerifySteps,
                VerifyUnprovisioned, VerifyPendingUpdate, RuntimeSteps, UpdateAtReset,
                HandleCheckpoint, HandleProvision, RunNothing, SeamlessVerify, vars, aoVars, Stands
  <1>2. CASE DoRotErase
    BY <1>t, <1>2 DEF DoRotErase, Flash, aoVars, Stands
  <1>3. CASE DoRotCopy
    <2>1. PICK c : flash' = [flash EXCEPT !["ROT"]["active"] = c]
      BY <1>3 DEF DoRotCopy, Rewrite
    <2> QED
      BY <1>t, <1>3, <2>1 DEF DoRotCopy, Flash, aoVars, Stands
  <1>4. CASE UpdateSteps
    <2>1. CASE UpdateCopy
      <3>1. UNCHANGED flash \/ \E c : flash' = [flash EXCEPT !["PCH"]["staging"] = c]
        BY <2>1 DEF UpdateCopy, Rewrite
      <3> QED
        BY <1>t, <2>1, <3>1 DEF UpdateCopy, Flash, aoVars, Stands
    <2> QED
      BY <1>4, <2>1 DEF UpdateSteps, UpdateStart, UpdateSelect, UpdateRefused, UpdateEnd,
                        aoVars, Stands
  <1>5. CASE SeamlessUpdate
    <2>1. PICK a, c : flash' = [flash EXCEPT !["PCH"]["staging"] = c, !["PCH"]["active"] = a]
      BY <1>5 DEF SeamlessUpdate
    <2> QED
      BY <1>t, <1>5, <2>1 DEF SeamlessUpdate, Flash, aoVars, Stands
  <1>6. CASE Environment
    <2>1. CASE StageCapsule
      <3>1. PICK x : flash' = [flash EXCEPT ![x[1]]["staging"] = x[2]]
        BY <2>1 DEF StageCapsule
      <3> QED
        BY <1>t, <2>1, <3>1 DEF StageCapsule, Flash, aoVars, Stands
    <2>2. CASE CorruptFlash
      <3>1. PICK i, s : flash' = [flash EXCEPT ![i][s] = Corrupt]
        BY <2>2 DEF CorruptFlash
      <3> QED
        BY <1>t, <2>2, <3>1 DEF CorruptFlash, Flash, aoVars, Stands
    <2>3. ~PowerLoss
      BY DEF PowerLoss
    <2> QED
      BY <1>6, <2>1, <2>2, <2>3 DEF Environment, BmcReset, MailboxIntent, MailboxCheckpoint,
                                    MailboxProvision, TimerExpire, aoVars, Stands
  <1>7. ~DoReboot
    BY DEF DoReboot
  <1> QED
    BY <1>1, <1>2, <1>3, <1>4, <1>5, <1>6, <1>7 DEF Next, Thread, RotSteps, SeamlessSteps

\* update_recovery_region, set_ufm_svn: the SVN of an image that replaces a
\* recovery image is recorded with it.
LEMMA UpdateFloored ==
    ASSUME TypeInv, TypeInv', NEW h \in Hosts, Floored(h), UpdateProgram, svn'[h] >= svn[h]
    PROVE  Floored(h)'
  <1> DEFINE i == upd.image
             c == Read(i, "staging")
  <1>0. i \in Images /\ upd.sel \in Slots /\ UNCHANGED <<ao, last>>
    BY DEF UpdateProgram, TypeInv, TypeOK, Aimed, Update, Slots, aoVars
  <1>1. PICK w \in Writes(i, upd.sel, Installed(i, upd.sel, c)) :
          /\ Rewrite(i, upd.sel, w)
          /\ svn' = IF w.ok /\ upd.sel = "recovery" THEN [svn EXCEPT ![i] = c.svn] ELSE svn
    BY DEF UpdateProgram
  <1>2. /\ \A j \in Images, t \in Slots : j # i \/ t # upd.sel => flash'[j][t] = flash[j][t]
        /\ flash'[i][upd.sel] = w.c
    BY <1>0, <1>1, RewriteCases
  <1>3. h \in Images /\ h # "ROT" /\ "recovery" \in Slots
    BY DEF Images, Hosts, Slots
  <1>4. CASE i # h \/ upd.sel # "recovery"
    <2>1. Stands(h)
      BY <1>0, <1>2, <1>3, <1>4 DEF Stands
    <2> QED
      BY <2>1, FlooredStands
  <1>5. CASE i = h /\ upd.sel = "recovery"
    <2>1. Judged.ok
      BY DEF UpdateProgram
    <2>2. StagingVerify(h, c, FALSE)
      BY <1>3, <1>5, <2>1 DEF Judged, UpdateHost, Verdict
    <2>3. Reach(h, "recovery")
      <3>1. c # Corrupt
        BY <2>2 DEF StagingVerify, CapsuleVerify, Corrupt, Hosts
      <3> QED
        BY <1>3, <1>5, <3>1 DEF Read, Reach
    <2>4. \/ w = [c |-> c, ok |-> TRUE, fault |-> 0]
          \/ w = [c |-> Corrupt, ok |-> FALSE, fault |-> 1]
      <3>1. Installed(i, upd.sel, c) = c
        BY <1>5 DEF Installed
      <3>2. w \in Writes(h, "recovery", c)
        BY <1>1, <1>5, <3>1
      <3> HIDE DEF c
      <3> QED
        BY <2>3, <3>2, Zenon DEF Writes
    <2>5. CASE w = [c |-> c, ok |-> TRUE, fault |-> 0]
      <3>1. w.c = c /\ w.ok
        BY <2>5
      <3>2. svn'[h] = c.svn /\ flash'[h]["recovery"] = c
        BY <1>1, <1>2, <1>5, <3>1, <1>3 DEF TypeInv, TypeOK
      <3>3. svn'[h] \in Nat
        BY SvnNat
      <3> QED
        BY <1>0, <3>2, <3>3 DEF Floored
    <2>6. CASE w = [c |-> Corrupt, ok |-> FALSE, fault |-> 1]
      <3>1. w.c = Corrupt
        BY <2>6
      <3>2. Stands(h)
        BY <1>0, <1>2, <1>5, <3>1 DEF Stands
      <3> QED
        BY <3>2, FlooredStands
    <2> QED
      BY <2>4, <2>5, <2>6
  <1> QED
    BY <1>4, <1>5

\* handle_recovery: a region found good is not written, and stays so.
LEMMA RecoverFloored ==
    ASSUME TypeInv, NEW h \in Hosts, Floored(h), RecoverSteps
    PROVE  Floored(h)' /\ UNCHANGED last
  <1>t. /\ flash \in Flash /\ h \in Images /\ ao \in [Hosts -> Ownership]
        /\ "recovery" \in Slots
    BY DEF TypeInv, TypeOK, Images, Slots
  <1>1. UNCHANGED <<last, svn>>
    BY DEF RecoverSteps, RecoveryStart, RecoverImages, RecoveryDone, aoVars, ufmVars
  <1>2. ao[h].recovery => ao'[h].recovery /\ flash'[h]["recovery"] = flash[h]["recovery"]
    <2>1. CASE RecoveryStart
      <3>1. UNCHANGED flash /\ ao'[h] \in {ao[h], [ao[h] EXCEPT !.active = FALSE]}
        BY <2>1 DEF RecoveryStart
      <3> QED
        BY <1>t, <3>1 DEF Ownership
    <2>2. CASE RecoveryDone
      BY <2>2 DEF RecoveryDone, aoVars
    <2>3. CASE RecoverImages
      <3>1. PICK k \in NextCalls : RecoverNothing(k) \/ RecoverRegion(k) \/ RecoverFetch(k)
        BY <2>3 DEF RecoverImages
      <3>2. k \in 1 .. 4
        BY <3>1 DEF NextCalls, TypeInv, TypeOK, Recovery
      <3> DEFINE i == Step(k).h
                 p == PlanOf(i)
      <3>3. i \in Hosts /\ i \in Images
        BY <3>2, StepType DEF Images
      <3>4. CASE RecoverNothing(k)
        <4>1. /\ UNCHANGED flash
              /\ \E b : ao' = [ao EXCEPT ![i].restrict = b]
          BY <3>4 DEF RecoverNothing
        <4> QED
          BY <1>t, <3>3, <4>1 DEF Ownership
      <3>5. CASE RecoverRegion(k)
        <4>1. p.slot \in {"active", "recovery"}
          BY <3>3, <3>5, PlanType DEF RecoverRegion
        <4>2. p.slot = "recovery" => ~ao[i].recovery
          BY <3>5 DEF RecoverRegion, PlanOf, RecoverImage, Plan
        <4>3. PICK w \in Writes(i, p.slot, p.with) :
                /\ Rewrite(i, p.slot, w)
                /\ ao' = IF w.ok THEN [ao EXCEPT ![i][p.slot] = TRUE] ELSE ao
          BY <3>5 DEF RecoverRegion
        <4>4. \A j \in Images, t \in Slots : j # i \/ t # p.slot => flash'[j][t] = flash[j][t]
          BY <3>3, <4>1, <4>3, RewriteCases DEF Slots
        <4> HIDE DEF i, p
        <4>5. ao[h].recovery => ao'[h].recovery
          BY <1>t, <3>3, <4>1, <4>3 DEF Ownership
        <4> QED
          BY <1>t, <4>2, <4>4, <4>5
      <3>6. CASE RecoverFetch(k)
        <4>1. UNCHANGED ao /\ \E c : flash' = [flash EXCEPT ![i]["staging"] = c]
          BY <3>6 DEF RecoverFetch, Rewrite
        <4> QED
          BY <1>t, <3>3, <4>1 DEF Flash
      <3> QED
        BY <3>1, <3>4, <3>5, <3>6
    <2> QED
      BY <2>1, <2>2, <2>3 DEF RecoverSteps
  <1> QED
    BY <1>1, <1>2 DEF Floored

\* pfr_recovery_verify: an image that verifies raises the policy to its SVN.
LEMMA VerifyFloored ==
    ASSUME TypeInv, TypeInv', NEW h \in Hosts, Floored(h), VerifyImages
    PROVE  Floored(h)' /\ ~Lags(h)'
  <1>0. h \in Images /\ UNCHANGED flash
    BY DEF VerifyImages, Images
  <1>1. ao'[h].recovery = Verified(h).recovery /\ last'[h].recovery = Verified(h).recovery
    BY DEF VerifyImages, Checked
  <1>2. svn[h] \in Nat /\ flash[h]["recovery"].svn \in Nat
    BY SvnNat
  <1>3. CASE h \in Scope(ev.d.reset)
    <2> DEFINE c == Read(h, "recovery")
    <2>1. /\ Verified(h).recovery <=> RecoveryVerify(c, svn[h])
          /\ svn'[h] = RaisedFloor(c, svn[h])
      BY <1>0, <1>3 DEF VerifyImages, Verified
    <2>2. RecoveryVerify(c, svn[h]) => c = flash[h]["recovery"]
      BY DEF RecoveryVerify, CapsuleVerify, Read, Corrupt, Hosts
    <2>3. RecoveryVerify(c, svn[h]) => flash[h]["recovery"].svn <= svn'[h]
      BY <1>2, <2>1, <2>2 DEF RaisedFloor
    <2> QED
      BY <1>0, <1>1, <2>1, <2>3 DEF Floored, Lags
  <1>4. CASE h \notin Scope(ev.d.reset)
    <2>1. Verified(h).recovery = last[h].recovery /\ svn'[h] = svn[h]
      BY <1>0, <1>4 DEF VerifyImages, Verified
    <2> QED
      BY <1>0, <1>1, <2>1 DEF Floored, Lags
  <1> QED
    BY <1>3, <1>4

\* AspeedStateMachine(): RUNTIME is not entered from where a region was written
\* but through a verification.
LEMMA DispatchFloor ==
    ASSUME TypeInv, FloorInv, Dispatch
    PROVE  FloorInv'
  <1>1. /\ OrderInv' /\ \A name : Announced(name)' => Announced(name)
        /\ Announced(Head(fifo).ev)
        /\ Head(fifo).ev = "RECOVERY_DONE" => ~Announced("VERIFY_DONE")'
    BY DispatchOrder DEF FloorInv
  <1>2. UNCHANGED <<ao, last, flash, svn>>
    BY DEF Dispatch, Transition, RunInPlace, Discard, aoVars, ufmVars
  <1>3. CASE UNCHANGED state
    BY <1>1, <1>2, <1>3 DEF FloorInv, Floored, CheckedFirst, Lags
  <1>4. ASSUME NEW t \in Successors(Head(fifo)), state' = t
        PROVE  FloorInv'
    <2>1. t \in {"BOOT", "INIT"} => state = "BOOT"
      BY DEF Successors, Transitions, AfterUpdate
    <2>2. ASSUME NEW h \in Hosts, Lags(h)
          PROVE  /\ t \notin Settled
                 /\ t \in Checking => ~Announced("VERIFY_DONE")'
      <3>1. state \notin Settled /\ (state \in Checking => Head(fifo).ev # "VERIFY_DONE")
        BY <1>1, <2>2 DEF FloorInv, CheckedFirst
      <3>2. t \notin Settled
        BY <3>1 DEF Successors, Transitions, AfterUpdate, Settled, Checking
      <3>3. t \in Checking => state \in Checking \/ Head(fifo).ev = "RECOVERY_DONE"
        BY <3>1 DEF Successors, Transitions, AfterUpdate, Settled, Checking
      <3> QED
        BY <1>1, <2>2, <3>2, <3>3 DEF FloorInv, CheckedFirst
    <2>3. \A h \in Hosts : Floored(h)' /\ CheckedFirst(h)'
      BY <1>2, <1>4, <2>2 DEF FloorInv, Floored, CheckedFirst, Lags
    <2> QED
      BY <1>1, <1>2, <1>4, <2>1, <2>3 DEF FloorInv
  <1> QED
    BY <1>3, <1>4 DEF Dispatch, Transition, Goto, RunInPlace, Discard

\* A reset of the RoT forgets the verdicts.
LEMMA ResetFloor ==
    ASSUME NEW f, Reset(f)
    PROVE  FloorInv'
  <1>1. fifo' = <<Evt("START_STATE_MACHINE", NULL)>> /\ state' = "BOOT"
        /\ \A h \in Hosts : ao'[h] = BadImage /\ last'[h] = BadImage
    BY DEF Reset
  <1>2. \A n \in 1 .. Len(fifo') : fifo'[n].ev = "START_STATE_MACHINE"
    BY <1>1 DEF Evt
  <1>3. OrderInv'
    BY <1>2 DEF OrderInv, InOrder, Announced
  <1> QED
    BY <1>1, <1>3 DEF FloorInv, Floored, CheckedFirst, Lags, BadImage

LEMMA FloorInit == Init => FloorInv
  <1> SUFFICES ASSUME Init PROVE FloorInv
    OBVIOUS
  <1>1. fifo = <<Evt("START_STATE_MACHINE", NULL)>> /\ state = "BOOT"
        /\ \A h \in Hosts : ao[h] = BadImage /\ last[h] = BadImage
    BY DEF Init
  <1>2. \A n \in 1 .. Len(fifo) : fifo[n].ev = "START_STATE_MACHINE"
    BY <1>1 DEF Evt
  <1>3. OrderInv
    BY <1>2 DEF OrderInv, InOrder, Announced
  <1> QED
    BY <1>1, <1>3 DEF FloorInv, Floored, CheckedFirst, Lags, BadImage

\* The order of the verdicts through every step that takes no event.
LEMMA OrderStep ==
    ASSUME TypeInv, Placed, OrderInv, [Next]_vars, ~Dispatch, ~(\E f : Reset(f))
    PROVE  /\ OrderInv' /\ UNCHANGED state
           /\ ~VerifyImages /\ ~RecoverSteps =>
                (Announced("VERIFY_DONE")' => Announced("VERIFY_DONE"))
  <1>1. CASE RotSteps
    BY <1>1, RotOrder DEF RotSteps, DoReboot
  <1>2. CASE VerifySteps
    BY <1>2, VerifyOrder
  <1>3. CASE RecoverSteps
    BY <1>3, RecoverOrder
  <1>4. CASE UpdateSteps
    <2>1. state = "FIRMWARE_UPDATE"
      BY <1>4 DEF UpdateSteps, UpdateStart, Running, UpdateSelect, UpdateBypass, UpdateTampered,
                  UpdateRecoveryRegion, UpdateActiveRegion, UpdateCopy, UpdateRefused,
                  UpdateProgram, UpdateEnd, Placed
    <2> QED
      BY <1>4, <2>1, UpdateQueues, OthersOrder
  <1>5. CASE RuntimeSteps \/ SeamlessSteps
    <2>1. state \in Tzero
      BY <1>5 DEF RuntimeSteps, UpdateAtReset, HandleCheckpoint, HandleProvision, RunNothing,
                  SeamlessSteps, SeamlessUpdate, SeamlessVerify, Running, Tzero
    <2> QED
      BY <1>5, <2>1, RuntimeQueues, OthersOrder DEF Tzero
  <1>6. CASE Environment
    <2>1. ~PowerLoss
      BY DEF PowerLoss
    <2> QED
      BY <1>6, <2>1, HostQueues, OthersOrder
  <1>7. CASE UNCHANGED vars
    BY <1>7, OthersOrder DEF vars, smVars, Hears
  <1> QED
    BY <1>1, <1>2, <1>3, <1>4, <1>5, <1>6, <1>7 DEF Next, Thread

\* Every step keeps the recovery images of the hosts at or below their policies.
LEMMA FloorStep ==
    ASSUME TypeInv, Placed, UfmKept, FloorInv, [Next]_vars
    PROVE  FloorInv'
  <1>t. TypeInv'
    BY TypeStep
  <1>1. CASE Dispatch
    BY <1>1, DispatchFloor
  <1>2. CASE \E f : Reset(f)
    BY <1>2, ResetFloor
  <1>3. CASE ~Dispatch /\ ~(\E f : Reset(f))
    <2>1. /\ OrderInv' /\ UNCHANGED state
          /\ ~VerifyImages /\ ~RecoverSteps =>
               (Announced("VERIFY_DONE")' => Announced("VERIFY_DONE"))
      BY <1>3, OrderStep DEF FloorInv
    <2>2. \A h \in Hosts : svn'[h] >= svn[h]
      BY KeptStep DEF Images
    <2>3. CASE VerifyImages
      <3>1. state = "FIRMWARE_VERIFY"
        BY <2>3 DEF VerifyImages, Running
      <3> QED
        BY <1>t, <2>1, <2>3, <3>1, VerifyFloored DEF FloorInv, CheckedFirst
    <2>4. CASE RecoverSteps
      <3>1. state = "FIRMWARE_RECOVERY"
        BY <2>4 DEF RecoverSteps, RecoveryStart, RecoverImages, RecoveryDone, Running, Placed
      <3> QED
        BY <2>1, <2>4, <3>1, RecoverFloored DEF FloorInv, CheckedFirst, Settled, Checking
    <2>5. CASE DoInit
      <3>1. /\ UNCHANGED last /\ state = "INIT"
            /\ \A h \in Hosts : ao'[h] = BadImage
        BY <2>5 DEF DoInit, Running
      <3> QED
        BY <2>1, <3>1 DEF FloorInv, Floored, CheckedFirst, Lags, BadImage
    <2>6. CASE ~VerifyImages /\ ~RecoverSteps /\ ~DoInit
      <3>1. UNCHANGED <<ao, last>>
        <4>1. UpdateProgram => UNCHANGED <<ao, last>>
          BY DEF UpdateProgram, aoVars
        <4> QED
          BY <1>3, <2>6, <4>1, OthersStand DEF Stands, Hosts
      <3>2. \A h \in Hosts : Floored(h)'
        <4>1. CASE UpdateProgram
          BY <1>t, <2>2, <4>1, UpdateFloored DEF FloorInv
        <4>2. CASE ~UpdateProgram
          BY <1>t, <1>3, <2>2, <2>6, <4>2, OthersStand, FlooredStands DEF FloorInv
        <4> QED
          BY <4>1, <4>2
      <3> QED
        BY <2>1, <2>6, <3>1, <3>2 DEF FloorInv, CheckedFirst, Lags
    <2> QED
      BY <2>3, <2>4, <2>5, <2>6
  <1> QED
    BY <1>1, <1>2, <1>3

\* pfr_recovery_verify, update_firmware_image, recover_image: once a host runs
\* with a recovery image found good, however it came to the region (an update, a
\* recovery from its own or the BMC's staging region, the factory), no capsule
\* older than that image is accepted, where a UFM in use cannot be erased.
THEOREM RecoveredFloors ==
    ASSUME NoErase
    PROVE  Spec => []RecoveryRaisesFloor
  <1>1. Init => FloorInv /\ UfmKept
    <2> SUFFICES ASSUME Init PROVE UfmKept
      BY FloorInit
    <2>1. spent.scn \in DOMAIN Scenario /\ ufm = Around.ufm
      BY DEF Init
    <2>2. Evt("START_STATE_MACHINE", NULL) \in Tame
      BY EvtType, NullType DEF Tame, Evt, Events
    <2>3. fifo \in Seq(Tame) /\ ev \in Tame
      BY <2>2 DEF Init
    <2> QED
      BY <2>1, <2>3 DEF NoErase, UfmKept, Around
  <1>2. TypeInv /\ Placed /\ FloorInv /\ UfmKept /\ [Next]_vars => FloorInv' /\ UfmKept'
    BY FloorStep, KeptStep
  <1>3. FloorInv => RecoveryRaisesFloor
    BY DEF FloorInv, Floored, CheckedFirst, Lags, Settled, RecoveryRaisesFloor, Hosts
  <1> QED
    BY <1>1, <1>2, <1>3, TypeInvariant, PlacedAlways, PTL DEF Spec
=============================================================================
