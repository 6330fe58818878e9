------------------------------ MODULE PfrTypes ------------------------------
(***************************************************************************)
(* Type correctness of PfrStateMachine, for every value of its constants.   *)
(***************************************************************************)
EXTENDS PfrStateMachine, TLAPS

-----------------------------------------------------------------------------
(* Events.                                                                  *)

\* The fields of an event taken from aspeed_sm_fifo have their types.
LEMMA EventParts ==
    ASSUME NEW e \in Event
    PROVE  /\ e.ev \in Events /\ e.d \in Data
           /\ e.d.src \in Origins /\ e.d.intent \in SUBSET IntentBits
           /\ e.d.reset \in SUBSET ResetBits /\ e.d.handled \in SUBSET Intent1
  BY DEF Event, Data

\* An event is made of a name and of data.
LEMMA EvtType ==
    ASSUME NEW n \in Events, NEW d \in Data
    PROVE  Evt(n, d) \in Event
  BY DEF Evt, Event

\* The data of an event posted without data.
LEMMA NullType == NULL \in Data
  BY DEF NULL, Data, Origins

\* Replacing the bytes of an event's data keeps it event data.
LEMMA DataExcept ==
    ASSUME NEW d \in Data, NEW s \in Origins, NEW i \in SUBSET IntentBits,
           NEW r \in SUBSET ResetBits, NEW h \in SUBSET Intent1
    PROVE  /\ [d EXCEPT !.src = s] \in Data
           /\ [d EXCEPT !.reset = r] \in Data
           /\ [d EXCEPT !.handled = h] \in Data
           /\ [d EXCEPT !.src = s, !.intent = i] \in Data
           /\ [d EXCEPT !.src = s, !.reset = r] \in Data
           /\ [d EXCEPT !.src = s, !.intent = i, !.reset = r] \in Data
  BY DEF Data

\* GenerateStateMachineEvent keeps the FIFO a sequence of events.
LEMMA PostType ==
    ASSUME fifo \in Seq(Event), dropped \in BOOLEAN,
           NEW n \in Events, NEW d \in Data, GenerateStateMachineEvent(n, d)
    PROVE  fifo' \in Seq(Event) /\ dropped' \in BOOLEAN
  <1>1. Evt(n, d) \in Event
    BY EvtType
  <1>2. Append(fifo, Evt(n, d)) \in Seq(Event)
    BY <1>1
  <1> QED
    BY <1>2 DEF GenerateStateMachineEvent

-----------------------------------------------------------------------------
(* Flash.                                                                   *)

\* Corrupt is a content.
LEMMA CorruptType == Corrupt \in Content
  BY SvnMaxAssumption DEF Corrupt, Content, Svns

\* Rewriting a region keeps the flash well formed.
LEMMA FlashExcept ==
    ASSUME NEW f \in Flash, NEW i \in Images, NEW s \in Slots, NEW c \in Content
    PROVE  [f EXCEPT ![i][s] = c] \in Flash
  BY DEF Flash

\* What the RoT reads from a region is a content.
LEMMA ReadType ==
    ASSUME flash \in Flash, NEW i \in Images, NEW s \in Slots
    PROVE  Read(i, s) \in Content
  BY CorruptType DEF Read, Flash

\* What a write of a region leaves, and how much of the fault bound it uses.
LEMMA WritesType ==
    ASSUME flash \in Flash, spent \in Budget, NEW i \in Images, NEW s \in Slots,
           NEW c \in Content, NEW w \in Writes(i, s, c)
    PROVE  /\ w.c \in Content /\ w.ok \in BOOLEAN
           /\ [spent EXCEPT !.fault = @ + w.fault] \in Budget
  <1>1. flash[i][s] \in Content
    BY DEF Flash
  <1>2. \/ w = [c |-> c, ok |-> TRUE, fault |-> 0]
        \/ w = [c |-> Corrupt, ok |-> FALSE, fault |-> 1]
        \/ \E b \in BOOLEAN : w = [c |-> flash[i][s], ok |-> b, fault |-> 0]
    BY Zenon DEF Writes
  <1>6. w.c \in Content
    BY <1>1, <1>2, CorruptType
  <1>7. w.ok \in BOOLEAN
    <2>1. ASSUME NEW b \in BOOLEAN, w = [c |-> flash[i][s], ok |-> b, fault |-> 0]
          PROVE  w.ok \in BOOLEAN
      <3>1. w.ok = b
        BY <2>1, Zenon
      <3> QED
        BY <3>1
    <2>2. ASSUME w = [c |-> c, ok |-> TRUE, fault |-> 0]
          PROVE  w.ok \in BOOLEAN
      BY <2>2
    <2>3. ASSUME w = [c |-> Corrupt, ok |-> FALSE, fault |-> 1]
          PROVE  w.ok \in BOOLEAN
      BY <2>3
    <2> QED
      BY <1>2, <2>1, <2>2, <2>3, Zenon
  <1>3. w.fault \in Nat
    BY <1>2
  <1> QED
    BY <1>3, <1>6, <1>7 DEF Budget
-----------------------------------------------------------------------------
(* CPLD_STATUS, the bounds and the active objects.                          *)

\* Rewriting a flag, or BmcToPchStatus, keeps a CPLD_STATUS well formed.
LEMMA CpldExcept ==
    ASSUME NEW c \in CpldStatus, NEW i, NEW f \in RcvFlags, NEW b \in BOOLEAN
    PROVE  /\ [c EXCEPT !.recovery[i] = f] \in CpldStatus
           /\ [c EXCEPT !.toPch = b] \in CpldStatus
  <1>1. /\ c.status \in SUBSET Images /\ c.active \in [Images -> ActFlags]
        /\ c.recovery \in [Images -> RcvFlags] /\ c.toPch \in BOOLEAN
    BY DEF CpldStatus
  <1>2. [c.recovery EXCEPT ![i] = f] \in [Images -> RcvFlags]
    BY <1>1
  <1>3. [c EXCEPT !.recovery = [c.recovery EXCEPT ![i] = f]] \in CpldStatus
    BY <1>2 DEF CpldStatus
  <1>4. [c EXCEPT !.toPch = b] \in CpldStatus
    BY DEF CpldStatus
  <1> QED
    BY <1>3, <1>4

\* CPLD_STATUS after an erase of the UFM.
LEMMA ClearCpldType == ClearCpld \in CpldStatus
  BY DEF ClearCpld, CpldStatus, NoFlags, ActFlags, RcvFlags

\* Using up one unit of a bound.
LEMMA BudgetExcept ==
    ASSUME spent \in Budget
    PROVE  /\ [spent EXCEPT !.req = @ + 1] \in Budget
           /\ [spent EXCEPT !.check = @ + 1] \in Budget
           /\ [spent EXCEPT !.fault = @ + 1] \in Budget
           /\ [spent EXCEPT !.corrupt = @ + 1] \in Budget
           /\ [spent EXCEPT !.reset = @ + 1] \in Budget
           /\ [spent EXCEPT !.loss = @ + 1] \in Budget
  BY DEF Budget

\* The surroundings chosen at the start are well formed.
LEMMA AroundType ==
    ASSUME spent \in Budget
    PROVE  Around \in Surroundings
  BY ConfigAssumption DEF Around, Budget

\* The verdicts that start every boot.
LEMMA BadImageType == [h \in Hosts |-> BadImage] \in [Hosts -> Ownership]
  BY DEF BadImage, Ownership

\* The locals of the two long handlers, when they are not in use.
LEMMA LocalTypes == NoUpdate \in Update /\ NoRecovery \in Recovery
  BY DEF NoUpdate, Update, NoRecovery, Recovery, Images, Hosts, Intent1

-----------------------------------------------------------------------------
(* One lemma per action.  An update under way has an image to work on: what *)
(* is written and judged in "copy" and "prog" is a region of that image.    *)

Aimed == pc \in {"copy", "prog"} => upd.image \in Images
TypeInv == TypeOK /\ Aimed

\* What every boot of the RoT starts with is well typed.
LEMMA ResetType ==
    ASSUME NEW f, Reset(f), flash' \in Flash, cpld' \in CpldStatus,
           hash' \in [Images -> Content], svn' \in [Images -> Svns], ufm' \subseteq UfmBits,
           spent' \in Budget
    PROVE  TypeInv'
  <1>1. Evt("START_STATE_MACHINE", NULL) \in Event
    BY EvtType, NullType DEF Events
  <1>2. <<Evt("START_STATE_MACHINE", NULL)>> \in Seq(Event)
    BY <1>1
  <1>3. fails' \in 0 .. MaxUpdFailed
    BY ConfigAssumption DEF Reset
  <1> QED
    BY <1>1, <1>2, <1>3, ClearCpldType, BadImageType, LocalTypes
    DEF Reset, TypeInv, TypeOK, Aimed, States, Pcs

\* The initial state is well typed.
LEMMA InitType == Init => TypeInv
  <1> SUFFICES ASSUME Init PROVE TypeInv
    OBVIOUS
  <1>1. Evt("START_STATE_MACHINE", NULL) \in Event
    BY EvtType, NullType DEF Events
  <1>2. fifo \in Seq(Event)
    BY <1>1 DEF Init
  <1>3. fails \in 0 .. MaxUpdFailed
    BY ConfigAssumption DEF Init
  <1>4. spent \in Budget
    BY DEF Init, Budget
  <1>6. flash \in Flash /\ ufm \subseteq UfmBits
    BY <1>4, AroundType DEF Init, Surroundings
  <1>5. svn \in [Images -> Svns]
    BY SvnMaxAssumption DEF Init, Svns
  <1> QED
    BY <1>1, <1>2, <1>3, <1>4, <1>5, <1>6, ClearCpldType, BadImageType, LocalTypes, CorruptType,
       ConfigAssumption
    DEF Init, TypeInv, TypeOK, Aimed, States, Pcs

\* What the dispatcher takes from the FIFO is an event, and leaves events.
LEMMA TakeType ==
    ASSUME TypeInv, Take
    PROVE  Head(fifo) \in Event /\ Tail(fifo) \in Seq(Event) /\ fifo' = Tail(fifo)
  BY DEF Take, TypeInv, TypeOK

\* The states an event leads to are states.
LEMMA SuccessorsType ==
    ASSUME NEW e, NEW t \in Successors(e)
    PROVE  t \in States
  <1>1. \A row \in Transitions : row[3] \in States
    BY DEF Transitions, States
  <1> QED
    BY <1>1 DEF Successors, AfterUpdate, States

\* Recording the reset policy in an event's data keeps it an event.
LEMMA EventReset ==
    ASSUME NEW e \in Event, NEW r \in SUBSET ResetBits
    PROVE  [e EXCEPT !.d.reset = r] \in Event
  <1>1. [e.d EXCEPT !.reset = r] \in Data
    BY EventParts DEF Data
  <1> QED
    BY <1>1 DEF Event

\* The same for the intents handled so far.
LEMMA EventHandled ==
    ASSUME NEW e \in Event, NEW h \in SUBSET Intent1
    PROVE  [e EXCEPT !.d.handled = h] \in Event
  <1>1. [e.d EXCEPT !.handled = h] \in Data
    BY EventParts DEF Data
  <1> QED
    BY <1>1 DEF Event

\* enter_tmin1 changes a reset policy into a reset policy.
LEMMA PolicyType ==
    ASSUME NEW r \in SUBSET ResetBits, NEW hosts
    PROVE  Tmin1Policy(r, hosts) \in SUBSET ResetBits
  BY DEF Tmin1Policy, OnlyBit, ResetBits

\* The hosts a transition takes are hosts.
LEMMA TakenType ==
    ASSUME NEW t, NEW e
    PROVE  HeldOnEntry(t, e) \subseteq Hosts
  BY DEF HeldOnEntry, HeldAtTmin1, Hosts

\* Transition keeps every variable in its type.
LEMMA TransitionType == TypeInv /\ Transition => TypeInv'
  <1> SUFFICES ASSUME TypeInv, Transition PROVE TypeInv'
    OBVIOUS
  <1>1. PICK t \in Successors(Head(fifo)) : Goto(t)
    BY DEF Transition
  <1> DEFINE e == Head(fifo)
  <1>2. e \in Event /\ fifo' \in Seq(Event)
    BY TakeType DEF Transition
  <1>3. state' \in States /\ pc' = "run"
    BY <1>1, SuccessorsType DEF Goto
  <1>4. ev' \in Event
    <2>1. e.d.reset \in SUBSET ResetBits
      BY <1>2, EventParts
    <2>2. Tmin1Policy(e.d.reset, HeldAtTmin1(e)) \in SUBSET ResetBits
      BY <2>1, PolicyType
    <2>3. [e EXCEPT !.d.reset = Tmin1Policy(e.d.reset, HeldAtTmin1(e))] \in Event
      BY <1>2, <2>2, EventReset
    <2> QED
      BY <1>1, <1>2, <2>3 DEF Goto
  <1>5. hold' \subseteq Hosts /\ mux' \subseteq Hosts
    BY <1>1, TakenType DEF Goto, TypeInv, TypeOK
  <1>6. armed' \in BOOLEAN
    BY <1>1 DEF Goto, TypeInv, TypeOK
  <1>7. booted' \subseteq BootBits
    BY <1>1 DEF Goto, TypeInv, TypeOK
  <1>8. timers' \subseteq Timers
    BY <1>1 DEF Goto, TypeInv, TypeOK, StartedTimers, Timers
  <1>9. fails' \in 0 .. MaxUpdFailed
    BY <1>1, ConfigAssumption DEF Goto, TypeInv, TypeOK, Failed
  <1> QED
    BY <1>2, <1>3, <1>4, <1>5, <1>6, <1>7, <1>8, <1>9
    DEF Transition, TypeInv, TypeOK, Aimed, aoVars, ufmVars, localVars, Pcs

\* Running a handler in place, or discarding an event, does too.
LEMMA InPlaceType == TypeInv /\ (RunInPlace \/ Discard) => TypeInv'
  <1>1. ASSUME TypeInv, RunInPlace PROVE TypeInv'
    BY <1>1, TakeType
    DEF RunInPlace, TypeInv, TypeOK, Aimed, pinVars, aoVars, ufmVars, localVars, bootVars, Pcs
  <1>2. ASSUME TypeInv, Discard PROVE TypeInv'
    BY <1>2, TakeType
    DEF Discard, TypeInv, TypeOK, Aimed, pinVars, aoVars, ufmVars, localVars, bootVars, Pcs
  <1> QED
    BY <1>1, <1>2

\* do_init, do_lockdown and do_reboot.
LEMMA PlainRotType == TypeInv /\ (DoInit \/ DoLockdown \/ DoReboot) => TypeInv'
  <1>1. ASSUME TypeInv, DoInit PROVE TypeInv'
    <2>1. fifo' \in Seq(Event) /\ dropped' \in BOOLEAN
      BY <1>1, PostType, NullType DEF DoInit, Events, TypeInv, TypeOK
    <2> QED
      BY <1>1, <2>1, BadImageType
      DEF DoInit, Running, TypeInv, TypeOK, Aimed, ufmVars, localVars, bootVars, Pcs
  <1>2. ASSUME TypeInv, DoLockdown PROVE TypeInv'
    BY <1>2
    DEF DoLockdown, TypeInv, TypeOK, Aimed, pinVars, aoVars, ufmVars, localVars, bootVars, Pcs
  <1>3. ASSUME TypeInv, DoReboot PROVE TypeInv'
    <2>1. /\ flash' \in Flash /\ cpld' \in CpldStatus /\ hash' \in [Images -> Content]
          /\ svn' \in [Images -> Svns] /\ ufm' \subseteq UfmBits /\ spent' \in Budget
      BY <1>3 DEF DoReboot, ufmVars, TypeInv, TypeOK
    <2> QED
      BY <1>3, <2>1, ResetType DEF DoReboot
  <1> QED
    BY <1>1, <1>2, <1>3

\* do_rot_recovery.
LEMMA RotRecoveryType == TypeInv /\ (DoRotErase \/ DoRotCopy) => TypeInv'
  <1>1. ASSUME TypeInv, DoRotErase PROVE TypeInv'
    <2>1. cpld' \in CpldStatus
      <3>1. cpld \in CpldStatus /\ "none" \in RcvFlags
        BY <1>1 DEF TypeInv, TypeOK, RcvFlags, ActFlags
      <3> QED
        BY <1>1, <3>1, CpldExcept DEF DoRotErase
    <2>2. flash' \in Flash
      BY <1>1, FlashExcept, CorruptType DEF DoRotErase, TypeInv, TypeOK, Images, Slots
    <2>3. fifo' \in Seq(Event) /\ dropped' \in BOOLEAN
      BY <1>1, PostType, NullType DEF DoRotErase, Events, TypeInv, TypeOK
    <2>4. spent' \in Budget
      BY <1>1, BudgetExcept DEF DoRotErase, TypeInv, TypeOK
    <2> QED
      BY <1>1, <2>1, <2>2, <2>3, <2>4
      DEF DoRotErase, TypeInv, TypeOK, Aimed, pinVars, aoVars, localVars, bootVars, Pcs
  <1>2. ASSUME TypeInv, DoRotCopy PROVE TypeInv'
    <2> DEFINE c == flash["ROT"]["recovery"]
    <2>1. PICK w \in Writes("ROT", "active", c) :
            /\ Rewrite("ROT", "active", w)
            /\ GenerateStateMachineEvent(
                   IF w.ok THEN "RECOVERY_DONE" ELSE "RECOVERY_FAILED", NULL)
      BY <1>2 DEF DoRotCopy
    <2>2. flash \in Flash /\ spent \in Budget /\ "ROT" \in Images /\ "active" \in Slots
      BY <1>2 DEF TypeInv, TypeOK, Images, Slots
    <2>3. c \in Content
      BY <2>2 DEF Flash, Slots
    <2>4. w.c \in Content /\ [spent EXCEPT !.fault = @ + w.fault] \in Budget
      BY <2>1, <2>2, <2>3, WritesType
    <2>5. flash' \in Flash /\ spent' \in Budget
      BY <2>1, <2>2, <2>4, FlashExcept DEF Rewrite
    <2>6. fifo' \in Seq(Event) /\ dropped' \in BOOLEAN
      BY <1>2, <2>1, PostType, NullType DEF Events, TypeInv, TypeOK
    <2> QED
      BY <1>2, <2>5, <2>6
      DEF DoRotCopy, TypeInv, TypeOK, Aimed, pinVars, aoVars, ufmVars, localVars, bootVars, Pcs
  <1> QED
    BY <1>1, <1>2
-----------------------------------------------------------------------------
(* FIRMWARE_VERIFY.                                                         *)

\* The SVN floor of a verified recovery image is an SVN.
LEMMA RaisedFloorType ==
    ASSUME NEW c \in Content, NEW f \in Svns
    PROVE  RaisedFloor(c, f) \in Svns
  BY DEF RaisedFloor, Content

\* The verdict on a host is a verdict.
LEMMA CheckedType ==
    ASSUME TypeInv, NEW h \in Hosts
    PROVE  Checked(h) \in Ownership /\ [Checked(h) EXCEPT !.restrict = FALSE] \in Ownership
  <1>1. last[h] \in Ownership
    BY DEF TypeInv, TypeOK
  <1>2. Verified(h).active \in BOOLEAN /\ Verified(h).recovery \in BOOLEAN
    <2>1. last[h].active \in BOOLEAN /\ last[h].recovery \in BOOLEAN
      BY <1>1 DEF Ownership
    <2>2. CASE h \in Scope(ev.d.reset)
      <3>1. /\ ActiveVerify(h, Read(h, "active")) \in BOOLEAN
            /\ RecoveryVerify(Read(h, "recovery"), svn[h]) \in BOOLEAN
        BY DEF ActiveVerify, RecoveryVerify, CapsuleVerify
      <3> QED
        BY <2>2, <3>1 DEF Verified
    <2>3. CASE h \notin Scope(ev.d.reset)
      BY <2>1, <2>3 DEF Verified
    <2> QED
      BY <2>2, <2>3
  <1>3. (ao[h].restrict /\ Verified(h).active /\ ~Verified(h).recovery) \in BOOLEAN
    OBVIOUS
  <1> QED
    BY <1>2, <1>3 DEF Checked, Ownership

\* The pending updates name intents.
LEMMA PendingType ==
    ASSUME TypeInv, NEW r
    PROVE  /\ PendingIntent(r) \in SUBSET IntentBits /\ PendingSource(r) \in Origins
           /\ WithoutPending(r) \in CpldStatus
  <1>1. PendingIntent(r) \in SUBSET IntentBits
    BY DEF PendingIntent, IntentBits, Intent1
  <1>2. PendingSource(r) \in Origins
    BY DEF PendingSource, Origins
  <1>3. WithoutPending(r) \in CpldStatus
    <2> DEFINE H == Honoured(r)
               act == [i \in Images |-> IF i \in H THEN "none" ELSE cpld.active[i]]
               rcv == [cpld.recovery EXCEPT !["ROT"] = IF "ROT" \in H THEN "none" ELSE @]
    <2>1. /\ cpld \in CpldStatus
          /\ cpld.status \in SUBSET Images /\ cpld.active \in [Images -> ActFlags]
          /\ cpld.recovery \in [Images -> RcvFlags]
      BY DEF TypeInv, TypeOK, CpldStatus
    <2>2. act \in [Images -> ActFlags]
      BY <2>1 DEF ActFlags
    <2>3. rcv \in [Images -> RcvFlags]
      BY <2>1 DEF RcvFlags, ActFlags, Images
    <2>4. [cpld EXCEPT !.status = @ \ H, !.active = act, !.recovery = rcv] \in CpldStatus
      BY <2>1, <2>2, <2>3 DEF CpldStatus
    <2> QED
      BY <2>4 DEF WithoutPending
  <1> QED
    BY <1>1, <1>2, <1>3

\* handle_image_verification.
LEMMA VerifyType == TypeInv /\ VerifySteps => TypeInv'
  <1>a. TypeInv => /\ ev.d \in Data /\ ev.d.reset \in SUBSET ResetBits
    BY EventParts DEF TypeInv, TypeOK
  <1>1. ASSUME TypeInv, VerifyUnprovisioned PROVE TypeInv'
    <2>1. fifo' \in Seq(Event) /\ dropped' \in BOOLEAN
      BY <1>1, <1>a, PostType DEF VerifyUnprovisioned, Events, TypeInv, TypeOK
    <2> QED
      BY <1>1, <2>1 DEF VerifyUnprovisioned, Running, TypeInv, TypeOK, Aimed, pinVars, aoVars,
                        ufmVars, localVars, bootVars, Pcs
  <1>2. ASSUME TypeInv, VerifyPendingUpdate PROVE TypeInv'
    <2>1. [ev.d EXCEPT !.src = PendingSource(ev.d.reset),
                       !.intent = PendingIntent(ev.d.reset)] \in Data
      BY <1>2, <1>a, PendingType, DataExcept
    <2>2. fifo' \in Seq(Event) /\ dropped' \in BOOLEAN
      BY <1>2, <2>1, PostType DEF VerifyPendingUpdate, Events, TypeInv, TypeOK
    <2>3. cpld' \in CpldStatus
      BY <1>2, PendingType DEF VerifyPendingUpdate
    <2> QED
      BY <1>2, <2>2, <2>3 DEF VerifyPendingUpdate, Running, TypeInv, TypeOK, Aimed, pinVars,
                              aoVars, localVars, bootVars, Pcs
  <1>3. ASSUME TypeInv, VerifyImages PROVE TypeInv'
    <2>1. ao' \in [Hosts -> Ownership] /\ last' \in [Hosts -> Ownership]
      BY <1>3, CheckedType DEF VerifyImages
    <2>2. svn' \in [Images -> Svns]
      <3>1. \A i \in Images : Read(i, "recovery") \in Content /\ svn[i] \in Svns
        BY <1>3, ReadType DEF TypeInv, TypeOK, Slots
      <3>2. \A i \in Images : RaisedFloor(Read(i, "recovery"), svn[i]) \in Svns
        BY <3>1, RaisedFloorType
      <3> QED
        BY <1>3, <3>1, <3>2 DEF VerifyImages
    <2>3. VerifyOutcome([h \in Hosts |-> Checked(h)]) \in Events
      BY DEF VerifyOutcome, Events
    <2>4. fifo' \in Seq(Event) /\ dropped' \in BOOLEAN
      BY <1>3, <1>a, <2>3, PostType DEF VerifyImages, TypeInv, TypeOK
    <2> QED
      BY <1>3, <2>1, <2>2, <2>4 DEF VerifyImages, Running, TypeInv, TypeOK, Aimed, pinVars,
                                    localVars, bootVars, Pcs
  <1> QED
    BY <1>1, <1>2, <1>3 DEF VerifySteps

-----------------------------------------------------------------------------
(* FIRMWARE_RECOVERY.                                                       *)

\* A step of the recovery is about a region of a host.
LEMMA StepType ==
    ASSUME NEW k \in 1 .. 4
    PROVE  Step(k).h \in Hosts /\ Step(k).slot \in {"active", "recovery"}
  <1>1. k = 1 \/ k = 2 \/ k = 3 \/ k = 4
    OBVIOUS
  <1> QED
    BY <1>1 DEF Step, Hosts

\* The recovery matrix names a region and a content for it.
LEMMA PlanType ==
    ASSUME TypeInv, NEW h \in Hosts
    PROVE  /\ PlanOf(h).with \in Content
           /\ PlanOf(h).do = "write" => PlanOf(h).slot \in {"active", "recovery"}
  <1>1. /\ Read(h, "recovery") \in Content /\ Read(h, "staging") \in Content
        /\ Read("BMC", "staging") \in Content
    BY ReadType DEF TypeInv, TypeOK, Images, Hosts, Slots
  <1>2. Unpacked(h, Read(h, "recovery")) \in Content
    BY <1>1, CorruptType DEF Unpacked
  <1> QED
    BY <1>1, <1>2, CorruptType DEF PlanOf, RecoverImage, Plan

\* What handle_recovery makes of a call's result.
LEMMA ReturnType ==
    ASSUME TypeInv, NEW k \in 1 .. 4, NEW failure \in BOOLEAN
    PROVE  Return(k, failure) \in Recovery
  <1>1. (IF k < 4 THEN k + 1 ELSE k) \in 1 .. 4
    OBVIOUS
  <1>2. (rec.done \/ ~failure \/ Step(k).h = "PCH") \in BOOLEAN
    OBVIOUS
  <1>3. (IF Step(k).slot = "active" THEN Step(k).h ELSE rec.index) \in Hosts \cup {"none"}
    BY StepType DEF TypeInv, TypeOK, Recovery
  <1> QED
    BY <1>1, <1>2, <1>3 DEF Return, Recovery

\* The end of handle_recovery, and the rest of it after a call.
LEMMA RecoveryEndType ==
    ASSUME TypeInv, NEW r \in Recovery, RecoveryEnd(r)
    PROVE  cpld' \in CpldStatus /\ fifo' \in Seq(Event) /\ dropped' \in BOOLEAN /\ pc' = "wait"
  <1>1. cpld' \in CpldStatus
    <2>1. cpld \in CpldStatus /\ "none" \in RcvFlags
      BY DEF TypeInv, TypeOK, RcvFlags, ActFlags
    <2> QED
      BY <2>1, CpldExcept DEF RecoveryEnd
  <1>2. [NULL EXCEPT !.src = "undef", !.reset = ev.d.reset] \in Data
    <2>1. ev.d.reset \in SUBSET ResetBits /\ "undef" \in Origins
      BY EventParts DEF TypeInv, TypeOK, Origins
    <2> QED
      BY <2>1, NullType, DataExcept
  <1>3. fifo' \in Seq(Event) /\ dropped' \in BOOLEAN
    BY <1>2, NullType, PostType DEF RecoveryEnd, Events, TypeInv, TypeOK
  <1> QED
    BY <1>1, <1>3 DEF RecoveryEnd

\* Hence RecoveryGoesOn.
LEMMA GoesOnType ==
    ASSUME TypeInv, pc = "rec", NEW k, NEW r \in Recovery, RecoveryGoesOn(k, r)
    PROVE  /\ rec' \in Recovery /\ pc' \in {"rec", "wait"}
           /\ cpld' \in CpldStatus /\ fifo' \in Seq(Event) /\ dropped' \in BOOLEAN
  <1>1. CASE k < 4
    BY <1>1 DEF RecoveryGoesOn, TypeInv, TypeOK
  <1>2. CASE ~(k < 4)
    BY <1>2, RecoveryEndType DEF RecoveryGoesOn
  <1> QED
    BY <1>1, <1>2
\* A write of a region: flash, the bound, and the driver's verdict.
LEMMA RewriteType ==
    ASSUME TypeInv, NEW i \in Images, NEW s \in Slots, NEW c \in Content,
           NEW w \in Writes(i, s, c), Rewrite(i, s, w)
    PROVE  flash' \in Flash /\ spent' \in Budget /\ w.ok \in BOOLEAN
  <1>1. flash \in Flash /\ spent \in Budget
    BY DEF TypeInv, TypeOK
  <1>2. /\ w.c \in Content /\ w.ok \in BOOLEAN
        /\ [spent EXCEPT !.fault = @ + w.fault] \in Budget
    BY <1>1, WritesType
  <1> QED
    BY <1>1, <1>2, FlashExcept DEF Rewrite

\* The verdicts on a host, changed by its recovery.
LEMMA OwnershipExcept ==
    ASSUME NEW a \in [Hosts -> Ownership], NEW h \in Hosts, NEW b \in BOOLEAN
    PROVE  /\ [a EXCEPT ![h].restrict = b] \in [Hosts -> Ownership]
           /\ [a EXCEPT ![h]["active"] = b] \in [Hosts -> Ownership]
           /\ [a EXCEPT ![h]["recovery"] = b] \in [Hosts -> Ownership]
           /\ [a[h] EXCEPT !.active = b] \in Ownership
  <1>1. a[h] \in Ownership
    OBVIOUS
  <1>2. /\ [a[h] EXCEPT !.restrict = b] \in Ownership
        /\ [a[h] EXCEPT !.active = b] \in Ownership
        /\ [a[h] EXCEPT !.recovery = b] \in Ownership
    BY <1>1 DEF Ownership
  <1>3. \A o \in Ownership : [a EXCEPT ![h] = o] \in [Hosts -> Ownership]
    OBVIOUS
  <1> QED
    BY <1>2, <1>3

\* handle_recovery.
LEMMA RecoverType == TypeInv /\ RecoverSteps => TypeInv'
  <1>1. ASSUME TypeInv, RecoveryStart PROVE TypeInv'
    <2> DEFINE blamed == {h \in Hosts : ev.ev = "WDT_TIMEOUT" /\ ev.d.src = h}
    <2>1. ao' = [h \in Hosts |-> IF h \in blamed THEN [ao[h] EXCEPT !.active = FALSE] ELSE ao[h]]
      BY <1>1 DEF RecoveryStart
    <2>2. ao' \in [Hosts -> Ownership]
      <3>1. ao \in [Hosts -> Ownership]
        BY <1>1 DEF TypeInv, TypeOK
      <3>2. \A h \in Hosts : [ao[h] EXCEPT !.active = FALSE] \in Ownership
        BY <3>1, OwnershipExcept
      <3> QED
        BY <2>1, <3>1, <3>2
    <2>3. rec' \in Recovery
      <3>1. (IF blamed = {} THEN "none" ELSE ev.d.src) \in Hosts \cup {"none"}
        OBVIOUS
      <3>2. rec' = [NoRecovery EXCEPT !.index = IF blamed = {} THEN "none" ELSE ev.d.src]
        BY <1>1 DEF RecoveryStart
      <3> QED
        BY <3>1, <3>2, LocalTypes DEF Recovery
    <2> QED
      BY <1>1, <2>2, <2>3 DEF RecoveryStart, TypeInv, TypeOK, Aimed, pinVars, ufmVars, bootVars,
                              Pcs
  <1>2. ASSUME TypeInv, RecoverImages PROVE TypeInv'
    <2>1. pc = "rec"
      BY <1>2 DEF RecoverImages
    <2>2. PICK k \in NextCalls : RecoverNothing(k) \/ RecoverRegion(k) \/ RecoverFetch(k)
      BY <1>2 DEF RecoverImages
    <2>3. k \in 1 .. 4
      BY <1>2, <2>2 DEF NextCalls, TypeInv, TypeOK, Recovery
    <2> DEFINE h == Step(k).h
               p == PlanOf(h)
    <2>4. h \in Hosts /\ h \in Images
      BY <2>3, StepType DEF Images
    <2>5. p.with \in Content /\ (p.do = "write" => p.slot \in {"active", "recovery"})
      BY <1>2, <2>4, PlanType
    <2>6. \A b \in BOOLEAN : Return(k, b) \in Recovery
      BY <1>2, <2>3, ReturnType
    <2>t. ao \in [Hosts -> Ownership] /\ flash \in Flash /\ spent \in Budget
      BY <1>2 DEF TypeInv, TypeOK
    <2>7. /\ ao' \in [Hosts -> Ownership] /\ flash' \in Flash /\ spent' \in Budget
          /\ rec' \in Recovery /\ pc' \in {"rec", "wait"}
          /\ cpld' \in CpldStatus /\ fifo' \in Seq(Event) /\ dropped' \in BOOLEAN
      <3>1. CASE RecoverNothing(k)
        <4>1. (ao[h].restrict \/ p.do = "restrict") \in BOOLEAN /\ (p.do = "fail") \in BOOLEAN
          OBVIOUS
        <4>2. ao' \in [Hosts -> Ownership]
          BY <2>t, <2>4, <3>1, <4>1, OwnershipExcept DEF RecoverNothing
        <4> QED
          BY <1>2, <2>1, <2>6, <2>t, <3>1, <4>1, <4>2, GoesOnType DEF RecoverNothing
      <3>2. CASE RecoverRegion(k)
        <4>1. PICK w \in Writes(h, p.slot, p.with) :
                /\ Rewrite(h, p.slot, w)
                /\ ao' = IF w.ok THEN [ao EXCEPT ![h][p.slot] = TRUE] ELSE ao
                /\ RecoveryGoesOn(k, Return(k, ~w.ok))
          BY <3>2 DEF RecoverRegion
        <4>2. p.slot \in {"active", "recovery"}
          BY <2>5, <3>2 DEF RecoverRegion
        <4>3. flash' \in Flash /\ spent' \in Budget
          BY <1>2, <2>4, <2>5, <4>1, <4>2, RewriteType DEF Slots
        <4>4. ao' \in [Hosts -> Ownership]
          BY <2>t, <2>4, <4>1, <4>2, OwnershipExcept
        <4>5. Return(k, ~w.ok) \in Recovery
          BY <2>6
        <4> QED
          BY <1>2, <2>1, <4>1, <4>3, <4>4, <4>5, GoesOnType
      <3>3. CASE RecoverFetch(k)
        <4>1. PICK w \in Writes(h, "staging", p.with) :
                /\ Rewrite(h, "staging", w)
                /\ IF w.ok /\ Reach(h, "staging")
                   THEN UNCHANGED <<pc, rec, cpld, fifo, dropped>>
                   ELSE RecoveryGoesOn(k, Return(k, TRUE))
          BY <3>3 DEF RecoverFetch
        <4>2. flash' \in Flash /\ spent' \in Budget
          BY <1>2, <2>4, <2>5, <4>1, RewriteType DEF Slots
        <4>3. ao' \in [Hosts -> Ownership]
          BY <2>t, <3>3 DEF RecoverFetch
        <4>4. CASE w.ok /\ Reach(h, "staging")
          BY <1>2, <2>1, <4>1, <4>2, <4>3, <4>4 DEF TypeInv, TypeOK
        <4>5. CASE ~(w.ok /\ Reach(h, "staging"))
          BY <1>2, <2>1, <2>6, <4>1, <4>2, <4>3, <4>5, GoesOnType
        <4> QED
          BY <4>4, <4>5
      <3> QED
        BY <2>2, <3>1, <3>2, <3>3
    <2> QED
      BY <1>2, <2>7 DEF RecoverImages, TypeInv, TypeOK, Aimed, pinVars, bootVars, Pcs
  <1>3. ASSUME TypeInv, RecoveryDone PROVE TypeInv'
    <2>1. rec \in Recovery
      BY <1>3 DEF TypeInv, TypeOK
    <2>2. cpld' \in CpldStatus /\ fifo' \in Seq(Event) /\ dropped' \in BOOLEAN /\ pc' = "wait"
      BY <1>3, <2>1, RecoveryEndType DEF RecoveryDone
    <2> QED
      BY <1>3, <2>2 DEF RecoveryDone, TypeInv, TypeOK, Aimed, pinVars, aoVars, localVars,
                        bootVars, Pcs
  <1> QED
    BY <1>1, <1>2, <1>3 DEF RecoverSteps
-----------------------------------------------------------------------------
(* FIRMWARE_UPDATE.                                                         *)

\* The bits of an image are intents of the first register.
LEMMA BitsType ==
    ASSUME NEW i \in Images
    PROVE  ActiveBit(i) \in Intent1 /\ RecoveryBit(i) \in Intent1 /\ BitsFor(i) \subseteq Intent1
  BY DEF ActiveBit, RecoveryBit, BitsFor, Intent1, Images, Hosts

\* The loop takes an image.
LEMMA NextImageType == NextImage \in Images
  BY DEF NextImage, Images, Hosts

\* The fields of the locals of handle_update_requested, and their rewriting.
LEMMA UpdateExcept ==
    ASSUME NEW u \in Update, NEW l \in SUBSET Intent1, NEW h \in SUBSET Intent1,
           NEW i \in Images \cup {"none"}, NEW s \in {"active", "recovery"}, NEW o \in Hosts,
           NEW b \in BOOLEAN
    PROVE  /\ [u EXCEPT !.left = l] \in Update
           /\ [u EXCEPT !.left = l, !.image = i] \in Update
           /\ [u EXCEPT !.left = l, !.handled = h, !.image = i] \in Update
           /\ [u EXCEPT !.left = l, !.handled = h, !.image = i, !.sel = s, !.obj = o] \in Update
           /\ [u EXCEPT !.ok = b] \in Update
  BY DEF Update

\* The end of a loop iteration.
LEMMA EndIterationType ==
    ASSUME TypeInv, NEW ok, NEW h \in SUBSET Intent1, NEW status \in CpldStatus, NEW i,
           EndIteration(ok, h, status, i)
    PROVE  /\ pc' = "upd" /\ ev' \in Event /\ lcpld' \in CpldStatus
           /\ fifo' \in Seq(Event) /\ dropped' \in BOOLEAN
  <1>1. ev' \in Event
    BY EventHandled DEF EndIteration, TypeInv, TypeOK
  <1>2. lcpld' \in CpldStatus
    <2>1. "none" \in RcvFlags
      BY DEF RcvFlags, ActFlags
    <2>2. [status EXCEPT !.recovery[i] = "none"] \in CpldStatus
      BY <2>1, CpldExcept
    <2> QED
      BY <2>2 DEF EndIteration
  <1>3. [ev.d EXCEPT !.handled = h] \in Data
    <2>1. ev.d \in Data
      BY EventParts DEF TypeInv, TypeOK
    <2> QED
      BY <2>1, DataExcept DEF Data
  <1>4. fifo' \in Seq(Event) /\ dropped' \in BOOLEAN
    BY <1>3, PostType DEF EndIteration, Events, TypeInv, TypeOK
  <1> QED
    BY <1>1, <1>2, <1>4 DEF EndIteration

\* The start of handle_update_requested.
LEMMA UpdateStartType == TypeInv /\ UpdateStart => TypeInv'
  <1> SUFFICES ASSUME TypeInv, UpdateStart PROVE TypeInv'
    OBVIOUS
  <1>1. upd' \in Update
    <2>1. (ev.d.intent \cap Intent1) \in SUBSET Intent1
      OBVIOUS
    <2>2. upd' = [NoUpdate EXCEPT !.left = ev.d.intent \cap Intent1]
      BY DEF UpdateStart
    <2> QED
      BY <2>1, <2>2, LocalTypes DEF Update
  <1>2. lcpld' \in CpldStatus
    <2>1. cpld \in CpldStatus
      BY DEF TypeInv, TypeOK
    <2>2. [cpld EXCEPT !.toPch = TRUE] \in CpldStatus
      BY <2>1 DEF CpldStatus
    <2> QED
      BY <2>1, <2>2 DEF UpdateStart
  <1> QED
    BY <1>1, <1>2 DEF UpdateStart, Running, TypeInv, TypeOK, Aimed, pinVars, aoVars, ufmVars,
                      bootVars, Pcs

\* The choice of the next region.
LEMMA UpdateSelectType == TypeInv /\ UpdateSelect => TypeInv'
  <1> SUFFICES ASSUME TypeInv, UpdateSelect PROVE TypeInv'
    OBVIOUS
  <1> DEFINE i == NextImage
  <1>1. i \in Images /\ ActiveBit(i) \in Intent1 /\ RecoveryBit(i) \in Intent1
    BY NextImageType, BitsType
  <1>2. /\ upd \in Update /\ upd.left \in SUBSET Intent1 /\ upd.handled \in SUBSET Intent1
        /\ upd.image \in Images \cup {"none"} /\ upd.sel \in {"active", "recovery"}
        /\ upd.obj \in Hosts /\ upd.ok \in BOOLEAN
    BY DEF TypeInv, TypeOK, Update
  <1>3. lcpld \in CpldStatus /\ hash \in [Images -> Content] /\ ev \in Event
    BY DEF TypeInv, TypeOK
  <1>4. \A f \in RcvFlags : [lcpld EXCEPT !.recovery[i] = f] \in CpldStatus
    BY <1>3, CpldExcept
  <1>5. "HANDLED" \in RcvFlags /\ "BMC_PENDING" \in RcvFlags /\ "PCH_PENDING" \in RcvFlags
    BY DEF RcvFlags
  <1>6. (upd.handled \cup {RecoveryBit(i)}) \in SUBSET Intent1
    BY <1>1, <1>2
  <1>7. (upd.left \ {RecoveryBit(i)}) \in SUBSET Intent1
    BY <1>2
  <1>8. /\ upd' \in Update /\ ev' \in Event /\ lcpld' \in CpldStatus
        /\ hash' \in [Images -> Content] /\ fifo' \in Seq(Event) /\ dropped' \in BOOLEAN
        /\ pc' \in Pcs /\ Aimed'
    <2>1. CASE UpdateBypass
      <3>1. upd' \in Update
        <4>1. upd' = [upd EXCEPT !.left = @ \ {RecoveryBit(i)}, !.image = "none"]
          BY <2>1 DEF UpdateBypass
        <4> QED
          BY <1>2, <1>7, <4>1 DEF Update
      <3>2. EndIteration(upd.ok, upd.handled, lcpld, i) /\ UNCHANGED hash
        BY <2>1 DEF UpdateBypass
      <3>3. /\ pc' = "upd" /\ ev' \in Event /\ lcpld' \in CpldStatus
            /\ fifo' \in Seq(Event) /\ dropped' \in BOOLEAN
        BY <1>2, <1>3, <3>2, EndIterationType
      <3> QED
        BY <1>3, <3>1, <3>2, <3>3 DEF Aimed, Pcs
    <2>2. CASE UpdateTampered
      <3> DEFINE h == upd.handled \cup {RecoveryBit(i)}
                 status == [lcpld EXCEPT !.recovery[i] = "HANDLED"]
      <3>1. upd' \in Update
        <4>1. upd' = [upd EXCEPT !.left = @ \ {RecoveryBit(i)}, !.handled = h, !.image = "none"]
          BY <2>2 DEF UpdateTampered
        <4> QED
          BY <1>2, <1>6, <1>7, <4>1 DEF Update
      <3>2. EndIteration(upd.ok, h, status, i) /\ UNCHANGED hash
        BY <2>2 DEF UpdateTampered
      <3>3. /\ pc' = "upd" /\ ev' \in Event /\ lcpld' \in CpldStatus
            /\ fifo' \in Seq(Event) /\ dropped' \in BOOLEAN
        BY <1>4, <1>5, <1>6, <3>2, EndIterationType
      <3> QED
        BY <1>3, <3>1, <3>2, <3>3 DEF Aimed, Pcs
    <2>3. CASE UpdateRecoveryRegion
      <3>1. upd' = [upd EXCEPT !.left = @ \ {RecoveryBit(i)},
                               !.handled = @ \cup {RecoveryBit(i)},
                               !.image = i, !.sel = "recovery", !.obj = "BMC"]
        BY <2>3 DEF UpdateRecoveryRegion
      <3>2. upd' \in Update /\ upd'.image \in Images
        BY <1>1, <1>2, <1>6, <1>7, <3>1 DEF Update, Hosts
      <3>3. lcpld' \in CpldStatus
        BY <1>4, <1>5, <2>3 DEF UpdateRecoveryRegion
      <3> QED
        BY <1>3, <2>3, <3>2, <3>3 DEF UpdateRecoveryRegion, Aimed, Pcs, TypeInv, TypeOK
    <2>4. CASE UpdateActiveRegion
      <3> DEFINE bits == {ActiveBit(i)} \cup (BitsFor(i) \cap upd.left)
      <3>1. upd' = [upd EXCEPT !.left = @ \ bits, !.handled = @ \cup bits, !.image = i,
                               !.sel = "active", !.obj = IF i = "ROT" THEN @ ELSE i]
        BY <2>4 DEF UpdateActiveRegion
      <3>2. bits \in SUBSET Intent1
        BY <1>1, BitsType
      <3>3. (IF i = "ROT" THEN upd.obj ELSE i) \in Hosts
        BY <1>1, <1>2 DEF Images
      <3>4. (upd.left \ bits) \in SUBSET Intent1 /\ (upd.handled \cup bits) \in SUBSET Intent1
        BY <1>2, <3>2
      <3>5. upd' \in Update /\ upd'.image \in Images
        BY <1>1, <1>2, <3>1, <3>3, <3>4 DEF Update
      <3>6. lcpld' \in CpldStatus
        BY <1>3, <1>4, <1>5, <2>4 DEF UpdateActiveRegion
      <3>7. hash' \in [Images -> Content]
        <4>1. StagingHash(i) \in Content
          BY <1>1, ReadType DEF StagingHash, TypeInv, TypeOK, Images, Hosts, Slots
        <4> QED
          BY <1>3, <2>4, <4>1 DEF UpdateActiveRegion
      <3> QED
        BY <1>3, <2>4, <3>5, <3>6, <3>7 DEF UpdateActiveRegion, Aimed, Pcs, TypeInv, TypeOK
    <2> QED
      BY <2>1, <2>2, <2>3, <2>4 DEF UpdateSelect
  <1> QED
    BY <1>8 DEF UpdateSelect, TypeInv, TypeOK, pinVars, aoVars, bootVars
\* The result of update_firmware_image ends the iteration.
LEMMA UpdateReturnsType ==
    ASSUME TypeInv, NEW ok \in BOOLEAN, NEW log, NEW status \in CpldStatus,
           UpdateReturns(ok, log, status)
    PROVE  /\ pc' = "upd" /\ ev' \in Event /\ lcpld' \in CpldStatus /\ upd' \in Update
           /\ fifo' \in Seq(Event) /\ dropped' \in BOOLEAN /\ fails' \in 0 .. MaxUpdFailed
  <1>1. upd \in Update /\ upd.handled \in SUBSET Intent1
    BY DEF TypeInv, TypeOK, Update
  <1>2. upd' \in Update
    BY <1>1 DEF UpdateReturns, Update
  <1>3. fails' \in 0 .. MaxUpdFailed
    BY ConfigAssumption DEF UpdateReturns, Failed, TypeInv, TypeOK
  <1>4. EndIteration(ok, upd.handled, status, upd.image)
    BY DEF UpdateReturns
  <1> QED
    BY <1>1, <1>2, <1>3, <1>4, EndIterationType

\* The copy of what the BMC staged for the PCH.
LEMMA UpdateCopyType == TypeInv /\ UpdateCopy => TypeInv'
  <1> SUFFICES ASSUME TypeInv, UpdateCopy PROVE TypeInv'
    OBVIOUS
  <1> DEFINE status == [lcpld EXCEPT !.toPch = FALSE]
             Same == UNCHANGED <<ev, fifo, dropped, fails, upd>> /\ pc' = "prog" /\ lcpld' = status
             Kept == /\ pc' \in {"upd", "prog"} /\ ev' \in Event /\ lcpld' \in CpldStatus
                     /\ upd' \in Update /\ fifo' \in Seq(Event) /\ dropped' \in BOOLEAN
                     /\ fails' \in 0 .. MaxUpdFailed /\ Aimed'
  <1>1. status \in CpldStatus
    <2>1. lcpld \in CpldStatus
      BY DEF TypeInv, TypeOK
    <2> QED
      BY <2>1 DEF CpldStatus
  <1>2. Read("BMC", "staging") \in Content
    BY ReadType DEF TypeInv, TypeOK, Images, Hosts, Slots
  <1>3. UpdateReturns(FALSE, TRUE, status) => Kept
    BY <1>1, UpdateReturnsType DEF Aimed
  <1>4. Same => Kept
    BY <1>1 DEF TypeInv, TypeOK, Aimed, UpdateCopy
  <1>5. Kept /\ flash' \in Flash /\ spent' \in Budget
    <2>1. CASE Same /\ UNCHANGED <<flash, spent>>
      BY <1>4, <2>1 DEF TypeInv, TypeOK
    <2>2. CASE UpdateReturns(FALSE, TRUE, status) /\ UNCHANGED <<flash, spent>>
      BY <1>3, <2>2 DEF TypeInv, TypeOK
    <2>3. CASE \E w \in Writes("PCH", "staging", Read("BMC", "staging")) :
                  /\ Rewrite("PCH", "staging", w)
                  /\ Same \/ UpdateReturns(FALSE, TRUE, status)
      <3>1. PICK w \in Writes("PCH", "staging", Read("BMC", "staging")) :
                  /\ Rewrite("PCH", "staging", w)
                  /\ Same \/ UpdateReturns(FALSE, TRUE, status)
        BY <2>3
      <3>2. flash' \in Flash /\ spent' \in Budget
        BY <1>2, <3>1, RewriteType DEF Images, Hosts, Slots
      <3> QED
        BY <1>3, <1>4, <3>1, <3>2
    <2> QED
      BY <2>1, <2>2, <2>3 DEF UpdateCopy
  <1> QED
    BY <1>5 DEF UpdateCopy, TypeInv, TypeOK, pinVars, aoVars, ufmVars, bootVars, Pcs

\* What update_firmware_image decides, and the flags after the decision.
LEMMA JudgedType ==
    ASSUME TypeInv, pc = "prog"
    PROVE  Judged.ok \in BOOLEAN /\ JudgedStatus(Judged) \in CpldStatus
  <1>1. Judged.ok \in BOOLEAN
    BY DEF Judged, UpdateRot, UpdateHost, Verdict
  <1>2. lcpld \in CpldStatus /\ "none" \in RcvFlags
    BY DEF TypeInv, TypeOK, RcvFlags, ActFlags
  <1>3. [lcpld EXCEPT !.recovery[upd.image] = "none"] \in CpldStatus
    BY <1>2, CpldExcept
  <1> QED
    BY <1>1, <1>2, <1>3 DEF JudgedStatus

\* The decision and the write of the region.
LEMMA UpdateProgramType == TypeInv /\ (UpdateRefused \/ UpdateProgram) => TypeInv'
  <1>1. ASSUME TypeInv, UpdateRefused PROVE TypeInv'
    <2>1. /\ pc' = "upd" /\ ev' \in Event /\ lcpld' \in CpldStatus /\ upd' \in Update
          /\ fifo' \in Seq(Event) /\ dropped' \in BOOLEAN /\ fails' \in 0 .. MaxUpdFailed
      BY <1>1, JudgedType, UpdateReturnsType DEF UpdateRefused
    <2> QED
      BY <1>1, <2>1 DEF UpdateRefused, TypeInv, TypeOK, Aimed, pinVars, aoVars, ufmVars, bootVars,
                        Pcs
  <1>2. ASSUME TypeInv, UpdateProgram PROVE TypeInv'
    <2> DEFINE i == upd.image
               c == Read(i, "staging")
               new == Installed(i, upd.sel, c)
    <2>1. PICK w \in Writes(i, upd.sel, new) :
            /\ Rewrite(i, upd.sel, w)
            /\ svn' = IF w.ok /\ upd.sel = "recovery" THEN [svn EXCEPT ![i] = c.svn] ELSE svn
            /\ UpdateReturns(w.ok, ~w.ok /\ upd.sel = "active" /\ i # "ROT",
                             JudgedStatus(Judged))
      BY <1>2 DEF UpdateProgram
    <2>2. i \in Images /\ upd.sel \in Slots
      BY <1>2 DEF UpdateProgram, TypeInv, TypeOK, Aimed, Update, Slots
    <2>3. c \in Content /\ c.svn \in Svns
      <3>1. c \in Content
        BY <1>2, <2>2, ReadType DEF TypeInv, TypeOK, Slots
      <3> QED
        BY <3>1 DEF Content
    <2>4. new \in Content
      BY <2>3, CorruptType DEF Installed, Unpacked
    <2>5. flash' \in Flash /\ spent' \in Budget /\ w.ok \in BOOLEAN
      BY <1>2, <2>1, <2>2, <2>4, RewriteType
    <2>6. JudgedStatus(Judged) \in CpldStatus
      BY <1>2, JudgedType DEF UpdateProgram
    <2>7. /\ pc' = "upd" /\ ev' \in Event /\ lcpld' \in CpldStatus /\ upd' \in Update
          /\ fifo' \in Seq(Event) /\ dropped' \in BOOLEAN /\ fails' \in 0 .. MaxUpdFailed
      BY <1>2, <2>1, <2>5, <2>6, UpdateReturnsType
    <2>8. svn' \in [Images -> Svns]
      BY <1>2, <2>1, <2>3 DEF TypeInv, TypeOK
    <2> QED
      BY <1>2, <2>5, <2>7, <2>8 DEF UpdateProgram, TypeInv, TypeOK, Aimed, pinVars, aoVars,
                                    bootVars, Pcs
  <1> QED
    BY <1>1, <1>2

\* The end of handle_update_requested.
LEMMA UpdateEndType == TypeInv /\ UpdateEnd => TypeInv'
  <1> SUFFICES ASSUME TypeInv, UpdateEnd PROVE TypeInv'
    OBVIOUS
  <1>1. [ev.d EXCEPT !.reset = @ \ {"BootDoneRecovery"}] \in Data
    <2>1. ev.d \in Data /\ (ev.d.reset \ {"BootDoneRecovery"}) \in SUBSET ResetBits
      BY EventParts DEF TypeInv, TypeOK
    <2> QED
      BY <2>1 DEF Data
  <1>2. fifo' \in Seq(Event) /\ dropped' \in BOOLEAN
    BY <1>1, PostType DEF UpdateEnd, Events, TypeInv, TypeOK
  <1> QED
    BY <1>2, LocalTypes, ClearCpldType
    DEF UpdateEnd, TypeInv, TypeOK, Aimed, pinVars, aoVars, bootVars, Pcs

\* handle_update_requested.
LEMMA UpdateType == TypeInv /\ UpdateSteps => TypeInv'
  BY UpdateStartType, UpdateSelectType, UpdateCopyType, UpdateProgramType, UpdateEndType
  DEF UpdateSteps
-----------------------------------------------------------------------------
(* RUNTIME, UNPROVISIONED and the seamless update.                          *)

\* The flags of an update at reset.
LEMMA AtResetType ==
    ASSUME TypeInv, NEW d
    PROVE  AtResetStatus(d) \in CpldStatus
  <1> DEFINE type == IF d.src = "PchUpdateIntent" THEN "PCH_AT_RESET" ELSE "BMC_AT_RESET"
             flag(i) == IF i = "PCH" THEN type ELSE "BMC_AT_RESET"
             act == [i \in Images |-> IF ActiveBit(i) \in d.intent THEN flag(i) ELSE "none"]
             rcv == [i \in Images |-> IF i # "ROT" /\ RecoveryBit(i) \in d.intent
                                      THEN flag(i) ELSE "none"]
  <1>1. act \in [Images -> ActFlags] /\ rcv \in [Images -> RcvFlags]
    BY DEF ActFlags, RcvFlags
  <1>2. cpld.toPch \in BOOLEAN
    BY DEF TypeInv, TypeOK, CpldStatus
  <1>3. AtResetStatus(d).status \in SUBSET Images
    BY DEF AtResetStatus
  <1> HIDE DEF act, rcv
  <1>4. [status |-> AtResetStatus(d).status, active |-> act, recovery |-> rcv,
         toPch |-> cpld.toPch] \in CpldStatus
    BY <1>1, <1>2, <1>3 DEF CpldStatus
  <1>5. AtResetStatus(d) = [status |-> AtResetStatus(d).status, active |-> act,
                            recovery |-> rcv, toPch |-> cpld.toPch]
    BY DEF AtResetStatus, act, rcv
  <1> QED
    BY <1>4, <1>5

\* A checkpoint handler changes boot bits into boot bits, timers into timers.
LEMMA CheckpointType ==
    ASSUME NEW src, NEW cmd, NEW b \in SUBSET BootBits, NEW t \in SUBSET Timers
    PROVE  /\ UpdateCheckpoint(src, cmd, b, t).booted \in SUBSET BootBits
           /\ UpdateCheckpoint(src, cmd, b, t).timers \in SUBSET Timers
  <1>1. \A x \in Timers : Clock(cmd, x, t) \in SUBSET Timers
    BY DEF Clock
  <1>2. "BMC" \in Timers /\ "ACM" \in Timers /\ "BIOS" \in Timers
    BY DEF Timers
  <1>3. BmcWdt(cmd, b, t).booted \in SUBSET BootBits /\ BmcWdt(cmd, b, t).timers \in SUBSET Timers
    BY <1>1, <1>2 DEF BmcWdt, Progress, BootBits
  <1>4. AcmWdt(cmd, b, t).booted \in SUBSET BootBits /\ AcmWdt(cmd, b, t).timers \in SUBSET Timers
    BY <1>1, <1>2 DEF AcmWdt, Progress
  <1>5. /\ BiosWdt(cmd, b, t).booted \in SUBSET BootBits
        /\ BiosWdt(cmd, b, t).timers \in SUBSET Timers
    BY <1>1, <1>2 DEF BiosWdt, Progress, BootBits
  <1> QED
    BY <1>3, <1>4, <1>5 DEF UpdateCheckpoint, Progress

\* do_runtime and do_unprovisioned.
LEMMA RuntimeType == TypeInv /\ RuntimeSteps => TypeInv'
  <1>1. ASSUME TypeInv, UpdateAtReset PROVE TypeInv'
    BY <1>1, AtResetType DEF UpdateAtReset, TypeInv, TypeOK, Aimed, pinVars, aoVars, localVars,
                             bootVars, Pcs
  <1>2. ASSUME TypeInv, HandleCheckpoint PROVE TypeInv'
    <2>1. PICK cmd \in ev.d.intent :
            LET p == UpdateCheckpoint(ev.d.src, cmd, booted, timers)
            IN  /\ pc' = "wait"
                /\ booted' = p.booted /\ timers' = p.timers
                /\ \/ GenerateStateMachineEvent("WDT_TIMEOUT",
                          [NULL EXCEPT !.src = BlamedBy(ev.d.src)])
                   \/ GenerateStateMachineEvent("UPDATE_REQUESTED", BootDoneData)
                   \/ UNCHANGED <<fifo, dropped>>
                /\ UNCHANGED <<state, ev, pinVars, aoVars, flash, ufmVars, localVars, fails,
                               ack, spent>>
      BY <1>2 DEF HandleCheckpoint
    <2>2. booted' \subseteq BootBits /\ timers' \subseteq Timers
      BY <1>2, <2>1, CheckpointType DEF TypeInv, TypeOK
    <2>3. [NULL EXCEPT !.src = BlamedBy(ev.d.src)] \in Data
      BY NullType, DataExcept DEF Data, BlamedBy, Origins, Hosts
    <2>4. BootDoneData \in Data
      <3>1. BootDoneIntent \in SUBSET IntentBits
        BY DEF BootDoneIntent, IntentBits, Intent1
      <3>2. {"BootDoneRecovery"} \in SUBSET ResetBits
        BY DEF ResetBits
      <3>3. (IF cpld.recovery["PCH"] = "PCH_PENDING" THEN "PchUpdateIntent"
                                                     ELSE "BmcUpdateIntent") \in Origins
        BY DEF Origins
      <3> QED
        BY <3>1, <3>2, <3>3, NullType DEF BootDoneData, Data
    <2>5. fifo' \in Seq(Event) /\ dropped' \in BOOLEAN
      BY <1>2, <2>1, <2>3, <2>4, PostType DEF Events, TypeInv, TypeOK
    <2> QED
      BY <1>2, <2>1, <2>2, <2>5 DEF TypeInv, TypeOK, Aimed, pinVars, aoVars, ufmVars, localVars,
                                    Pcs
  <1>3. ASSUME TypeInv, HandleProvision PROVE TypeInv'
    <2>1. \A cmd \in UfmCommands \ {"ERASE_CURRENT"} : UfmBit(cmd) \in UfmBits
      BY DEF UfmCommands, UfmBit, UfmBits
    <2>2. /\ ufm' \subseteq UfmBits /\ cpld' \in CpldStatus /\ hash' \in [Images -> Content]
          /\ svn' \in [Images -> Svns]
      <3>1. [i \in Images |-> Corrupt] \in [Images -> Content] /\ 0 \in Svns
        BY CorruptType, SvnMaxAssumption DEF Svns
      <3> QED
        BY <1>3, <2>1, <3>1, ClearCpldType DEF HandleProvision, ufmVars, TypeInv, TypeOK
    <2> QED
      BY <1>3, <2>2 DEF HandleProvision, TypeInv, TypeOK, Aimed, pinVars, aoVars, localVars,
                        bootVars, Pcs
  <1>4. ASSUME TypeInv, RunNothing PROVE TypeInv'
    BY <1>4 DEF RunNothing, TypeInv, TypeOK, Aimed, pinVars, aoVars, ufmVars, localVars, bootVars,
                Pcs
  <1> QED
    BY <1>1, <1>2, <1>3, <1>4 DEF RuntimeSteps

\* handle_seamless_update_requested, handle_seamless_update_verification.
LEMMA SeamlessType == TypeInv /\ SeamlessSteps => TypeInv'
  <1>1. ASSUME TypeInv, SeamlessUpdate PROVE TypeInv'
    <2> DEFINE fetched == ev.d.src = "BmcUpdateIntent2" \/ cpld.toPch
               usable  == Copied.kind = "PCH"
    <2>1. PICK fault \in {f \in {0, 1} : f = 1 => usable /\ spent.fault < Around.fault} :
              /\ spent' = [spent EXCEPT !.fault = @ + fault]
              /\ flash' = [flash EXCEPT
                             !["PCH"]["staging"] = IF fetched /\ usable THEN Copied ELSE @,
                             !["PCH"]["active"] = IF fault = 1 THEN Corrupt ELSE @]
              /\ GenerateStateMachineEvent(
                     IF usable /\ fault = 0 THEN "SEAMLESS_UPDATE_DONE"
                                            ELSE "SEAMLESS_UPDATE_FAILED", NULL)
      BY <1>1 DEF SeamlessUpdate
    <2>2. spent' \in Budget
      <3>1. spent \in Budget /\ fault \in Nat
        BY <1>1, <2>1 DEF TypeInv, TypeOK
      <3> QED
        BY <2>1, <3>1 DEF Budget
    <2>3. flash' \in Flash
      <3>1. flash \in Flash /\ "PCH" \in Images /\ {"staging", "active"} \subseteq Slots
        BY <1>1 DEF TypeInv, TypeOK, Images, Hosts, Slots
      <3>2. Copied \in Content /\ flash["PCH"]["staging"] \in Content
        BY <3>1 DEF Copied, Flash, Images, Hosts, Slots
      <3> DEFINE a == IF fetched /\ usable THEN Copied ELSE flash["PCH"]["staging"]
                 g == [flash EXCEPT !["PCH"]["staging"] = a]
                 b == IF fault = 1 THEN Corrupt ELSE g["PCH"]["active"]
      <3>3. a \in Content
        BY <3>2
      <3>4. g \in Flash
        BY <3>1, <3>3, FlashExcept
      <3>5. b \in Content
        BY <3>1, <3>4, CorruptType DEF Flash
      <3>7. flash' = [g EXCEPT !["PCH"]["active"] = b]
        BY <2>1
      <3> HIDE DEF a, g, b
      <3>6. [g EXCEPT !["PCH"]["active"] = b] \in Flash
        BY <3>1, <3>4, <3>5, FlashExcept
      <3> QED
        BY <3>6, <3>7
    <2>4. fifo' \in Seq(Event) /\ dropped' \in BOOLEAN
      BY <1>1, <2>1, PostType, NullType DEF Events, TypeInv, TypeOK
    <2>5. cpld' \in CpldStatus
      <3>1. cpld \in CpldStatus
        BY <1>1 DEF TypeInv, TypeOK
      <3>2. [cpld EXCEPT !.toPch = FALSE] \in CpldStatus
        BY <3>1 DEF CpldStatus
      <3> QED
        BY <1>1, <3>2 DEF SeamlessUpdate
    <2>6. mux' \subseteq Hosts /\ timers' \subseteq Timers
      BY <1>1 DEF SeamlessUpdate, TypeInv, TypeOK, Timers
    <2> QED
      BY <1>1, <2>2, <2>3, <2>4, <2>5, <2>6
      DEF SeamlessUpdate, Running, TypeInv, TypeOK, Aimed, aoVars, localVars, Pcs
  <1>2. ASSUME TypeInv, SeamlessVerify PROVE TypeInv'
    <2>1. fifo' \in Seq(Event) /\ dropped' \in BOOLEAN
      BY <1>2, PostType, NullType DEF SeamlessVerify, Events, TypeInv, TypeOK
    <2> QED
      BY <1>2, <2>1 DEF SeamlessVerify, Running, TypeInv, TypeOK, Aimed, aoVars, ufmVars,
                        localVars, bootVars, Pcs
  <1> QED
    BY <1>1, <1>2 DEF SeamlessSteps
-----------------------------------------------------------------------------
(* The environment.                                                         *)

\* Losing the image of a region keeps the flash well formed.
LEMMA FlashLost ==
    ASSUME NEW f \in Flash, NEW i, NEW s
    PROVE  [f EXCEPT ![i][s] = Corrupt] \in Flash
  <1>1. CASE i \in Images
    <2>1. f[i] \in [Slots -> Content]
      BY <1>1 DEF Flash
    <2>2. [f[i] EXCEPT ![s] = Corrupt] \in [Slots -> Content]
      BY <2>1, CorruptType
    <2> QED
      BY <2>2 DEF Flash
  <1>2. CASE i \notin Images
    BY <1>2 DEF Flash
  <1> QED
    BY <1>1, <1>2

\* The mailbox, the timers and the reset monitor only post events.
LEMMA PostingType ==
    ASSUME TypeInv,
           BmcReset \/ MailboxIntent \/ MailboxCheckpoint \/ MailboxProvision \/ TimerExpire
    PROVE  /\ fifo' \in Seq(Event) /\ dropped' \in BOOLEAN /\ spent' \in Budget
           /\ timers' \subseteq Timers /\ ack' \in BOOLEAN
  <1>t. /\ fifo \in Seq(Event) /\ dropped \in BOOLEAN /\ spent \in Budget
        /\ timers \subseteq Timers /\ ack \in BOOLEAN
    BY DEF TypeInv, TypeOK
  <1>1. CASE BmcReset
    <2>1. fifo' \in Seq(Event) /\ dropped' \in BOOLEAN
      BY <1>t, <1>1, PostType, NullType DEF BmcReset, Events
    <2> QED
      BY <1>t, <1>1, <2>1, BudgetExcept DEF BmcReset, bootVars
  <1>2. CASE MailboxIntent
    <2>1. PICK r \in Around.requests :
            /\ GenerateStateMachineEvent(r.ev, [NULL EXCEPT !.src = r.src, !.intent = Masked(r)])
            /\ ack' = IF r.src = "BmcUpdateIntent2" THEN "Ack" \in r.intent ELSE ack
            /\ timers' = IF r.src = "BmcUpdateIntent2" /\ "Ack" \notin r.intent
                         THEN timers \ {"BMC"} ELSE timers
      BY <1>2 DEF MailboxIntent
    <2>2. /\ r.ev \in Events /\ r.src \in Origins /\ r.intent \in SUBSET IntentBits
      BY <1>t, AroundType DEF Surroundings, Request, Events, Origins
    <2>3. Masked(r) \in SUBSET IntentBits
      BY <2>2 DEF Masked
    <2>4. [NULL EXCEPT !.src = r.src, !.intent = Masked(r)] \in Data
      BY <2>2, <2>3, NullType DEF Data
    <2>5. fifo' \in Seq(Event) /\ dropped' \in BOOLEAN
      BY <1>t, <2>1, <2>2, <2>4, PostType
    <2>6. ack' \in BOOLEAN /\ timers' \subseteq Timers
      <3>1. ("Ack" \in r.intent) \in BOOLEAN
        OBVIOUS
      <3>2. ack' \in BOOLEAN
        BY <1>t, <2>1, <3>1, Zenon
      <3>3. timers' \subseteq Timers
        BY <1>t, <2>1
      <3> QED
        BY <3>2, <3>3
    <2> QED
      BY <1>t, <1>2, <2>5, <2>6, BudgetExcept DEF MailboxIntent
  <1>3. CASE MailboxCheckpoint
    <2>1. PICK c \in Around.checkpoints :
            GenerateStateMachineEvent("WDT_CHECKPOINT",
                [NULL EXCEPT !.src = c[1], !.intent = {c[2]}])
      BY <1>3 DEF MailboxCheckpoint
    <2>2. c[1] \in Origins /\ {c[2]} \in SUBSET IntentBits
      BY <1>t, AroundType DEF Surroundings, Origins, IntentBits
    <2>3. [NULL EXCEPT !.src = c[1], !.intent = {c[2]}] \in Data
      BY <2>2, NullType DEF Data
    <2>4. fifo' \in Seq(Event) /\ dropped' \in BOOLEAN
      BY <1>t, <2>1, <2>3, PostType DEF Events
    <2> QED
      BY <1>t, <1>3, <2>4, BudgetExcept DEF MailboxCheckpoint, bootVars
  <1>4. CASE MailboxProvision
    <2>1. PICK cmd \in Around.provisions :
            GenerateStateMachineEvent("PROVISION_CMD",
                [NULL EXCEPT !.src = "UfmCommand", !.intent = {cmd}])
      BY <1>4 DEF MailboxProvision
    <2>2. "UfmCommand" \in Origins /\ {cmd} \in SUBSET IntentBits
      BY <1>t, AroundType DEF Surroundings, Origins, IntentBits
    <2>3. [NULL EXCEPT !.src = "UfmCommand", !.intent = {cmd}] \in Data
      BY <2>2, NullType DEF Data
    <2>4. fifo' \in Seq(Event) /\ dropped' \in BOOLEAN
      BY <1>t, <2>1, <2>3, PostType DEF Events
    <2> QED
      BY <1>t, <1>4, <2>4, BudgetExcept DEF MailboxProvision, bootVars
  <1>5. CASE TimerExpire
    <2>1. PICK t \in timers :
            /\ timers' = timers \ {t}
            /\ ack' = (ack /\ t # "BMC")
            /\ \/ GenerateStateMachineEvent("RESET_DETECTED", NULL)
               \/ GenerateStateMachineEvent("WDT_TIMEOUT", [NULL EXCEPT !.src = BlamedBy(t)])
      BY <1>5 DEF TimerExpire
    <2>2. [NULL EXCEPT !.src = BlamedBy(t)] \in Data
      BY NullType DEF Data, BlamedBy, Origins, Hosts
    <2>3. fifo' \in Seq(Event) /\ dropped' \in BOOLEAN
      BY <1>t, <2>1, <2>2, NullType, PostType DEF Events
    <2>4. ack' \in BOOLEAN /\ timers' \subseteq Timers
      BY <1>t, <2>1
    <2> QED
      BY <1>t, <1>5, <2>3, <2>4, BudgetExcept DEF TimerExpire
  <1> QED
    BY <1>1, <1>2, <1>3, <1>4, <1>5

\* The environment.
LEMMA EnvironmentType == TypeInv /\ Environment => TypeInv'
  <1>1. ASSUME TypeInv,
               BmcReset \/ MailboxIntent \/ MailboxCheckpoint \/ MailboxProvision \/ TimerExpire
        PROVE  TypeInv'
    <2>1. /\ fifo' \in Seq(Event) /\ dropped' \in BOOLEAN /\ spent' \in Budget
          /\ timers' \subseteq Timers /\ ack' \in BOOLEAN
      BY <1>1, PostingType
    <2>2. /\ UNCHANGED <<state, pc, ev, pinVars, aoVars, flash, ufmVars, localVars, fails, booted>>
      BY <1>1 DEF BmcReset, MailboxIntent, MailboxCheckpoint, MailboxProvision, TimerExpire,
                  bootVars
    <2> QED
      BY <1>1, <2>1, <2>2 DEF TypeInv, TypeOK, Aimed, pinVars, aoVars, ufmVars, localVars
  <1>2. ASSUME TypeInv, StageCapsule PROVE TypeInv'
    <2>1. PICK s \in Around.stageable : flash' = [flash EXCEPT ![s[1]]["staging"] = s[2]]
      BY <1>2 DEF StageCapsule
    <2>2. s[1] \in Images /\ s[2] \in Content /\ flash \in Flash /\ "staging" \in Slots
      BY <1>2, AroundType DEF TypeInv, TypeOK, Slots, Surroundings
    <2>3. flash' \in Flash
      BY <2>1, <2>2, FlashExcept
    <2>4. spent' \in Budget
      BY <1>2, BudgetExcept DEF StageCapsule, TypeInv, TypeOK
    <2> QED
      BY <1>2, <2>3, <2>4 DEF StageCapsule, TypeInv, TypeOK, Aimed, smVars, pinVars, aoVars,
                              ufmVars, localVars, bootVars
  <1>3. ASSUME TypeInv, CorruptFlash PROVE TypeInv'
    <2>1. flash' \in Flash
      <3>1. PICK h \in Hosts, slot \in {"active", "recovery"} :
              flash' = [flash EXCEPT ![h][slot] = Corrupt]
        BY <1>3 DEF CorruptFlash
      <3>2. flash \in Flash
        BY <1>3 DEF TypeInv, TypeOK
      <3>3. [flash EXCEPT ![h][slot] = Corrupt] \in Flash
        BY <3>2, FlashLost
      <3> QED
        BY <3>1, <3>3
    <2>2. spent' \in Budget
      BY <1>3, BudgetExcept DEF CorruptFlash, TypeInv, TypeOK
    <2> QED
      BY <1>3, <2>1, <2>2 DEF CorruptFlash, TypeInv, TypeOK, Aimed, smVars, pinVars, aoVars,
                              ufmVars, localVars, bootVars
  <1>4. ASSUME TypeInv, PowerLoss PROVE TypeInv'
    <2>1. flash' \in Flash /\ \E f : Reset(f)
      <3>1. CASE Reset(flash) /\ UNCHANGED flash
        BY <1>4, <3>1 DEF TypeInv, TypeOK
      <3>2. CASE \E x \in BeingWritten : /\ flash' = [flash EXCEPT ![x[1]][x[2]] = Corrupt]
                                         /\ Reset(flash')
        <4>1. PICK x \in BeingWritten : /\ flash' = [flash EXCEPT ![x[1]][x[2]] = Corrupt]
                                         /\ Reset(flash')
          BY <3>2
        <4>2. flash \in Flash
          BY <1>4 DEF TypeInv, TypeOK
        <4>3. [flash EXCEPT ![x[1]][x[2]] = Corrupt] \in Flash
          BY <4>2, FlashLost
        <4> QED
          BY <4>1, <4>3
      <3> QED
        BY <1>4, <3>1, <3>2 DEF PowerLoss
    <2>2. spent' \in Budget
      BY <1>4, BudgetExcept DEF PowerLoss, TypeInv, TypeOK
    <2>3. /\ cpld' \in CpldStatus /\ hash' \in [Images -> Content]
          /\ svn' \in [Images -> Svns] /\ ufm' \subseteq UfmBits
      BY <1>4 DEF PowerLoss, ufmVars, TypeInv, TypeOK
    <2> QED
      BY <2>1, <2>2, <2>3, ResetType
  <1> QED
    BY <1>1, <1>2, <1>3, <1>4 DEF Environment

-----------------------------------------------------------------------------
\* Every step keeps every variable in its type, and an update aimed.
LEMMA TypeStep == TypeInv /\ [Next]_vars => TypeInv'
  <1> SUFFICES ASSUME TypeInv, [Next]_vars PROVE TypeInv'
    OBVIOUS
  <1>1. CASE Thread
    BY <1>1, TransitionType, InPlaceType, PlainRotType, RotRecoveryType, VerifyType, RecoverType,
       UpdateType, RuntimeType, SeamlessType
    DEF Thread, Dispatch, RotSteps
  <1>2. CASE Environment
    BY <1>2, EnvironmentType
  <1>3. CASE UNCHANGED vars
    BY <1>3 DEF vars, smVars, pinVars, aoVars, ufmVars, localVars, bootVars, TypeInv, TypeOK, Aimed
  <1> QED
    BY <1>1, <1>2, <1>3 DEF Next

\* AspeedStateMachine and its handlers keep every variable in its type, whatever
\* the hosts ask for, whatever fails and however large the bounds are.
THEOREM TypeInvariant == Spec => []TypeInv
  BY InitType, TypeStep, PTL DEF Spec

\* In particular TypeOK, which the runs check.
THEOREM TypeCorrect == Spec => []TypeOK
  <1>1. TypeInv => TypeOK
    BY DEF TypeInv
  <1> QED
    BY <1>1, TypeInvariant, PTL
=============================================================================
