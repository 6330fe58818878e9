---------------------------- MODULE MailboxProofs ----------------------------
(***************************************************************************)
(* Safety of the mailbox and of the provisioning UFM, for every payload     *)
(* size, script, and number of failures.                                    *)
(***************************************************************************)
EXTENDS MailboxSafety, TLAPS

-----------------------------------------------------------------------------
(* Types.                                                                   *)

Triggers  == {"EXECUTE", "FLUSH_WRITE", "FLUSH_READ"}
RegValues == Commands \cup Triggers \cup RequestValues \cup {Cleared}
Notified  == {"UfmWriteFIFO", "UfmCmdTriggerValue"} \cup Requests
QEvents   == [ev : {"PROVISION_CMD", "UPDATE_REQUESTED", "WDT_CHECKPOINT"},
              reg : DOMAIN EventOf, val : RegValues]
SmPcs     == {"IDLE", "CLEAR", "BUSY", "EXECUTE", "FLUSH_WRITE", "FLUSH_READ", "FLASH",
              "PROGRAM", "FINISH", "SET_DONE"}
HostPcs   == {"COMMAND", "FLUSH", "FLUSHING", "DATA", "EXECUTE", "WAIT"}

\* The changes of the sector a command or an update makes.
AllBits   == SUBSET (Keys \cup {"LOCK"})
Contents  == {x \in [key : Keys, val : Seq(Bytes)] : Len(x.val) = Size[x.key]}
Plans     == {<<>>, <<EraseUfm>>} \cup {<<SetSvn(n)>> : n \in Nat} \cup {<<SetBits(b)>> : b \in AllBits}
               \cup {<<Set(x.key, x.val), SetBits(b)>> : x \in Contents, b \in AllBits}

Types ==
  /\ reg \in [Registers -> RegValues]
  /\ reg.UfmCommand \in Commands /\ reg.UfmCmdTriggerValue \in Triggers \cup {Cleared}
  /\ status \subseteq {"BUSY", "DONE", "ERROR"} /\ sem \subseteq Notified
  /\ hw \in Seq(Bytes) /\ rd \in Seq(Bytes)
  /\ fifo \in [data : [1..FifoSize -> Bytes], n : 0..FifoSize]
  /\ note \in [at : Notified \cup {Nobody}, val : RegValues]
  /\ queue \in Seq(QEvents)
  /\ sm \in [pc : SmPcs, state : {"UNPROVISIONED", "RUNTIME", "UPDATE"}, trigger : Triggers,
             todo : Plans, page : Ufms]
  /\ ufm \in Ufms /\ budget \in Budgets
  /\ host \in [script : Seq(Commands), k : Nat \ {0}, pc : HostPcs, sent : Nat,
               channel : {"I2C", "I3C"}, res : {Nobody, "DONE", "ERROR"}]

-----------------------------------------------------------------------------
(* The sector.                                                              *)

\* What is left to do with the content that is kept, and what it comes to.
Rest == IF sm.pc = "PROGRAM" THEN Tail(sm.todo) ELSE sm.todo
After(u, plan) ==
  IF plan = <<>> THEN u
  ELSE IF Len(plan) = 1 THEN Changed(u, plan[1])
       ELSE Changed(Changed(u, plan[1]), plan[2])
Goal == After(Kept, Rest)

\* A content whose status bits stand for whole payloads.
Sound(u) == \A k \in Keys : k \in u.bits => u.cell[k] = Whole(k)

SectorInv ==
  /\ sm.pc \notin {"FLASH", "PROGRAM"} => sm.todo = <<>>
  /\ sm.pc = "PROGRAM" => ufm = ErasedUfm /\ sm.todo # <<>> /\ Head(sm.todo).op # "ERASE"
  /\ sm.todo # <<>> => (Head(sm.todo).op = "SVN" <=> ~Serving)
  /\ ~Serving => sm.pc \in {"IDLE", "FLASH", "PROGRAM"}
  /\ Locked(Kept) => Rest = <<>> \/ Rest = <<SetSvn(Kept.svn + 1)>>
WholeInv ==
  "PROGRAM" \notin budget.failed =>
    /\ Sound(Kept) /\ Sound(Goal)
    /\ Rest # <<>> /\ Head(Rest).op = "CELL" => Kept.bits \subseteq Goal.bits

-----------------------------------------------------------------------------
(* The trigger.                                                             *)

Trigger   == "UfmCmdTriggerValue"
Handling  == sm.pc # "IDLE" /\ Serving
Free(q)   == \A i \in 1..Len(q) : q[i].ev # "PROVISION_CMD"
Only(q, v) == \A i \in 1..Len(q) : q[i].ev = "PROVISION_CMD" =>
                 q[i].val = v /\ \A j \in 1..Len(q) : q[j].ev = "PROVISION_CMD" => i = j
Asking    == host.pc \in {"FLUSHING", "WAIT"}
Wanted    == IF host.pc = "WAIT" THEN "EXECUTE"
             ELSE IF Command \in DOMAIN Read THEN "FLUSH_READ" ELSE "FLUSH_WRITE"

TriggerInv ==
  /\ host.pc # "COMMAND" => Running /\ reg.UfmCommand = Command
  /\ reg.UfmCmdTriggerValue # Cleared => Asking /\ reg.UfmCmdTriggerValue = Wanted
  /\ Trigger \in sem => /\ note.at # Trigger /\ Free(queue) /\ ~Handling
                        /\ reg.UfmCmdTriggerValue # Cleared
  /\ note.at = Trigger => /\ Free(queue) /\ ~Handling
                          /\ note.val = reg.UfmCmdTriggerValue
                          /\ reg.UfmCmdTriggerValue # Cleared
  /\ Free(queue) \/ ( /\ ~Handling /\ reg.UfmCmdTriggerValue # Cleared
                      /\ Only(queue, reg.UfmCmdTriggerValue))
  /\ Handling => /\ Asking /\ sm.trigger = Wanted /\ "DONE" \notin status
                 /\ reg.UfmCmdTriggerValue # Cleared <=> sm.pc = "CLEAR"
                 /\ sm.pc \in Triggers => sm.pc = sm.trigger
                 /\ sm.pc \in {"FLASH", "PROGRAM"} => sm.trigger = "EXECUTE"

-----------------------------------------------------------------------------
(* The payload.                                                             *)

\* The command was taken, but neither flushed nor executed yet.
Early   == Handling /\ sm.pc \in {"CLEAR", "BUSY"} \cup Triggers
Flushed == host.pc = "FLUSHING" /\ reg.UfmCmdTriggerValue = Cleared /\ ~Early
Sending == host.pc \in {"DATA", "EXECUTE", "WAIT"} /\ Command \in DOMAIN Provision

\* The bytes of the host are in the FIFO first, then in the hardware's.
Stream(key) ==
  /\ \A i \in 1..fifo.n : fifo.data[i] = Byte(key, i)
  /\ host.channel = "I2C" =>
       /\ fifo.n + Len(hw) = host.sent
       /\ \A j \in 1..Len(hw) : hw[j] = Byte(key, fifo.n + j)
       /\ hw # <<>> => "UfmWriteFIFO" \in sem \/ note.at = "UfmWriteFIFO"
       /\ host.pc = "WAIT" /\ Trigger \notin sem => hw = <<>>
  /\ host.channel = "I3C" => fifo.n = host.sent /\ Len(hw) = host.sent
  /\ host.pc = "DATA" => host.sent < Size[key]
  /\ host.pc # "DATA" => host.sent = Size[key]

StreamInv ==
  /\ host.channel = "I3C" => sem = {} /\ note.at = Nobody
  /\ Len(hw) <= FifoSize
  /\ host.pc \in {"FLUSH", "FLUSHING"} => host.sent = 0
  /\ host.pc = "DATA" => Command \in DOMAIN Provision
  /\ Flushed /\ Command \in DOMAIN Provision => fifo.n = 0 /\ hw = <<>>
  /\ Sending => Stream(Provision[Command])

-----------------------------------------------------------------------------
(* The acknowledgement.                                                     *)

Executed == host.pc = "WAIT" /\ reg.UfmCmdTriggerValue = Cleared /\ ~Early
Promised(cmd) ==
  /\ cmd \in DOMAIN Provision => Provision[cmd] \in Goal.bits
  /\ cmd = "LOCK_UFM" => Locked(Goal)
  /\ cmd = "ERASE_CURRENT" => Goal.bits = {}
  /\ cmd \in DOMAIN Read => rd = Goal.cell[Read[cmd]]

AnswerInv ==
  /\ Flushed /\ Command \in DOMAIN Read => rd = <<>>
  /\ host.pc = "EXECUTE" \/ (host.pc = "WAIT" /\ ~Executed) =>
       (Command \in DOMAIN Read => rd = <<>>)
  /\ Executed /\ "ERROR" \notin status /\ budget.failed = {} => Promised(Command)

-----------------------------------------------------------------------------
(* Lemmas about the operators.                                              *)

\* The commands that write a payload, and those that read one.
LEMMA CommandKeys ==
    /\ DOMAIN Provision = {"PROVISION_ROOT_KEY", "PROVISION_PCH_OFFSET", "PROVISION_BMC_OFFSET"}
    /\ DOMAIN Read = {"READ_ROOT_KEY", "READ_PCH_OFFSET", "READ_BMC_OFFSET"}
    /\ \A c \in DOMAIN Provision : Provision[c] \in Keys
    /\ \A c \in DOMAIN Read : Read[c] \in Keys
  BY DEF Provision, Read, Keys

\* The bytes of a payload.
LEMMA PayloadBytes ==
    ASSUME NEW key \in Keys
    PROVE  /\ Size[key] \in Nat /\ 0 < Size[key] /\ Size[key] <= FifoSize
           /\ \A i \in 1..Size[key] : Byte(key, i) \in Bytes
           /\ Whole(key) \in Seq(Bytes) /\ Len(Whole(key)) = Size[key]
  <1>1. Size[key] \in 1..FifoSize /\ FifoSize \in Nat
    BY SizeAssumption
  <1>2. ASSUME NEW i \in 1..Size[key] PROVE Byte(key, i) \in Bytes
    BY <1>1 DEF Bytes
  <1>3. Whole(key) \in [1..Size[key] -> Bytes]
    BY <1>2 DEF Whole
  <1>4. Whole(key) \in Seq(Bytes) /\ Len(Whole(key)) = Size[key]
    BY <1>1, <1>3
  <1> QED
    BY <1>1, <1>2, <1>4

\* An erased sector.
LEMMA ErasedType == ErasedUfm \in Ufms /\ ErasedUfm.bits = {} /\ ErasedUfm.cell = [k \in Keys |-> <<>>]
  BY DEF ErasedUfm, Ufms, Payload, ErasedCell

\* The parts of a sector.
LEMMA UfmParts ==
    ASSUME NEW u \in Ufms
    PROVE  /\ u.bits \subseteq Keys \cup {"LOCK"} /\ u.svn \in Nat /\ u.cell \in [Keys -> Seq(Bytes)]
           /\ \A k \in Keys : u.cell[k] \in Seq(Bytes) /\ Len(u.cell[k]) \in {0, Size[k]}
  BY DEF Ufms, Payload

\* What the changes of a plan do to a sector.
LEMMA Changes ==
    ASSUME NEW u \in Ufms
    PROVE  /\ Changed(u, EraseUfm) = ErasedUfm
           /\ \A n : Changed(u, SetSvn(n)) = [u EXCEPT !.svn = n]
           /\ \A b : Changed(u, SetBits(b)) = [u EXCEPT !.bits = b]
           /\ \A k, c : Changed(u, Set(k, c)) = [u EXCEPT !.cell[k] = c]
  BY DEF Changed, EraseUfm, SetSvn, SetBits, Set

\* The forms of a plan.
LEMMA PlanForms ==
    ASSUME NEW p \in Plans
    PROVE  \/ p = <<>>
           \/ p = <<EraseUfm>>
           \/ \E n \in Nat : p = <<SetSvn(n)>>
           \/ \E b \in AllBits : p = <<SetBits(b)>>
           \/ \E x \in Contents, b \in AllBits : p = <<Set(x.key, x.val), SetBits(b)>>
  BY DEF Plans

LEMMA PlanMade ==
    /\ <<>> \in Plans /\ <<EraseUfm>> \in Plans
    /\ \A n \in Nat : <<SetSvn(n)>> \in Plans
    /\ \A b \in AllBits : <<SetBits(b)>> \in Plans
    /\ \A x \in Contents, b \in AllBits : <<Set(x.key, x.val), SetBits(b)>> \in Plans
  BY DEF Plans

\* A change: its operation, and what it does to a sector.
LEMMA ChangeOps ==
    /\ EraseUfm.op = "ERASE"
    /\ \A n : SetSvn(n).op = "SVN"
    /\ \A b : SetBits(b).op = "BITS"
    /\ \A k, c : Set(k, c).op = "CELL"
  BY DEF EraseUfm, SetSvn, SetBits, Set
\* What the steps of a plan do.
LEMMA PlanSteps ==
    ASSUME NEW p \in Plans, p # <<>>, NEW u \in Ufms
    PROVE  /\ Tail(p) \in Plans
           /\ Changed(u, Head(p)) \in Ufms
           /\ After(Changed(u, Head(p)), Tail(p)) = After(u, p)
  <1>1. CASE p = <<EraseUfm>>
    <2>1. Head(p) = EraseUfm /\ Tail(p) = <<>> /\ Len(p) = 1 /\ p[1] = EraseUfm
      BY <1>1
    <2> QED
      BY <2>1, Changes, ErasedType, PlanMade DEF After
  <1>2. ASSUME NEW n \in Nat, p = <<SetSvn(n)>>
        PROVE  /\ Tail(p) \in Plans
               /\ Changed(u, Head(p)) \in Ufms
               /\ After(Changed(u, Head(p)), Tail(p)) = After(u, p)
    <2>1. Head(p) = SetSvn(n) /\ Tail(p) = <<>> /\ Len(p) = 1 /\ p[1] = SetSvn(n)
      BY <1>2
    <2>2. Changed(u, SetSvn(n)) = [u EXCEPT !.svn = n]
      BY Changes
    <2>3. [u EXCEPT !.svn = n] \in Ufms
      BY DEF Ufms
    <2> QED
      BY <2>1, <2>2, <2>3, PlanMade DEF After
  <1>3. ASSUME NEW b \in AllBits, p = <<SetBits(b)>>
        PROVE  /\ Tail(p) \in Plans
               /\ Changed(u, Head(p)) \in Ufms
               /\ After(Changed(u, Head(p)), Tail(p)) = After(u, p)
    <2>1. Head(p) = SetBits(b) /\ Tail(p) = <<>> /\ Len(p) = 1 /\ p[1] = SetBits(b)
      BY <1>3
    <2>2. Changed(u, SetBits(b)) = [u EXCEPT !.bits = b]
      BY Changes
    <2>3. [u EXCEPT !.bits = b] \in Ufms
      BY DEF Ufms, AllBits
    <2> QED
      BY <2>1, <2>2, <2>3, PlanMade DEF After
  <1>4. ASSUME NEW x \in Contents, NEW b \in AllBits, p = <<Set(x.key, x.val), SetBits(b)>>
        PROVE  /\ Tail(p) \in Plans
               /\ Changed(u, Head(p)) \in Ufms
               /\ After(Changed(u, Head(p)), Tail(p)) = After(u, p)
    <2>1. Head(p) = Set(x.key, x.val) /\ Tail(p) = <<SetBits(b)>> /\ Len(p) = 2
      BY <1>4
    <2>2. p[1] = Set(x.key, x.val) /\ p[2] = SetBits(b)
      BY <1>4
    <2>3. Changed(u, Set(x.key, x.val)) = [u EXCEPT !.cell[x.key] = x.val]
      BY Changes
    <2>4. [u EXCEPT !.cell[x.key] = x.val] \in Ufms
      BY DEF Ufms, Payload, Contents
    <2>5. Len(<<SetBits(b)>>) = 1 /\ <<SetBits(b)>>[1] = SetBits(b) /\ <<SetBits(b)>> # <<>>
      OBVIOUS
    <2>6. After(u, p) = Changed(Changed(u, p[1]), p[2])
      BY <2>1, <1>4 DEF After
    <2>7. After(Changed(u, Head(p)), <<SetBits(b)>>) = Changed(Changed(u, Head(p)), SetBits(b))
      BY <2>5 DEF After
    <2> QED
      BY <2>1, <2>2, <2>3, <2>4, <2>6, <2>7, PlanMade
  <1>5. CASE p = <<>>
    BY <1>5
  <1> QED
    BY <1>1, <1>2, <1>3, <1>4, <1>5, PlanForms

\* The first change of a plan.
LEMMA PlanHead ==
    ASSUME NEW p \in Plans, p # <<>>
    PROVE  \/ Head(p) = EraseUfm /\ Head(p).op = "ERASE" /\ Tail(p) = <<>>
           \/ \E n \in Nat : Head(p) = SetSvn(n) /\ Head(p).op = "SVN" /\ Tail(p) = <<>>
           \/ \E b \in AllBits : Head(p) = SetBits(b) /\ Head(p).op = "BITS" /\ Tail(p) = <<>>
           \/ \E x \in Contents, b \in AllBits :
                 /\ Head(p) = Set(x.key, x.val) /\ Head(p).op = "CELL"
                 /\ Tail(p) = <<SetBits(b)>>
  <1>1. CASE p = <<EraseUfm>>
    <2>1. Head(p) = EraseUfm /\ Tail(p) = <<>>
      BY <1>1
    <2> QED
      BY <2>1, ChangeOps
  <1>2. ASSUME NEW n \in Nat, p = <<SetSvn(n)>>
        PROVE  Head(p) = SetSvn(n) /\ Head(p).op = "SVN" /\ Tail(p) = <<>>
    <2>1. Head(p) = SetSvn(n) /\ Tail(p) = <<>>
      BY <1>2
    <2> QED
      BY <2>1, ChangeOps
  <1>3. ASSUME NEW b \in AllBits, p = <<SetBits(b)>>
        PROVE  Head(p) = SetBits(b) /\ Head(p).op = "BITS" /\ Tail(p) = <<>>
    <2>1. Head(p) = SetBits(b) /\ Tail(p) = <<>>
      BY <1>3
    <2> QED
      BY <2>1, ChangeOps
  <1>4. ASSUME NEW x \in Contents, NEW b \in AllBits, p = <<Set(x.key, x.val), SetBits(b)>>
        PROVE  Head(p) = Set(x.key, x.val) /\ Head(p).op = "CELL" /\ Tail(p) = <<SetBits(b)>>
    <2>1. Head(p) = Set(x.key, x.val) /\ Tail(p) = <<SetBits(b)>>
      BY <1>4
    <2> QED
      BY <2>1, ChangeOps
  <1> QED
    BY <1>1, <1>2, <1>3, <1>4, PlanForms

\* The events of the notifyee.
LEMMA EventNames ==
    /\ DOMAIN EventOf = {"UfmCmdTriggerValue"} \cup Requests
    /\ \A r \in DOMAIN EventOf : /\ EventOf[r] \in {"PROVISION_CMD", "UPDATE_REQUESTED", "WDT_CHECKPOINT"}
                                 /\ EventOf[r] = "PROVISION_CMD" <=> r = "UfmCmdTriggerValue"
  BY DEF EventOf, Requests

\* The semaphore the notifyee takes is a given one, the write FIFO's first.
LEMMA FirstOne ==
    ASSUME sem \subseteq Notified, sem # {}
    PROVE  FirstGiven \in sem /\ ("UfmWriteFIFO" \in sem => FirstGiven = "UfmWriteFIFO")
  <1>1. /\ DOMAIN Order = 1..5 /\ Order[1] = "UfmWriteFIFO" /\ Order[2] = "UfmCmdTriggerValue"
        /\ Order[3] = "BmcUpdateIntent" /\ Order[4] = "PchUpdateIntent" /\ Order[5] = "BmcCheckpoint"
    BY DEF Order
  <1> DEFINE I == {i \in DOMAIN Order : Order[i] \in sem}
  <1>2. PICK m \in I : \A i \in I : m <= i
    <2>1. CASE 1 \in I
      BY <2>1, <1>1
    <2>2. CASE 1 \notin I /\ 2 \in I
      BY <2>2, <1>1
    <2>3. CASE 1 \notin I /\ 2 \notin I /\ 3 \in I
      BY <2>3, <1>1
    <2>4. CASE 1 \notin I /\ 2 \notin I /\ 3 \notin I /\ 4 \in I
      BY <2>4, <1>1
    <2>5. CASE 1 \notin I /\ 2 \notin I /\ 3 \notin I /\ 4 \notin I
      <3>1. PICK e \in sem : e \in {"UfmWriteFIFO", "UfmCmdTriggerValue"} \cup Requests
        BY DEF Notified
      <3>2. \A i \in 1..4 : Order[i] \notin sem
        BY <2>5, <1>1
      <3>3. e = Order[5]
        BY <3>1, <3>2, <1>1 DEF Requests
      <3>4. 5 \in I
        BY <3>1, <3>3, <1>1
      <3> QED
        BY <3>4, <2>5, <1>1
    <2> QED
      BY <2>1, <2>2, <2>3, <2>4, <2>5
  <1>3. Min(I) = m
    BY <1>1, <1>2 DEF Min
  <1> QED
    BY <1>1, <1>2, <1>3 DEF FirstGiven

-----------------------------------------------------------------------------
(* Types.                                                                   *)

\* Writing a register.
LEMMA StoreTypes ==
    ASSUME Types, NEW r \in DOMAIN EventOf, NEW v \in RegValues,
           r = "UfmCmdTriggerValue" => v \in Triggers, Store(r, v)
    PROVE  /\ reg' \in [Registers -> RegValues]
           /\ reg'.UfmCommand \in Commands /\ reg'.UfmCmdTriggerValue \in Triggers \cup {Cleared}
           /\ sem' \subseteq Notified /\ queue' \in Seq(QEvents)
  <1>1. r \in Registers /\ r # "UfmCommand" /\ r \in Notified
    BY EventNames DEF Registers, Requests, Notified
  <1>2. [ev |-> EventOf[r], reg |-> r, val |-> v] \in QEvents
    BY EventNames DEF QEvents
  <1>3. Event(r, v) \in Seq(QEvents)
    BY <1>2 DEF Event, Types
  <1>4. /\ reg' \in [Registers -> RegValues]
        /\ reg'.UfmCommand \in Commands /\ reg'.UfmCmdTriggerValue \in Triggers \cup {Cleared}
    BY <1>1 DEF Store, Types, Registers
  <1>5. sem' \subseteq Notified /\ queue' \in Seq(QEvents)
    BY <1>1, <1>3 DEF Store, Types
  <1> QED
    BY <1>4, <1>5

LEMMA MaskedType == \A r, v : v \in RegValues => Masked(r, v) \in RegValues
  BY DEF Masked, RegValues, Cleared

LEMMA CommandType ==
    ASSUME Types, Running
    PROVE  Command \in Commands
  BY DEF Types, Running, Command

\* The hosts' steps.
LEMMA HostTypes ==
    ASSUME Types, TriggerInv, StreamInv, HostStep
    PROVE  Types'
  <1>1. CASE HostCommand
    BY <1>1, CommandType DEF HostCommand, Types, Registers, RegValues, HostPcs
  <1>2. CASE HostTrigger
    BY <1>2, StoreTypes, ZenonT(40) DEF HostTrigger, Types, RegValues, HostPcs, Triggers, EventOf
  <1>3. CASE HostFlushed
    BY <1>3 DEF HostFlushed, Types, HostPcs
  <1>4. CASE HostData
    <2> DEFINE key == Provision[Command]
               b   == Byte(key, host.sent + 1)
    <2>1. key \in Keys /\ host.sent < Size[key] /\ host.sent \in Nat
      BY <1>4, CommandKeys DEF HostData, StreamInv, Stream, Sending, Types
    <2>2. b \in Bytes
      BY <2>1, PayloadBytes
    <2>3. hw' \in Seq(Bytes)
      BY <1>4, <2>2 DEF HostData, Types
    <2>4. host.channel = "I3C" => fifo.n < FifoSize
      BY <1>4 DEF HostData, StreamInv, Stream, Sending, Types
    <2>5. fifo' \in [data : [1..FifoSize -> Bytes], n : 0..FifoSize] /\ sem' \subseteq Notified
      <3>1. CASE host.channel = "I2C"
        BY <1>4, <3>1 DEF HostData, Types, Notified
      <3>2. CASE host.channel = "I3C"
        <4>1. fifo' = [data |-> [fifo.data EXCEPT ![fifo.n + 1] = b], n |-> fifo.n + 1]
          BY <1>4, <3>2 DEF HostData
        <4>2. fifo.n \in Nat /\ fifo.n + 1 <= FifoSize /\ FifoSize \in Nat
          BY <3>2, <2>4, SizeAssumption DEF Types
        <4>3. [fifo.data EXCEPT ![fifo.n + 1] = b] \in [1..FifoSize -> Bytes]
          BY <2>2 DEF Types
        <4> QED
          BY <4>1, <4>2, <4>3, <1>4, <3>2 DEF HostData, Types
      <3> QED
        BY <3>1, <3>2 DEF Types
    <2>6. host' \in [script : Seq(Commands), k : Nat \ {0}, pc : HostPcs, sent : Nat,
                     channel : {"I2C", "I3C"}, res : {Nobody, "DONE", "ERROR"}]
      <3>1. PICK pc \in HostPcs : host' = [host EXCEPT !.sent = @ + 1, !.pc = pc]
        BY <1>4 DEF HostData, Types, HostPcs
      <3>2. host.sent + 1 \in Nat
        BY <2>1
      <3> QED
        BY <3>1, <3>2 DEF Types
    <2> QED
      BY <1>4, <2>3, <2>5, <2>6 DEF HostData, Types
  <1>5. CASE HostDone
    <2>1. PICK res \in {Nobody, "DONE", "ERROR"} :
            host' = [host EXCEPT !.k = @ + 1, !.pc = "COMMAND", !.res = res]
      BY <1>5 DEF HostDone
    <2>2. host.k + 1 \in Nat \ {0} /\ "COMMAND" \in HostPcs
      BY DEF Types, HostPcs
    <2>3. host' \in [script : Seq(Commands), k : Nat \ {0}, pc : HostPcs, sent : Nat,
                     channel : {"I2C", "I3C"}, res : {Nobody, "DONE", "ERROR"}]
      BY <2>1, <2>2 DEF Types
    <2> QED
      BY <1>5, <2>3 DEF HostDone, Types
  <1>6. CASE HostRetry
    BY <1>6, StoreTypes, ZenonT(40) DEF HostRetry, Types, RegValues, HostPcs, Triggers, EventOf
  <1> QED
    BY <1>1, <1>2, <1>3, <1>4, <1>5, <1>6 DEF HostStep

LEMMA RequestTypes ==
    ASSUME Types, NEW r \in Requests, HostRequest(r)
    PROVE  Types'
  <1>1. PICK v \in budget.requests :
          /\ budget' = [budget EXCEPT !.requests = @ \ {v}]
          /\ IF host.channel = "I2C" THEN Store(r, v) ELSE Store(r, Masked(r, v))
    BY DEF HostRequest
  <1>2. v \in RegValues /\ Masked(r, v) \in RegValues /\ r \in DOMAIN EventOf /\ r # "UfmCmdTriggerValue"
    BY MaskedType, EventNames DEF Types, Budgets, RegValues, Requests
  <1>3. budget' \in Budgets
    BY <1>1 DEF Types, Budgets
  <1>4. /\ reg' \in [Registers -> RegValues]
        /\ reg'.UfmCommand \in Commands /\ reg'.UfmCmdTriggerValue \in Triggers \cup {Cleared}
        /\ sem' \subseteq Notified /\ queue' \in Seq(QEvents)
    BY <1>1, <1>2, StoreTypes
  <1> QED
    BY <1>3, <1>4 DEF HostRequest, Types

\* The notifyee's steps.
LEMMA NotifyTypes ==
    ASSUME Types, NotifyStep
    PROVE  Types'
  <1>1. CASE NotifyTake
    <2>1. FirstGiven \in Notified
      BY <1>1, FirstOne DEF NotifyTake, Types
    <2>2. (IF FirstGiven \in DOMAIN reg THEN reg[FirstGiven] ELSE Cleared) \in RegValues
      BY DEF Types, RegValues
    <2> QED
      BY <1>1, <2>1, <2>2 DEF NotifyTake, Types
  <1>2. CASE NotifyDrain
    <2>1. CASE hw # <<>> /\ fifo.n < FifoSize
      <3>1. Head(hw) \in Bytes /\ Tail(hw) \in Seq(Bytes)
        BY <2>1 DEF Types
      <3>2. fifo' = [data |-> [fifo.data EXCEPT ![fifo.n + 1] = Head(hw)], n |-> fifo.n + 1] /\ note' = note
        BY <1>2, <2>1 DEF NotifyDrain
      <3>3. fifo.n + 1 \in 0..FifoSize
        BY <2>1, SizeAssumption DEF Types
      <3>4. [fifo.data EXCEPT ![fifo.n + 1] = Head(hw)] \in [1..FifoSize -> Bytes]
        BY <3>1 DEF Types
      <3> QED
        BY <1>2, <2>1, <3>1, <3>2, <3>3, <3>4 DEF NotifyDrain, Types
    <2>2. CASE ~(hw # <<>> /\ fifo.n < FifoSize)
      BY <1>2, <2>2 DEF NotifyDrain, Types
    <2> QED
      BY <2>1, <2>2
  <1>3. CASE NotifyEvent
    <2> DEFINE v == Masked(note.at, note.val)
    <2>1. v \in RegValues /\ note.at \in DOMAIN EventOf
      BY <1>3, MaskedType DEF NotifyEvent, Types
    <2>2. [ev |-> EventOf[note.at], reg |-> note.at, val |-> v] \in QEvents
      BY <2>1, EventNames DEF QEvents
    <2>3. queue' \in Seq(QEvents)
      BY <1>3, <2>2 DEF NotifyEvent, Event, Types
    <2>4. /\ reg' \in [Registers -> RegValues]
          /\ reg'.UfmCommand \in Commands /\ reg'.UfmCmdTriggerValue \in Triggers \cup {Cleared}
      BY <1>3, <2>1 DEF NotifyEvent, Types, Registers, Requests
    <2> QED
      BY <1>3, <2>3, <2>4 DEF NotifyEvent, Types, Nobody
  <1> QED
    BY <1>1, <1>2, <1>3 DEF NotifyStep

\* The bytes of the FIFO a command takes.
LEMMA Taken ==
    ASSUME NEW d \in [1..FifoSize -> Bytes], NEW key \in Keys
    PROVE  /\ SubSeq(d, 1, Size[key]) \in Seq(Bytes) /\ Len(SubSeq(d, 1, Size[key])) = Size[key]
           /\ \A i \in 1..Size[key] : SubSeq(d, 1, Size[key])[i] = d[i]
  <1>1. d \in Seq(Bytes) /\ Len(d) = FifoSize
    BY SizeAssumption
  <1>2. Size[key] \in Nat /\ 0 < Size[key] /\ Size[key] <= FifoSize
    BY PayloadBytes
  <1> QED
    BY <1>1, <1>2

\* The changes a command makes.
LEMMA CommandPlan ==
    ASSUME Types, NEW cmd \in Commands
    PROVE  /\ ChangesOf(cmd) \in Plans
           /\ cmd \in DOMAIN Provision =>
                ChangesOf(cmd) = <<Set(Provision[cmd], SubSeq(fifo.data, 1, Size[Provision[cmd]])),
                                   SetBits(ufm.bits \cup {Provision[cmd]})>>
           /\ cmd = "LOCK_UFM" => ChangesOf(cmd) = <<SetBits(ufm.bits \cup {"LOCK"})>>
           /\ cmd = "ERASE_CURRENT" => ChangesOf(cmd) = <<EraseUfm>>
           /\ cmd \in DOMAIN Read => ChangesOf(cmd) = <<>>
  <1>1. ufm.bits \in AllBits
    BY UfmParts DEF Types, AllBits
  <1>2. ASSUME cmd \in DOMAIN Provision
        PROVE  /\ ChangesOf(cmd) = <<Set(Provision[cmd], SubSeq(fifo.data, 1, Size[Provision[cmd]])),
                                      SetBits(ufm.bits \cup {Provision[cmd]})>>
               /\ ChangesOf(cmd) \in Plans
    <2> DEFINE key == Provision[cmd]
               c   == SubSeq(fifo.data, 1, Size[key])
               x   == [key |-> key, val |-> c]
    <2>1. key \in Keys /\ ufm.bits \cup {key} \in AllBits
      BY <1>1, <1>2, CommandKeys DEF AllBits
    <2>2. x \in Contents
      BY <2>1, Taken DEF Types, Contents
    <2>3. ChangesOf(cmd) = <<Set(key, c), SetBits(ufm.bits \cup {key})>>
      BY <1>2, CommandKeys DEF ChangesOf
    <2> QED
      BY <2>1, <2>2, <2>3, PlanMade
  <1>3. ASSUME cmd = "LOCK_UFM"
        PROVE  ChangesOf(cmd) = <<SetBits(ufm.bits \cup {"LOCK"})>> /\ ChangesOf(cmd) \in Plans
    BY <1>1, <1>3, CommandKeys, PlanMade DEF ChangesOf, AllBits
  <1>4. ASSUME cmd = "ERASE_CURRENT"
        PROVE  ChangesOf(cmd) = <<EraseUfm>> /\ ChangesOf(cmd) \in Plans
    BY <1>4, CommandKeys, PlanMade DEF ChangesOf
  <1>5. ASSUME cmd \in DOMAIN Read
        PROVE  ChangesOf(cmd) = <<>> /\ ChangesOf(cmd) \in Plans
    BY <1>5, CommandKeys, PlanMade DEF ChangesOf
  <1> QED
    BY <1>2, <1>3, <1>4, <1>5 DEF Commands

\* The state machine's steps.
LEMMA SmTypes ==
    ASSUME Types, SectorInv, SmStep
    PROVE  Types'
  <1>1. CASE HandleProvision
    <2>1. Tail(queue) \in Seq(QEvents) /\ Head(queue) \in QEvents
      BY <1>1 DEF HandleProvision, Types
    <2> QED
      BY <1>1, <2>1, ZenonT(40) DEF HandleProvision, Types, SmPcs, Triggers
  <1>2. CASE ClearTrigger
    BY <1>2 DEF ClearTrigger, Types, SmPcs, Registers, RegValues
  <1>3. CASE SetBusy
    BY <1>3 DEF SetBusy, Types, SmPcs, Triggers
  <1>4. CASE Flush
    <2>1. Zero \in Bytes /\ FifoSize \in Nat
      BY SizeAssumption DEF Bytes
    <2>2. [i \in 1..FifoSize |-> Zero] \in [1..FifoSize -> Bytes] /\ 0 \in 0..FifoSize
      BY <2>1
    <2>3. /\ UNCHANGED <<reg, status, sem, note, queue, ufm, host, budget>>
          /\ sm' \in [pc : SmPcs, state : {"UNPROVISIONED", "RUNTIME", "UPDATE"}, trigger : Triggers,
                      todo : Plans, page : Ufms]
      BY <1>4 DEF Flush, Types, SmPcs
    <2>4. CASE sm.pc = "FLUSH_WRITE"
      <3>1. /\ fifo' = [data |-> [i \in 1..FifoSize |-> Zero], n |-> 0]
            /\ hw' = <<>> /\ rd' = rd
        BY <1>4, <2>4 DEF Flush
      <3>2. fifo' \in [data : [1..FifoSize -> Bytes], n : 0..FifoSize]
        BY <2>2, <3>1
      <3>3. hw' \in Seq(Bytes) /\ rd' \in Seq(Bytes)
        BY <3>1 DEF Types
      <3> QED
        BY <3>2, <3>3, <2>3 DEF Types
    <2>5. CASE sm.pc # "FLUSH_WRITE"
      <3>1. fifo' = [fifo EXCEPT !.n = 0] /\ rd' = <<>> /\ UNCHANGED hw
        BY <1>4, <2>5 DEF Flush
      <3>2. fifo' \in [data : [1..FifoSize -> Bytes], n : 0..FifoSize]
        BY <2>2, <3>1 DEF Types
      <3>3. hw' \in Seq(Bytes) /\ rd' \in Seq(Bytes)
        BY <3>1 DEF Types
      <3> QED
        BY <3>2, <3>3, <2>3 DEF Types
    <2> QED
      BY <2>4, <2>5
  <1>5. CASE ProcessProvisionCommand
    <2>1. ChangesOf(reg.UfmCommand) \in Plans
      BY CommandPlan DEF Types
    <2>2. rd' \in Seq(Bytes)
      BY <1>5, UfmParts, CommandKeys DEF ProcessProvisionCommand, Types
    <2> QED
      BY <1>5, <2>1, <2>2, ZenonT(40) DEF ProcessProvisionCommand, Types, SmPcs
  <1>6. CASE FlashErase
    <2> DEFINE c == Head(sm.todo)
    <2>1. sm.todo \in Plans /\ sm.todo # <<>> /\ ufm \in Ufms
      BY <1>6 DEF FlashErase, Types
    <2>2. Tail(sm.todo) \in Plans /\ Changed(ufm, c) \in Ufms /\ <<EraseUfm>> \in Plans
      BY <2>1, PlanSteps, PlanMade
    <2>3. CASE /\ ufm' = ErasedUfm
               /\ sm' = [sm EXCEPT !.pc = IF c.op = "ERASE" THEN "FLASH" ELSE "PROGRAM",
                                   !.page = Changed(ufm, c),
                                   !.todo = IF c.op = "ERASE" THEN Tail(@) ELSE @]
               /\ UNCHANGED <<status, budget>>
      BY <1>6, <2>2, <2>3, ErasedType DEF FlashErase, Types, SmPcs
    <2>4. CASE /\ budget.erase > 0
               /\ budget' = [budget EXCEPT !.erase = @ - 1, !.failed = @ \cup {"ERASE"}]
               /\ status' = IF c.op \in {"CELL", "ERASE"} THEN status \cup {"ERROR"} ELSE status
               /\ sm' = [sm EXCEPT !.todo = IF c.op = "CELL" THEN <<EraseUfm>> ELSE Tail(@)]
               /\ UNCHANGED ufm
      <3>1. budget' \in Budgets
        <4>1. budget.erase - 1 \in Nat /\ budget.failed \cup {"ERASE"} \in SUBSET {"ERASE", "PROGRAM"}
          BY <2>4 DEF Types, Budgets
        <4> QED
          BY <4>1, <2>4 DEF Types, Budgets
      <3>2. status' \subseteq {"BUSY", "DONE", "ERROR"}
        BY <2>4 DEF Types
      <3> QED
        BY <1>6, <2>2, <2>4, <3>1, <3>2 DEF FlashErase, Types
    <2> QED
      BY <1>6, <2>3, <2>4 DEF FlashErase
  <1>7. CASE FlashProgram
    <2>1. Tail(sm.todo) \in Plans
      BY <1>7, PlanSteps DEF FlashProgram, SectorInv, Types
    <2>2. budget' \in Budgets
      <3>1. CASE /\ budget.program > 0
                 /\ budget' = [budget EXCEPT !.program = @ - 1, !.failed = @ \cup {"PROGRAM"}]
        <4>1. budget.program - 1 \in Nat /\ budget.failed \cup {"PROGRAM"} \in SUBSET {"ERASE", "PROGRAM"}
          BY <3>1 DEF Types, Budgets
        <4> QED
          BY <4>1, <3>1 DEF Types, Budgets
      <3> QED
        BY <1>7, <3>1 DEF FlashProgram, Types
    <2> QED
      BY <1>7, <2>1, <2>2 DEF FlashProgram, Types, SmPcs
  <1>8. CASE FlashEnd
    BY <1>8 DEF FlashEnd, Types, SmPcs
  <1>9. CASE ClearBusy
    BY <1>9 DEF ClearBusy, Types, SmPcs
  <1>10. CASE SetDone
    BY <1>10 DEF SetDone, Types, SmPcs
  <1>11. CASE TakeRequest
    <2>1. Tail(queue) \in Seq(QEvents)
      BY <1>11 DEF TakeRequest, Types
    <2> QED
      BY <1>11, <2>1 DEF TakeRequest, Types
  <1>12. CASE Discard
    BY <1>12 DEF Discard, Types
  <1>13. CASE UpdateDone
    <2>1. ufm.svn + 1 \in Nat
      BY UfmParts DEF Types
    <2> QED
      BY <1>13, <2>1, PlanMade DEF UpdateDone, Types, SmPcs
  <1> QED
    BY <1>1, <1>2, <1>3, <1>4, <1>5, <1>6, <1>7, <1>8, <1>9, <1>10, <1>11, <1>12, <1>13 DEF SmStep

\* Power on, first and after a power cut.
LEMMA PowerOnTypes ==
    ASSUME NEW u \in Ufms
    PROVE  LET ram == PowerOnRam(u)
           IN  /\ ram.reg \in [Registers -> RegValues]
               /\ ram.reg.UfmCommand \in Commands /\ ram.reg.UfmCmdTriggerValue = Cleared
               /\ ram.status = {"DONE"} /\ ram.sem = {} /\ ram.hw = <<>> /\ ram.rd = <<>>
               /\ ram.fifo \in [data : [1..FifoSize -> Bytes], n : 0..FifoSize] /\ ram.fifo.n = 0
               /\ ram.note = [at |-> Nobody, val |-> Cleared] /\ ram.queue = <<>>
               /\ ram.sm = IdleSm(u)
               /\ ram.sm \in [pc : SmPcs, state : {"UNPROVISIONED", "RUNTIME", "UPDATE"},
                              trigger : Triggers, todo : Plans, page : Ufms]
  <1>1. IdleSm(u) \in [pc : SmPcs, state : {"UNPROVISIONED", "RUNTIME", "UPDATE"},
                       trigger : Triggers, todo : Plans, page : Ufms]
    BY ErasedType, PlanMade DEF IdleSm, SmPcs, Triggers
  <1>2. [data |-> [i \in 1..FifoSize |-> Zero], n |-> 0]
           \in [data : [1..FifoSize -> Bytes], n : 0..FifoSize]
    BY SizeAssumption DEF Bytes
  <1>3. [r \in Registers |-> IF r = "UfmCommand" THEN "ERASE_CURRENT" ELSE Cleared]
           \in [Registers -> RegValues]
    BY DEF RegValues, Commands
  <1> QED
    BY <1>1, <1>2, <1>3 DEF PowerOnRam, Registers, Commands

-----------------------------------------------------------------------------
(* The sector.                                                              *)

\* A rewrite of the sector keeps what it is to come to.
LEMMA EraseStep ==
    ASSUME Types, SectorInv, FlashErase, ufm' = ErasedUfm,
           sm' = [sm EXCEPT !.pc = IF Head(sm.todo).op = "ERASE" THEN "FLASH" ELSE "PROGRAM",
                            !.page = Changed(ufm, Head(sm.todo)),
                            !.todo = IF Head(sm.todo).op = "ERASE" THEN Tail(@) ELSE @]
    PROVE  /\ Kept' = Changed(ufm, Head(sm.todo)) /\ Rest' = Tail(sm.todo)
           /\ Kept = ufm /\ Rest = sm.todo /\ Goal' = Goal
  <1>1. sm.todo \in Plans /\ sm.todo # <<>> /\ ufm \in Ufms /\ sm.pc = "FLASH"
    BY DEF FlashErase, Types
  <1>2. Kept = ufm /\ Rest = sm.todo
    BY <1>1 DEF Kept, Rest
  <1>3. Head(sm.todo).op = "ERASE" => Changed(ufm, Head(sm.todo)) = ErasedUfm
    BY <1>1, PlanHead, Changes
  <1>4. Kept' = Changed(ufm, Head(sm.todo)) /\ Rest' = Tail(sm.todo)
    BY <1>3 DEF Types, Kept, Rest
  <1>5. Goal' = After(Kept', Rest') /\ Goal = After(ufm, sm.todo)
    BY <1>2 DEF Goal, After
  <1>6. After(Changed(ufm, Head(sm.todo)), Tail(sm.todo)) = After(ufm, sm.todo)
    BY <1>1, PlanSteps
  <1> QED
    BY <1>2, <1>4, <1>5, <1>6

\* Programming the sector ends a rewrite.
LEMMA ProgramStep ==
    ASSUME Types, FlashProgram, ufm' = sm.page
    PROVE  Kept' = Kept /\ Rest' = Rest /\ Goal' = Goal
  <1>1. Kept' = Kept /\ Rest' = Rest
    BY DEF Types, FlashProgram, Kept, Rest
  <1> QED
    BY <1>1 DEF Goal, After

LEMMA SectorSame ==
    ASSUME SectorInv, sm' = sm, ufm' = ufm
    PROVE  SectorInv'
  BY DEF SectorInv, Serving, Kept, Rest, Locked

\* The commands' and updates' steps.
LEMMA SectorSm ==
    ASSUME Types, SectorInv, SmStep
    PROVE  SectorInv'
  <1> USE DEF Serving, Locked
  <1>1. CASE HandleProvision
    BY <1>1 DEF HandleProvision, SectorInv, Types, Kept, Rest
  <1>2. CASE ClearTrigger
    BY <1>2 DEF ClearTrigger, SectorInv, Types, Kept, Rest
  <1>3. CASE SetBusy
    BY <1>3 DEF SetBusy, SectorInv, Types, Kept, Rest, Triggers
  <1>4. CASE Flush
    BY <1>4 DEF Flush, SectorInv, Types, Kept, Rest
  <1>5. CASE ProcessProvisionCommand
    <2>1. CASE Dropped(reg.UfmCommand) \/ Refused(reg.UfmCommand)
      BY <1>5, <2>1 DEF ProcessProvisionCommand, SectorInv, Types, Kept, Rest
    <2>2. CASE ~(Dropped(reg.UfmCommand) \/ Refused(reg.UfmCommand))
      <3>1. sm' = [sm EXCEPT !.pc = "FLASH", !.todo = ChangesOf(reg.UfmCommand)] /\ UNCHANGED ufm
        BY <1>5, <2>2 DEF ProcessProvisionCommand
      <3>2. sm'.pc = "FLASH" /\ sm'.todo = ChangesOf(reg.UfmCommand) /\ sm'.state = sm.state
        BY <3>1 DEF Types
      <3>3. Serving
        BY <1>5 DEF ProcessProvisionCommand, SectorInv
      <3>4. ChangesOf(reg.UfmCommand) # <<>> => Head(ChangesOf(reg.UfmCommand)).op # "SVN"
        <4> DEFINE cmd == reg.UfmCommand
        <4>1. CASE cmd \in DOMAIN Provision
          <5> DEFINE key == Provision[cmd]
                     c   == Set(key, SubSeq(fifo.data, 1, Size[key]))
          <5>1. ChangesOf(cmd) = <<c, SetBits(ufm.bits \cup {key})>>
            BY <4>1, CommandPlan DEF Types
          <5>2. Head(ChangesOf(cmd)) = c
            BY <5>1
          <5> QED
            BY <5>2, ChangeOps
        <4>2. CASE cmd = "LOCK_UFM"
          <5>1. ChangesOf(cmd) = <<SetBits(ufm.bits \cup {"LOCK"})>>
            BY <4>2, CommandPlan DEF Types
          <5>2. Head(ChangesOf(cmd)) = SetBits(ufm.bits \cup {"LOCK"})
            BY <5>1
          <5> QED
            BY <5>2, ChangeOps
        <4>3. CASE cmd = "ERASE_CURRENT"
          <5>1. ChangesOf(cmd) = <<EraseUfm>>
            BY <4>3, CommandPlan DEF Types
          <5>2. Head(ChangesOf(cmd)) = EraseUfm
            BY <5>1
          <5> QED
            BY <5>2, ChangeOps
        <4>4. CASE cmd \in DOMAIN Read
          BY <4>4, CommandPlan DEF Types
        <4> QED
          BY <4>1, <4>2, <4>3, <4>4 DEF Types, Commands
      <3>5. Locked(ufm) => ChangesOf(reg.UfmCommand) = <<>>
        BY <2>2, CommandPlan DEF Dropped, Types
      <3> QED
        BY <3>1, <3>2, <3>3, <3>4, <3>5 DEF SectorInv, Kept, Rest
    <2> QED
      BY <2>1, <2>2
  <1>6. CASE FlashErase
    <2> DEFINE c == Head(sm.todo)
    <2>1. /\ sm.todo \in Plans /\ sm.todo # <<>> /\ ufm \in Ufms /\ sm.pc = "FLASH"
          /\ Kept = ufm /\ Rest = sm.todo
      BY <1>6 DEF FlashErase, Types, Kept, Rest
    <2>2. CASE /\ ufm' = ErasedUfm
               /\ sm' = [sm EXCEPT !.pc = IF c.op = "ERASE" THEN "FLASH" ELSE "PROGRAM",
                                   !.page = Changed(ufm, c),
                                   !.todo = IF c.op = "ERASE" THEN Tail(@) ELSE @]
      <3>1. Kept' = Changed(ufm, c) /\ Rest' = Tail(sm.todo)
        BY <1>6, <2>2, EraseStep
      <3>2. Locked(Kept') => Rest' = <<>>
        <4>1. CASE c.op = "CELL"
          <5>1. PICK x \in Contents : c = Set(x.key, x.val)
            BY <2>1, <4>1, PlanHead
          <5>2. Kept'.bits = ufm.bits
            BY <2>1, <3>1, <5>1, Changes DEF Ufms
          <5>3. ~Locked(ufm)
            BY <2>1, <4>1, ChangeOps DEF SectorInv
          <5> QED
            BY <5>2, <5>3
        <4>2. CASE c.op # "CELL"
          BY <2>1, <3>1, <4>2, PlanHead
        <4> QED
          BY <4>1, <4>2
      <3>3. /\ sm'.state = sm.state /\ sm'.pc = (IF c.op = "ERASE" THEN "FLASH" ELSE "PROGRAM")
            /\ sm'.todo = (IF c.op = "ERASE" THEN Tail(sm.todo) ELSE sm.todo)
        BY <2>2 DEF Types
      <3>4. c.op = "ERASE" => Tail(sm.todo) = <<>>
        BY <2>1, PlanHead
      <3>5. CASE c.op = "ERASE"
        BY <2>1, <2>2, <3>2, <3>3, <3>4, <3>5 DEF SectorInv
      <3>6. CASE c.op # "ERASE"
        BY <2>1, <2>2, <3>2, <3>3, <3>6 DEF SectorInv
      <3> QED
        BY <3>5, <3>6
    <2>3. CASE /\ sm' = [sm EXCEPT !.todo = IF c.op = "CELL" THEN <<EraseUfm>> ELSE Tail(@)]
               /\ UNCHANGED ufm
      <3>1. /\ sm'.state = sm.state /\ sm'.pc = "FLASH"
            /\ sm'.todo = (IF c.op = "CELL" THEN <<EraseUfm>> ELSE Tail(sm.todo))
        BY <2>1, <2>3 DEF Types
      <3>2. CASE c.op = "CELL"
        <4>1. sm'.todo # <<>> /\ Head(sm'.todo).op = "ERASE"
          BY <3>1, <3>2, ChangeOps
        <4>2. ~Locked(ufm) /\ Serving
          BY <2>1, <3>2, ChangeOps DEF SectorInv
        <4> QED
          BY <2>1, <2>3, <3>1, <4>1, <4>2 DEF SectorInv, Kept, Rest
      <3>3. CASE c.op # "CELL"
        <4>1. Tail(sm.todo) = <<>>
          BY <2>1, <3>3, PlanHead
        <4> QED
          BY <2>1, <2>3, <3>1, <3>3, <4>1 DEF SectorInv, Kept, Rest
      <3> QED
        BY <3>2, <3>3
    <2> QED
      BY <1>6, <2>2, <2>3 DEF FlashErase
  <1>7. CASE FlashProgram
    <2> DEFINE c == Head(sm.todo)
    <2>1. sm.pc = "PROGRAM" /\ sm.todo \in Plans /\ sm.todo # <<>> /\ sm.page \in Ufms
      BY <1>7 DEF FlashProgram, Types, SectorInv
    <2>2. sm'.pc = "FLASH" /\ sm'.todo = Tail(sm.todo) /\ sm'.state = sm.state
      BY <1>7 DEF FlashProgram, Types
    <2>3. Tail(sm.todo) # <<>> => Head(Tail(sm.todo)).op = "BITS" /\ c.op = "CELL"
      <3>1. ASSUME NEW b \in AllBits, Tail(sm.todo) = <<SetBits(b)>>
            PROVE  Head(Tail(sm.todo)).op = "BITS"
        <4>1. Head(<<SetBits(b)>>) = SetBits(b)
          OBVIOUS
        <4> QED
          BY <3>1, <4>1, ChangeOps, Zenon
      <3> QED
        BY <2>1, <3>1, PlanHead
    <2>4. CASE ufm' = sm.page
      <3>1. Kept' = Kept /\ Rest' = Rest
        BY <1>7, <2>4, ProgramStep
      <3> QED
        BY <2>1, <2>2, <2>3, <3>1 DEF SectorInv
    <2>5. CASE ufm' = ufm
      <3>1. Kept' = ErasedUfm /\ ErasedUfm.bits = {}
        BY <2>1, <2>2, <2>5, ErasedType DEF SectorInv, Kept
      <3> QED
        BY <2>1, <2>2, <2>3, <3>1 DEF SectorInv
    <2> QED
      BY <1>7, <2>4, <2>5 DEF FlashProgram
  <1>8. CASE FlashEnd
    BY <1>8 DEF FlashEnd, SectorInv, Types, Kept, Rest
  <1>9. CASE ClearBusy
    BY <1>9 DEF ClearBusy, SectorInv, Types, Kept, Rest
  <1>10. CASE SetDone
    BY <1>10 DEF SetDone, SectorInv, Types, Kept, Rest
  <1>11. CASE TakeRequest
    BY <1>11 DEF TakeRequest, SectorInv, Types, Kept, Rest
  <1>12. CASE Discard
    BY <1>12, SectorSame DEF Discard
  <1>13. CASE UpdateDone
    <2>1. sm'.pc = "FLASH" /\ sm'.todo = <<SetSvn(ufm.svn + 1)>> /\ sm'.state = sm.state /\ ufm' = ufm
      BY <1>13 DEF UpdateDone, Types
    <2>2. sm'.todo # <<>> /\ Head(sm'.todo).op = "SVN"
      BY <2>1, ChangeOps
    <2>3. Kept' = ufm /\ Rest' = <<SetSvn(ufm.svn + 1)>>
      BY <2>1 DEF Kept, Rest
    <2> QED
      BY <1>13, <2>1, <2>2, <2>3 DEF UpdateDone, SectorInv
  <1> QED
    BY <1>1, <1>2, <1>3, <1>4, <1>5, <1>6, <1>7, <1>8, <1>9, <1>10, <1>11, <1>12, <1>13 DEF SmStep

\* The steps that leave the sector and the plan alone.
Aside == HostStep \/ (\E r \in Requests : HostRequest(r)) \/ NotifyStep

LEMMA AsideSame ==
    ASSUME Aside
    PROVE  /\ sm' = sm /\ ufm' = ufm /\ status' = status /\ rd' = rd
           /\ budget'.failed = budget.failed /\ budget'.erase = budget.erase
           /\ budget'.program = budget.program /\ budget'.power = budget.power
  <1>1. CASE HostStep
    BY <1>1 DEF HostStep, HostCommand, HostTrigger, HostFlushed, HostData, HostDone, HostRetry
  <1>2. CASE \E r \in Requests : HostRequest(r)
    BY <1>2 DEF HostRequest
  <1>3. CASE NotifyStep
    BY <1>3 DEF NotifyStep, NotifyTake, NotifyDrain, NotifyEvent
  <1> QED
    BY <1>1, <1>2, <1>3 DEF Aside

LEMMA NextParts == Next <=> Aside \/ SmStep \/ PowerCut
  BY DEF Next, Aside, HostStep, NotifyStep, SmStep

LEMMA PowerTypes ==
    ASSUME Types, PowerCut
    PROVE  Types'
  <1>1. ufm \in Ufms /\ budget.power - 1 \in Nat
    BY DEF PowerCut, Types, Budgets
  <1>2. budget' \in Budgets
    BY <1>1 DEF PowerCut, Types, Budgets
  <1>3. host' \in [script : Seq(Commands), k : Nat \ {0}, pc : HostPcs, sent : Nat,
                   channel : {"I2C", "I3C"}, res : {Nobody, "DONE", "ERROR"}]
    BY DEF PowerCut, Types, HostPcs
  <1>4. Cleared \in RegValues /\ <<>> \in Seq(Bytes) /\ <<>> \in Seq(QEvents)
    BY DEF RegValues
  <1>5. LET ram == PowerOnRam(ufm)
        IN  /\ reg' = ram.reg /\ status' = ram.status /\ sem' = ram.sem /\ hw' = ram.hw
            /\ rd' = ram.rd /\ fifo' = ram.fifo /\ note' = ram.note /\ queue' = ram.queue
            /\ sm' = ram.sm /\ ufm' = ufm
    BY DEF PowerCut
  <1>6. /\ reg' \in [Registers -> RegValues]
        /\ reg'.UfmCommand \in Commands /\ reg'.UfmCmdTriggerValue = Cleared
        /\ status' = {"DONE"} /\ sem' = {} /\ hw' = <<>> /\ rd' = <<>>
        /\ fifo' \in [data : [1..FifoSize -> Bytes], n : 0..FifoSize]
        /\ note' = [at |-> Nobody, val |-> Cleared] /\ queue' = <<>>
        /\ sm' \in [pc : SmPcs, state : {"UNPROVISIONED", "RUNTIME", "UPDATE"},
                    trigger : Triggers, todo : Plans, page : Ufms]
    BY <1>1, <1>5, PowerOnTypes
  <1> QED
    BY <1>1, <1>2, <1>3, <1>4, <1>5, <1>6 DEF Types

LEMMA PowerSector ==
    ASSUME Types, PowerCut
    PROVE  SectorInv' /\ Kept' = ufm /\ Rest' = <<>>
  <1>1. sm' = IdleSm(ufm) /\ ufm' = ufm
    BY DEF PowerCut, PowerOnRam
  <1>2. sm'.pc = "IDLE" /\ sm'.todo = <<>> /\ sm'.state # "UPDATE"
    BY <1>1 DEF IdleSm
  <1> QED
    BY <1>1, <1>2 DEF SectorInv, Kept, Rest, Serving

\* Changes of the sector: an erase of what is not locked, the new SVN floor,
\* a failing programming, or none.
LEMMA LockStep ==
    ASSUME Types, SectorInv, [Next]_vars, Locked(Kept),
           budget'.power = budget.power, budget'.program = budget.program
    PROVE  /\ Locked(Kept') /\ Kept'.bits = Kept.bits /\ Kept'.cell = Kept.cell
           /\ Kept'.svn >= Kept.svn
  <1>1. Kept \in Ufms /\ Kept.svn \in Nat
    BY UfmParts DEF Types, Kept
  <1>2. SUFFICES Kept' = Kept \/ Kept' = [Kept EXCEPT !.svn = Kept.svn + 1]
    BY <1>1 DEF Ufms, Locked
  <1>3. CASE Aside \/ UNCHANGED vars
    BY <1>3, AsideSame DEF vars, Kept
  <1>4. CASE PowerCut
    BY <1>4 DEF PowerCut, Types, Budgets
  <1>5. CASE FlashErase
    <2>1. sm.todo # <<>> /\ ufm \in Ufms /\ Kept = ufm /\ Rest = sm.todo
      BY <1>5 DEF FlashErase, Types, Kept, Rest
    <2>2. sm.todo = <<SetSvn(ufm.svn + 1)>>
      BY <2>1 DEF SectorInv
    <2>3. Head(sm.todo) = SetSvn(ufm.svn + 1)
      BY <2>2
    <2>4. CASE /\ ufm' = ErasedUfm
               /\ sm' = [sm EXCEPT !.pc = IF Head(sm.todo).op = "ERASE" THEN "FLASH" ELSE "PROGRAM",
                                   !.page = Changed(ufm, Head(sm.todo)),
                                   !.todo = IF Head(sm.todo).op = "ERASE" THEN Tail(@) ELSE @]
      <3>1. Kept' = Changed(ufm, SetSvn(ufm.svn + 1))
        BY <1>5, <2>3, <2>4, EraseStep
      <3> QED
        BY <2>1, <3>1, Changes
    <2>5. CASE /\ sm' = [sm EXCEPT !.todo = IF Head(sm.todo).op = "CELL" THEN <<EraseUfm>> ELSE Tail(@)]
               /\ UNCHANGED ufm
      BY <1>5, <2>5 DEF FlashErase, Types, Kept
    <2> QED
      BY <1>5, <2>4, <2>5 DEF FlashErase
  <1>6. CASE FlashProgram
    <2>1. CASE ufm' = sm.page
      BY <1>6, <2>1, ProgramStep
    <2>2. CASE budget.program > 0 /\ budget' = [budget EXCEPT !.program = @ - 1, !.failed = @ \cup {"PROGRAM"}]
      BY <2>2 DEF Types, Budgets
    <2> QED
      BY <1>6, <2>1, <2>2 DEF FlashProgram
  <1>7. CASE SmStep /\ ~FlashErase /\ ~FlashProgram
    <2>1. ufm' = ufm /\ sm.pc # "PROGRAM" /\ sm'.pc # "PROGRAM"
      BY <1>7, ZenonT(40) DEF SmStep, HandleProvision, ClearTrigger, SetBusy, Flush, ProcessProvisionCommand,
                  FlashEnd, ClearBusy, SetDone, TakeRequest, Discard, UpdateDone, Types, Triggers
    <2> QED
      BY <2>1 DEF Kept
  <1> QED
    BY <1>3, <1>4, <1>5, <1>6, <1>7, NextParts

-----------------------------------------------------------------------------
(* The trigger.                                                             *)

\* Triggers in the event FIFO.
LEMMA AppendEvent ==
    ASSUME NEW q \in Seq(QEvents), NEW e \in QEvents
    PROVE  /\ Free(q) => Only(Append(q, e), e.val)
           /\ e.ev # "PROVISION_CMD" /\ Free(q) => Free(Append(q, e))
           /\ \A v : e.ev # "PROVISION_CMD" /\ Only(q, v) => Only(Append(q, e), v)
  BY DEF Free, Only

LEMMA TakeEvent ==
    ASSUME NEW q \in Seq(QEvents), q # <<>>
    PROVE  /\ Free(q) => Free(Tail(q))
           /\ \A v : Only(q, v) => Only(Tail(q), v)
           /\ \A v : Head(q).ev = "PROVISION_CMD" /\ Only(q, v) => Free(Tail(q)) /\ Head(q).val = v
           /\ Head(q).ev = "PROVISION_CMD" => ~Free(q)
  BY DEF Free, Only

\* Writing the trigger when no trigger is under way.
LEMMA StoreTrigger ==
    ASSUME Types, NEW v \in Triggers, Store("UfmCmdTriggerValue", v),
           "UfmCmdTriggerValue" \notin sem, Free(queue)
    PROVE  /\ reg' = [reg EXCEPT !.UfmCmdTriggerValue = v]
           /\ \/ host.channel = "I2C" /\ sem' = sem \cup {"UfmCmdTriggerValue"} /\ queue' = queue
              \/ host.channel = "I3C" /\ sem' = sem /\ Only(queue', v)
  <1> DEFINE e == [ev |-> "PROVISION_CMD", reg |-> "UfmCmdTriggerValue", val |-> v]
  <1>1. e \in QEvents
    BY EventNames DEF QEvents, RegValues
  <1>2. Event("UfmCmdTriggerValue", v) = Append(queue, e)
    BY DEF Event, EventOf
  <1>3. Only(Append(queue, e), v)
    BY <1>1, AppendEvent DEF Types
  <1> QED
    BY <1>2, <1>3, ZenonT(40) DEF Store, Types

LEMMA TriggerStored ==
    ASSUME Types, TriggerInv, NEW v \in Triggers, Store("UfmCmdTriggerValue", v),
           "UfmCmdTriggerValue" \notin sem, note.at # "UfmCmdTriggerValue", Free(queue), ~Handling,
           UNCHANGED <<note, sm, status>>, host'.channel = host.channel,
           host'.script = host.script, host'.k = host.k, Running, reg.UfmCommand = Command,
           Asking', v = Wanted'
    PROVE  TriggerInv'
  <1>1. /\ reg' = [reg EXCEPT !.UfmCmdTriggerValue = v]
        /\ \/ sem' = sem \cup {"UfmCmdTriggerValue"} /\ queue' = queue
           \/ sem' = sem /\ Only(queue', v)
    BY StoreTrigger
  <1>2. reg'.UfmCmdTriggerValue = v /\ reg'.UfmCommand = reg.UfmCommand
    BY <1>1 DEF Types, Registers
  <1>3. v # Cleared
    BY DEF Triggers, Cleared
  <1>4. ~Handling' /\ Running' /\ Command' = Command
    BY DEF Handling, Serving, Running, Command
  <1>5. CASE sem' = sem \cup {"UfmCmdTriggerValue"} /\ queue' = queue
    BY <1>2, <1>3, <1>4, <1>5 DEF TriggerInv, Trigger
  <1>6. CASE sem' = sem /\ Only(queue', v)
    BY <1>2, <1>3, <1>4, <1>6 DEF TriggerInv, Trigger
  <1> QED
    BY <1>1, <1>5, <1>6

\* Steps of the state machine that leave the registers and events alone.
LEMMA TriggerKept ==
    ASSUME Types, TriggerInv, UNCHANGED <<reg, sem, note, queue, host>>,
           Handling' => /\ Handling /\ sm'.trigger = sm.trigger /\ "DONE" \notin status'
                        /\ sm.pc # "CLEAR" /\ sm'.pc # "CLEAR"
                        /\ sm'.pc \in Triggers => sm'.pc = sm.trigger
                        /\ sm'.pc \in {"FLASH", "PROGRAM"} => sm.trigger = "EXECUTE"
    PROVE  TriggerInv'
  BY DEF TriggerInv, Asking, Wanted, Command, Running, Free, Only

\* The hosts' steps.
LEMMA TriggerHost ==
    ASSUME Types, TriggerInv, HostStep
    PROVE  TriggerInv'
  <1>1. CASE HostCommand
    BY <1>1 DEF HostCommand, TriggerInv, Types, Asking, Handling, Serving, Command, Running, Registers, Free
  <1>2. CASE HostTrigger
    <2>1. host.pc \in {"FLUSH", "EXECUTE"} /\ ~Asking /\ host \in [script : Seq(Commands), k : Nat \ {0},
               pc : HostPcs, sent : Nat, channel : {"I2C", "I3C"}, res : {Nobody, "DONE", "ERROR"}]
      BY <1>2 DEF HostTrigger, Asking, Types
    <2>2. /\ "UfmCmdTriggerValue" \notin sem /\ note.at # "UfmCmdTriggerValue" /\ Free(queue)
          /\ ~Handling /\ Running /\ reg.UfmCommand = Command
      BY <2>1 DEF TriggerInv, Trigger
    <2>3. CASE host.pc = "FLUSH"
      <3> DEFINE v == IF Command \in DOMAIN Read THEN "FLUSH_READ" ELSE "FLUSH_WRITE"
      <3>1. Store("UfmCmdTriggerValue", v) /\ host' = [host EXCEPT !.pc = "FLUSHING"]
        BY <1>2, <2>3 DEF HostTrigger
      <3>2. /\ host'.pc = "FLUSHING" /\ host'.channel = host.channel
            /\ host'.script = host.script /\ host'.k = host.k
        BY <2>1, <3>1
      <3>3. v \in Triggers /\ Asking' /\ v = Wanted'
        BY <3>2 DEF Triggers, Asking, Wanted, Command
      <3> QED
        BY <1>2, <2>2, <3>1, <3>2, <3>3, TriggerStored DEF HostTrigger
    <2>4. CASE host.pc = "EXECUTE"
      <3>1. Store("UfmCmdTriggerValue", "EXECUTE") /\ host' = [host EXCEPT !.pc = "WAIT"]
        BY <1>2, <2>4 DEF HostTrigger
      <3>2. /\ host'.pc = "WAIT" /\ host'.channel = host.channel
            /\ host'.script = host.script /\ host'.k = host.k
        BY <2>1, <3>1
      <3>3. "EXECUTE" \in Triggers /\ Asking' /\ "EXECUTE" = Wanted'
        BY <3>2 DEF Triggers, Asking, Wanted
      <3> QED
        BY <1>2, <2>2, <3>1, <3>2, <3>3, TriggerStored DEF HostTrigger
    <2> QED
      BY <2>1, <2>3, <2>4
  <1>3. CASE HostFlushed
    BY <1>3 DEF HostFlushed, Acknowledged, TriggerInv, Types, Asking, Handling, Serving, Command, Running, Free
  <1>4. CASE HostData
    <2>1. /\ reg' = reg /\ note' = note /\ queue' = queue /\ sm' = sm
          /\ sem' \subseteq sem \cup {"UfmWriteFIFO"} /\ host.pc = "DATA"
      BY <1>4 DEF HostData
    <2>2. host'.pc # "COMMAND" /\ host'.script = host.script /\ host'.k = host.k
      BY <1>4 DEF HostData, Types
    <2>3. /\ Running /\ reg.UfmCommand = Command /\ reg.UfmCmdTriggerValue = Cleared
          /\ Trigger \notin sem /\ note.at # Trigger /\ Free(queue) /\ ~Handling
      BY <2>1 DEF TriggerInv, Asking
    <2>4. Trigger \notin sem' /\ ~Handling' /\ Running' /\ Command' = Command /\ Free(queue')
      BY <2>1, <2>2, <2>3 DEF Handling, Serving, Running, Command, Trigger
    <2> QED
      BY <2>1, <2>3, <2>4 DEF TriggerInv
  <1>5. CASE HostDone
    BY <1>5 DEF HostDone, Acknowledged, TriggerInv, Types, Asking, Handling, Serving, Free
  <1>6. CASE HostRetry
    <2>1. /\ Asking /\ reg.UfmCmdTriggerValue # Cleared /\ host.pc # "COMMAND"
          /\ "UfmCmdTriggerValue" \notin sem /\ note.at # "UfmCmdTriggerValue" /\ ~Handling
      BY <1>6 DEF HostRetry, TriggerTaken, Asking, Handling
    <2>2. Free(queue)
      BY <1>6 DEF HostRetry, TriggerTaken, Free, Types
    <2>3. reg.UfmCmdTriggerValue \in Triggers /\ reg.UfmCmdTriggerValue = Wanted
      BY <2>1 DEF Types, TriggerInv
    <2>4. Asking' /\ Wanted' = Wanted
      BY <1>6, <2>1 DEF HostRetry, Asking, Wanted, Command
    <2> QED
      BY <1>6, <2>1, <2>2, <2>3, <2>4, TriggerStored DEF HostRetry, TriggerInv
  <1> QED
    BY <1>1, <1>2, <1>3, <1>4, <1>5, <1>6 DEF HostStep

LEMMA TriggerRequest ==
    ASSUME Types, TriggerInv, NEW r \in Requests, HostRequest(r)
    PROVE  TriggerInv'
  <1>1. PICK v \in RegValues : Store(r, v)
    <2>1. PICK v \in budget.requests :
            IF host.channel = "I2C" THEN Store(r, v) ELSE Store(r, Masked(r, v))
      BY DEF HostRequest
    <2>2. v \in RegValues
      BY DEF Types, Budgets, RegValues
    <2> QED
      BY <2>1, <2>2, MaskedType
  <1>2. r \in Registers /\ r # "UfmCmdTriggerValue" /\ r # "UfmCommand" /\ r \in DOMAIN EventOf
    BY EventNames DEF Requests, Registers
  <1>3. UNCHANGED <<note, sm, status, host>>
    BY DEF HostRequest
  <1>4. reg'.UfmCmdTriggerValue = reg.UfmCmdTriggerValue /\ reg'.UfmCommand = reg.UfmCommand
    BY <1>1, <1>2 DEF Store, Types, Registers
  <1>5. Trigger \in sem' <=> Trigger \in sem
    BY <1>1, <1>2 DEF Store, Trigger
  <1>6. (Free(queue) => Free(queue')) /\ \A w : Only(queue, w) => Only(queue', w)
    <2> DEFINE e == [ev |-> EventOf[r], reg |-> r, val |-> v]
    <2>1. e \in QEvents /\ e.ev # "PROVISION_CMD"
      BY <1>2, EventNames DEF QEvents
    <2>2. queue' = queue \/ queue' = Append(queue, e)
      BY <1>1 DEF Store, Event
    <2> QED
      BY <2>1, <2>2, AppendEvent, ZenonT(40) DEF Types
  <1> QED
    BY <1>3, <1>4, <1>5, <1>6 DEF TriggerInv, Handling, Serving, Asking, Wanted, Command, Running

\* The notifyee's steps.
LEMMA TriggerNotify ==
    ASSUME Types, TriggerInv, NotifyStep
    PROVE  TriggerInv'
  <1> USE DEF Handling, Serving, Asking, Wanted, Command, Running
  <1>1. CASE NotifyTake
    <2>1. /\ sem' = sem \ {FirstGiven} /\ FirstGiven \in sem /\ note.at = Nobody
          /\ note'.at = FirstGiven /\ UNCHANGED <<reg, status, queue, sm, host>>
      BY <1>1, FirstOne DEF NotifyTake, Types
    <2>2. FirstGiven = Trigger => note'.val = reg.UfmCmdTriggerValue
      BY <1>1 DEF NotifyTake, Types, Trigger, Registers
    <2>3. CASE FirstGiven = Trigger
      BY <2>1, <2>2, <2>3 DEF TriggerInv
    <2>4. CASE FirstGiven # Trigger
      BY <2>1, <2>4 DEF TriggerInv
    <2> QED
      BY <2>3, <2>4
  <1>2. CASE NotifyDrain
    <2>1. UNCHANGED <<reg, status, sem, queue, sm, host>> /\ note'.at # Trigger /\ note.at # Trigger
      BY <1>2 DEF NotifyDrain, Types, Trigger, Nobody
    <2> QED
      BY <2>1 DEF TriggerInv
  <1>3. CASE NotifyEvent
    <2> DEFINE v == Masked(note.at, note.val)
               e == [ev |-> EventOf[note.at], reg |-> note.at, val |-> v]
    <2>1. /\ note.at \in DOMAIN EventOf /\ v \in RegValues /\ e \in QEvents
          /\ e.ev = "PROVISION_CMD" <=> note.at = Trigger
      BY <1>3, MaskedType, EventNames DEF NotifyEvent, Types, QEvents, Trigger
    <2>2. /\ UNCHANGED <<status, sem, sm, host>> /\ note'.at # Trigger
          /\ reg'.UfmCmdTriggerValue = reg.UfmCmdTriggerValue /\ reg'.UfmCommand = reg.UfmCommand
      BY <1>3 DEF NotifyEvent, Types, Trigger, Nobody, Registers
    <2>3. CASE note.at = Trigger
      <3>1. v = reg.UfmCmdTriggerValue /\ Free(queue) /\ ~Handling /\ reg.UfmCmdTriggerValue # Cleared
        BY <2>3 DEF TriggerInv, Masked, Trigger
      <3>2. queue' = Append(queue, e)
        BY <1>3, <2>3 DEF NotifyEvent, Event, Trigger
      <3>3. Only(queue', reg.UfmCmdTriggerValue)
        BY <2>1, <3>1, <3>2, AppendEvent DEF Types
      <3>4. Trigger \notin sem
        BY <2>3 DEF TriggerInv
      <3> QED
        BY <2>2, <3>1, <3>3, <3>4 DEF TriggerInv
    <2>4. CASE note.at # Trigger
      <3>1. queue' = queue \/ queue' = Append(queue, e)
        BY <1>3 DEF NotifyEvent, Event
      <3>2. (Free(queue) => Free(queue')) /\ \A w : Only(queue, w) => Only(queue', w)
        BY <2>1, <2>4, <3>1, AppendEvent, ZenonT(40) DEF Types
      <3> QED
        BY <2>2, <2>4, <3>2 DEF TriggerInv
    <2> QED
      BY <2>3, <2>4
  <1> QED
    BY <1>1, <1>2, <1>3 DEF NotifyStep

\* The state machine's steps.
LEMMA TriggerSm ==
    ASSUME Types, SectorInv, TriggerInv, SmStep
    PROVE  TriggerInv'
  <1>1. CASE HandleProvision
    <2>1. /\ sm.pc = "IDLE" /\ Serving /\ queue # <<>> /\ Head(queue).ev = "PROVISION_CMD"
          /\ queue' = Tail(queue) /\ UNCHANGED <<reg, sem, note, host>>
      BY <1>1 DEF HandleProvision
    <2>2. /\ ~Free(queue) /\ Free(queue') /\ Head(queue).val = reg.UfmCmdTriggerValue
          /\ reg.UfmCmdTriggerValue # Cleared /\ Trigger \notin sem /\ note.at # Trigger
      BY <2>1, TakeEvent DEF TriggerInv, Types
    <2>3. Head(queue).val \in Triggers /\ Asking /\ Head(queue).val = Wanted
      BY <2>2 DEF Types, TriggerInv
    <2>4. status' = {} /\ sm' = [sm EXCEPT !.pc = "CLEAR", !.trigger = Head(queue).val]
      BY <1>1, <2>3 DEF HandleProvision, Triggers
    <2>5. sm'.pc = "CLEAR" /\ sm'.trigger = Wanted /\ sm'.state = sm.state
      BY <2>3, <2>4 DEF Types
    <2>6. Asking' /\ Wanted' = Wanted /\ Command' = Command /\ (Running' <=> Running)
      BY <2>1, <2>3 DEF Asking, Wanted, Command, Running
    <2> QED
      BY <2>1, <2>2, <2>3, <2>4, <2>5, <2>6 DEF TriggerInv, Triggers
  <1>2. CASE ClearTrigger
    <2>1. /\ sm.pc = "CLEAR" /\ UNCHANGED <<status, sem, note, queue, host>>
          /\ reg'.UfmCmdTriggerValue = Cleared /\ reg'.UfmCommand = reg.UfmCommand
          /\ sm'.pc = "BUSY" /\ sm'.trigger = sm.trigger /\ sm'.state = sm.state
      BY <1>2 DEF ClearTrigger, Types, Registers
    <2>2. Handling
      BY <2>1 DEF SectorInv, Handling
    <2>3. Trigger \notin sem /\ note.at # Trigger /\ Free(queue)
      BY <2>2 DEF TriggerInv
    <2> QED
      BY <2>1, <2>2, <2>3 DEF TriggerInv, Asking, Wanted, Command, Running, Triggers
  <1>3. CASE SetBusy
    BY <1>3, TriggerKept DEF SetBusy, TriggerInv, Handling, Serving, Types, Triggers
  <1>4. CASE Flush
    BY <1>4, TriggerKept DEF Flush, TriggerInv, Handling, Serving, Types, Triggers
  <1>5. CASE ProcessProvisionCommand
    <2>1. /\ sm.pc = "EXECUTE" /\ UNCHANGED <<reg, sem, note, queue, host>>
          /\ status' \subseteq status \cup {"ERROR"}
          /\ sm'.pc \in {"FINISH", "FLASH"} /\ sm'.trigger = sm.trigger /\ sm'.state = sm.state
      BY <1>5, ZenonT(40) DEF ProcessProvisionCommand, Types
    <2> QED
      BY <2>1, TriggerKept DEF TriggerInv, Handling, Serving, Triggers
  <1>6. CASE FlashErase
    BY <1>6, TriggerKept, ZenonT(40) DEF FlashErase, TriggerInv, Handling, Serving, Types, Triggers
  <1>7. CASE FlashProgram
    BY <1>7, TriggerKept DEF FlashProgram, TriggerInv, Handling, Serving, Types, Triggers
  <1>8. CASE FlashEnd
    BY <1>8, TriggerKept DEF FlashEnd, TriggerInv, Handling, Serving, Types, Triggers
  <1>9. CASE ClearBusy
    BY <1>9, TriggerKept DEF ClearBusy, TriggerInv, Handling, Serving, Types, Triggers
  <1>10. CASE SetDone
    BY <1>10, TriggerKept DEF SetDone, TriggerInv, Handling, Serving, Types, Triggers
  <1>11. CASE TakeRequest
    <2>1. /\ sm.pc = "IDLE" /\ queue # <<>> /\ queue' = Tail(queue)
          /\ sm'.pc = "IDLE" /\ UNCHANGED <<reg, sem, note, host, status>>
      BY <1>11 DEF TakeRequest, Types
    <2>2. (Free(queue) => Free(queue')) /\ \A v : Only(queue, v) => Only(queue', v)
      BY <2>1, TakeEvent DEF Types
    <2> QED
      BY <2>1, <2>2 DEF TriggerInv, Handling, Serving, Asking, Wanted, Command, Running
  <1>12. CASE Discard
    <2>1. /\ queue # <<>> /\ queue' = Tail(queue)
          /\ UNCHANGED <<reg, sem, note, host, status, sm>>
      BY <1>12 DEF Discard
    <2>2. (Free(queue) => Free(queue')) /\ \A v : Only(queue, v) => Only(queue', v)
      BY <2>1, TakeEvent DEF Types
    <2> QED
      BY <2>1, <2>2 DEF TriggerInv, Handling, Serving, Asking, Wanted, Command, Running
  <1>13. CASE UpdateDone
    BY <1>13, TriggerKept DEF UpdateDone, Handling, Serving, Types
  <1> QED
    BY <1>1, <1>2, <1>3, <1>4, <1>5, <1>6, <1>7, <1>8, <1>9, <1>10, <1>11, <1>12, <1>13 DEF SmStep

LEMMA TriggerPower ==
    ASSUME Types, PowerCut
    PROVE  TriggerInv'
  <1>1. /\ reg'.UfmCmdTriggerValue = Cleared /\ sem' = {} /\ note'.at = Nobody /\ queue' = <<>>
        /\ sm'.pc = "IDLE" /\ host'.pc = "COMMAND"
    <2>1. ufm \in Ufms
      BY DEF Types
    <2>2. host'.pc = "COMMAND"
      BY DEF PowerCut, Types
    <2>3. LET ram == PowerOnRam(ufm)
          IN  reg' = ram.reg /\ sem' = ram.sem /\ note' = ram.note /\ queue' = ram.queue /\ sm' = ram.sm
      BY DEF PowerCut
    <2>4. IdleSm(ufm).pc = "IDLE"
      BY DEF IdleSm
    <2>5. sm' = IdleSm(ufm) /\ sem' = {} /\ queue' = <<>> /\ note' = [at |-> Nobody, val |-> Cleared]
      BY <2>3 DEF PowerOnRam
    <2>6. reg'.UfmCmdTriggerValue = Cleared
      BY <2>1, <2>3, PowerOnTypes
    <2> QED
      BY <2>2, <2>4, <2>5, <2>6
  <1> QED
    BY <1>1 DEF TriggerInv, Handling, Free, Trigger, Nobody

-----------------------------------------------------------------------------
(* The payload.                                                             *)

LEMMA SendingKey ==
    ASSUME Sending
    PROVE  /\ Provision[Command] \in Keys /\ Size[Provision[Command]] \in Nat
           /\ 0 < Size[Provision[Command]] /\ Size[Provision[Command]] <= FifoSize /\ FifoSize \in Nat
  BY CommandKeys, PayloadBytes, SizeAssumption DEF Sending

\* Steps that leave the FIFOs alone.
LEMMA StreamKept ==
    ASSUME StreamInv, UNCHANGED <<reg, sem, hw, fifo, note, host>>, Early => Early'
    PROVE  StreamInv'
  BY DEF StreamInv, Stream, Flushed, Sending, Command

\* The hosts' steps.
LEMMA StreamHost ==
    ASSUME Types, TriggerInv, StreamInv, HostStep
    PROVE  StreamInv'
  <1>1. CASE HostCommand
    <2>1. host'.pc = "FLUSH" /\ host'.sent = 0 /\ host'.channel = host.channel /\ UNCHANGED <<sem, note, hw>>
      BY <1>1 DEF HostCommand, Types
    <2> QED
      BY <2>1 DEF StreamInv, Flushed, Sending
  <1>2. CASE HostTrigger
    <2>1. /\ UNCHANGED <<hw, fifo, note>> /\ host'.sent = host.sent /\ host'.channel = host.channel
          /\ host'.script = host.script /\ host'.k = host.k
          /\ \/ host.pc = "FLUSH" /\ host'.pc = "FLUSHING"
             \/ host.pc = "EXECUTE" /\ host'.pc = "WAIT"
      BY <1>2 DEF HostTrigger, Types
    <2>2. PICK v \in Triggers : Store("UfmCmdTriggerValue", v)
      BY <1>2 DEF HostTrigger, Triggers
    <2>3. /\ reg'.UfmCmdTriggerValue # Cleared
          /\ host.channel = "I2C" => sem' = sem \cup {"UfmCmdTriggerValue"}
          /\ host.channel = "I3C" => sem' = sem
      BY <2>2 DEF Store, Types, Registers, Triggers, Cleared
    <2>4. Command' = Command /\ ~Flushed'
      BY <2>1, <2>3 DEF Command, Flushed
    <2>5. CASE host.pc = "FLUSH"
      BY <2>1, <2>3, <2>4, <2>5 DEF StreamInv, Sending
    <2>6. CASE host.pc = "EXECUTE"
      BY <2>1, <2>3, <2>4, <2>6 DEF StreamInv, Sending, Stream, Trigger
    <2> QED
      BY <2>1, <2>5, <2>6
  <1>3. CASE HostFlushed
    <2>1. /\ UNCHANGED <<reg, sem, hw, fifo, note, sm>> /\ host.pc = "FLUSHING" /\ host'.sent = host.sent
          /\ host'.channel = host.channel /\ host'.script = host.script /\ host'.k = host.k
          /\ host'.pc = (IF Command \in DOMAIN Provision THEN "DATA" ELSE "EXECUTE")
      BY <1>3 DEF HostFlushed, Types
    <2>2. Flushed /\ host.sent = 0
      BY <1>3, <2>1 DEF HostFlushed, Acknowledged, TriggerInv, StreamInv, Flushed, Early
    <2>3. Command' = Command /\ ~Flushed'
      BY <2>1 DEF Command, Flushed
    <2>4. CASE Command \in DOMAIN Provision
      <3>1. fifo.n = 0 /\ hw = <<>> /\ 0 < Size[Provision[Command]]
        BY <2>2, <2>4, CommandKeys, PayloadBytes DEF StreamInv
      <3> QED
        BY <2>1, <2>2, <2>3, <2>4, <3>1 DEF StreamInv, Stream, Trigger
    <2>5. CASE Command \notin DOMAIN Provision
      BY <2>1, <2>2, <2>3, <2>5 DEF StreamInv, Sending
    <2> QED
      BY <2>4, <2>5
  <1>4. CASE HostData
    <2> DEFINE key == Provision[Command]
               b   == Byte(key, host.sent + 1)
    <2>1. host.pc = "DATA" /\ Sending /\ Len(hw) < FifoSize /\ hw \in Seq(Bytes) /\ host.sent \in Nat
      BY <1>4 DEF HostData, StreamInv, Sending, Types
    <2>2. key \in Keys /\ Size[key] \in Nat /\ Size[key] <= FifoSize /\ FifoSize \in Nat /\ b \in Bytes
      <3>1. host.sent < Size[key]
        BY <2>1 DEF StreamInv, Stream
      <3> QED
        BY <2>1, <3>1, SendingKey, PayloadBytes
    <2>3. /\ hw' = Append(hw, b) /\ note' = note /\ host'.sent = host.sent + 1
          /\ host'.channel = host.channel /\ host'.script = host.script /\ host'.k = host.k
          /\ host'.pc = (IF host.sent + 1 = Size[key] THEN "EXECUTE" ELSE "DATA")
      BY <1>4, <2>1 DEF HostData, Types
    <2>4. Command' = Command /\ ~Flushed' /\ Stream(key) /\ Command \in DOMAIN Provision
      BY <2>1, <2>3 DEF Command, Flushed, StreamInv, Sending
    <2>5. Len(hw') = Len(hw) + 1 /\ hw'[Len(hw) + 1] = b /\ \A j \in 1..Len(hw) : hw'[j] = hw[j]
      BY <2>1, <2>2, <2>3
    <2>6. CASE host.channel = "I2C"
      <3>1. sem' = sem \cup {"UfmWriteFIFO"} /\ fifo' = fifo
        BY <1>4, <2>6 DEF HostData
      <3>2. fifo.n \in Nat /\ fifo.n + Len(hw) = host.sent
        BY <2>4, <2>6, SizeAssumption DEF Stream, Types
      <3>3. \A j \in 1..Len(hw') : hw'[j] = Byte(key, fifo.n + j)
        <4>1. \A j \in 1..Len(hw) : hw[j] = Byte(key, fifo.n + j)
          BY <2>4, <2>6 DEF Stream
        <4>2. Len(hw) \in Nat /\ b = Byte(key, fifo.n + (Len(hw) + 1))
          BY <2>1, <3>2
        <4> QED
          BY <2>5, <4>1, <4>2
      <3>4. Stream(key)'
        <4>1. Len(hw) \in Nat /\ fifo'.n + Len(hw') = host'.sent
          BY <2>1, <2>3, <2>5, <3>1, <3>2
        <4>2. (host'.pc = "DATA" => host'.sent < Size[key]) /\ (host'.pc # "DATA" => host'.sent = Size[key])
          BY <2>1, <2>2, <2>3, <2>4 DEF Stream
        <4>3. \A i \in 1..fifo'.n : fifo'.data[i] = Byte(key, i)
          BY <2>4, <3>1 DEF Stream
        <4>4. host'.channel = "I2C" /\ host'.pc # "WAIT" /\ "UfmWriteFIFO" \in sem'
          BY <2>3, <2>6, <3>1
        <4> QED
          BY <2>4, <3>1, <3>3, <4>1, <4>2, <4>3, <4>4 DEF Stream
      <3> QED
        BY <2>1, <2>2, <2>3, <2>4, <2>5, <2>6, <3>4 DEF StreamInv, Sending
    <2>7. CASE host.channel = "I3C"
      <3>1. sem' = sem /\ fifo' = [data |-> [fifo.data EXCEPT ![fifo.n + 1] = b], n |-> fifo.n + 1]
        BY <1>4, <2>7 DEF HostData
      <3>2. fifo.n = host.sent /\ Len(hw) = host.sent /\ fifo.n + 1 \in 1..FifoSize
        BY <2>1, <2>2, <2>4, <2>7 DEF Stream
      <3>3. \A i \in 1..fifo'.n : fifo'.data[i] = Byte(key, i)
        <4>1. \A i \in 1..fifo.n : fifo.data[i] = Byte(key, i)
          BY <2>4 DEF Stream
        <4>2. fifo.data \in [1..FifoSize -> Bytes] /\ b = Byte(key, fifo.n + 1) /\ fifo.n \in Nat
          BY <2>1, <3>2 DEF Types
        <4>3. fifo'.n = fifo.n + 1 /\ fifo'.data = [fifo.data EXCEPT ![fifo.n + 1] = b]
          BY <3>1
        <4>4. ASSUME NEW i \in 1..fifo.n + 1 PROVE fifo'.data[i] = Byte(key, i)
          <5>1. CASE i = fifo.n + 1
            BY <3>2, <4>2, <4>3, <5>1
          <5>2. CASE i # fifo.n + 1
            BY <3>2, <4>1, <4>2, <4>3, <5>2
          <5> QED
            BY <5>1, <5>2
        <4> QED
          BY <4>3, <4>4
      <3>4. Stream(key)'
        BY <2>1, <2>2, <2>3, <2>4, <2>5, <2>7, <3>1, <3>2, <3>3 DEF Stream
      <3> QED
        BY <2>1, <2>2, <2>3, <2>4, <2>5, <2>7, <3>1, <3>4 DEF StreamInv, Sending
    <2> QED
      BY <2>6, <2>7 DEF Types
  <1>5. CASE HostDone
    <2>1. host'.pc = "COMMAND" /\ host'.channel = host.channel /\ UNCHANGED <<sem, note, hw>>
      BY <1>5 DEF HostDone, Types
    <2> QED
      BY <2>1 DEF StreamInv, Flushed, Sending
  <1>6. CASE HostRetry
    <2>1. UNCHANGED <<hw, fifo, note, host>> /\ reg.UfmCmdTriggerValue # Cleared
      BY <1>6 DEF HostRetry
    <2>2. /\ reg'.UfmCmdTriggerValue = reg.UfmCmdTriggerValue
          /\ host.channel = "I2C" => sem' = sem \cup {"UfmCmdTriggerValue"}
          /\ host.channel = "I3C" => sem' = sem
      BY <1>6 DEF HostRetry, Store, Types, Registers
    <2>3. Command' = Command /\ ~Flushed'
      BY <2>1, <2>2 DEF Command, Flushed
    <2> QED
      BY <2>1, <2>2, <2>3 DEF StreamInv, Sending, Stream, Trigger
  <1> QED
    BY <1>1, <1>2, <1>3, <1>4, <1>5, <1>6 DEF HostStep

LEMMA StreamRequest ==
    ASSUME Types, StreamInv, NEW r \in Requests, HostRequest(r)
    PROVE  StreamInv'
  <1>1. PICK v : Store(r, v)
    BY DEF HostRequest
  <1>2. /\ r # "UfmCmdTriggerValue" /\ r # "UfmWriteFIFO" /\ UNCHANGED <<hw, fifo, note, sm, host>>
        /\ reg'.UfmCmdTriggerValue = reg.UfmCmdTriggerValue
        /\ host.channel = "I2C" => sem' = sem \cup {r}
        /\ host.channel = "I3C" => sem' = sem
    BY <1>1 DEF HostRequest, Store, Types, Registers, Requests
  <1>3. Command' = Command /\ (Flushed' <=> Flushed)
    BY <1>2 DEF Command, Flushed, Early, Handling, Serving
  <1> QED
    BY <1>2, <1>3 DEF StreamInv, Sending, Stream, Trigger

\* The notifyee's steps.
LEMMA StreamNotify ==
    ASSUME Types, TriggerInv, StreamInv, NotifyStep
    PROVE  StreamInv'
  <1>1. UNCHANGED <<host, sm>> /\ reg'.UfmCmdTriggerValue = reg.UfmCmdTriggerValue
    BY DEF NotifyStep, NotifyTake, NotifyDrain, NotifyEvent, Types, Registers
  <1>2. Command' = Command /\ (Flushed' <=> Flushed) /\ (Sending' <=> Sending)
    BY <1>1 DEF Command, Flushed, Sending, Early, Handling, Serving
  <1>3. CASE NotifyTake
    <2>1. /\ UNCHANGED <<hw, fifo>> /\ sem' = sem \ {FirstGiven} /\ note'.at = FirstGiven
          /\ FirstGiven \in sem /\ note.at = Nobody
          /\ "UfmWriteFIFO" \in sem => FirstGiven = "UfmWriteFIFO"
      BY <1>3, FirstOne DEF NotifyTake, Types
    <2>2. host.channel = "I2C"
      BY <2>1 DEF StreamInv, Types
    <2>3. ASSUME Sending PROVE Stream(Provision[Command])'
      <3> DEFINE key == Provision[Command]
      <3>1. Stream(key)
        BY <2>3 DEF StreamInv
      <3>2. "UfmWriteFIFO" \notin sem => hw = <<>>
        BY <2>1, <2>2, <3>1 DEF Stream, Nobody
      <3> QED
        BY <1>1, <1>2, <2>1, <2>2, <3>1, <3>2 DEF Stream, Trigger
    <2> QED
      BY <1>1, <1>2, <2>1, <2>2, <2>3 DEF StreamInv
  <1>4. CASE NotifyDrain
    <2>1. note.at = "UfmWriteFIFO" /\ sem' = sem /\ host.channel = "I2C"
      BY <1>4 DEF NotifyDrain, StreamInv, Types, Nobody
    <2>2. CASE hw # <<>> /\ fifo.n < FifoSize
      <3>1. /\ fifo' = [data |-> [fifo.data EXCEPT ![fifo.n + 1] = Head(hw)], n |-> fifo.n + 1]
            /\ hw' = Tail(hw) /\ note' = note
        BY <1>4, <2>2 DEF NotifyDrain
      <3>2. /\ hw \in Seq(Bytes) /\ Len(hw) \in Nat /\ Len(hw) > 0 /\ Len(hw') = Len(hw) - 1
            /\ Head(hw) = hw[1] /\ \A j \in 1..Len(hw') : hw'[j] = hw[j + 1]
        BY <2>2, <3>1 DEF Types
      <3>3. fifo.n \in Nat /\ fifo.data \in [1..FifoSize -> Bytes] /\ FifoSize \in Nat
        BY SizeAssumption DEF Types
      <3>4. ASSUME Sending PROVE Stream(Provision[Command])'
        <4> DEFINE key == Provision[Command]
        <4>1. Stream(key)
          BY <3>4 DEF StreamInv
        <4>2. /\ \A i \in 1..fifo.n : fifo.data[i] = Byte(key, i)
              /\ \A j \in 1..Len(hw) : hw[j] = Byte(key, fifo.n + j)
              /\ fifo.n + Len(hw) = host.sent
          BY <2>1, <4>1 DEF Stream
        <4>3. ASSUME NEW i \in 1..fifo.n + 1 PROVE fifo'.data[i] = Byte(key, i)
          <5>1. CASE i = fifo.n + 1
            <6>1. hw[1] = Byte(key, fifo.n + 1)
              BY <3>2, <4>2
            <6> QED
              BY <2>2, <3>1, <3>2, <3>3, <5>1, <6>1
          <5>2. CASE i # fifo.n + 1
            <6>1. i \in 1..fifo.n
              BY <3>3, <5>2
            <6>2. fifo'.data[i] = fifo.data[i]
              BY <2>2, <3>1, <3>3, <5>2, <6>1
            <6> QED
              BY <4>2, <6>1, <6>2
          <5> QED
            BY <5>1, <5>2
        <4>4. ASSUME NEW j \in 1..Len(hw') PROVE hw'[j] = Byte(key, fifo.n + 1 + j)
          <5>1. hw'[j] = hw[j + 1] /\ j + 1 \in 1..Len(hw)
            BY <3>2
          <5>2. hw[j + 1] = Byte(key, fifo.n + (j + 1))
            BY <4>2, <5>1
          <5>3. j \in Nat /\ fifo.n \in Nat
            BY <3>2, <3>3
          <5>4. fifo.n + (j + 1) = fifo.n + 1 + j
            BY <5>3
          <5> QED
            BY <5>1, <5>2, <5>4
        <4>5. fifo'.n = fifo.n + 1 /\ fifo'.n + Len(hw') = host.sent
          BY <3>1, <3>2, <3>3, <4>2
        <4>6. host.pc = "WAIT" /\ Trigger \notin sem => hw = <<>>
          BY <2>1, <4>1 DEF Stream
        <4> QED
          BY <1>1, <1>2, <2>1, <2>2, <3>1, <4>1, <4>3, <4>4, <4>5, <4>6 DEF Stream
      <3>5. Flushed /\ Command \in DOMAIN Provision => FALSE
        BY <2>2 DEF StreamInv
      <3>6. Len(hw') <= FifoSize
        BY <3>2, <3>3 DEF StreamInv
      <3> QED
        BY <1>1, <1>2, <2>1, <3>4, <3>5, <3>6 DEF StreamInv
    <2>3. CASE ~(hw # <<>> /\ fifo.n < FifoSize)
      <3>1. UNCHANGED <<fifo, hw>> /\ note'.at = Nobody
        BY <1>4, <2>3 DEF NotifyDrain, Types
      <3>2. ASSUME Sending PROVE Stream(Provision[Command])'
        <4> DEFINE key == Provision[Command]
        <4>1. Stream(key) /\ host.sent <= Size[key] /\ Size[key] <= FifoSize
          BY <3>2, SendingKey DEF StreamInv, Stream, Types
        <4>2. hw = <<>>
          <5>1. fifo.n + Len(hw) <= FifoSize /\ Len(hw) \in Nat /\ fifo.n \in Nat
            BY <2>1, <4>1, SizeAssumption, SendingKey, <3>2 DEF Stream, Types
          <5>2. hw # <<>> => Len(hw) > 0
            BY DEF Types
          <5> QED
            BY <2>3, <5>1, <5>2, SizeAssumption
        <4> QED
          BY <1>1, <1>2, <2>1, <3>1, <4>1, <4>2 DEF Stream
      <3> QED
        BY <1>1, <1>2, <2>1, <3>1, <3>2 DEF StreamInv
    <2> QED
      BY <2>2, <2>3
  <1>5. CASE NotifyEvent
    <2>1. /\ UNCHANGED <<hw, fifo, sem>> /\ note'.at = Nobody /\ note.at # "UfmWriteFIFO"
      BY <1>5, EventNames DEF NotifyEvent, Types, Requests
    <2> QED
      BY <1>1, <1>2, <2>1 DEF StreamInv, Stream, Trigger
  <1> QED
    BY <1>3, <1>4, <1>5 DEF NotifyStep

\* The state machine's steps.
LEMMA StreamSm ==
    ASSUME Types, SectorInv, TriggerInv, StreamInv, SmStep
    PROVE  StreamInv'
  <1> USE DEF Early, Handling, Serving
  <1>1. CASE HandleProvision
    BY <1>1, StreamKept DEF HandleProvision, Types, TriggerInv, Triggers
  <1>2. CASE ClearTrigger
    <2>1. /\ UNCHANGED <<sem, hw, fifo, note, host>> /\ Command' = Command
          /\ sm'.pc = "BUSY" /\ sm'.state = sm.state /\ sm.pc = "CLEAR"
      BY <1>2 DEF ClearTrigger, Types, Command
    <2>2. Early'
      BY <2>1 DEF SectorInv
    <2> QED
      BY <2>1, <2>2 DEF StreamInv, Stream, Sending, Flushed
  <1>3. CASE SetBusy
    BY <1>3, StreamKept DEF SetBusy, Types, SectorInv, Triggers
  <1>4. CASE Flush
    <2>1. /\ UNCHANGED <<sem, note, host, reg>> /\ Command' = Command
          /\ sm.pc \in {"FLUSH_WRITE", "FLUSH_READ"} /\ hw' \in {<<>>, hw}
          /\ sm.pc = "FLUSH_WRITE" => fifo'.n = 0 /\ hw' = <<>>
      BY <1>4 DEF Flush, Types, Command
    <2>2. sm.pc = Wanted /\ Asking
      BY <2>1 DEF SectorInv, TriggerInv, Triggers
    <2>3. host.pc = "FLUSHING" /\ (Command \in DOMAIN Provision => sm.pc = "FLUSH_WRITE")
      BY <2>1, <2>2, CommandKeys DEF Asking, Wanted
    <2>4. Len(hw') <= FifoSize
      BY <2>1, SizeAssumption DEF StreamInv
    <2> QED
      BY <2>1, <2>3, <2>4 DEF StreamInv, Sending
  <1>5. CASE ProcessProvisionCommand
    <2>1. UNCHANGED <<sem, note, host, reg, hw, fifo>> /\ sm.pc = "EXECUTE"
      BY <1>5 DEF ProcessProvisionCommand
    <2>2. host.pc = "WAIT"
      BY <2>1 DEF SectorInv, TriggerInv, Triggers, Wanted
    <2> QED
      BY <2>1, <2>2 DEF StreamInv, Stream, Sending, Flushed, Command
  <1>6. CASE FlashErase
    BY <1>6, StreamKept DEF FlashErase, Triggers
  <1>7. CASE FlashProgram
    BY <1>7, StreamKept DEF FlashProgram, Triggers
  <1>8. CASE FlashEnd
    BY <1>8, StreamKept DEF FlashEnd, Triggers
  <1>9. CASE ClearBusy
    BY <1>9, StreamKept DEF ClearBusy, Triggers
  <1>10. CASE SetDone
    BY <1>10, StreamKept DEF SetDone, Triggers
  <1>11. CASE TakeRequest
    BY <1>11, StreamKept DEF TakeRequest, Triggers
  <1>12. CASE Discard
    BY <1>12, StreamKept DEF Discard
  <1>13. CASE UpdateDone
    BY <1>13, StreamKept DEF UpdateDone, Triggers
  <1> QED
    BY <1>1, <1>2, <1>3, <1>4, <1>5, <1>6, <1>7, <1>8, <1>9, <1>10, <1>11, <1>12, <1>13 DEF SmStep

LEMMA StreamPower ==
    ASSUME Types, PowerCut
    PROVE  StreamInv'
  <1>1. /\ sem' = {} /\ hw' = <<>> /\ note'.at = Nobody /\ host'.pc = "COMMAND"
    BY DEF PowerCut, PowerOnRam, Types
  <1> QED
    BY <1>1, SizeAssumption DEF StreamInv, Flushed, Sending

-----------------------------------------------------------------------------
(* The status bits stand for whole payloads.                                *)

LEMMA WholeSame ==
    ASSUME WholeInv, Kept' = Kept, Rest' = Rest, budget'.failed = budget.failed
    PROVE  WholeInv'
  <1>1. Goal' = Goal
    BY DEF Goal, After
  <1> QED
    BY <1>1 DEF WholeInv, Sound

\* Steps that leave the plan as it is.
LEMMA PlanKept ==
    ASSUME SmStep, Types, SectorInv,
           ~ProcessProvisionCommand, ~FlashErase, ~FlashProgram, ~UpdateDone
    PROVE  Kept' = Kept /\ Rest' = Rest /\ Goal' = Goal /\ budget' = budget
  <1>1. ufm' = ufm /\ sm'.todo = sm.todo /\ sm.pc # "PROGRAM" /\ sm'.pc # "PROGRAM" /\ budget' = budget
    BY ZenonT(40) DEF SmStep, HandleProvision, ClearTrigger, SetBusy, Flush, FlashEnd, ClearBusy, SetDone,
           TakeRequest, Discard, Types, Triggers
  <1>2. Kept' = Kept /\ Rest' = Rest
    BY <1>1 DEF Kept, Rest
  <1> QED
    BY <1>1, <1>2 DEF Goal, After

\* When a provisioning is executed, the FIFO holds the payload.
LEMMA WholePayload ==
    ASSUME Types, SectorInv, TriggerInv, StreamInv, sm.pc = "EXECUTE",
           reg.UfmCommand \in DOMAIN Provision
    PROVE  LET key == Provision[reg.UfmCommand]
           IN  SubSeq(fifo.data, 1, Size[key]) = Whole(key)
  <1> DEFINE key == Provision[reg.UfmCommand]
  <1>1. Handling /\ host.pc = "WAIT" /\ reg.UfmCommand = Command
    BY DEF SectorInv, Handling, TriggerInv, Triggers, Wanted, Asking
  <1>2. Sending /\ Stream(key) /\ key \in Keys
    BY <1>1, SendingKey DEF Sending, StreamInv
  <1>3. "UfmCmdTriggerValue" \notin sem
    BY <1>1 DEF TriggerInv, Trigger
  <1>4. fifo.n = Size[key]
    <2>1. CASE host.channel = "I2C"
      <3>1. fifo.n + Len(hw) = Size[key] /\ hw = <<>>
        BY <1>1, <1>2, <1>3, <2>1 DEF Stream, Trigger
      <3> QED
        BY <3>1 DEF Types
    <2>2. CASE host.channel = "I3C"
      BY <1>1, <1>2, <2>2 DEF Stream
    <2> QED
      BY <2>1, <2>2 DEF Types
  <1>5. \A i \in 1..Size[key] : fifo.data[i] = Byte(key, i)
    BY <1>2, <1>4 DEF Stream
  <1>6. /\ SubSeq(fifo.data, 1, Size[key]) \in Seq(Bytes) /\ Len(SubSeq(fifo.data, 1, Size[key])) = Size[key]
        /\ \A i \in 1..Size[key] : SubSeq(fifo.data, 1, Size[key])[i] = Byte(key, i)
    BY <1>2, <1>5, Taken, SMTT(30) DEF Types
  <1>7. /\ Whole(key) \in Seq(Bytes) /\ Len(Whole(key)) = Size[key]
        /\ \A i \in 1..Size[key] : Whole(key)[i] = Byte(key, i)
    BY <1>2, PayloadBytes DEF Whole
  <1> QED
    BY <1>2, <1>6, <1>7, PayloadBytes

\* What a command comes to.
LEMMA CommandGoal ==
    ASSUME Types, NEW cmd \in Commands
    PROVE  /\ cmd \in DOMAIN Provision =>
                After(ufm, ChangesOf(cmd)) =
                  [[ufm EXCEPT !.cell[Provision[cmd]] = SubSeq(fifo.data, 1, Size[Provision[cmd]])]
                     EXCEPT !.bits = ufm.bits \cup {Provision[cmd]}]
           /\ cmd = "LOCK_UFM" => After(ufm, ChangesOf(cmd)) = [ufm EXCEPT !.bits = ufm.bits \cup {"LOCK"}]
           /\ cmd = "ERASE_CURRENT" => After(ufm, ChangesOf(cmd)) = ErasedUfm
           /\ cmd \in DOMAIN Read => After(ufm, ChangesOf(cmd)) = ufm
  <1> USE CommandPlan
  <1>1. ufm \in Ufms
    BY DEF Types
  <1>2. ASSUME cmd \in DOMAIN Provision
        PROVE  After(ufm, ChangesOf(cmd)) =
                  [[ufm EXCEPT !.cell[Provision[cmd]] = SubSeq(fifo.data, 1, Size[Provision[cmd]])]
                     EXCEPT !.bits = ufm.bits \cup {Provision[cmd]}]
    <2> DEFINE key == Provision[cmd]
               c   == SubSeq(fifo.data, 1, Size[key])
               b   == ufm.bits \cup {key}
               u   == [ufm EXCEPT !.cell[key] = c]
    <2>1. ChangesOf(cmd) = <<Set(key, c), SetBits(b)>>
      BY <1>2
    <2>2. After(ufm, ChangesOf(cmd)) = Changed(Changed(ufm, Set(key, c)), SetBits(b))
      <3>1. /\ ChangesOf(cmd) # <<>> /\ Len(ChangesOf(cmd)) = 2
            /\ ChangesOf(cmd)[1] = Set(key, c) /\ ChangesOf(cmd)[2] = SetBits(b)
        BY <2>1
      <3> QED
        BY <3>1 DEF After
    <2>3. Changed(ufm, Set(key, c)) = u
      <3> HIDE DEF key, c
      <3> QED
        BY <1>1, Changes DEF u
    <2>4. key \in Keys /\ c \in Seq(Bytes) /\ Len(c) = Size[key]
      BY <1>2, CommandKeys, Taken DEF Types
    <2>5. u \in Ufms
      BY <1>1, <2>4 DEF Ufms, Payload
    <2>6. Changed(u, SetBits(b)) = [u EXCEPT !.bits = b]
      BY <2>5, Changes
    <2> QED
      BY <2>2, <2>3, <2>6
  <1>3. ASSUME cmd = "LOCK_UFM"
        PROVE  After(ufm, ChangesOf(cmd)) = [ufm EXCEPT !.bits = ufm.bits \cup {"LOCK"}]
    <2>1. ChangesOf(cmd) = <<SetBits(ufm.bits \cup {"LOCK"})>>
      BY <1>3
    <2>2. /\ ChangesOf(cmd) # <<>> /\ Len(ChangesOf(cmd)) = 1
          /\ ChangesOf(cmd)[1] = SetBits(ufm.bits \cup {"LOCK"})
      BY <2>1
    <2> QED
      BY <1>1, <2>2, Changes DEF After
  <1>4. ASSUME cmd = "ERASE_CURRENT" PROVE After(ufm, ChangesOf(cmd)) = ErasedUfm
    <2>1. ChangesOf(cmd) = <<EraseUfm>>
      BY <1>4
    <2>2. ChangesOf(cmd) # <<>> /\ Len(ChangesOf(cmd)) = 1 /\ ChangesOf(cmd)[1] = EraseUfm
      BY <2>1
    <2> QED
      BY <1>1, <2>2, Changes DEF After
  <1>5. ASSUME cmd \in DOMAIN Read PROVE After(ufm, ChangesOf(cmd)) = ufm
    BY <1>5 DEF After
  <1> QED
    BY <1>2, <1>3, <1>4, <1>5

LEMMA SoundErased == Sound(ErasedUfm)
  BY ErasedType DEF Sound

LEMMA WholeSm ==
    ASSUME Types, SectorInv, TriggerInv, StreamInv, WholeInv, SmStep
    PROVE  WholeInv'
  <1>1. CASE ProcessProvisionCommand
    <2> DEFINE cmd == reg.UfmCommand
    <2>1. /\ sm.pc = "EXECUTE" /\ sm.todo = <<>> /\ Kept = ufm /\ Rest = <<>> /\ Goal = ufm
          /\ ufm' = ufm /\ budget' = budget /\ cmd \in Commands /\ ufm \in Ufms
      BY <1>1 DEF ProcessProvisionCommand, SectorInv, Kept, Rest, Goal, After, Types
    <2>2. CASE Dropped(cmd) \/ Refused(cmd)
      <3>1. sm'.pc = "FINISH" /\ sm'.todo = sm.todo
        BY <1>1, <2>2 DEF ProcessProvisionCommand, Types
      <3>2. Kept' = Kept /\ Rest' = Rest
        BY <2>1, <3>1 DEF Kept, Rest
      <3> QED
        BY <2>1, <3>2, WholeSame
    <2>3. CASE ~(Dropped(cmd) \/ Refused(cmd))
      <3>1. sm'.pc = "FLASH" /\ sm'.todo = ChangesOf(cmd)
        BY <1>1, <2>3 DEF ProcessProvisionCommand, Types
      <3>2. Kept' = ufm /\ Rest' = ChangesOf(cmd)
        BY <2>1, <3>1 DEF Kept, Rest
      <3>3. Goal' = After(ufm, ChangesOf(cmd))
        BY <3>2 DEF Goal, After
      <3>4. SUFFICES ASSUME Sound(ufm)
                     PROVE  /\ Sound(Goal')
                            /\ \/ Kept'.bits \subseteq Goal'.bits
                               \/ Rest' # <<>> => Head(Rest').op # "CELL"
        BY <2>1, <3>2 DEF WholeInv, Sound
      <3>5. CASE cmd \in DOMAIN Provision
        <4> DEFINE key == Provision[cmd]
                   c   == SubSeq(fifo.data, 1, Size[key])
        <4>1. c = Whole(key) /\ key \in Keys
          BY <2>1, <3>5, WholePayload, CommandKeys
        <4>2. Goal' = [[ufm EXCEPT !.cell[key] = c] EXCEPT !.bits = ufm.bits \cup {key}]
          BY <2>1, <3>3, <3>5, CommandGoal
        <4>3. Goal'.bits = ufm.bits \cup {key} /\ \A k \in Keys : Goal'.cell[k] = IF k = key THEN c ELSE ufm.cell[k]
          <5> HIDE DEF key, c
          <5> QED
            BY <2>1, <4>2 DEF Ufms, Payload
        <4> QED
          BY <3>2, <3>4, <4>1, <4>3 DEF Sound
      <3>6. CASE cmd = "LOCK_UFM"
        <4>1. Goal' = [ufm EXCEPT !.bits = ufm.bits \cup {"LOCK"}]
          BY <2>1, <3>3, <3>6, CommandGoal
        <4>2. Goal'.bits = ufm.bits \cup {"LOCK"} /\ Goal'.cell = ufm.cell /\ "LOCK" \notin Keys
          BY <2>1, <4>1 DEF Ufms, Keys
        <4> QED
          BY <3>2, <3>4, <4>2 DEF Sound
      <3>7. CASE cmd = "ERASE_CURRENT"
        <4>1. Goal' = ErasedUfm /\ ChangesOf(cmd) = <<EraseUfm>>
          BY <2>1, <3>3, <3>7, CommandGoal, CommandPlan
        <4>2. Head(Rest') = EraseUfm
          BY <3>2, <4>1
        <4> QED
          BY <4>1, <4>2, SoundErased, ChangeOps
      <3>8. CASE cmd \in DOMAIN Read
        <4>1. Goal' = ufm
          BY <2>1, <3>3, <3>8, CommandGoal
        <4> QED
          BY <3>2, <3>4, <4>1
      <3> QED
        BY <2>1, <3>5, <3>6, <3>7, <3>8 DEF Commands
    <2> QED
      BY <2>2, <2>3
  <1>2. CASE FlashErase
    <2> DEFINE c == Head(sm.todo)
    <2>1. /\ sm.todo \in Plans /\ sm.todo # <<>> /\ ufm \in Ufms /\ Kept = ufm /\ Rest = sm.todo
          /\ Goal = After(ufm, sm.todo)
      BY <1>2 DEF FlashErase, Types, Kept, Rest, Goal, After
    <2>2. CASE /\ ufm' = ErasedUfm
               /\ sm' = [sm EXCEPT !.pc = IF c.op = "ERASE" THEN "FLASH" ELSE "PROGRAM",
                                   !.page = Changed(ufm, c),
                                   !.todo = IF c.op = "ERASE" THEN Tail(@) ELSE @]
               /\ UNCHANGED <<status, budget>>
      <3>1. Kept' = Changed(ufm, c) /\ Rest' = Tail(sm.todo) /\ Goal' = Goal
        BY <1>2, <2>2, EraseStep
      <3>2. SUFFICES ASSUME Sound(Kept), Sound(Goal),
                            Head(Rest).op = "CELL" => Kept.bits \subseteq Goal.bits
                     PROVE  Sound(Kept') /\ (Rest' # <<>> => Head(Rest').op # "CELL")
        BY <2>1, <2>2, <3>1 DEF WholeInv, Sound
      <3>3. CASE c.op = "CELL"
        <4>1. PICK x \in Contents, b \in AllBits :
                c = Set(x.key, x.val) /\ Tail(sm.todo) = <<SetBits(b)>>
          BY <2>1, <3>3, PlanHead
        <4>2. Goal = After(Kept', <<SetBits(b)>>)
          BY <2>1, <3>1, <4>1, PlanSteps
        <4>3. Kept' \in Ufms /\ Kept'.bits = ufm.bits
          BY <2>1, <3>1, <4>1, PlanSteps, Changes DEF Ufms
        <4>4. <<SetBits(b)>> # <<>> /\ Len(<<SetBits(b)>>) = 1 /\ <<SetBits(b)>>[1] = SetBits(b)
              /\ Head(<<SetBits(b)>>) = SetBits(b)
          OBVIOUS
        <4>5. Goal = [Kept' EXCEPT !.bits = b]
          BY <4>2, <4>3, <4>4, Changes DEF After
        <4>6. Goal.cell = Kept'.cell
          BY <4>3, <4>5 DEF Ufms
        <4>7. Head(Rest').op # "CELL"
          BY <3>1, <4>1, <4>4, ChangeOps
        <4> QED
          BY <2>1, <3>2, <3>3, <4>3, <4>6, <4>7 DEF Sound
      <3>4. CASE c.op # "CELL"
        <4>1. Tail(sm.todo) = <<>>
          BY <2>1, <3>4, PlanHead
        <4>2. Goal = Kept'
          BY <2>1, <3>1, <4>1, PlanSteps DEF After
        <4> QED
          BY <3>1, <3>2, <4>1, <4>2
      <3> QED
        BY <3>3, <3>4
    <2>3. CASE /\ budget' = [budget EXCEPT !.erase = @ - 1, !.failed = @ \cup {"ERASE"}]
               /\ sm' = [sm EXCEPT !.todo = IF c.op = "CELL" THEN <<EraseUfm>> ELSE Tail(@)]
               /\ UNCHANGED ufm
      <3>1. Kept' = ufm /\ Rest' = (IF c.op = "CELL" THEN <<EraseUfm>> ELSE Tail(sm.todo))
        BY <1>2, <2>3 DEF FlashErase, Types, Kept, Rest
      <3>2. Goal' = After(ufm, Rest')
        BY <3>1 DEF Goal, After
      <3>3. budget.failed \subseteq budget'.failed
        BY <2>3 DEF Types, Budgets
      <3>4. CASE c.op = "CELL"
        <4>1. <<EraseUfm>> # <<>> /\ Len(<<EraseUfm>>) = 1 /\ <<EraseUfm>>[1] = EraseUfm
              /\ Head(<<EraseUfm>>) = EraseUfm
          OBVIOUS
        <4>2. Goal' = ErasedUfm
          BY <2>1, <3>1, <3>2, <3>4, <4>1, Changes DEF After
        <4> QED
          BY <2>1, <3>1, <3>3, <3>4, <4>1, <4>2, SoundErased, ChangeOps DEF WholeInv, Sound
      <3>5. CASE c.op # "CELL"
        <4>1. Rest' = <<>>
          BY <2>1, <3>1, <3>5, PlanHead
        <4>2. Goal' = ufm
          BY <3>2, <4>1 DEF After
        <4> QED
          BY <2>1, <3>1, <3>3, <4>1, <4>2 DEF WholeInv, Sound
      <3> QED
        BY <3>4, <3>5
    <2> QED
      BY <1>2, <2>2, <2>3 DEF FlashErase
  <1>3. CASE FlashProgram
    <2>1. CASE ufm' = sm.page /\ UNCHANGED budget
      BY <1>3, <2>1, ProgramStep, WholeSame
    <2>2. CASE budget' = [budget EXCEPT !.program = @ - 1, !.failed = @ \cup {"PROGRAM"}]
      BY <2>2 DEF Types, Budgets, WholeInv
    <2> QED
      BY <1>3, <2>1, <2>2 DEF FlashProgram
  <1>4. CASE UpdateDone
    <2>1. /\ sm.pc = "IDLE" /\ sm'.pc = "FLASH" /\ sm'.todo = <<SetSvn(ufm.svn + 1)>>
          /\ ufm' = ufm /\ budget' = budget /\ ufm \in Ufms
      BY <1>4 DEF UpdateDone, Types
    <2>2. Kept = ufm /\ Kept' = ufm /\ Rest' = <<SetSvn(ufm.svn + 1)>>
      BY <2>1 DEF Kept, Rest
    <2>3. Rest' # <<>> /\ Len(Rest') = 1 /\ Rest'[1] = SetSvn(ufm.svn + 1) /\ Head(Rest') = SetSvn(ufm.svn + 1)
      BY <2>2
    <2>4. Goal' = [ufm EXCEPT !.svn = ufm.svn + 1]
      BY <2>1, <2>2, <2>3, Changes DEF Goal, After
    <2>5. Goal'.bits = ufm.bits /\ Goal'.cell = ufm.cell
      BY <2>1, <2>4 DEF Ufms
    <2> QED
      BY <2>1, <2>2, <2>3, <2>5, ChangeOps DEF WholeInv, Sound
  <1>5. CASE ~ProcessProvisionCommand /\ ~FlashErase /\ ~FlashProgram /\ ~UpdateDone
    BY <1>5, PlanKept, WholeSame
  <1> QED
    BY <1>1, <1>2, <1>3, <1>4, <1>5

LEMMA WholeUfm ==
    ASSUME SectorInv, WholeInv, "PROGRAM" \notin budget.failed
    PROVE  Sound(ufm)
  BY SoundErased DEF WholeInv, SectorInv, Kept

LEMMA WholePower ==
    ASSUME Types, SectorInv, WholeInv, PowerCut
    PROVE  WholeInv'
  <1>1. Kept' = ufm /\ Rest' = <<>> /\ budget'.failed = budget.failed
    BY PowerSector DEF PowerCut, Types, Budgets
  <1>2. Goal' = ufm
    BY <1>1 DEF Goal, After
  <1> QED
    BY <1>1, <1>2, WholeUfm DEF WholeInv, Sound

-----------------------------------------------------------------------------
(* The acknowledgement.                                                     *)

\* Steps that move neither the command nor what it comes to.
LEMMA AnswerKept ==
    ASSUME AnswerInv, UNCHANGED <<host, rd>>, Goal'.bits = Goal.bits, Goal'.cell = Goal.cell,
           "ERROR" \in status => "ERROR" \in status', budget'.failed = budget.failed,
           reg'.UfmCmdTriggerValue = reg.UfmCmdTriggerValue, Early' <=> Early
    PROVE  AnswerInv'
  BY DEF AnswerInv, Promised, Locked, Executed, Flushed, Command

\* A failing flash operation is not answered for.
LEMMA AnswerFailed ==
    ASSUME AnswerInv, UNCHANGED <<host, rd>>, budget'.failed # {},
           reg'.UfmCmdTriggerValue = reg.UfmCmdTriggerValue, Early' <=> Early
    PROVE  AnswerInv'
  BY DEF AnswerInv, Executed, Flushed, Command

LEMMA AnswerHost ==
    ASSUME Types, TriggerInv, StreamInv, AnswerInv, HostStep
    PROVE  AnswerInv'
  <1>1. CASE HostCommand
    <2>1. host'.pc = "FLUSH"
      BY <1>1 DEF HostCommand, Types
    <2> QED
      BY <2>1 DEF AnswerInv, Executed, Flushed
  <1>2. CASE HostTrigger
    <2>1. /\ rd' = rd /\ Command' = Command
          /\ \/ host.pc = "FLUSH" /\ host'.pc = "FLUSHING"
             \/ host.pc = "EXECUTE" /\ host'.pc = "WAIT"
      BY <1>2 DEF HostTrigger, Types, Command
    <2>2. PICK v \in Triggers : Store("UfmCmdTriggerValue", v)
      BY <1>2 DEF HostTrigger, Triggers
    <2>3. reg'.UfmCmdTriggerValue # Cleared
      BY <2>2 DEF Store, Types, Registers, Triggers, Cleared
    <2> QED
      BY <2>1, <2>3 DEF AnswerInv, Executed, Flushed
  <1>3. CASE HostFlushed
    <2>1. /\ rd' = rd /\ Command' = Command /\ host.pc = "FLUSHING"
          /\ host'.pc = (IF Command \in DOMAIN Provision THEN "DATA" ELSE "EXECUTE")
      BY <1>3 DEF HostFlushed, Types, Command
    <2>2. Flushed
      BY <1>3, <2>1 DEF HostFlushed, Acknowledged, TriggerInv, Flushed, Early
    <2> QED
      BY <2>1, <2>2 DEF AnswerInv, Executed, Flushed
  <1>4. CASE HostData
    <2>1. /\ rd' = rd /\ Command' = Command /\ host.pc = "DATA" /\ host'.pc \in {"DATA", "EXECUTE"}
      BY <1>4 DEF HostData, Types, Command
    <2>2. Command \notin DOMAIN Read
      BY <2>1, CommandKeys DEF StreamInv
    <2> QED
      BY <2>1, <2>2 DEF AnswerInv, Executed, Flushed
  <1>5. CASE HostDone
    <2>1. host'.pc = "COMMAND"
      BY <1>5 DEF HostDone, Types
    <2> QED
      BY <2>1 DEF AnswerInv, Executed, Flushed
  <1>6. CASE HostRetry
    <2>1. /\ rd' = rd /\ host' = host /\ reg.UfmCmdTriggerValue # Cleared
          /\ reg'.UfmCmdTriggerValue = reg.UfmCmdTriggerValue
      BY <1>6 DEF HostRetry, Store, Types, Registers
    <2> QED
      BY <2>1 DEF AnswerInv, Executed, Flushed, Command
  <1> QED
    BY <1>1, <1>2, <1>3, <1>4, <1>5, <1>6 DEF HostStep

LEMMA AnswerAside ==
    ASSUME Types, AnswerInv, (\E r \in Requests : HostRequest(r)) \/ NotifyStep
    PROVE  AnswerInv'
  <1>1. sm' = sm /\ ufm' = ufm /\ status' = status /\ rd' = rd /\ budget'.failed = budget.failed
    BY AsideSame DEF Aside
  <1>2. host' = host /\ reg'.UfmCmdTriggerValue = reg.UfmCmdTriggerValue
    BY DEF HostRequest, Store, NotifyStep, NotifyTake, NotifyDrain, NotifyEvent, Types, Registers, Requests
  <1>3. Goal' = Goal /\ (Early' <=> Early)
    BY <1>1 DEF Goal, After, Kept, Rest, Early, Handling, Serving
  <1> QED
    BY <1>1, <1>2, <1>3, AnswerKept

LEMMA AnswerSm ==
    ASSUME Types, SectorInv, TriggerInv, AnswerInv, SmStep
    PROVE  AnswerInv'
  <1> USE DEF Early, Handling, Serving
  <1>1. CASE HandleProvision
    <2>1. /\ UNCHANGED <<reg, rd, host>> /\ queue # <<>> /\ Head(queue).ev = "PROVISION_CMD"
      BY <1>1 DEF HandleProvision
    <2>2. reg.UfmCmdTriggerValue # Cleared
      BY <2>1, TakeEvent DEF TriggerInv, Types
    <2> QED
      BY <2>1, <2>2 DEF AnswerInv, Executed, Flushed, Command
  <1>2. CASE ClearTrigger
    <2>1. /\ UNCHANGED <<rd, host>> /\ sm.pc = "CLEAR" /\ sm'.pc = "BUSY" /\ sm'.state = sm.state
      BY <1>2 DEF ClearTrigger, Types
    <2>2. Serving /\ Early /\ Early'
      BY <2>1 DEF SectorInv
    <2> QED
      BY <2>1, <2>2 DEF AnswerInv, Executed, Flushed, Command
  <1>3. CASE SetBusy
    <2>1. /\ UNCHANGED <<reg, rd, host>> /\ sm.pc = "BUSY" /\ sm'.pc \in Triggers /\ sm'.state = sm.state
      BY <1>3 DEF SetBusy, Types
    <2>2. Serving /\ Early /\ Early'
      BY <2>1 DEF SectorInv, Triggers
    <2> QED
      BY <2>1, <2>2 DEF AnswerInv, Executed, Flushed, Command
  <1>4. CASE Flush
    <2>1. /\ UNCHANGED <<host, reg>> /\ sm.pc \in {"FLUSH_WRITE", "FLUSH_READ"}
          /\ sm.pc = "FLUSH_READ" => rd' = <<>>
      BY <1>4 DEF Flush
    <2>2. sm.pc = Wanted /\ Asking
      BY <2>1 DEF SectorInv, TriggerInv, Triggers
    <2>3. host.pc = "FLUSHING" /\ (Command \in DOMAIN Read => sm.pc = "FLUSH_READ")
      BY <2>1, <2>2 DEF Asking, Wanted
    <2> QED
      BY <2>1, <2>3 DEF AnswerInv, Executed, Command
  <1>5. CASE ProcessProvisionCommand
    <2> DEFINE cmd == reg.UfmCommand
    <2>1. /\ UNCHANGED <<host, reg, ufm>> /\ sm.pc = "EXECUTE" /\ cmd \in Commands /\ ufm \in Ufms
      BY <1>5 DEF ProcessProvisionCommand, Types
    <2>2. host.pc = "WAIT" /\ cmd = Command /\ Early
      BY <2>1 DEF SectorInv, TriggerInv, Triggers, Wanted
    <2>3. Command \in DOMAIN Read => rd = <<>>
      BY <2>2 DEF AnswerInv, Executed
    <2>4. sm'.pc \in {"FINISH", "FLASH"} /\ ~Early'
      BY <1>5, ZenonT(40) DEF ProcessProvisionCommand, Types, Triggers
    <2>5. Executed'
      <3>1. reg.UfmCmdTriggerValue = Cleared
        BY <2>1, <2>2 DEF TriggerInv
      <3> QED
        BY <2>1, <2>2, <2>4, <3>1 DEF Executed
    <2>6. CASE Dropped(cmd) \/ Refused(cmd)
      <3>1. "ERROR" \in status'
        BY <1>5, <2>6 DEF ProcessProvisionCommand
      <3> QED
        BY <2>1, <2>2, <2>5, <3>1 DEF AnswerInv, Flushed
    <2>7. CASE ~(Dropped(cmd) \/ Refused(cmd))
      <3>1. sm'.pc = "FLASH" /\ sm'.todo = ChangesOf(cmd)
        BY <1>5, <2>7 DEF ProcessProvisionCommand, Types
      <3>2. Goal' = After(ufm, ChangesOf(cmd))
        BY <2>1, <3>1 DEF Goal, After, Kept, Rest
      <3>3. ASSUME cmd \in DOMAIN Provision PROVE Provision[cmd] \in Goal'.bits
        <4> DEFINE key == Provision[cmd]
                   c   == SubSeq(fifo.data, 1, Size[key])
        <4>1. Goal' = [[ufm EXCEPT !.cell[key] = c] EXCEPT !.bits = ufm.bits \cup {key}]
          BY <2>1, <3>2, <3>3, CommandGoal
        <4> HIDE DEF key, c
        <4>2. Goal'.bits = ufm.bits \cup {key}
          BY <2>1, <4>1 DEF Ufms
        <4> QED
          BY <4>2 DEF key
      <3>4. ASSUME cmd = "LOCK_UFM" PROVE "LOCK" \in Goal'.bits
        <4>1. Goal' = [ufm EXCEPT !.bits = ufm.bits \cup {"LOCK"}]
          BY <2>1, <3>2, <3>4, CommandGoal
        <4> QED
          BY <2>1, <4>1 DEF Ufms
      <3>5. ASSUME cmd = "ERASE_CURRENT" PROVE Goal'.bits = {}
        BY <2>1, <3>2, <3>5, CommandGoal, ErasedType
      <3>6. ASSUME cmd \in DOMAIN Read PROVE rd' = Goal'.cell[Read[cmd]]
        <4>1. Goal' = ufm /\ rd = <<>> /\ ufm.cell[Read[cmd]] \in Seq(Bytes)
          BY <2>1, <2>2, <2>3, <3>2, <3>6, CommandGoal, CommandKeys, UfmParts
        <4>2. rd' = rd \o ufm.cell[Read[cmd]]
          BY <1>5, <3>6 DEF ProcessProvisionCommand
        <4> QED
          BY <4>1, <4>2
      <3>7. Promised(Command)'
        BY <2>1, <2>2, <3>3, <3>4, <3>5, <3>6 DEF Promised, Locked, Command
      <3> QED
        BY <2>1, <2>2, <2>5, <3>7 DEF AnswerInv, Flushed
    <2> QED
      BY <2>6, <2>7
  <1>6. CASE FlashErase
    <2>1. /\ UNCHANGED <<host, reg, rd>> /\ sm.pc = "FLASH" /\ sm'.pc \in {"FLASH", "PROGRAM"}
          /\ sm'.state = sm.state
      BY <1>6 DEF FlashErase, Types
    <2>2. ~Early /\ ~Early'
      BY <2>1 DEF Triggers
    <2>3. CASE /\ ufm' = ErasedUfm
               /\ sm' = [sm EXCEPT !.pc = IF Head(sm.todo).op = "ERASE" THEN "FLASH" ELSE "PROGRAM",
                                   !.page = Changed(ufm, Head(sm.todo)),
                                   !.todo = IF Head(sm.todo).op = "ERASE" THEN Tail(@) ELSE @]
               /\ UNCHANGED <<status, budget>>
      <3>1. Goal' = Goal
        BY <1>6, <2>3, EraseStep
      <3> QED
        BY <2>1, <2>2, <2>3, <3>1, AnswerKept
    <2>4. CASE budget' = [budget EXCEPT !.erase = @ - 1, !.failed = @ \cup {"ERASE"}]
      <3>1. "ERASE" \in budget'.failed
        BY <2>4 DEF Types, Budgets
      <3> QED
        BY <2>1, <2>2, <3>1, AnswerFailed
    <2> QED
      BY <1>6, <2>3, <2>4 DEF FlashErase
  <1>7. CASE FlashProgram
    <2>1. /\ UNCHANGED <<host, reg, rd, status>> /\ sm.pc = "PROGRAM" /\ sm'.pc = "FLASH"
      BY <1>7 DEF FlashProgram, Types
    <2>2. ~Early /\ ~Early'
      BY <2>1 DEF Triggers
    <2>3. CASE ufm' = sm.page /\ UNCHANGED budget
      <3>1. Goal' = Goal
        BY <1>7, <2>3, ProgramStep
      <3> QED
        BY <2>1, <2>2, <2>3, <3>1, AnswerKept
    <2>4. CASE budget' = [budget EXCEPT !.program = @ - 1, !.failed = @ \cup {"PROGRAM"}]
      <3>1. "PROGRAM" \in budget'.failed
        BY <2>4 DEF Types, Budgets
      <3> QED
        BY <2>1, <2>2, <3>1, AnswerFailed
    <2> QED
      BY <1>7, <2>3, <2>4 DEF FlashProgram
  <1>8. CASE UpdateDone
    <2>1. /\ UNCHANGED <<host, reg, rd, status, budget, ufm>> /\ ufm \in Ufms
          /\ sm.pc = "IDLE" /\ sm'.pc = "FLASH" /\ sm'.state = sm.state /\ ~Serving
          /\ sm'.todo = <<SetSvn(ufm.svn + 1)>>
      BY <1>8 DEF UpdateDone, Types
    <2>2. Goal = ufm
      BY <2>1 DEF SectorInv, Goal, After, Kept, Rest
    <2>3. Rest' # <<>> /\ Len(Rest') = 1 /\ Rest'[1] = SetSvn(ufm.svn + 1) /\ Kept' = ufm
      BY <2>1 DEF Rest, Kept
    <2>4. Goal' = [ufm EXCEPT !.svn = ufm.svn + 1]
      BY <2>1, <2>3, Changes DEF Goal, After
    <2>5. Goal'.bits = Goal.bits /\ Goal'.cell = Goal.cell
      BY <2>1, <2>2, <2>4 DEF Ufms
    <2> QED
      BY <2>1, <2>5, AnswerKept
  <1>9. CASE FlashEnd \/ ClearBusy \/ SetDone \/ TakeRequest \/ Discard
    <2>1. Goal' = Goal /\ budget' = budget
      BY <1>9, PlanKept DEF SmStep, FlashEnd, ClearBusy, SetDone, TakeRequest, Discard,
                           ProcessProvisionCommand, FlashErase, FlashProgram, UpdateDone
    <2>2. /\ UNCHANGED <<host, reg, rd>> /\ ("ERROR" \in status => "ERROR" \in status')
      BY <1>9 DEF FlashEnd, ClearBusy, SetDone, TakeRequest, Discard
    <2>3. Early' <=> Early
      BY <1>9 DEF FlashEnd, ClearBusy, SetDone, TakeRequest, Discard, Types, Triggers
    <2> QED
      BY <2>1, <2>2, <2>3, AnswerKept
  <1> QED
    BY <1>1, <1>2, <1>3, <1>4, <1>5, <1>6, <1>7, <1>8, <1>9 DEF SmStep

LEMMA AnswerPower ==
    ASSUME Types, PowerCut
    PROVE  AnswerInv'
  <1>1. host'.pc = "COMMAND"
    BY DEF PowerCut, Types
  <1> QED
    BY <1>1 DEF AnswerInv, Executed, Flushed

-----------------------------------------------------------------------------
(* The invariant.                                                           *)

MailboxInv == Types /\ SectorInv /\ WholeInv /\ TriggerInv /\ StreamInv /\ AnswerInv

LEMMA MailboxInit == Init => MailboxInv
  <1> SUFFICES ASSUME Init PROVE MailboxInv
    OBVIOUS
  <1>1. PICK s \in Scenarios :
          LET ram == PowerOnRam(s.ufm)
          IN  /\ reg = ram.reg /\ status = ram.status /\ sem = ram.sem /\ hw = ram.hw /\ rd = ram.rd
              /\ fifo = ram.fifo /\ note = ram.note /\ queue = ram.queue /\ sm = ram.sm
              /\ ufm = s.ufm
              /\ host = [script |-> s.script, k |-> 1, pc |-> "COMMAND", sent |-> 0,
                         channel |-> s.channel, res |-> Nobody]
              /\ budget = s.budget
    BY DEF Init
  <1>2. /\ s \in [ufm : Ufms, script : Seq(Commands), channel : {"I2C", "I3C"}, budget : Budgets]
        /\ s.budget.failed = {} /\ Sound(s.ufm)
    BY ScenarioAssumption DEF Sound
  <1>3. /\ reg \in [Registers -> RegValues]
        /\ reg.UfmCommand \in Commands /\ reg.UfmCmdTriggerValue = Cleared
        /\ status = {"DONE"} /\ sem = {} /\ hw = <<>> /\ rd = <<>>
        /\ fifo \in [data : [1..FifoSize -> Bytes], n : 0..FifoSize]
        /\ note = [at |-> Nobody, val |-> Cleared] /\ queue = <<>>
        /\ sm = IdleSm(ufm)
        /\ sm \in [pc : SmPcs, state : {"UNPROVISIONED", "RUNTIME", "UPDATE"},
                   trigger : Triggers, todo : Plans, page : Ufms]
    BY <1>1, <1>2, PowerOnTypes
  <1>4. sm.pc = "IDLE" /\ sm.todo = <<>> /\ sm.state # "UPDATE"
    BY <1>3 DEF IdleSm
  <1>5. Types
    <2>1. host \in [script : Seq(Commands), k : Nat \ {0}, pc : HostPcs, sent : Nat,
                    channel : {"I2C", "I3C"}, res : {Nobody, "DONE", "ERROR"}]
      BY <1>1, <1>2 DEF HostPcs
    <2>2. ufm \in Ufms /\ budget \in Budgets /\ Cleared \in RegValues
      BY <1>1, <1>2 DEF RegValues
    <2>3. <<>> \in Seq(Bytes) /\ <<>> \in Seq(QEvents) /\ {} \subseteq Notified
      OBVIOUS
    <2> QED
      BY <1>3, <2>1, <2>2, <2>3 DEF Types
  <1>6. Kept = ufm /\ Rest = <<>> /\ Goal = ufm /\ ~Handling
    BY <1>4 DEF Kept, Rest, Goal, After, Handling
  <1>7. SectorInv
    BY <1>4, <1>6 DEF SectorInv, Serving
  <1>8. WholeInv
    BY <1>1, <1>2, <1>6 DEF WholeInv
  <1>9. host.pc = "COMMAND"
    BY <1>1
  <1>10. TriggerInv
    BY <1>3, <1>6, <1>9 DEF TriggerInv, Free, Trigger, Nobody
  <1>11. StreamInv
    BY <1>3, <1>9, SizeAssumption DEF StreamInv, Flushed, Sending
  <1>12. AnswerInv
    BY <1>9 DEF AnswerInv, Flushed, Executed
  <1> QED
    BY <1>5, <1>7, <1>8, <1>10, <1>11, <1>12 DEF MailboxInv

LEMMA MailboxSame ==
    ASSUME MailboxInv, UNCHANGED vars
    PROVE  MailboxInv'
  <1>1. Types'
    BY DEF MailboxInv, vars, Types
  <1>2. SectorInv'
    BY SectorSame DEF MailboxInv, vars
  <1>3. Kept' = Kept /\ Rest' = Rest /\ Command' = Command /\ (Handling' <=> Handling)
    BY DEF vars, Kept, Rest, Command, Handling, Serving
  <1>4. WholeInv'
    BY <1>3, WholeSame DEF MailboxInv, vars
  <1>5. TriggerInv'
    BY <1>3 DEF MailboxInv, vars, TriggerInv, Asking, Wanted, Running, Free, Only
  <1>6. Early' <=> Early
    BY <1>3 DEF Early, vars
  <1>7. StreamInv'
    BY <1>6, StreamKept DEF MailboxInv, vars
  <1>8. Goal' = Goal
    BY <1>3 DEF Goal, After
  <1>9. AnswerInv'
    BY <1>6, <1>8, AnswerKept DEF MailboxInv, vars
  <1> QED
    BY <1>1, <1>2, <1>4, <1>5, <1>7, <1>9 DEF MailboxInv

LEMMA MailboxStep == MailboxInv /\ [Next]_vars => MailboxInv'
  <1> SUFFICES ASSUME MailboxInv, [Next]_vars PROVE MailboxInv'
    OBVIOUS
  <1> USE DEF MailboxInv
  <1>1. CASE HostStep
    <2>1. SectorInv' /\ WholeInv'
      <3>1. sm' = sm /\ ufm' = ufm /\ budget'.failed = budget.failed
        BY <1>1, AsideSame DEF Aside
      <3>2. Kept' = Kept /\ Rest' = Rest
        BY <3>1 DEF Kept, Rest
      <3> QED
        BY <3>1, <3>2, SectorSame, WholeSame
    <2> QED
      BY <1>1, <2>1, HostTypes, TriggerHost, StreamHost, AnswerHost
  <1>2. ASSUME NEW r \in Requests, HostRequest(r) PROVE MailboxInv'
    <2>1. SectorInv' /\ WholeInv'
      <3>1. sm' = sm /\ ufm' = ufm /\ budget'.failed = budget.failed
        BY <1>2, AsideSame DEF Aside
      <3>2. Kept' = Kept /\ Rest' = Rest
        BY <3>1 DEF Kept, Rest
      <3> QED
        BY <3>1, <3>2, SectorSame, WholeSame
    <2> QED
      BY <1>2, <2>1, RequestTypes, TriggerRequest, StreamRequest, AnswerAside
  <1>3. CASE NotifyStep
    <2>1. SectorInv' /\ WholeInv'
      <3>1. sm' = sm /\ ufm' = ufm /\ budget'.failed = budget.failed
        BY <1>3, AsideSame DEF Aside
      <3>2. Kept' = Kept /\ Rest' = Rest
        BY <3>1 DEF Kept, Rest
      <3> QED
        BY <3>1, <3>2, SectorSame, WholeSame
    <2> QED
      BY <1>3, <2>1, NotifyTypes, TriggerNotify, StreamNotify, AnswerAside
  <1>4. CASE SmStep
    BY <1>4, SmTypes, SectorSm, WholeSm, TriggerSm, StreamSm, AnswerSm
  <1>5. CASE PowerCut
    BY <1>5, PowerTypes, PowerSector, WholePower, TriggerPower, StreamPower, AnswerPower
  <1>6. CASE UNCHANGED vars
    BY <1>6, MailboxSame
  <1> QED
    BY <1>1, <1>2, <1>3, <1>4, <1>5, <1>6, NextParts DEF Aside

\* The last command's answer, at the moment its host sees it.
LEMMA AnswerSeen ==
    ASSUME MailboxInv, [Next]_vars, host.pc = "WAIT", host'.k = host.k + 1, host'.res = "DONE",
           budget.failed = {}
    PROVE  Achieved(host.script[host.k])
  <1>1. host.k \in Nat
    BY DEF MailboxInv, Types
  <1>2. HostDone
    <2>1. host'.k # host.k /\ host' # host
      BY <1>1
    <2>2. CASE HostCommand \/ HostTrigger \/ HostFlushed \/ HostData \/ HostRetry \/ PowerCut
      BY <2>1, <2>2 DEF MailboxInv, Types, HostCommand, HostTrigger, HostFlushed, HostData, HostRetry, PowerCut
    <2>3. CASE (\E r \in Requests : HostRequest(r)) \/ NotifyStep \/ UNCHANGED vars
      BY <2>1, <2>3 DEF HostRequest, NotifyStep, NotifyTake, NotifyDrain, NotifyEvent, vars
    <2>4. CASE SmStep
      BY <2>1, <2>4 DEF SmStep, HandleProvision, ClearTrigger, SetBusy, Flush, ProcessProvisionCommand,
        FlashErase, FlashProgram, FlashEnd, ClearBusy, SetDone, TakeRequest, Discard, UpdateDone
    <2> QED
      BY <2>2, <2>3, <2>4, NextParts DEF Aside, HostStep
  <1>3. reg.UfmCmdTriggerValue = Cleared /\ "DONE" \in status /\ "ERROR" \notin status
    BY <1>2 DEF HostDone, Acknowledged, MailboxInv, Types
  <1>4. ~Handling
    BY <1>3 DEF MailboxInv, TriggerInv
  <1>5. Executed
    BY <1>3, <1>4 DEF Executed, Early
  <1>6. Promised(Command) /\ Command \in Commands
    BY <1>3, <1>5, CommandType DEF MailboxInv, AnswerInv, TriggerInv
  <1>7. Goal.bits = Kept.bits /\ Goal.cell = Kept.cell
    <2>1. CASE Rest = <<>>
      BY <2>1 DEF Goal, After
    <2>2. CASE Rest # <<>>
      <3>1. sm.todo \in Plans /\ sm.todo # <<>> /\ ufm \in Ufms
        BY <2>2, PlanSteps DEF MailboxInv, Types, Rest, SectorInv
      <3>2. Head(sm.todo).op = "SVN"
        BY <1>4, <3>1 DEF MailboxInv, SectorInv, Handling
      <3>3. PICK n \in Nat : Head(sm.todo) = SetSvn(n) /\ Tail(sm.todo) = <<>>
        BY <3>1, <3>2, PlanHead, ChangeOps
      <3>4. sm.pc # "PROGRAM" /\ Kept = ufm /\ Rest = sm.todo
        BY <2>2, <3>3 DEF Rest, Kept
      <3>5. Goal = After(Changed(ufm, SetSvn(n)), <<>>)
        BY <3>1, <3>3, <3>4, PlanSteps DEF Goal
      <3>6. Goal = [ufm EXCEPT !.svn = n]
        BY <3>1, <3>5, Changes DEF After
      <3> QED
        BY <3>1, <3>4, <3>6 DEF Ufms
    <2> QED
      BY <2>1, <2>2
  <1>8. /\ Command \in DOMAIN Provision => Provision[Command] \in Kept.bits
        /\ Command = "LOCK_UFM" => Locked(Kept)
        /\ Command = "ERASE_CURRENT" => Kept.bits = {}
        /\ Command \in DOMAIN Read => rd = Kept.cell[Read[Command]]
    BY <1>6, <1>7 DEF Promised, Locked
  <1>9. \/ Command \in DOMAIN Provision /\ Command \notin DOMAIN Read /\ Command # "LOCK_UFM" /\ Command # "ERASE_CURRENT"
        \/ Command \notin DOMAIN Provision /\ Command \in DOMAIN Read /\ Command # "LOCK_UFM" /\ Command # "ERASE_CURRENT"
        \/ Command \notin DOMAIN Provision /\ Command \notin DOMAIN Read /\ Command = "LOCK_UFM" /\ Command # "ERASE_CURRENT"
        \/ Command \notin DOMAIN Provision /\ Command \notin DOMAIN Read /\ Command # "LOCK_UFM" /\ Command = "ERASE_CURRENT"
    BY <1>6, CommandKeys DEF Commands
  <1>10. Achieved(Command)
    BY <1>8, <1>9, Zenon DEF Achieved
  <1> QED
    BY <1>10 DEF Command

-----------------------------------------------------------------------------
(* Theorems.                                                                *)

\* The FIFOs, the semaphores and the sector keep to their bounds, and no
\* command that is in the flash has been acknowledged.
THEOREM MailboxTypes == Spec => []MailboxTypeOK
  <1>1. MailboxInv => MailboxTypeOK
    <2> SUFFICES ASSUME MailboxInv PROVE MailboxTypeOK
      OBVIOUS
    <2>1. Notified = {Order[i] : i \in DOMAIN Order}
      <3>1. /\ DOMAIN Order = 1..5 /\ Order[1] = "UfmWriteFIFO" /\ Order[2] = "UfmCmdTriggerValue"
            /\ Order[3] = "BmcUpdateIntent" /\ Order[4] = "PchUpdateIntent" /\ Order[5] = "BmcCheckpoint"
        BY DEF Order
      <3> QED
        BY <3>1 DEF Notified, Requests
    <2>2. sm.pc \in {"FLASH", "PROGRAM"} /\ Serving => "DONE" \notin status
      BY DEF MailboxInv, TriggerInv, Handling
    <2> QED
      BY <2>1, <2>2, UfmParts DEF MailboxInv, Types, StreamInv, MailboxTypeOK
  <1> QED
    BY <1>1, MailboxInit, MailboxStep, PTL DEF Spec

\* A status bit stands for the payload its host wrote, byte for byte, after
\* any number of failing erases and power cuts.
THEOREM PayloadIsWhole == Spec => []PayloadWhole
  <1>1. MailboxInv => PayloadWhole
    BY WholeUfm DEF MailboxInv, PayloadWhole, Sound
  <1> QED
    BY <1>1, MailboxInit, MailboxStep, PTL DEF Spec

\* A locked UFM keeps its lock, its status bits and its payloads, and its SVN
\* floor never sinks, but for a power cut or a failing program within a rewrite.
THEOREM LockIsKept == Spec => LockKept
  <1>1. MailboxInv /\ [Next]_vars =>
          [Locked(Kept) /\ budget'.power = budget.power /\ budget'.program = budget.program
             => /\ Locked(Kept') /\ Kept'.bits = Kept.bits /\ Kept'.cell = Kept.cell
                /\ Kept'.svn >= Kept.svn]_vars
    BY LockStep DEF MailboxInv
  <1> QED
    BY <1>1, MailboxInit, MailboxStep, PTL DEF Spec, LockKept

\* A host that reads an acknowledgement without an error finds its own
\* command done.
THEOREM AcknowledgementIsDone == Spec => AcknowledgedIsDone
  <1>1. MailboxInv /\ [Next]_vars =>
          [host.pc = "WAIT" /\ host'.k = host.k + 1 /\ host'.res = "DONE" /\ budget.failed = {}
             => Achieved(host.script[host.k])]_vars
    BY AnswerSeen
  <1> QED
    BY <1>1, MailboxInit, MailboxStep, PTL DEF Spec, AcknowledgedIsDone
=============================================================================
