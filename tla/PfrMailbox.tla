----------------------------- MODULE PfrMailbox ------------------------------
(***************************************************************************)
(* The SMBus mailbox: hosts write registers and the write FIFO from an I2C  *)
(* interrupt or over MCTP, the notifyee thread turns the writes into events *)
(* and the state machine's thread executes the UFM commands, whose flash    *)
(* writes read, erase and program one sector.  A host that provisions is    *)
(* modelled as it must behave: one command at a time, each write FIFO       *)
(* flushed first, each trigger followed by a wait for its acknowledgement.  *)
(***************************************************************************)
EXTENDS Integers, Sequences, FiniteSets, SequencesExt, FiniteSetsExt

CONSTANTS
  Scenarios,                \* what hosts and surroundings do, see MCMailbox
  FifoSize,                 \* SWMBX_WRITE_FIFO_SIZE
  Size                      \* length of each UFM payload

Keys == {"ROOT_KEY", "PCH_OFFSET", "BMC_OFFSET"}

ASSUME SizeAssumption == /\ FifoSize \in Nat
                         /\ Size \in [Keys -> 1..FifoSize]

\* What the command writes of the UFM, and which it reads back.
Provision == [PROVISION_ROOT_KEY |-> "ROOT_KEY", PROVISION_PCH_OFFSET |-> "PCH_OFFSET",
              PROVISION_BMC_OFFSET |-> "BMC_OFFSET"]
Read      == [READ_ROOT_KEY |-> "ROOT_KEY", READ_PCH_OFFSET |-> "PCH_OFFSET",
              READ_BMC_OFFSET |-> "BMC_OFFSET"]

\* Mailbox registers whose writes the notifyee passes on, in polling order.
Order == <<"UfmWriteFIFO", "UfmCmdTriggerValue", "BmcUpdateIntent", "PchUpdateIntent",
           "BmcCheckpoint">>
EventOf == [UfmCmdTriggerValue |-> "PROVISION_CMD", BmcUpdateIntent |-> "UPDATE_REQUESTED",
            PchUpdateIntent |-> "UPDATE_REQUESTED", BmcCheckpoint |-> "WDT_CHECKPOINT"]
Requests == {"BmcUpdateIntent", "PchUpdateIntent", "BmcCheckpoint"}
Registers == Requests \cup {"UfmCommand", "UfmCmdTriggerValue"}

\* A byte of a payload, and the content of a cleared FIFO.
Byte(key, i) == <<key, i>>
Zero == <<"ZERO", 0>>
Whole(key) == [i \in 1..Size[key] |-> Byte(key, i)]
ErasedCell == <<>>

\* One sector: payloads, status bits (0 when set in flash), the SVN floor.
ErasedUfm == [cell |-> [k \in Keys |-> ErasedCell], bits |-> {}, svn |-> 0]
Provisioned(u) == Keys \subseteq u.bits
Locked(u) == "LOCK" \in u.bits

Commands == DOMAIN Provision \cup DOMAIN Read \cup {"LOCK_UFM", "ERASE_CURRENT"}
Bytes    == {Zero} \cup {Byte(k, i) : k \in Keys, i \in 1..FifoSize}
Payload  == [Keys -> Seq(Bytes)]
Ufms     == {u \in [cell : Payload, bits : SUBSET (Keys \cup {"LOCK"}), svn : Nat] :
               \A k \in Keys : Len(u.cell[k]) \in {0, Size[k]}}

\* What the hosts write to the other registers, and what may go wrong.
RequestValues == {"UPDATE", "AT_RESET", "READ_ONLY"}
Budgets == [requests : SUBSET RequestValues, erase : Nat, program : Nat, power : Nat,
            failed : SUBSET {"ERASE", "PROGRAM"}]

\* The platform starts with a UFM whose status bits stand for whole payloads.
ASSUME ScenarioAssumption ==
  \A s \in Scenarios :
    /\ s \in [ufm : Ufms, script : Seq(Commands), channel : {"I2C", "I3C"}, budget : Budgets]
    /\ s.budget.failed = {}
    /\ \A k \in Keys : k \in s.ufm.bits => s.ufm.cell[k] = Whole(k)

VARIABLES
  reg, status,       \* mailbox registers; UfmStatusValue's low bits
  sem,               \* semaphores given and not taken
  hw, rd,            \* hardware write and read FIFO
  fifo,              \* gUfmFifoData, gFifoData
  note, queue,       \* notifyee thread; the state machine's event FIFO
  sm,                \* the state machine's thread
  ufm,               \* PROVISION_UFM
  host,              \* the host that provisions
  last, got,         \* of each request: last value written, last delivered
  budget             \* what may still go wrong

vars == <<reg, status, sem, hw, rd, fifo, note, queue, sm, ufm, host, last, got, budget>>
ramVars == <<reg, status, sem, hw, rd, fifo, note, queue, sm>>

Nobody == "NONE"
Cleared == "CLEARED"      \* the trigger register at 0
IdleSm(u) ==
  [pc |-> "IDLE", state |-> IF Provisioned(u) THEN "RUNTIME" ELSE "UNPROVISIONED",
   trigger |-> "EXECUTE", todo |-> <<>>, page |-> ErasedUfm]

\* InitializeSmbusMailbox: ResetMailBox leaves the status DONE.
PowerOnRam(u) ==
  [reg |-> [r \in Registers |-> IF r = "UfmCommand" THEN "ERASE_CURRENT" ELSE Cleared],
   status |-> {"DONE"}, sem |-> {}, hw |-> <<>>, rd |-> <<>>,
   fifo |-> [data |-> [i \in 1..FifoSize |-> Zero], n |-> 0],
   note |-> [at |-> Nobody, val |-> Cleared], queue |-> <<>>, sm |-> IdleSm(u)]

Init ==
  \E s \in Scenarios :
    LET ram == PowerOnRam(s.ufm)
    IN  /\ reg = ram.reg /\ status = ram.status /\ sem = ram.sem /\ hw = ram.hw /\ rd = ram.rd
        /\ fifo = ram.fifo /\ note = ram.note /\ queue = ram.queue /\ sm = ram.sm
        /\ ufm = s.ufm
        /\ host = [script |-> s.script, k |-> 1, pc |-> "COMMAND", sent |-> 0, channel |-> s.channel,
                   res |-> Nobody]
        /\ last = [r \in Requests |-> Cleared] /\ got = [r \in Requests |-> Cleared]
        /\ budget = s.budget

----------------------------------------------------------------------------
(* Hosts.                                                                  *)

\* A host's register write: over I2C the hardware stores it and gives the
\* register's semaphore, over MCTP swmbx_mctp_i3c_doe_msg_write_handler
\* stores it and generates the event itself.
Event(r, v) ==
  IF r = "PchUpdateIntent" /\ v = Cleared THEN queue
  ELSE Append(queue, [ev |-> EventOf[r], reg |-> r, val |-> v])
Store(r, v) ==
  /\ reg' = [reg EXCEPT ![r] = v]
  /\ IF host.channel = "I2C"
     THEN sem' = sem \cup {r} /\ UNCHANGED queue
     ELSE queue' = Event(r, v) /\ UNCHANGED sem

\* The bits of PchUpdateIntent that are not the PCH's to write are cleared.
Masked(r, v) == IF r = "PchUpdateIntent" /\ v = "READ_ONLY" THEN Cleared ELSE v

Command == host.script[host.k]
Running == host.k <= Len(host.script)

HostCommand ==
  /\ Running /\ host.pc = "COMMAND"
  /\ reg' = [reg EXCEPT !.UfmCommand = Command]
  /\ host' = [host EXCEPT !.pc = "FLUSH", !.sent = 0]
  /\ UNCHANGED <<status, sem, hw, rd, fifo, note, queue, sm, ufm, last, got, budget>>

HostTrigger ==
  /\ \/ /\ host.pc = "FLUSH"
        /\ Store("UfmCmdTriggerValue", IF Command \in DOMAIN Read THEN "FLUSH_READ" ELSE "FLUSH_WRITE")
        /\ host' = [host EXCEPT !.pc = "FLUSHING"]
     \/ /\ host.pc = "EXECUTE"
        /\ Store("UfmCmdTriggerValue", "EXECUTE")
        /\ host' = [host EXCEPT !.pc = "WAIT"]
  /\ UNCHANGED <<status, hw, rd, fifo, note, sm, ufm, last, got, budget>>

\* The acknowledgement a host waits for.
Acknowledged == reg.UfmCmdTriggerValue = Cleared /\ "DONE" \in status

HostFlushed ==
  /\ host.pc = "FLUSHING" /\ Acknowledged
  /\ host' = [host EXCEPT !.pc = IF Command \in DOMAIN Provision THEN "DATA" ELSE "EXECUTE"]
  /\ UNCHANGED <<reg, status, sem, hw, rd, fifo, note, queue, sm, ufm, last, got, budget>>

\* The DOE handler stores a byte in both FIFOs, under write_fifo_mutex.
HostData ==
  /\ host.pc = "DATA" /\ Len(hw) < FifoSize
  /\ LET key == Provision[Command]
         b == Byte(key, host.sent + 1)
     IN  /\ hw' = Append(hw, b)
         /\ IF host.channel = "I2C"
            THEN sem' = sem \cup {"UfmWriteFIFO"} /\ UNCHANGED fifo
            ELSE /\ note.at # "UfmWriteFIFO"
                 /\ fifo' = [data |-> [fifo.data EXCEPT ![fifo.n + 1] = b], n |-> fifo.n + 1]
                 /\ UNCHANGED sem
         /\ host' = [host EXCEPT !.sent = @ + 1,
                                 !.pc = IF host.sent + 1 = Size[key] THEN "EXECUTE" ELSE @]
  /\ UNCHANGED <<reg, status, rd, note, queue, sm, ufm, last, got, budget>>

HostDone ==
  /\ host.pc = "WAIT" /\ Acknowledged
  /\ host' = [host EXCEPT !.k = @ + 1, !.pc = "COMMAND",
                          !.res = IF "ERROR" \in status THEN "ERROR" ELSE "DONE"]
  /\ UNCHANGED <<reg, status, sem, hw, rd, fifo, note, queue, sm, ufm, last, got, budget>>

\* A trigger the state machine discarded is written again, after a timeout
\* longer than any command takes.
TriggerTaken ==
  /\ "UfmCmdTriggerValue" \notin sem /\ note.at # "UfmCmdTriggerValue" /\ sm.pc = "IDLE"
  /\ \A i \in DOMAIN queue : queue[i].ev # "PROVISION_CMD"
HostRetry ==
  /\ host.pc \in {"FLUSHING", "WAIT"} /\ reg.UfmCmdTriggerValue # Cleared /\ TriggerTaken
  /\ Store("UfmCmdTriggerValue", reg.UfmCmdTriggerValue)
  /\ UNCHANGED <<status, hw, rd, fifo, note, sm, ufm, host, last, got, budget>>

\* Update intents and checkpoints.  The notifyee writes PchUpdateIntent back,
\* so its host leaves it the time between two writes.
HostRequest(r) ==
  /\ budget.requests # {}
  /\ r = "PchUpdateIntent" => r \notin sem /\ note.at # r
  /\ \E v \in budget.requests :
       /\ last' = [last EXCEPT ![r] = v]
       /\ budget' = [budget EXCEPT !.requests = @ \ {v}]
       /\ IF host.channel = "I2C"
          THEN Store(r, v) /\ UNCHANGED got
          ELSE Store(r, Masked(r, v)) /\ got' = [got EXCEPT ![r] = Masked(r, v)]
  /\ UNCHANGED <<status, hw, rd, fifo, note, sm, ufm, host>>

----------------------------------------------------------------------------
(* swmbx_notifyee_main.                                                    *)

FirstGiven == Order[Min({i \in DOMAIN Order : Order[i] \in sem})]

NotifyTake_All ==
  /\ note.at = Nobody /\ sem # {}
  /\ sem' = {}
  /\ note' = [at |-> FirstGiven, val |-> IF FirstGiven \in DOMAIN reg THEN reg[FirstGiven] ELSE Cleared]
  /\ UNCHANGED <<reg, status, hw, rd, fifo, queue, sm, ufm, host, last, got, budget>>

\* The semaphore is taken before the register is read, so that a write in
\* between is passed on again.
NotifyTake ==
  /\ note.at = Nobody /\ sem # {}
  /\ sem' = sem \ {FirstGiven}
  /\ note' = [at |-> FirstGiven, val |-> IF FirstGiven \in DOMAIN reg THEN reg[FirstGiven] ELSE Cleared]
  /\ UNCHANGED <<reg, status, hw, rd, fifo, queue, sm, ufm, host, last, got, budget>>

NotifyDrain ==
  /\ note.at = "UfmWriteFIFO"
  /\ IF hw # <<>> /\ fifo.n < FifoSize
     THEN /\ fifo' = [data |-> [fifo.data EXCEPT ![fifo.n + 1] = Head(hw)], n |-> fifo.n + 1]
          /\ hw' = Tail(hw)
          /\ UNCHANGED note
     ELSE note' = [note EXCEPT !.at = Nobody] /\ UNCHANGED <<fifo, hw>>
  /\ UNCHANGED <<reg, status, sem, rd, queue, sm, ufm, host, last, got, budget>>

NotifyEvent ==
  /\ note.at \in DOMAIN EventOf
  /\ LET v == Masked(note.at, note.val)
     IN  /\ reg' = IF note.at = "PchUpdateIntent" THEN [reg EXCEPT !.PchUpdateIntent = v] ELSE reg
         /\ queue' = Event(note.at, v)
         /\ got' = IF note.at \in Requests THEN [got EXCEPT ![note.at] = v] ELSE got
  /\ note' = [note EXCEPT !.at = Nobody]
  /\ UNCHANGED <<status, sem, hw, rd, fifo, sm, ufm, host, last, budget>>

----------------------------------------------------------------------------
(* The state machine's thread: in UNPROVISIONED, in RUNTIME or in an update.*)

Serving == sm.state # "UPDATE"

HandleProvision_KeepsDone ==
  /\ sm.pc = "IDLE" /\ Serving /\ queue # <<>> /\ Head(queue).ev = "PROVISION_CMD"
  /\ queue' = Tail(queue)
  /\ status' = status \ {"BUSY"}
  /\ sm' = [sm EXCEPT !.pc = "CLEAR", !.trigger = Head(queue).val]
  /\ UNCHANGED <<reg, sem, hw, rd, fifo, note, ufm, host, last, got, budget>>

\* handle_provision_event, in UNPROVISIONED and RUNTIME.
HandleProvision ==
  /\ sm.pc = "IDLE" /\ Serving /\ queue # <<>> /\ Head(queue).ev = "PROVISION_CMD"
  /\ queue' = Tail(queue)
  /\ IF Head(queue).val \in {"EXECUTE", "FLUSH_WRITE", "FLUSH_READ"}
     THEN /\ status' = {}
          /\ sm' = [sm EXCEPT !.pc = "CLEAR", !.trigger = Head(queue).val]
     ELSE UNCHANGED <<status, sm>>
  /\ UNCHANGED <<reg, sem, hw, rd, fifo, note, ufm, host, last, got, budget>>

ClearTrigger ==
  /\ sm.pc = "CLEAR"
  /\ reg' = [reg EXCEPT !.UfmCmdTriggerValue = Cleared]
  /\ sm' = [sm EXCEPT !.pc = "BUSY"]
  /\ UNCHANGED <<status, sem, hw, rd, fifo, note, queue, ufm, host, last, got, budget>>

SetBusy ==
  /\ sm.pc = "BUSY"
  /\ status' = status \cup {"BUSY"}
  /\ sm' = [sm EXCEPT !.pc = sm.trigger]
  /\ UNCHANGED <<reg, sem, hw, rd, fifo, note, queue, ufm, host, last, got, budget>>

Flush_KeepsIndex ==
  /\ sm.pc \in {"FLUSH_WRITE", "FLUSH_READ"}
  /\ IF sm.pc = "FLUSH_WRITE"
     THEN /\ fifo' = [fifo EXCEPT !.data = [i \in 1..FifoSize |-> Zero]]
          /\ hw' = <<>> /\ UNCHANGED rd
     ELSE fifo' = [fifo EXCEPT !.n = 0] /\ rd' = <<>> /\ UNCHANGED hw
  /\ sm' = [sm EXCEPT !.pc = "FINISH"]
  /\ UNCHANGED <<reg, status, sem, note, queue, ufm, host, last, got, budget>>

Flush_KeepsRead ==
  /\ sm.pc \in {"FLUSH_WRITE", "FLUSH_READ"}
  /\ fifo' = [data |-> [i \in 1..FifoSize |-> Zero], n |-> 0] /\ hw' = <<>>
  /\ sm' = [sm EXCEPT !.pc = "FINISH"]
  /\ UNCHANGED <<reg, status, sem, rd, note, queue, ufm, host, last, got, budget>>

\* Neither flush takes write_fifo_mutex, and both reset gFifoData.
Flush ==
  /\ sm.pc \in {"FLUSH_WRITE", "FLUSH_READ"}
  /\ IF sm.pc = "FLUSH_WRITE"
     THEN /\ fifo' = [data |-> [i \in 1..FifoSize |-> Zero], n |-> 0]
          /\ hw' = <<>> /\ UNCHANGED rd
     ELSE fifo' = [fifo EXCEPT !.n = 0] /\ rd' = <<>> /\ UNCHANGED hw
  /\ sm' = [sm EXCEPT !.pc = "FINISH"]
  /\ UNCHANGED <<reg, status, sem, note, queue, ufm, host, last, got, budget>>

\* Changes of the sector a command makes, each a set_provision_data_in_flash
\* or an erase.
Set(key, val)  == [op |-> "CELL", key |-> key, val |-> val]
SetBits(bits)  == [op |-> "BITS", key |-> "STATUS", val |-> bits]
SetSvn(svn)    == [op |-> "SVN", key |-> "SVN", val |-> svn]
EraseUfm       == [op |-> "ERASE", key |-> "UFM", val |-> 0]

Dropped_AboveOnly(cmd) == Locked(ufm) /\ cmd \notin DOMAIN Read \cup {"ERASE_CURRENT"}

\* A locked UFM drops what is below READ_ROOT_KEY or above READ_BMC_OFFSET.
Dropped(cmd) == Locked(ufm) /\ cmd \notin DOMAIN Read

ChangesOf(cmd) ==
  CASE cmd \in DOMAIN Provision ->
         LET key == Provision[cmd]
         IN  <<Set(key, SubSeq(fifo.data, 1, Size[key])), SetBits(ufm.bits \cup {key})>>
    [] cmd = "LOCK_UFM" -> <<SetBits(ufm.bits \cup {"LOCK"})>>
    [] cmd = "ERASE_CURRENT" -> <<EraseUfm>>
    [] OTHER -> <<>>

\* Unsupported: provisioned before, or nothing to lock.
Refused(cmd) ==
  \/ cmd \in DOMAIN Provision /\ Provision[cmd] \in ufm.bits
  \/ cmd = "LOCK_UFM" /\ ~Provisioned(ufm)

ProcessProvisionCommand ==
  /\ sm.pc = "EXECUTE"
  /\ LET cmd == reg.UfmCommand
     IN  /\ IF Dropped(cmd) \/ Refused(cmd)
            THEN status' = status \cup {"ERROR"} /\ sm' = [sm EXCEPT !.pc = "FINISH"]
            ELSE sm' = [sm EXCEPT !.pc = "FLASH", !.todo = ChangesOf(cmd)] /\ UNCHANGED status
         /\ rd' = IF cmd \in DOMAIN Read THEN rd \o ufm.cell[Read[cmd]] ELSE rd
  /\ UNCHANGED <<reg, sem, hw, fifo, note, queue, ufm, host, last, got, budget>>

Changed(u, c) ==
  CASE c.op = "CELL" -> [u EXCEPT !.cell[c.key] = c.val]
    [] c.op = "BITS" -> [u EXCEPT !.bits = c.val]
    [] c.op = "SVN"  -> [u EXCEPT !.svn = c.val]
    [] OTHER -> ErasedUfm

\* After the last change the command, or the update, has ended.
FlashEnd ==
  /\ sm.pc = "FLASH" /\ sm.todo = <<>>
  /\ sm' = [sm EXCEPT !.pc = IF Serving THEN "FINISH" ELSE "IDLE",
                      !.state = IF Serving THEN @ ELSE "RUNTIME"]
  /\ UNCHANGED <<reg, status, sem, hw, rd, fifo, note, queue, ufm, host, last, got, budget>>

\* The sector is read and erased.  An erase that fails ends a provisioning
\* with another erase of all, an ERASE_CURRENT with an error; the failed
\* update of the status bits is not noticed.
FlashErase ==
  /\ sm.pc = "FLASH" /\ sm.todo # <<>>
  /\ LET c == Head(sm.todo)
     IN  \/ /\ ufm' = ErasedUfm
            /\ sm' = [sm EXCEPT !.pc = IF c.op = "ERASE" THEN "FLASH" ELSE "PROGRAM",
                                !.page = Changed(ufm, c),
                                !.todo = IF c.op = "ERASE" THEN Tail(@) ELSE @]
            /\ UNCHANGED <<status, budget>>
         \/ /\ budget.erase > 0
            /\ budget' = [budget EXCEPT !.erase = @ - 1, !.failed = @ \cup {"ERASE"}]
            /\ status' = IF c.op \in {"CELL", "ERASE"} THEN status \cup {"ERROR"} ELSE status
            /\ sm' = [sm EXCEPT !.todo = IF c.op = "CELL" THEN <<EraseUfm>> ELSE Tail(@)]
            /\ UNCHANGED ufm
  /\ UNCHANGED <<reg, sem, hw, rd, fifo, note, queue, host, last, got>>

\* The result of the programming is ignored.
FlashProgram ==
  /\ sm.pc = "PROGRAM"
  /\ \/ ufm' = sm.page /\ UNCHANGED budget
     \/ /\ budget.program > 0
        /\ budget' = [budget EXCEPT !.program = @ - 1, !.failed = @ \cup {"PROGRAM"}]
        /\ UNCHANGED ufm
  /\ sm' = [sm EXCEPT !.pc = "FLASH", !.todo = Tail(@)]
  /\ UNCHANGED <<reg, status, sem, hw, rd, fifo, note, queue, host, last, got>>

ClearBusy ==
  /\ sm.pc = "FINISH"
  /\ status' = status \ {"BUSY"}
  /\ sm' = [sm EXCEPT !.pc = "SET_DONE"]
  /\ UNCHANGED <<reg, sem, hw, rd, fifo, note, queue, ufm, host, last, got, budget>>

SetDone_Succeeded ==
  /\ sm.pc = "SET_DONE"
  /\ status' = IF "ERROR" \in status THEN status ELSE status \cup {"DONE"}
  /\ sm' = [sm EXCEPT !.pc = "IDLE"]
  /\ UNCHANGED <<reg, sem, hw, rd, fifo, note, queue, ufm, host, last, got, budget>>

SetDone ==
  /\ sm.pc = "SET_DONE"
  /\ status' = status \cup {"DONE"}
  /\ sm' = [sm EXCEPT !.pc = "IDLE"]
  /\ UNCHANGED <<reg, sem, hw, rd, fifo, note, queue, ufm, host, last, got, budget>>

\* An update leaves RUNTIME; checkpoints are handled in place.
TakeRequest ==
  /\ sm.pc = "IDLE" /\ Serving /\ queue # <<>> /\ Head(queue).ev # "PROVISION_CMD"
  /\ queue' = Tail(queue)
  /\ sm' = [sm EXCEPT !.state = IF Head(queue).ev = "UPDATE_REQUESTED" /\ @ = "RUNTIME"
                                THEN "UPDATE" ELSE @]
  /\ UNCHANGED <<reg, status, sem, hw, rd, fifo, note, ufm, host, last, got, budget>>

\* The states of an update have no use for these events.
Discard ==
  /\ sm.pc = "IDLE" /\ ~Serving /\ queue # <<>>
  /\ queue' = Tail(queue)
  /\ UNCHANGED <<reg, status, sem, hw, rd, fifo, note, sm, ufm, host, last, got, budget>>

\* The update raises the SVN floor on its way back to RUNTIME.
UpdateDone ==
  /\ sm.pc = "IDLE" /\ ~Serving
  /\ sm' = [sm EXCEPT !.pc = "FLASH", !.todo = <<SetSvn(ufm.svn + 1)>>]
  /\ UNCHANGED <<reg, status, sem, hw, rd, fifo, note, queue, ufm, host, last, got, budget>>

----------------------------------------------------------------------------
(* Surroundings.                                                           *)

\* Power fails: the sector keeps what it holds at that moment, and the host
\* starts its command anew.
PowerCut ==
  /\ budget.power > 0
  /\ LET ram == PowerOnRam(ufm)
     IN  /\ reg' = ram.reg /\ status' = ram.status /\ sem' = ram.sem /\ hw' = ram.hw
         /\ rd' = ram.rd /\ fifo' = ram.fifo /\ note' = ram.note /\ queue' = ram.queue
         /\ sm' = ram.sm
  /\ host' = [host EXCEPT !.pc = "COMMAND"]
  /\ last' = [r \in Requests |-> Cleared] /\ got' = [r \in Requests |-> Cleared]
  /\ budget' = [budget EXCEPT !.power = @ - 1]
  /\ UNCHANGED ufm

HostStep == HostCommand \/ HostTrigger \/ HostFlushed \/ HostData \/ HostDone \/ HostRetry
NotifyStep == NotifyTake \/ NotifyDrain \/ NotifyEvent
SmStep == \/ HandleProvision \/ ClearTrigger \/ SetBusy \/ Flush \/ ProcessProvisionCommand
          \/ FlashErase \/ FlashProgram \/ FlashEnd \/ ClearBusy \/ SetDone \/ TakeRequest
          \/ Discard \/ UpdateDone
Next ==
  \/ HostCommand \/ HostTrigger \/ HostFlushed \/ HostData \/ HostDone \/ HostRetry
  \/ \E r \in Requests : HostRequest(r)
  \/ NotifyTake \/ NotifyDrain \/ NotifyEvent
  \/ HandleProvision \/ ClearTrigger \/ SetBusy \/ Flush \/ ProcessProvisionCommand
  \/ FlashErase \/ FlashProgram \/ FlashEnd \/ ClearBusy \/ SetDone
  \/ TakeRequest \/ Discard \/ UpdateDone
  \/ PowerCut

Spec == Init /\ [][Next]_vars
\* Both threads run, an update comes to its end (PfrSafety's Settles), and the
\* host goes on with its script.
FairSpec == /\ Spec /\ WF_vars(HostStep) /\ WF_vars(NotifyStep) /\ WF_vars(SmStep)
            /\ WF_vars(UpdateDone)
=============================================================================
