---------------------------- MODULE MailboxSafety ----------------------------
(***************************************************************************)
(* What the mailbox and the provisioning UFM promise to the hosts.         *)
(***************************************************************************)
EXTENDS PfrMailbox

MailboxTypeOK ==
  /\ fifo.n \in 0..FifoSize /\ Len(hw) <= FifoSize
  /\ status \subseteq {"BUSY", "DONE", "ERROR"}
  /\ sem \subseteq {Order[i] : i \in DOMAIN Order}
  /\ ufm.bits \subseteq Keys \cup {"LOCK"}
  /\ \A k \in Keys : Len(ufm.cell[k]) \in {0, Size[k]}
  /\ (sm.pc \in {"FLASH", "PROGRAM"} /\ Serving => "DONE" \notin status)

\* The content of the sector, while it is rewritten the content it will have.
Kept == IF sm.pc = "PROGRAM" THEN sm.page ELSE ufm

----------------------------------------------------------------------------
(* Provisioning.                                                           *)

\* What the UFM calls provisioned is exactly what the host wrote, byte for
\* byte: no order of the host's bytes and triggers, of the notifyee's drains
\* and of the flushes and executions of the state machine, no failing erase
\* and no power cut puts a status bit over another payload.
PayloadWhole ==
  "PROGRAM" \notin budget.failed => \A k \in Keys : k \in ufm.bits => ufm.cell[k] = Whole(k)

\* No command changes a locked UFM: unless the power or the programming fails
\* within a rewrite, only the SVN floor is raised.
LockKept ==
  [][Locked(Kept) /\ budget'.power = budget.power /\ budget'.program = budget.program
       => /\ Locked(Kept') /\ Kept'.bits = Kept.bits /\ Kept'.cell = Kept.cell
          /\ Kept'.svn >= Kept.svn]_vars

\* The acknowledgement a host sees belongs to its own command: without an
\* error the payload is in flash, the UFM locked or erased, or the read FIFO
\* holds the payload and nothing else.  (A failing flash operation goes
\* unreported when it is the status bits'.)
Achieved(cmd) ==
  CASE cmd \in DOMAIN Provision -> Provision[cmd] \in Kept.bits
    [] cmd = "LOCK_UFM" -> Locked(Kept)
    [] cmd = "ERASE_CURRENT" -> Kept.bits = {}
    [] OTHER -> rd = Kept.cell[Read[cmd]]
AcknowledgedIsDone ==
  [][host.pc = "WAIT" /\ host'.k = host.k + 1 /\ host'.res = "DONE" /\ budget.failed = {}
       => Achieved(host.script[host.k])]_vars

----------------------------------------------------------------------------
(* Liveness.                                                               *)

\* The host comes to the end of its script: every trigger is acknowledged,
\* though the state machine discards those that meet an update and a power cut
\* forgets one.
ScriptEnds == <>[](host.k = Len(host.script) + 1)

\* Of the requests written to a register the last one reaches the state
\* machine, however they coalesce in the semaphore.
LastRequestDelivered ==
  <>[](\A r \in Requests : got[r] = Masked(r, last[r]))
=============================================================================
