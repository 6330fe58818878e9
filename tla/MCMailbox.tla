------------------------------ MODULE MCMailbox ------------------------------
(***************************************************************************)
(* Model checking PfrMailbox: scripts of UFM commands, host requests and    *)
(* what goes wrong.                                                        *)
(***************************************************************************)
EXTENDS MailboxSafety

MCSize == [ROOT_KEY |-> 3, PCH_OFFSET |-> 1, BMC_OFFSET |-> 1]

Full == [cell |-> [k \in Keys |-> Whole(k)], bits |-> Keys, svn |-> 0]
LockedUfm == [Full EXCEPT !.bits = @ \cup {"LOCK"}]

Provisioning == <<"PROVISION_ROOT_KEY", "PROVISION_PCH_OFFSET", "PROVISION_BMC_OFFSET">>
Commissioning == Provisioning \o <<"LOCK_UFM", "ERASE_CURRENT", "READ_BMC_OFFSET">>
Again   == <<"PROVISION_BMC_OFFSET", "LOCK_UFM", "ERASE_CURRENT", "PROVISION_BMC_OFFSET">>
Reading == <<"PROVISION_PCH_OFFSET", "READ_ROOT_KEY", "ERASE_CURRENT", "READ_PCH_OFFSET">>

Scenario(u, script, channel, requests, erase, program, power) ==
  [ufm |-> u, script |-> script, channel |-> channel,
   budget |-> [requests |-> requests, erase |-> erase, program |-> program, power |-> power,
              failed |-> {}]]

MCScenarios ==
  {Scenario(ErasedUfm, Commissioning, c, {}, 0, 0, 1) : c \in {"I2C", "I3C"}}
  \cup {Scenario(ErasedUfm, Commissioning, "I2C", {"UPDATE"}, 0, 0, 0)}
  \cup {Scenario(Full, Again, "I2C", {"READ_ONLY", "UPDATE"}, 0, 0, 0)}
  \cup {Scenario(LockedUfm, Reading, c, {"READ_ONLY", "UPDATE", "AT_RESET"}, 0, 0, 0) : c \in {"I2C", "I3C"}}
  \cup {Scenario(ErasedUfm, Commissioning, "I3C", {}, 1, 1, 0)}
=============================================================================
