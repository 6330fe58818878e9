---------------------------- MODULE PfrBootGate ----------------------------
(***************************************************************************)
(* What the root of trust promises to the hosts behind it, without its      *)
(* events, images, retries and update bookkeeping: a gate that is serving   *)
(* running hosts, working on the firmware of hosts it holds, or locked.     *)
(* PfrStateMachine implements it (PfrSafety!Gate).                          *)
(***************************************************************************)
CONSTANTS Hosts,       \* hosts behind the gate
          Guarded      \* hosts the gate opens for only when they are fit

VARIABLES phase,       \* "serving", "working" or "locked"
          running,     \* hosts out of reset
          fit,         \* hosts whose active firmware authenticates
          secured      \* the platform is provisioned

gate == <<phase, running, fit, secured>>

Init == /\ phase = "working" /\ running = {}
        /\ fit \subseteq Hosts /\ secured \in BOOLEAN

\* Some hosts are taken to work on their firmware.
Close(hosts) ==
    /\ phase = "serving" /\ phase' = "working"
    /\ running' = running \ hosts
    /\ UNCHANGED <<fit, secured>>

\* The firmware of hosts in reset is rewritten, well or badly.
Rework(hosts) ==
    /\ phase = "working" /\ hosts \cap running = {}
    /\ fit' \in {(fit \ hosts) \cup good : good \in SUBSET hosts}
    /\ UNCHANGED <<phase, running, secured>>

\* Hosts are let run; a guarded one of a secured platform only when it is fit.
Open(hosts) ==
    /\ phase = "working" /\ phase' = "serving"
    /\ secured => (hosts \ running) \cap Guarded \subseteq fit
    /\ running' = running \cup hosts
    /\ UNCHANGED <<fit, secured>>

\* Nothing is left to try: every host is held for good.
Lock ==
    /\ phase = "working" /\ phase' = "locked"
    /\ running' = {}
    /\ UNCHANGED <<fit, secured>>

\* The firmware of a host goes bad: of a running one at any time, of a held one
\* only when an update that needs no reset fails while the other host is served.
Decay(host) ==
    /\ host \in running \/ phase = "serving"
    /\ fit' = fit \ {host}
    /\ UNCHANGED <<phase, running, secured>>

\* The platform is provisioned, or its provisioning erased.
Provision ==
    /\ phase = "serving" /\ secured' \in BOOLEAN
    /\ UNCHANGED <<phase, running, fit>>

\* The power is cycled or fails, even while firmware is being rewritten.
PowerCycle ==
    /\ phase' = "working" /\ running' = {}
    /\ fit' \in SUBSET fit
    /\ UNCHANGED secured

Next == \/ \E hosts \in SUBSET Hosts : Close(hosts) \/ Rework(hosts) \/ Open(hosts)
        \/ \E host \in Hosts : Decay(host)
        \/ Lock \/ Provision \/ PowerCycle

Spec == Init /\ [][Next]_gate
=============================================================================
