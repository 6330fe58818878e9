--------------------------- MODULE SpdmAttestation ---------------------------
(***************************************************************************)
(* Nodes that attest each other over SPDM: the attester thread of every    *)
(* node (spdm_attester_main), the responder thread of its peers, the       *)
(* session table both share on a node, and the link between them.  An      *)
(* attester has at most one request outstanding; a message is handled in   *)
(* one step, and a message of another conversation may come between any    *)
(* two.  The environment loses messages, stops and restarts the attester   *)
(* (leaving and entering RUNTIME), lets sessions expire, changes a         *)
(* device's firmware, reboots nodes and sends requests of its own; `budget` *)
(* bounds what it may do.                                                  *)
(***************************************************************************)
EXTENDS SpdmResponder, SpdmRequester

CONSTANTS
  Nodes,
  Scenarios,     \* a set of [dev, budget]: the devices the nodes are, and how
                 \* often the environment may do what [loss, stop, change, reboot,
                 \* foreign]
  Period         \* CONFIG_PFR_SPDM_ATTESTATION_PERIOD, in heartbeat periods

Caps == {"CERT", "MEAS_SIG", "MUT_AUTH"}
AfmEntries == [index : Nat, peer : Nodes, expect : Seq(SUBSET Nat), i3c : BOOLEAN,
               policy : SUBSET Nat]
Devices == [versions : Seq(Nat), algorithms : Seq(Nat), caps : SUBSET Caps, key : Nat,
            slots : [Slots -> Nat], served : [Slots -> Nat], meas : Seq(Nat), base : Nat,
            afm : Seq(AfmEntries)]

ASSUME AttestationConstants ==
  /\ Period \in Nat \ {0}
  /\ \A x \in Scenarios : x.dev \in [Nodes -> Devices]

VARIABLES
  dev,      \* node -> the device it is
  rctx,     \* node -> the responder's context
  tab,      \* node -> the session table
  att,      \* node -> the attestation under way
  thread,   \* node -> [at, k, count]: where spdm_attester_main is
  chan,     \* node -> its outstanding request: [st, req, sealed, m, seal]
  evt,      \* node -> spdm_attester_event
  stage,    \* node -> the I3C device manager's state
  raised,   \* node -> the ATTESTATION_FAILED events: <<AFM entry, result>>
  budget,   \* what the environment may still do
  quiet     \* it has done nothing yet

env == <<budget, quiet>>
vars == <<dev, rctx, tab, att, thread, chan, evt, stage, raised, budget, quiet>>

IdleChan == [st |-> "IDLE", req |-> NoAnswer, sealed |-> FALSE, m |-> NoAnswer, seal |-> NoSeal]
Waiting(count) == [at |-> "WAIT", k |-> 1, count |-> count]

\* The devices a node attests: a sequence of [index, peer, expect, i3c, policy].
Afm(n) == dev[n].afm
Entry(n) == Afm(n)[att[n].dev]
Peer(n) == Entry(n).peer

\* The period less the first delay, a heartbeat period each.
Boot == [thread |-> Waiting(Period - 1), evt |-> {}, stage |-> "ATTESTATION"]

Init ==
  /\ \E x \in Scenarios : dev = x.dev /\ budget = x.budget
  /\ quiet = TRUE
  /\ rctx = [n \in Nodes |-> SpdmContextCreate(dev[n].caps)]
  /\ tab = [n \in Nodes |-> InitSessionTable]
  /\ att = [n \in Nodes |-> Idle]
  /\ thread = [n \in Nodes |-> Boot.thread]
  /\ chan = [n \in Nodes |-> IdleChan]
  /\ evt = [n \in Nodes |-> Boot.evt]
  /\ stage = [n \in Nodes |-> Boot.stage]
  /\ raised = [n \in Nodes |-> {}]

Spend(what) ==
  /\ budget[what] > 0
  /\ budget' = [budget EXCEPT ![what] = @ - 1]
  /\ quiet' = FALSE

----------------------------------------------------------------------------
(* The events of the attester.                                             *)

\* spdm_run_attester: entering T0 starts the timer.
RunAttester(n) ==
  /\ Afm(n) # <<>> /\ "T0" \notin evt[n]
  /\ evt' = [evt EXCEPT ![n] = @ \cup {"T0"}]
  /\ UNCHANGED <<dev, rctx, tab, att, thread, chan, stage, raised, env>>

\* spdm_stop_attester, from exit_runtime.
StopAttester(n) ==
  /\ "T0" \in evt[n] /\ Spend("stop")
  /\ evt' = [evt EXCEPT ![n] = @ \ {"T0"}]
  /\ UNCHANGED <<dev, rctx, tab, att, thread, chan, stage, raised>>

\* spdm_attester_tick: the timer runs from T0 to the stop.
Tick(n) ==
  /\ "T0" \in evt[n] /\ "TICK" \notin evt[n]
  /\ evt' = [evt EXCEPT ![n] = @ \cup {"TICK"}]
  /\ UNCHANGED <<dev, rctx, tab, att, thread, chan, stage, raised, env>>

\* mctp_i3c_attestation: the host goes on once its CPU is attested.
I3cAttestation(n) ==
  /\ stage[n] = "ATTESTATION" /\ Afm(n) # <<>>
  /\ \/ /\ "T0_I3C" \notin evt[n]
        /\ evt' = [evt EXCEPT ![n] = @ \cup {"T0_I3C", "TICK"}]
        /\ UNCHANGED stage
     \/ /\ {"T0_I3C", "ATTESTED_CPU"} \subseteq evt[n]
        /\ stage' = [stage EXCEPT ![n] = "RUNTIME"]
        /\ UNCHANGED evt
  /\ UNCHANGED <<dev, rctx, tab, att, thread, chan, raised, env>>

----------------------------------------------------------------------------
(* The attester thread.                                                    *)

Wake(n) ==
  /\ thread[n].at = "WAIT" /\ {"TICK", "T0"} \subseteq evt[n]
  /\ thread' = [thread EXCEPT ![n] =
       IF @.count < Period THEN [@ EXCEPT !.at = "HEARTBEATS", !.k = 1]
       ELSE [at |-> "DEVICES", k |-> 1, count |-> 0]]
  /\ UNCHANGED <<dev, rctx, tab, att, chan, evt, stage, raised, env>>

ClearTick(n) == evt' = [evt EXCEPT ![n] = @ \ {"TICK"}]

KeepAlive_NoCount(n) ==
  LET alive == {i \in thread[n].k..MaxSession :
                  tab[n][i].valid /\ tab[n][i].type = "REQ" /\ tab[n][i].hb}
      i == First(alive)
      entry == CHOOSE j \in DOMAIN Afm(n) : Afm(n)[j].index = tab[n][i].dst
  IN  /\ thread[n].at = "HEARTBEATS" /\ att[n].pc = "IDLE"
      /\ IF i = 0
         THEN /\ thread' = [thread EXCEPT ![n] = Waiting(@.count)]
              /\ ClearTick(n)
              /\ UNCHANGED att
         ELSE /\ thread' = [thread EXCEPT ![n].k = i + 1]
              /\ att' = [att EXCEPT ![n] =
                   [Idle EXCEPT !.pc = "KEEP_ALIVE", !.sess = i, !.dev = entry,
                                !.c = [SpdmContextCreate(dev[n].caps) EXCEPT
                                         !.selected = tab[n][i].ver]]]
              /\ UNCHANGED evt
      /\ UNCHANGED <<dev, rctx, tab, chan, stage, raised, env>>

\* spdm_heartbeat_handle: the next session of ours to keep alive.
KeepAlive(n) ==
  LET alive == {i \in thread[n].k..MaxSession :
                  tab[n][i].valid /\ tab[n][i].type = "REQ" /\ tab[n][i].hb}
      i == First(alive)
      entry == CHOOSE j \in DOMAIN Afm(n) : Afm(n)[j].index = tab[n][i].dst
  IN  /\ thread[n].at = "HEARTBEATS" /\ att[n].pc = "IDLE"
      /\ IF i = 0
         THEN /\ thread' = [thread EXCEPT ![n] = Waiting(@.count + 1)]
              /\ ClearTick(n)
              /\ UNCHANGED att
         ELSE /\ thread' = [thread EXCEPT ![n].k = i + 1]
              /\ att' = [att EXCEPT ![n] =
                   [Idle EXCEPT !.pc = "KEEP_ALIVE", !.sess = i, !.dev = entry,
                                !.c = [SpdmContextCreate(dev[n].caps) EXCEPT
                                         !.selected = tab[n][i].ver]]]
              /\ UNCHANGED evt
      /\ UNCHANGED <<dev, rctx, tab, chan, stage, raised, env>>

\* The device loop, up to the call of spdm_attest_device.
NextDevice(n) ==
  LET k == thread[n].k
      e == Afm(n)[k]
      o == StartAttestation(dev[n], e, tab[n])
  IN  /\ thread[n].at = "DEVICES" /\ att[n].pc = "IDLE"
      /\ \/ /\ k > Len(Afm(n)) \/ "T0" \notin evt[n]
            /\ thread' = [thread EXCEPT ![n] = Waiting(@.count)]
            /\ ClearTick(n)
            /\ UNCHANGED <<tab, att>>
         \/ /\ k <= Len(Afm(n)) /\ "T0" \in evt[n]
            /\ e.i3c /\ "T0_I3C" \notin evt[n]
            /\ thread' = [thread EXCEPT ![n].k = @ + 1]
            /\ UNCHANGED <<tab, att, evt>>
         \/ /\ k <= Len(Afm(n)) /\ "T0" \in evt[n]
            /\ e.i3c => "T0_I3C" \in evt[n]
            /\ thread' = [thread EXCEPT ![n].k = @ + 1]
            /\ tab' = [tab EXCEPT ![n] = o.t]
            /\ att' = [att EXCEPT ![n] = [o.a EXCEPT !.dev = k]]
            /\ UNCHANGED evt
      /\ UNCHANGED <<dev, rctx, chan, stage, raised, env>>

\* The bit of an entry's policy that turns a failure into an event.
PolicyOf(res) ==
  CASE res = "VCA" -> 2
    [] res \in {"DIGEST", "CERTIFICATE", "CHALLENGE_AUTH"} -> 1
    [] res = "MEASUREMENTS" -> 0
    [] OTHER -> 3                       \* no case in the switch

\* The end of a heartbeat, or of spdm_attestation_handle.
Verdict(n) ==
  LET e == Entry(n)
      res == att[n].res
      whole == thread[n].at = "DEVICES"
  IN  /\ att[n].pc = "VERDICT"
      /\ evt' = [evt EXCEPT ![n] =
           IF ~whole \/ ~e.i3c THEN @
           ELSE IF res = "SUCCEEDED" THEN @ \cup {"ATTESTED_CPU"} ELSE @ \ {"ATTESTED_CPU"}]
      /\ raised' = [raised EXCEPT ![n] =
           IF whole /\ PolicyOf(res) \in e.policy THEN @ \cup {<<att[n].dev, res>>} ELSE @]
      /\ att' = [att EXCEPT ![n] = Idle]
      /\ UNCHANGED <<dev, rctx, tab, thread, chan, stage, env>>

----------------------------------------------------------------------------
(* The exchange of a request and its response.                             *)

Send(n) ==
  LET x == Issue(dev[n], tab[n], att[n])
      f == IssueFailed(x.t, x.a)
  IN  /\ att[n].pc \notin {"IDLE", "VERDICT"} /\ chan[n].st = "IDLE"
      /\ IF x.ok
         THEN /\ tab' = [tab EXCEPT ![n] = x.t]
              /\ att' = [att EXCEPT ![n] = x.a]
              /\ chan' = [chan EXCEPT ![n] = [st |-> "REQUEST", req |-> x.m,
                            sealed |-> x.seal.on, m |-> x.m, seal |-> x.seal]]
         ELSE /\ tab' = [tab EXCEPT ![n] = f.t]
              /\ att' = [att EXCEPT ![n] = f.a]
              /\ UNCHANGED chan
      /\ UNCHANGED <<dev, rctx, thread, evt, stage, raised, env>>

\* The responder thread of p, handed a message: what does not decrypt gets no
\* answer; a response that does not encrypt goes out in the clear.
Answer(p, m, seal) ==
  LET Reply(r, y) ==
        [st |-> "RESPONSE", c |-> r.c, t |-> IF seal.on THEN y.t ELSE r.t, m |-> r.rsp,
         seal |-> IF seal.on THEN y.seal ELSE NoSeal]
      Sealed(r) == Reply(r, Encrypt(r.t, seal.id, r.rsp))
      Handled(opened) ==
        IF seal.on /\ ~opened.ok
        THEN [st |-> "LOST", c |-> rctx[p], t |-> opened.t, m |-> m, seal |-> seal]
        ELSE Sealed(SpdmHandler(dev[p], rctx[p], IF seal.on THEN opened.t ELSE tab[p], m, seal))
  IN  Handled(Decrypt(tab[p], seal))

Respond(n) ==
  /\ chan[n].st = "REQUEST"
  /\ \E y \in {Answer(Peer(n), chan[n].m, chan[n].seal)} :
       /\ rctx' = [rctx EXCEPT ![Peer(n)] = y.c]
       /\ tab' = [tab EXCEPT ![Peer(n)] = y.t]
       /\ chan' = [chan EXCEPT ![n] = [@ EXCEPT !.st = y.st, !.m = y.m, !.seal = y.seal]]
  /\ UNCHANGED <<dev, att, thread, evt, stage, raised, env>>

\* A requester that is not one of the nodes (the BMC's, say), with the same
\* responder: it asks for the version, opens a session with a pre-shared key,
\* and in its session updates keys, keeps alive and ends.  It runs no
\* attestation of its own; what it gets back is left out.
ForeignId == 99
ForeignRequest(n) ==
  /\ Spend("foreign")
  /\ \E m \in {Msg("GET_VERSION", 10, 0, 0, <<>>)}
            \cup {Msg("PSK_EXCHANGE", 12, hint, 0, <<ForeignId>>) : hint \in {0, 1}}
            \cup {Msg("KEY_UPDATE", 12, op, 1, <<>>) : op \in 1..4}
            \cup {Msg(code, 12, 0, 0, <<>>) : code \in {"HEARTBEAT", "END_SESSION"}} :
       \E seal \in IF m.code \in {"GET_VERSION", "PSK_EXCHANGE"} THEN {NoSeal}
                  ELSE {[on |-> TRUE, id |-> s.id, key |-> s.key["REQ"], seq |-> s.seq["REQ"]] :
                          s \in {tab[n][i] : i \in {j \in 1..MaxSession :
                                  tab[n][j].valid /\ tab[n][j].type = "RSP"
                                  /\ tab[n][j].id[1] = ForeignId}}} :
         \E y \in {Answer(n, m, seal)} :
           rctx' = [rctx EXCEPT ![n] = y.c] /\ tab' = [tab EXCEPT ![n] = y.t]
  /\ UNCHANGED <<dev, att, thread, chan, evt, stage, raised>>

\* The link gives up: the request or the response is gone.
Lose(n) ==
  /\ chan[n].st \in {"REQUEST", "RESPONSE"} /\ Spend("loss")
  /\ chan' = [chan EXCEPT ![n].st = "LOST"]
  /\ UNCHANGED <<dev, rctx, tab, att, thread, evt, stage, raised>>

Receive(n) ==
  LET lost == chan[n].st = "LOST"
      opened == Decrypt(tab[n], chan[n].seal)
      t == IF chan[n].sealed /\ ~lost THEN opened.t ELSE tab[n]
      m == IF lost THEN IF chan[n].sealed THEN Unset ELSE NoAnswer
           ELSE IF chan[n].sealed /\ ~opened.ok THEN BadSeal ELSE chan[n].m
  IN  /\ chan[n].st \in {"RESPONSE", "LOST"}
      /\ \E o \in Take(dev[n], Entry(n), t, att[n], chan[n].req, m) :
           tab' = [tab EXCEPT ![n] = o.t] /\ att' = [att EXCEPT ![n] = o.a]
      /\ chan' = [chan EXCEPT ![n] = IdleChan]
      /\ UNCHANGED <<dev, rctx, thread, evt, stage, raised, env>>

----------------------------------------------------------------------------
(* Time, faults and change.                                                *)

\* A session stays fresh while a running attester holds its other end: every
\* tick sends a heartbeat or a measurement request through it.
Fresh(n, i) ==
  \E q \in Nodes, j \in 1..MaxSession :
    /\ "T0" \in evt[q]
    /\ tab[q][j].valid /\ tab[q][j].type = "REQ" /\ tab[q][j].state = "ESTABLISHED"
    /\ IF tab[n][i].type = "REQ" THEN q = n /\ j = i
       ELSE \E e \in DOMAIN Afm(q) : Afm(q)[e].peer = n /\ tab[q][j].id = tab[n][i].id

\* Two heartbeat periods without an access.
Expire(n, i) ==
  /\ tab[n][i].valid /\ tab[n][i].hb /\ ~tab[n][i].old /\ ~Fresh(n, i)
  /\ \A q \in Nodes : att[q].pc = "IDLE"
  /\ tab' = [tab EXCEPT ![n][i].old = TRUE]
  /\ UNCHANGED <<dev, rctx, att, thread, chan, evt, stage, raised, env>>

\* Firmware that is not the one measured before: block b changes.
ChangeFirmware(n) ==
  /\ Spend("change")
  /\ \E b \in DOMAIN dev[n].meas : dev' = [dev EXCEPT ![n].meas[b] = 0]
  /\ UNCHANGED <<rctx, tab, att, thread, chan, evt, stage, raised>>

Reboot(n) ==
  /\ Spend("reboot")
  /\ rctx' = [rctx EXCEPT ![n] = SpdmContextCreate(dev[n].caps)]
  /\ tab' = [tab EXCEPT ![n] = InitSessionTable]
  /\ att' = [att EXCEPT ![n] = Idle]
  /\ thread' = [thread EXCEPT ![n] = Boot.thread]
  /\ evt' = [evt EXCEPT ![n] = Boot.evt]
  /\ stage' = [stage EXCEPT ![n] = Boot.stage]
  /\ chan' = [q \in Nodes |->
       IF q = n THEN IdleChan
       ELSE IF chan[q].st = "REQUEST" /\ Peer(q) = n THEN [chan[q] EXCEPT !.st = "LOST"]
       ELSE chan[q]]
  /\ UNCHANGED <<dev, raised>>

----------------------------------------------------------------------------
Thread(n) == Wake(n) \/ KeepAlive(n) \/ NextDevice(n) \/ Verdict(n) \/ Send(n) \/ Receive(n)

Next ==
  \E n \in Nodes :
    \/ RunAttester(n) \/ StopAttester(n) \/ Tick(n) \/ I3cAttestation(n)
    \/ Thread(n) \/ Respond(n) \/ ForeignRequest(n) \/ Lose(n)
    \/ (\E i \in 1..MaxSession : Expire(n, i))
    \/ ChangeFirmware(n) \/ Reboot(n)

\* Weak fairness of the attester thread, Thread(n), and of the responder,
\* Respond(n), written out: when it can go on it does.  ENABLED of these
\* actions is the condition named here, and but for the bounded faults only
\* they take the steps named here.
CanRun(n) ==
  \/ thread[n].at = "WAIT" /\ {"TICK", "T0"} \subseteq evt[n]
  \/ thread[n].at # "WAIT" /\ att[n].pc \in {"IDLE", "VERDICT"}
  \/ att[n].pc \notin {"IDLE", "VERDICT"} /\ chan[n].st # "REQUEST"
ThreadStep(n) ==
  \/ thread'[n] # thread[n] \/ att'[n] # att[n]
  \/ (chan[n].st = "IDLE") # (chan'[n].st = "IDLE")
CanRespond(n) == chan[n].st = "REQUEST"
RespondStep(n) == CanRespond(n) /\ chan'[n].st # "REQUEST"

\* Both threads are scheduled, the timer fires, and time passes.
Fairness ==
  \A n \in Nodes :
    /\ []<>~CanRun(n) \/ []<><<ThreadStep(n)>>_vars
    /\ []<>~CanRespond(n) \/ []<><<RespondStep(n)>>_vars
    /\ WF_vars(Tick(n)) /\ WF_vars(RunAttester(n)) /\ WF_vars(I3cAttestation(n))
    /\ \A i \in 1..MaxSession : SF_vars(Expire(n, i))

Spec == Init /\ [][Next]_vars
FairSpec == Spec /\ Fairness
=============================================================================
