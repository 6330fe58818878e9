---------------------------- MODULE SpdmResponder ----------------------------
(***************************************************************************)
(* The SPDM responder: handler() of SPDMResponder.c and the handlers of    *)
(* ResponseCmd/.  A handler is a function of the device `d` it runs on,    *)
(* its one context `c`, the node's session table `t` and the request `m`;  *)
(* it returns the context and the table it leaves, its result code and the *)
(* response.  The secure connection build is modelled                      *)
(* (CONFIG_SECURE_CONNECTION_RESPONDER).                                   *)
(* A device: [versions, slots (slot -> chain, 0 for none), key, meas (the  *)
(* measurement blocks), base (of its session identifiers), caps].          *)
(***************************************************************************)
EXTENDS SpdmSession

NoEmptySession == 239        \* SPDM_NO_EMPTY_SESSION_CODE

Done(ret, c, t, rsp) == [ret |-> ret, c |-> c, t |-> t, rsp |-> rsp]

SlotMask(d) == {s \in Slots : d.slots[s] # 0}
Chains(d) == [i \in 1..Cardinality(Slots) |-> d.slots[i - 1]]

----------------------------------------------------------------------------
(* Connection and identity.                                                *)

HandleGetVersion(d, c, t, m) ==
  LET rsp == Msg("VERSION", 10, 0, 0, d.versions)
  IN  IF m.ver # 10 THEN Done(-1, c, t, Msg("ERROR", m.ver, 65, 0, <<>>))
      ELSE Done(0, UpdateVca([c EXCEPT !.m1m2 = <<>>, !.msgA = <<>>], m, rsp), t, rsp)

HandleGetCapabilities(d, c, t, m) ==
  LET rsp == [Msg("CAPABILITIES", m.ver, 0, 0, <<>>) EXCEPT !.caps = c.local]
      heard == IF m.ver >= 11 THEN [c EXCEPT !.remote = m.caps, !.selected = m.ver] ELSE c
  IN  IF (m.ver = 10) # (m.data = <<>>) THEN Done(-1, c, t, InvalidRsp(m.ver))
      ELSE Done(0, UpdateVca(heard, m, rsp), t, rsp)

HandleNegotiateAlgorithms(d, c, t, m) ==
  LET rsp == Msg("ALGORITHMS", m.ver, 0, 0, d.algorithms)
  IN  IF m.data # <<384>> THEN Done(-1, c, t, InvalidRsp(m.ver))
      ELSE Done(0, UpdateVca(c, m, rsp), t, rsp)

HandleGetDigests(d, c, t, m) ==
  LET rsp == Msg("DIGESTS", m.ver, 0, 0, Chains(d))
  IN  Done(0, UpdateM1M2(c, m, rsp), t, rsp)

\* One portion of a chain: its size is the responder's, not the one asked for.
HandleGetCertificate(d, c, t, m) ==
  LET offset == m.data[1]
      rsp == Msg("CERTIFICATE", m.ver, m.p1, m.p1,
                 <<d.served[m.p1], 1, ChainParts - offset - 1>>)
  IN  CASE m.p1 \notin SlotMask(d) -> Done(-1, c, t, InvalidRsp(m.ver))
        [] offset >= ChainParts    -> Done(-1, c, t, [rsp EXCEPT !.data = <<>>])
        [] OTHER                   -> Done(0, UpdateM1M2(c, m, rsp), t, rsp)

HandleChallenge(d, c, t, m) ==
  LET rsp == Msg("CHALLENGE_AUTH", m.ver, m.p1, 0, <<d.slots[m.p1]>>)
      m1  == UpdateM1M2(c, m, rsp)
  IN  IF m.p1 \notin SlotMask(d) THEN Done(-1, c, t, InvalidRsp(m.ver))
      ELSE Done(0, ResetM1M2(m1), t, [rsp EXCEPT !.sig = Sign(d.key, m1.m1m2)])

\* Operation 0 asks for the number of blocks; p1 = 1 asks for a signature.
HandleGetMeasurements(d, c, t, m) ==
  LET rsp == IF m.p2 = 0 THEN Msg("MEASUREMENTS", m.ver, Len(d.meas), 0, <<>>)
             ELSE Msg("MEASUREMENTS", m.ver, 1, 0, <<m.p2, d.meas[m.p2]>>)
      l1  == UpdateL1L2(c, m, rsp)
  IN  CASE m.p2 > Len(d.meas) -> Done(-1, c, t, InvalidRsp(m.ver))
        [] m.p2 <= Len(d.meas) /\ m.p1 = 0 -> Done(0, l1, t, rsp)
        [] OTHER -> Done(0, ResetL1L2(l1, m.ver), t, [rsp EXCEPT !.sig = Sign(d.key, l1.l1l2)])

----------------------------------------------------------------------------
(* Session establishment.                                                  *)

HandleKeyExchange(d, c, t, m) ==
  LET i    == GetFreeSessionSlot(t)
      made == SpdmSessionCreate(t, i, "RSP", m.data[1], d.base + i)
      mut  == IF CapEnabled(c, "MUT_AUTH") THEN 4 ELSE 0
      body == Msg("KEY_EXCHANGE_RSP", m.ver, 1, 0, <<d.base + i, mut>>)
      th1  == c.msgA \o <<CertHash(d.slots[m.p2]), m, body>>
      rsp  == [body EXCEPT !.sig = Sign(d.key, th1)]
      th2  == c.msgA \o <<CertHash(d.slots[m.p2]), m, rsp>>
      sess == [PrepareHandshake(made[i], th2) EXCEPT !.state = "KEY_EXCHANGED"]
  IN  CASE m.ver \notin {11, 12} -> Done(-1, c, t, ErrorRsp(m.ver))
        [] m.ver \in {11, 12} /\ i = 0 -> Done(NoEmptySession, c, t, ErrorRsp(m.ver))
        [] OTHER -> Done(0, [c EXCEPT !.th2 = th2], [made EXCEPT ![i] = sess], rsp)

\* FINISH carries no session identifier: the pending session is searched for.
HandleFinish(d, c, t, m) ==
  LET i    == FindPendingSession(t)
      s    == t[i]
      mut  == CapEnabled(c, "MUT_AUTH")
      peer == c.cert[m.p2].digest
      signed == Verifies(c, 0, m.sig, c.th2 \o <<CertHash(peer), FinishHeader(m.ver, m.p1)>>)
      maced  == s.reqMac # NoMac
                /\ m.mac = [s.reqMac EXCEPT !.over = FinishMacOver(@, peer, m, mut)]
      rsp  == [Msg("FINISH_RSP", m.ver, 0, 0, <<>>) EXCEPT
                 !.mac = [s.rspMac EXCEPT !.over = FinishRspMacOver(@, peer, m, mut)]]
      th2  == c.th2 \o (IF mut THEN <<CertHash(peer)>> ELSE <<>>) \o <<m, rsp>>
  IN  IF i = 0 \/ m.ver \notin {11, 12} \/ (m.p1 = 1 /\ ~signed) \/ ~maced
      THEN Done(-1, c, t, ErrorRsp(m.ver))
      ELSE Done(0, [c EXCEPT !.th2 = <<>>],
                [t EXCEPT ![i] = [GenSessionKeys(s, th2) EXCEPT !.state = "ESTABLISHED",
                                    !.reqMac = NoMac, !.rspMac = NoMac]], rsp)

HandlePskExchange(d, c, t, m) ==
  LET i    == GetFreeSessionSlot(t)
      made == SpdmSessionCreate(t, i, "RSP", m.data[1], d.base + i)
      body == Msg("PSK_EXCHANGE_RSP", m.ver, 1, 0, <<d.base + i>>)
      th1  == c.msgA \o <<m, body>>
      sess == PrepareHandshake(made[i], th1)
      rsp  == [body EXCEPT !.mac = sess.rspMac]
  IN  IF i = 0 THEN Done(NoEmptySession, c, t, ErrorRsp(m.ver))
      ELSE IF m.p1 # 0 THEN Done(-1, c, made, ErrorRsp(m.ver))   \* an unknown PSK hint
      ELSE Done(0, [c EXCEPT !.th2 = th1],
                [made EXCEPT ![i] = [GenSessionKeys(sess, Append(th1, rsp)) EXCEPT
                                       !.state = "ESTABLISHED"]], rsp)

----------------------------------------------------------------------------
(* Encapsulated requests: the responder asks the requester for its chain.  *)

\* get_next_cert_id.  0x7f is "none"; asked to go on from 0x7f the int8_t
\* wraps, the shifts by negative counts give 0 on this core, and the search
\* starts again at slot 0.
NextCertId(mask, curr) ==
  LET S == {s \in mask : s > (IF curr = 127 THEN -1 ELSE curr)}
  IN  IF S = {} THEN 127 ELSE Min(S)

EncapAck(m, data) == Msg("ENCAP_RSP_ACK", m.ver, 0, IF data = <<>> THEN 0 ELSE 1, data)

\* spdm_encap_get_certificate, first request of a slot.
EncapAskFirst(c, t, m, slot) ==
  Done(0, [c EXCEPT !.enc = [slot |-> slot, offset |-> 0, first |-> TRUE]], t,
       EncapAck(m, <<slot, 0>>))

\* spdm_encap_get_certificate, a portion has arrived: m.data = <<2, chain, 1, rest>>.
EncapCertificate(c, t, m) ==
  LET slot  == c.enc.slot
      chain == m.data[2]
      rest  == m.data[4]
      next  == NextCertId(c.mask, slot)
      took  == [c EXCEPT !.cert[slot].data = chain]
      kept  == [took EXCEPT !.cert[slot].leaf = chain]
      more  == [took EXCEPT !.enc.offset = @ + 1, !.enc.first = FALSE]
  IN  CASE rest # 0 -> Done(0, more, t, EncapAck(m, <<slot, c.enc.offset + 1>>))
        [] rest = 0 /\ chain # c.cert[slot].digest ->
             Done(-1, took, t, EncapAck(m, <<127, 5>>))
        [] rest = 0 /\ chain = c.cert[slot].digest /\ chain \notin RootedChain ->
             Done(-1, [c EXCEPT !.cert[slot] = [@ EXCEPT !.data = 0, !.leaf = 0],
                                !.mask = @ \ {slot}], t, EncapAck(m, <<127, 5>>))
        [] OTHER ->
             IF next = 127 THEN Done(0, [kept EXCEPT !.enc.slot = 127], t, EncapAck(m, <<>>))
             ELSE EncapAskFirst(kept, t, m, next)

HandleDeliverEncapRsp(d, c, t, m) ==
  LET held == [c EXCEPT !.mask = {s \in Slots : m.data[s + 2] # 0},
                        !.cert = [s \in Slots |->
                           IF m.data[s + 2] # 0 THEN [@[s] EXCEPT !.digest = m.data[s + 2]]
                           ELSE @[s]]]
      next == NextCertId(held.mask, c.enc.slot)
  IN  CASE m.data[1] = 2 -> EncapCertificate(c, t, m)
        [] m.data[1] = 1 /\ next = 127 ->
             Done(0, [held EXCEPT !.enc.slot = 127], t, ErrorRsp(m.ver))
        [] OTHER -> EncapAskFirst(held, t, m, next)

----------------------------------------------------------------------------
(* Requests inside a session.                                              *)

\* p1: 1 the requester's key, 2 both, 3 verify.
HandleKeyUpdate(d, c, t, m, sid) ==
  LET g == SpdmSessionGet(t, sid)
      s == g.t[g.i]
      ack == Msg("KEY_UPDATE_ACK", m.ver, m.p1, m.p2, <<>>)
      one == UpdateKey(s, "REQ")
  IN  IF g.i = 0 \/ m.p1 > 3 THEN Done(-1, c, g.t, ErrorRsp(m.ver))
      ELSE Done(0, c, [g.t EXCEPT ![g.i] = CASE m.p1 = 1 -> one
                                             [] m.p1 = 2 -> UpdateKey(one, "RSP")
                                             [] OTHER    -> s], ack)

HandleHeartbeat(d, c, t, m) == Done(0, c, t, Msg("HEARTBEAT_ACK", m.ver, 0, 0, <<>>))

HandleEndSession(d, c, t, m, sid) ==
  LET g == SpdmSessionGet(t, sid)
  IN  IF g.i = 0 THEN Done(-1, c, g.t, ErrorRsp(m.ver))
      ELSE Done(0, c, g.t, Msg("END_SESSION_ACK", m.ver, 0, 0, <<>>))

----------------------------------------------------------------------------
(* handler().                                                              *)

Accepted_NoRestart ==
  [NOT_READY        |-> {"GET_VERSION"},
   GOT_VERSION      |-> {"GET_VERSION", "GET_CAPABILITIES"},
   GOT_CAPABILITIES |-> {"GET_VERSION", "NEGOTIATE_ALGORITHMS"},
   NEGOTIATED       |-> {"GET_VERSION", "GET_DIGESTS", "GET_MEASUREMENTS"},
   GOT_DIGESTS      |-> {"GET_VERSION", "GET_CERTIFICATE", "CHALLENGE"},
   GOT_CERTIFICATE  |-> {"GET_VERSION", "GET_CERTIFICATE", "CHALLENGE", "GET_MEASUREMENTS"},
   CHALLENGED       |-> {"GET_VERSION", "GET_MEASUREMENTS", "GET_DIGESTS", "GET_CERTIFICATE",
                         "KEY_EXCHANGE", "PSK_EXCHANGE"},
   KEY_EXCHANGED    |-> {"FINISH", "DELIVER_ENCAPSULATED_RESPONSE"},
   ESTABLISHED      |-> {"GET_VERSION"}]

\* Outside a session: what each connection state accepts.
Accepted ==
  [NOT_READY        |-> {"GET_VERSION"},
   GOT_VERSION      |-> {"GET_VERSION", "GET_CAPABILITIES"},
   GOT_CAPABILITIES |-> {"GET_VERSION", "NEGOTIATE_ALGORITHMS"},
   NEGOTIATED       |-> {"GET_VERSION", "GET_DIGESTS", "GET_MEASUREMENTS"},
   GOT_DIGESTS      |-> {"GET_VERSION", "GET_CERTIFICATE", "CHALLENGE"},
   GOT_CERTIFICATE  |-> {"GET_VERSION", "GET_CERTIFICATE", "CHALLENGE", "GET_MEASUREMENTS"},
   CHALLENGED       |-> {"GET_VERSION", "GET_MEASUREMENTS", "GET_DIGESTS", "GET_CERTIFICATE",
                         "KEY_EXCHANGE", "PSK_EXCHANGE"},
   KEY_EXCHANGED    |-> {"GET_VERSION", "FINISH", "DELIVER_ENCAPSULATED_RESPONSE"},
   ESTABLISHED      |-> {"GET_VERSION"}]

\* The state a successful request leads to.
StateAfter(state, code) ==
  CASE code = "GET_VERSION"          -> "GOT_VERSION"
    [] code = "GET_CAPABILITIES"     -> "GOT_CAPABILITIES"
    [] code = "NEGOTIATE_ALGORITHMS" -> "NEGOTIATED"
    [] code = "GET_DIGESTS" /\ state = "NEGOTIATED"      -> "GOT_DIGESTS"
    [] code = "GET_CERTIFICATE" /\ state # "CHALLENGED"  -> "GOT_CERTIFICATE"
    [] code = "CHALLENGE"            -> "CHALLENGED"
    [] code = "KEY_EXCHANGE"         -> "KEY_EXCHANGED"
    [] code \in {"PSK_EXCHANGE", "FINISH"} -> "ESTABLISHED"
    [] OTHER                         -> state

Dispatch(d, c, t, m) ==
  CASE m.code = "GET_VERSION"          -> HandleGetVersion(d, c, t, m)
    [] m.code = "GET_CAPABILITIES"     -> HandleGetCapabilities(d, c, t, m)
    [] m.code = "NEGOTIATE_ALGORITHMS" -> HandleNegotiateAlgorithms(d, c, t, m)
    [] m.code = "GET_DIGESTS"          -> HandleGetDigests(d, c, t, m)
    [] m.code = "GET_CERTIFICATE"      -> HandleGetCertificate(d, c, t, m)
    [] m.code = "CHALLENGE"            -> HandleChallenge(d, c, t, m)
    [] m.code = "GET_MEASUREMENTS"     -> HandleGetMeasurements(d, c, t, m)
    [] m.code = "KEY_EXCHANGE"         -> HandleKeyExchange(d, c, t, m)
    [] m.code = "PSK_EXCHANGE"         -> HandlePskExchange(d, c, t, m)
    [] m.code = "FINISH"               -> HandleFinish(d, c, t, m)
    [] OTHER                           -> HandleDeliverEncapRsp(d, c, t, m)

\* A failed session request drops the connection and the first pending
\* session; a full table only refuses.
PlainRequest(d, c, t, m) ==
  LET aborts(ret) == \/ c.state = "KEY_EXCHANGED"
                     \/ m.code \in {"KEY_EXCHANGE", "PSK_EXCHANGE"} /\ ret # NoEmptySession
      After(r) ==
        CASE r.ret = 0 -> [r EXCEPT !.c.state = StateAfter(c.state, m.code)]
          [] r.ret # 0 /\ aborts(r.ret) ->
               [r EXCEPT !.c.state = "NOT_READY", !.t = Release(@, FindPendingSession(@))]
          [] OTHER -> r
  IN  IF m.code \notin Accepted[c.state] THEN Done(0, c, t, ErrorRsp(m.ver))
      ELSE After(Dispatch(d, c, t, m))

SecuredRequest(d, c, t, m, sid) ==
  LET After(r, g) ==
        CASE r.ret # 0 -> [r EXCEPT !.c.state = "NOT_READY", !.t = Release(g.t, g.i)]
          [] r.ret = 0 /\ m.code = "GET_VERSION" -> [r EXCEPT !.c.state = "GOT_VERSION"]
          [] r.ret = 0 /\ m.code = "END_SESSION" -> [r EXCEPT !.c.state = "NOT_READY"]
          [] OTHER -> r
      Judge(r) == After(r, SpdmSessionGet(r.t, sid))
  IN  Judge(CASE m.code = "KEY_UPDATE"  -> HandleKeyUpdate(d, c, t, m, sid)
              [] m.code = "HEARTBEAT"   -> HandleHeartbeat(d, c, t, m)
              [] m.code = "END_SESSION" -> HandleEndSession(d, c, t, m, sid)
              [] m.code \in {"GET_MEASUREMENTS", "GET_DIGESTS", "GET_CERTIFICATE", "GET_VERSION"}
                   -> Dispatch(d, c, t, m)
              [] OTHER -> Done(0, c, t, ErrorRsp(m.ver)))

SpdmHandler_NoReset(d, c, t, m, seal) ==
  IF seal.on THEN SecuredRequest(d, c, t, m, seal.id) ELSE PlainRequest(d, c, t, m)

\* Any request but GET_MEASUREMENTS restarts the measurement transcript.
SpdmHandler(d, c, t, m, seal) ==
  LET fresh == IF m.code = "GET_MEASUREMENTS" THEN c ELSE ResetL1L2(c, m.ver)
  IN  IF seal.on THEN SecuredRequest(d, fresh, t, m, seal.id)
                 ELSE PlainRequest(d, fresh, t, m)
=============================================================================
