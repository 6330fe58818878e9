---------------------------- MODULE SpdmRequester ----------------------------
(***************************************************************************)
(* The SPDM requester: spdm_attest_device() and                            *)
(* spdm_attestation_with_session() of SPDMRequester.c with the requests of *)
(* RequestCmd/.  One attestation is a record `a`: the request it is at     *)
(* (pc), its context c, the loop variables of the code, and its result.    *)
(* Issue builds a request and may change the session table; Take handles   *)
(* the response, or NoAnswer when the transport failed, and returns the    *)
(* set of possible outcomes (more than one where the code reads a value    *)
(* it never set).  `d` is the requesting device and `e` the device's entry *)
(* in the AFM: [index, expect (a sequence of sets of values), i3c, policy].*)
(***************************************************************************)
EXTENDS SpdmSession

CONSTANT AllMeasurements      \* SPDM_MEASUREMENT_OPERATION_ALL_MEASUREMENTS

ASSUME AllMeasurementsAssumption == AllMeasurements \in Nat \ {0, 1}

\* No response: the transport failed; in a session, when spdm_mctp_send_recv_enc
\* returns 0 all the same and leaves the response header unset; or what came
\* could not be decrypted.
NoAnswer == Msg("NO_ANSWER", 0, 0, 0, <<>>)
Unset    == Msg("UNSET", 0, 0, 0, <<>>)
BadSeal  == Msg("BAD_SEAL", 0, 0, 0, <<>>)

Idle == [pc |-> "IDLE", c |-> SpdmContextCreate({}), slot |-> 0, part |-> 0,
         meas |-> 0, afm |-> 0, sess |-> 0, fin |-> 0, mut |-> 0, res |-> "NONE",
         dev |-> 0]

Outcome(t, a) == [t |-> t, a |-> a]
Go(t, a, pc) == Outcome(t, [a EXCEPT !.pc = pc])

\* The end of spdm_attest_device: a failure releases the caller's session.
Conclude(t, a, res) ==
  Outcome(IF res = "SUCCEEDED" THEN t ELSE Release(t, a.sess),
          [a EXCEPT !.pc = "VERDICT", !.res = res])

\* The request a certificate loop goes on with after slot s.
NextSlot(t, a, s) ==
  LET S == {x \in a.c.mask : x > s}
  IN  IF S = {} THEN Conclude(t, a, "CERTIFICATE")
      ELSE Go(t, [a EXCEPT !.slot = Min(S), !.part = 0], "GET_CERTIFICATE")

MeasAttr(c) == IF "MEAS_SIG" \in c.remote THEN 1 ELSE 0
InSession(a) == a.pc \in {"SESSION_TOTAL", "SESSION_MEASURE"}

\* The next turn of the measurement loop.
NextMeasurement(t, a) ==
  IF a.meas + 1 = AllMeasurements THEN Conclude(t, a, "MEASUREMENTS")
  ELSE Go(t, [a EXCEPT !.meas = @ + 1],
          IF InSession(a) THEN "SESSION_MEASURE" ELSE "MEASURE")

----------------------------------------------------------------------------
(* The start: with the session that the table holds for the device, or     *)
(* from GET_VERSION.                                                       *)

WithSession(t, a, s) ==
  LET c == [a.c EXCEPT !.selected = s.ver, !.local = s.flags[1], !.remote = s.flags[2],
                       !.cert[0].leaf = s.leaf, !.msgA = s.msgA, !.l1l2 = s.msgA]
  IN  IF s.leaf = 0 THEN Conclude(t, a, "MEASUREMENTS")
      ELSE Go(t, [a EXCEPT !.c = c], "SESSION_TOTAL")

StartAttestation(d, e, t) ==
  LET g == SpdmSessionGetByIdx(t, e.index)
      a == [Idle EXCEPT !.c = SpdmContextCreate(d.caps), !.sess = g.i]
  IN  IF g.i # 0 THEN WithSession(g.t, a, g.t[g.i]) ELSE Go(g.t, a, "GET_VERSION")

----------------------------------------------------------------------------
(* Requests.                                                               *)

LocalCaps(c) == IF c.selected = 12 THEN c.local \ {"MEAS_SIG"} ELSE c.local

\* The requests that change nothing before they are sent.
Request(d, a) ==
  LET c == a.c
      req(code, p1, p2, data) == Msg(code, c.selected, p1, p2, data)
  IN  CASE a.pc = "GET_VERSION"      -> Msg("GET_VERSION", 10, 0, 0, <<>>)
        [] a.pc = "GET_CAPABILITIES" ->
             [req(a.pc, 0, 0, IF c.selected = 10 THEN <<>> ELSE <<1>>) EXCEPT
                !.caps = IF c.selected = 10 THEN {} ELSE LocalCaps(c)]
        [] a.pc = "NEGOTIATE_ALGORITHMS" -> req(a.pc, 0, 0, <<384>>)
        [] a.pc = "GET_DIGESTS"      -> req(a.pc, 0, 0, <<>>)
        [] a.pc = "GET_CERTIFICATE"  -> req(a.pc, a.slot, 0, <<a.part>>)
        [] a.pc = "CHALLENGE"        -> req(a.pc, a.slot, 0, <<>>)
        [] a.pc \in {"TOTAL", "SESSION_TOTAL"} -> req("GET_MEASUREMENTS", 0, 0, <<>>)
        [] a.pc \in {"MEASURE", "SESSION_MEASURE"} ->
             req("GET_MEASUREMENTS", MeasAttr(c), a.meas, <<>>)
        [] a.pc = "ENCAP_DIGESTS"    ->
             req("DELIVER_ENCAPSULATED_RESPONSE", 0, 0,
                 <<1>> \o [i \in 1..Cardinality(Slots) |-> d.slots[i - 1]])
        [] a.pc = "ENCAP_CERTIFICATE" ->
             req("DELIVER_ENCAPSULATED_RESPONSE", 0, 0,
                 <<2, d.slots[a.slot], 1, ChainParts - a.part - 1>>)
        [] OTHER -> req("HEARTBEAT", 0, 0, <<>>)

\* What goes out: `ok` is FALSE when the request could not be built.
Sent(t, a, m) == [ok |-> TRUE, t |-> t, a |-> a, m |-> m, seal |-> NoSeal]
NotSent(t, a) == [ok |-> FALSE, t |-> t, a |-> a, m |-> NoAnswer, seal |-> NoSeal]

\* spdm_key_exchange up to the send: the session is created first.
IssueKeyExchange(d, t, a) ==
  LET i == GetFreeSessionSlot(t)
      m == Msg("KEY_EXCHANGE", a.c.selected, IF MeasAttr(a.c) = 1 THEN 255 ELSE 0, 0,
               <<d.base + i>>)
  IN  IF i = 0 THEN NotSent(t, a)
      ELSE Sent(SpdmSessionCreate(t, i, "REQ", d.base + i, 0), [a EXCEPT !.sess = i], m)

\* spdm_finish up to the send: the pending session is searched for, not passed.
IssueFinish(d, t, a) ==
  LET i == FindPendingSession(t)
      header == FinishHeader(a.c.selected, 1)
      signed == [header EXCEPT !.sig = Sign(d.key, a.c.th2 \o <<CertHash(d.slots[0]), header>>)]
      mac == [t[i].reqMac EXCEPT !.over = FinishMacOver(@, d.slots[0], signed, a.mut # 0)]
  IN  IF i = 0 THEN NotSent(t, a)
      ELSE IF t[i].reqMac = NoMac THEN NotSent(t, a)
      ELSE Sent([t EXCEPT ![i].reqMac = NoMac], [a EXCEPT !.fin = i],
                [signed EXCEPT !.mac = mac])

\* A request of session `id`: spdm_send_request_enc.
IssueSealed(t, a, m, id) ==
  LET x == Encrypt(t, id, m)
  IN  [ok |-> x.ok, t |-> x.t, a |-> a, m |-> m, seal |-> x.seal]

\* spdm_get_measurements of a session that is gone falls back to a plain request.
Issue(d, t, a) ==
  CASE a.pc = "KEY_EXCHANGE" -> IssueKeyExchange(d, t, a)
    [] a.pc = "FINISH"       -> IssueFinish(d, t, a)
    [] a.pc \in {"HEARTBEAT", "KEEP_ALIVE"} ->
         IssueSealed(t, a, Request(d, a), t[a.sess].id)
    [] InSession(a) ->
         LET g == SpdmSessionGet(t, t[a.sess].id)
         IN  IF g.i = 0 THEN Sent(g.t, a, Request(d, a))
             ELSE IssueSealed(g.t, a, Request(d, a), t[a.sess].id)
    [] OTHER                 -> Sent(t, a, Request(d, a))

----------------------------------------------------------------------------
(* Responses.                                                              *)

Answers(m, req, code) == m.code = code /\ m.ver = req.ver

TakeVersion(t, a, req, m) ==
  LET best == Max({10} \cup {m.data[i] : i \in DOMAIN m.data})
      c == [a.c EXCEPT !.selected = best, !.msgA = <<>>, !.m1m2 = <<>>]
  IN  IF ~Answers(m, req, "VERSION") \/ Len(m.data) \notin {1, 2} THEN Conclude(t, a, "VCA")
      ELSE Go(t, [a EXCEPT !.c = UpdateVca(c, req, m)], "GET_CAPABILITIES")

TakeCapabilities(t, a, req, m) ==
  IF ~Answers(m, req, "CAPABILITIES") THEN Conclude(t, a, "VCA")
  ELSE Go(t, [a EXCEPT !.c = UpdateVca([a.c EXCEPT !.remote = m.caps], req, m)],
          "NEGOTIATE_ALGORITHMS")

\* A device without certificates is left there, and has passed.
TakeAlgorithms(t, a, req, m) ==
  LET heard == [a EXCEPT !.c = UpdateVca(@, req, m)]
  IN  IF ~Answers(m, req, "ALGORITHMS") \/ m.data # <<384>> THEN Conclude(t, a, "VCA")
      ELSE IF "CERT" \in a.c.remote THEN Go(t, heard, "GET_DIGESTS")
      ELSE Conclude(t, heard, "SUCCEEDED")

\* An empty slot mask skips the certificates and challenges slot 0.
TakeDigests(t, a, req, m) ==
  LET mask == {s \in Slots : m.data[s + 1] # 0}
      c == [a.c EXCEPT !.mask = mask,
                       !.cert = [s \in Slots |-> IF s \in mask
                                  THEN [@[s] EXCEPT !.digest = m.data[s + 1]] ELSE @[s]]]
      heard == [a EXCEPT !.c = UpdateM1M2(c, req, m)]
  IN  IF ~Answers(m, req, "DIGESTS") THEN Conclude(t, a, "DIGEST")
      ELSE IF mask = {} THEN Go(t, heard, "CHALLENGE")
      ELSE NextSlot(t, heard, -1)

TakeCertificate(t, a, req, m) ==
  LET s     == a.slot
      chain == m.data[1]
      rest  == m.data[3]
      took  == [a EXCEPT !.c = UpdateM1M2([@ EXCEPT !.cert[s].data = chain], req, m)]
      bad   == [took EXCEPT !.c.cert[s] = [@ EXCEPT !.data = 0, !.leaf = 0],
                            !.c.mask = @ \ {s}]
  IN  IF ~Answers(m, req, "CERTIFICATE") \/ m.data = <<>> THEN NextSlot(t, a, s)
      ELSE IF rest # 0 THEN Go(t, [took EXCEPT !.part = @ + 1], "GET_CERTIFICATE")
      ELSE IF chain # a.c.cert[s].digest THEN NextSlot(t, took, s)
      ELSE IF chain \notin RootedChain THEN NextSlot(t, bad, s)
      ELSE Go(t, [took EXCEPT !.c.cert[s].leaf = chain], "CHALLENGE")

TakeChallengeAuth(t, a, req, m) ==
  LET m1 == UpdateM1M2(a.c, req, m)
  IN  IF ~Answers(m, req, "CHALLENGE_AUTH") \/ ~Verifies(a.c, a.slot, m.sig, m1.m1m2)
      THEN Conclude(t, a, "CHALLENGE_AUTH")
      ELSE Go(t, [a EXCEPT !.c = ResetL1L2(ResetM1M2(m1), m1.selected)], "TOTAL")

TakeTotal(e, t, a, req, m) ==
  IF ~Answers(m, req, "MEASUREMENTS") \/ m.p1 < Len(e.expect)
  THEN Conclude(t, a, "MEASUREMENTS")
  ELSE NextMeasurement(t, [a EXCEPT !.c = UpdateL1L2(@, req, m)])

\* spdm_get_measurements for one index.  The signature is that of slot 0, and
\* without a signature the value is not compared.
MeasurementResult(e, a, req, m) ==
  LET l1 == UpdateL1L2(a.c, req, m)
  IN  CASE m \in {NoAnswer, BadSeal} -> [is |-> "GET_FAILED", c |-> a.c]
        [] m \notin {NoAnswer, BadSeal} /\ Answers(m, req, "MEASUREMENTS") ->
             [c  |-> IF req.p1 = 0 THEN l1 ELSE ResetL1L2(l1, req.ver),
              is |-> IF req.p1 = 0 THEN "OK"
                     ELSE IF ~Verifies(a.c, 0, m.sig, l1.l1l2) THEN "INVALID_SIG"
                     ELSE IF m.data[2] \in e.expect[a.afm + 1] THEN "OK" ELSE "NOT_FOUND"]
        [] OTHER -> [is |-> "NOT_FOUND", c |-> a.c]

TakeMeasurement_NotFoundCounts(e, t, a, req, m) ==
  LET r == MeasurementResult(e, a, req, m)
      heard == [a EXCEPT !.c = r.c, !.afm = @ + 1]
  IN  CASE r.is \in {"INVALID_SIG", "GET_FAILED"} -> Conclude(t, heard, "MEASUREMENTS")
        [] r.is \in {"OK", "NOT_FOUND"} /\ heard.afm < Len(e.expect) -> NextMeasurement(t, heard)
        [] OTHER -> IF e.i3c /\ ~InSession(a) THEN Go(t, heard, "KEY_EXCHANGE")
                    ELSE Conclude(t, heard, "SUCCEEDED")

TakeMeasurement(e, t, a, req, m) ==
  LET r == MeasurementResult(e, a, req, m)
      heard == [a EXCEPT !.c = r.c, !.afm = IF r.is = "OK" THEN @ + 1 ELSE @]
  IN  CASE r.is \in {"INVALID_SIG", "GET_FAILED"} -> Conclude(t, heard, "MEASUREMENTS")
        [] r.is \in {"OK", "NOT_FOUND"} /\ heard.afm < Len(e.expect) -> NextMeasurement(t, heard)
        [] OTHER -> IF e.i3c /\ ~InSession(a) THEN Go(t, heard, "KEY_EXCHANGE")
                    ELSE Conclude(t, heard, "SUCCEEDED")

\* A wrong response and a wrong signature both leave ret at 0: the caller
\* goes on with a `mutualauth` that may never have been set.
TakeKeyExchange(e, t, a, req, m) ==
  LET i    == a.sess
      th1  == a.c.msgA \o <<CertHash(a.c.cert[0].digest), req, Bare(m)>>
      th2  == a.c.msgA \o <<CertHash(a.c.cert[0].digest), req, m>>
      good == Verifies(a.c, 0, m.sig, th1)
      met  == [t[i] EXCEPT !.id[2] = m.data[1], !.hb = m.p1 # 0,
                             !.ver = a.c.selected, !.dst = e.index]
      sess == IF good THEN [PrepareHandshake(met, th2) EXCEPT !.state = "KEY_EXCHANGED"]
              ELSE met
      next(x, mut) == Go(x.t, [x.a EXCEPT !.mut = mut],
                         IF mut = 4 THEN "ENCAP_DIGESTS" ELSE "FINISH")
      through == Outcome([t EXCEPT ![i] = sess],
                         [a EXCEPT !.c.th2 = IF good THEN th2 ELSE th1])
  IN  IF m = NoAnswer THEN {Conclude(t, a, "KEY_EXCHANGE")}
      ELSE IF m.code = "KEY_EXCHANGE_RSP" THEN {next(through, m.data[2])}
      ELSE {next(Outcome([t EXCEPT ![i] = [@ EXCEPT !.ver = a.c.selected, !.dst = e.index]], a), mut) : mut \in {0, 4}}

TakeEncapAck(t, a, req, m) ==
  CASE m.code # "ENCAP_RSP_ACK" -> Conclude(t, a, "MUTUAL_AUTH")
    [] m.code = "ENCAP_RSP_ACK" /\ m.data = <<>> -> Go(t, a, "FINISH")
    [] m.code = "ENCAP_RSP_ACK" /\ m.data # <<>> /\ m.data[1] = 127 ->
         Conclude(t, a, "MUTUAL_AUTH")                    \* an ERROR inside
    [] OTHER -> Go(t, [a EXCEPT !.slot = m.data[1], !.part = m.data[2]], "ENCAP_CERTIFICATE")

TakeFinish_NoChain(d, e, t, a, req, m) ==
  LET s    == t[a.fin]
      mut  == CapEnabled(a.c, "MUT_AUTH")
      mac  == [s.rspMac EXCEPT !.over = FinishRspMacOver(@, d.slots[0], req, mut)]
      sess == [GenSessionKeys(s, a.c.th2 \o <<req, m>>) EXCEPT
                 !.state = "ESTABLISHED", !.afm = e.index, !.old = FALSE, !.rspMac = NoMac,
                 !.flags = <<a.c.local, a.c.remote>>, !.leaf = a.c.cert[0].leaf,
                 !.msgA = a.c.msgA]
  IN  IF m.code # "FINISH_RSP" \/ m.mac # mac THEN Conclude(t, a, "FINISH")
      ELSE Go([t EXCEPT ![a.fin] = sess], a, "HEARTBEAT")

TakeFinish(d, e, t, a, req, m) ==
  LET s    == t[a.fin]
      mut  == CapEnabled(a.c, "MUT_AUTH")
      own  == d.slots[0]
      mac  == [s.rspMac EXCEPT !.over = FinishRspMacOver(@, own, req, mut)]
      th2  == a.c.th2 \o (IF mut THEN <<CertHash(own)>> ELSE <<>>) \o <<req, m>>
      sess == [GenSessionKeys(s, th2) EXCEPT
                 !.state = "ESTABLISHED", !.afm = e.index, !.old = FALSE, !.rspMac = NoMac,
                 !.flags = <<a.c.local, a.c.remote>>, !.leaf = a.c.cert[0].leaf,
                 !.msgA = a.c.msgA]
  IN  IF m.code # "FINISH_RSP" \/ m.mac # mac THEN Conclude(t, a, "FINISH")
      ELSE Go([t EXCEPT ![a.fin] = sess], a, "HEARTBEAT")

\* spdm_heartbeat: a lost request returns 0 with a response header that was
\* never written.
HeartbeatHeard(m) ==
  IF m = Unset THEN {TRUE, FALSE} ELSE {m.code = "HEARTBEAT_ACK"}

Take(d, e, t, a, req, m) ==
  CASE a.pc = "GET_VERSION"          -> {TakeVersion(t, a, req, m)}
    [] a.pc = "GET_CAPABILITIES"     -> {TakeCapabilities(t, a, req, m)}
    [] a.pc = "NEGOTIATE_ALGORITHMS" -> {TakeAlgorithms(t, a, req, m)}
    [] a.pc = "GET_DIGESTS"          -> {TakeDigests(t, a, req, m)}
    [] a.pc = "GET_CERTIFICATE"      -> {TakeCertificate(t, a, req, m)}
    [] a.pc = "CHALLENGE"            -> {TakeChallengeAuth(t, a, req, m)}
    [] a.pc \in {"TOTAL", "SESSION_TOTAL"}     -> {TakeTotal(e, t, a, req, m)}
    [] a.pc \in {"MEASURE", "SESSION_MEASURE"} -> {TakeMeasurement(e, t, a, req, m)}
    [] a.pc = "KEY_EXCHANGE"         -> TakeKeyExchange(e, t, a, req, m)
    [] a.pc \in {"ENCAP_DIGESTS", "ENCAP_CERTIFICATE"} -> {TakeEncapAck(t, a, req, m)}
    [] a.pc = "FINISH"               -> {TakeFinish(d, e, t, a, req, m)}
    [] OTHER -> {IF ok THEN Conclude(t, a, "SUCCEEDED") ELSE Conclude(t, a, "HEARTBEAT") :
                   ok \in HeartbeatHeard(m)}

\* The result when Issue could not build the request.
IssueFailed(t, a) ==
  Conclude(t, a, IF a.pc \in {"KEY_EXCHANGE", "FINISH", "HEARTBEAT"} THEN a.pc ELSE "MEASUREMENTS")
=============================================================================
