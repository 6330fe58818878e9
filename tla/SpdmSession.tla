----------------------------- MODULE SpdmSession -----------------------------
(***************************************************************************)
(* Messages, transcripts, the session table and the secured channel of the *)
(* SPDM code (src/apps/aspeed-pfr/src/SPDM).  Cryptography is symbolic: a  *)
(* hash is the sequence of messages hashed, a signature or a MAC is its    *)
(* key with what it covers, and a derived key is the secret and the        *)
(* transcript it was derived from.  A certificate chain is a number; its   *)
(* digest is that number, and the chain's root and owner are functions.    *)
(* Random data is left out: two key exchanges that are alive at one time   *)
(* differ in the session identifiers that both transcripts contain.        *)
(***************************************************************************)
EXTENDS Integers, Sequences, FiniteSets, FiniteSetsExt

CONSTANTS
  MaxSession,     \* SPDM_MAX_SESSION
  RekeyCount,     \* MAX_SESSION_REKEY_COUNT
  KeyEpochs,      \* bound: the generations of a traffic key told apart
  Slots,          \* the certificate slots, a prefix of 0..7
  ChainParts,     \* the portions a certificate chain is read in
  RootedChain,    \* the chains that verify up to a trusted root
  ChainOwner      \* chain -> the key its leaf certifies

ASSUME SpdmConstants ==
  /\ MaxSession \in Nat \ {0} /\ RekeyCount \in Nat \ {0, 1}
  /\ KeyEpochs \in Nat \ {0, 1} /\ ChainParts \in Nat \ {0, 1}
  /\ 0 \in Slots /\ Slots \subseteq 0..7
ASSUME SlotsFromZero == \E k \in 1..8 : Slots = 0..(k - 1)

----------------------------------------------------------------------------
(* Messages.  Every message has the same fields, so that transcripts of    *)
(* any messages can be compared.                                           *)

Unsigned == [key |-> 0, over |-> <<>>]
NoMac    == [key |-> <<>>, over |-> <<>>]

Msg(code, ver, p1, p2, data) ==
  [code |-> code, ver |-> ver, p1 |-> p1, p2 |-> p2, data |-> data,
   caps |-> {}, sig |-> Unsigned, mac |-> NoMac]

ErrorRsp(ver) == Msg("ERROR", ver, 7, 0, <<>>)      \* UNSUPPORTED_REQUEST
InvalidRsp(ver) == Msg("ERROR", ver, 1, 0, <<>>)    \* INVALID_REQUEST
Bare(m) == [m EXCEPT !.sig = Unsigned]              \* a message without its signature
CertHash(chain) == Msg("CERT_HASH", 0, 0, 0, <<chain>>)

----------------------------------------------------------------------------
(* One endpoint's context: `struct spdm_context`.  cert is                 *)
(* remote.certificate, enc the static variables of the encapsulated flow.  *)

NoCert == [digest |-> 0, data |-> 0, leaf |-> 0]

SpdmContextCreate(flags) ==
  [state |-> "NOT_READY", selected |-> 10,
   local |-> flags, remote |-> {}, msgA |-> <<>>, m1m2 |-> <<>>, l1l2 |-> <<>>,
   th2 |-> <<>>, mask |-> {}, cert |-> [s \in Slots |-> NoCert],
   enc |-> [slot |-> -1, offset |-> 0, first |-> TRUE]]

CapEnabled(c, cap) == cap \in c.local \cap c.remote

ResetM1M2(c) == [c EXCEPT !.m1m2 = <<>>]
UpdateM1M2(c, req, rsp) == [c EXCEPT !.m1m2 = @ \o <<req, Bare(rsp)>>]
ResetL1L2(c, ver) == [c EXCEPT !.l1l2 = IF ver = 12 THEN c.msgA ELSE <<>>]
UpdateL1L2(c, req, rsp) == [c EXCEPT !.l1l2 = @ \o <<req, Bare(rsp)>>]
\* VCA messages go to message_a and to M1M2 alike.
UpdateVca(c, req, rsp) ==
  UpdateM1M2([c EXCEPT !.msgA = @ \o <<req, rsp>>], req, rsp)

Sign(key, over) == [key |-> key, over |-> over]
\* spdm_crypto_verify: the public key is that of the leaf in the slot.
Verifies(c, slot, sig, over) ==
  c.cert[slot].leaf # 0 /\ sig = Sign(ChainOwner[c.cert[slot].leaf], over)

----------------------------------------------------------------------------
(* The session table, one per node: requester and responder share it.      *)

NoKey == [secret |-> <<>>, over |-> <<>>, dir |-> "REQ", epoch |-> 0]

EmptySession ==
  [valid |-> FALSE, id |-> <<0, 0>>, state |-> "NOT_READY", type |-> "RSP",
   afm |-> 0, hb |-> FALSE, old |-> FALSE, msgA |-> <<>>, secret |-> <<>>,
   reqMac |-> NoMac, rspMac |-> NoMac,
   key |-> [REQ |-> NoKey, RSP |-> NoKey], seq |-> [REQ |-> 0, RSP |-> 0],
   ver |-> 0, flags |-> <<{}, {}>>, leaf |-> 0, dst |-> 0]

InitSessionTable == [i \in 1..MaxSession |-> EmptySession]

Release_Invalid(t, i) == IF i = 0 THEN t ELSE [t EXCEPT ![i].valid = FALSE]
Release(t, i) == IF i = 0 THEN t ELSE [t EXCEPT ![i] = EmptySession]

\* `old` stands for last_access_time: more than two heartbeat periods ago.
Expired(s) == s.hb /\ s.old
First(S) == IF S = {} THEN 0 ELSE Min(S)

\* The slot to create a session in, 0 when the table is full.
GetFreeSessionSlot(t) == First({i \in DOMAIN t : ~t[i].valid \/ Expired(t[i])})

FindPendingSession(t) ==
  First({i \in DOMAIN t : t[i].valid /\ t[i].state # "ESTABLISHED"})

SpdmSessionCreate(t, i, type, reqId, rspId) ==
  [t EXCEPT ![i] = [EmptySession EXCEPT !.valid = TRUE, !.id = <<reqId, rspId>>,
                      !.state = "CHALLENGED", !.hb = TRUE, !.type = type]]

\* A lookup releases the session it finds expired, and then finds none.
Found(t, S) ==
  LET i == First(S)
  IN  IF i # 0 /\ Expired(t[i]) THEN [t |-> Release(t, i), i |-> 0]
                                ELSE [t |-> t, i |-> i]
SpdmSessionGet(t, id) == Found(t, {i \in DOMAIN t : t[i].valid /\ t[i].id = id})
SpdmSessionGetByIdx(t, idx) == Found(t, {i \in DOMAIN t : t[i].valid /\ t[i].afm = idx})

----------------------------------------------------------------------------
(* Key schedule.                                                           *)

DeriveKeys(s, over) ==
  [d \in {"REQ", "RSP"} |-> [secret |-> s.secret, over |-> over, dir |-> d, epoch |-> 0]]

\* spdm_compute_shared_data, spdm_prepare_handshake_data and
\* spdm_prepare_hmac_data: traffic keys of the handshake, and the two running
\* MACs, over everything up to the KEY_EXCHANGE_RSP with its signature.
PrepareHandshake(s, th1) ==
  LET fresh == [s EXCEPT !.secret = s.id]
      keys  == DeriveKeys(fresh, th1)
      mac(d) == [key |-> <<keys[d]>>, over |-> th1]
  IN  [fresh EXCEPT !.key = keys, !.reqMac = mac("REQ"), !.rspMac = mac("RSP")]

\* spdm_gen_session_key_iv for both directions.  It leaves the sequence numbers.
GenSessionKeys(s, th2) == [s EXCEPT !.key = DeriveKeys(s, th2)]

UpdateKey_SameKey(s, d) == [s EXCEPT !.seq[d] = 0]
\* spdm_update_key.
UpdateKey(s, d) ==
  [s EXCEPT !.key[d].epoch = (@ + 1) % KeyEpochs, !.seq[d] = 0]

(* FINISH: what the signature, the requester's MAC and the responder's MAC  *)
(* cover beyond the key exchange; `chain` is the requester's, when mutual. *)
FinishHeader(ver, p1) == Msg("FINISH", ver, p1, 0, <<>>)
\* What the requester's MAC covers beyond the key exchange.
FinishMacOver(over, chain, m, mut) ==
  over \o (IF mut THEN <<CertHash(chain), [m EXCEPT !.mac = NoMac]>>
                  ELSE <<FinishHeader(m.ver, m.p1)>>)
FinishRspMacOver(over, chain, m, mut) ==
  over \o (IF mut THEN <<CertHash(chain)>> ELSE <<>>)
       \o <<m, Msg("FINISH_RSP", m.ver, 0, 0, <<>>)>>

----------------------------------------------------------------------------
(* The secured channel.  A plain message carries NoSeal.                   *)

NoSeal == [on |-> FALSE, id |-> <<0, 0>>, key |-> NoKey, seq |-> 0]

Advance(s, d) ==
  LET n == [s EXCEPT !.seq[d] = @ + 1]
  IN  IF n.seq[d] >= RekeyCount THEN UpdateKey(n, d) ELSE n

Other(d) == IF d = "REQ" THEN "RSP" ELSE "REQ"

\* encrypt_secure_content: seal what this end sends in session `id`.
Encrypt(t, id, m) ==
  LET g == SpdmSessionGet(t, id)
      s == g.t[g.i]
      d == s.type
  IN  IF g.i = 0 THEN [ok |-> FALSE, t |-> g.t, seal |-> NoSeal]
      ELSE [ok   |-> TRUE,
            t    |-> IF m.code = "END_SESSION_ACK" THEN Release(g.t, g.i)
                     ELSE [g.t EXCEPT ![g.i] = [Advance(s, d) EXCEPT !.old = FALSE]],
            seal |-> [on |-> TRUE, id |-> id, key |-> s.key[d], seq |-> s.seq[d]]]

\* decrypt_secure_content: the sequence number advances before the tag is
\* checked, and the number in the header is not looked at.
Decrypt(t, seal) ==
  LET g  == SpdmSessionGet(t, seal.id)
      s  == g.t[g.i]
      d  == Other(s.type)
      ok == seal.key = s.key[d] /\ seal.seq = s.seq[d]
  IN  IF ~seal.on THEN [ok |-> FALSE, t |-> t]
      ELSE IF g.i = 0 THEN [ok |-> FALSE, t |-> g.t]
      ELSE [ok |-> ok,
            t  |-> [g.t EXCEPT ![g.i] =
                      [Advance(s, d) EXCEPT !.old = IF ok THEN FALSE ELSE @]]]
=============================================================================
