------------------------------ MODULE SpdmProofs ------------------------------
(***************************************************************************)
(* Proofs about SPDM attestation, for any number of nodes, sessions, slots  *)
(* and measurements: what the session table holds, that the two ends of a   *)
(* session agree on its keys, that no key seals two messages alike, and     *)
(* that no device passes that can be measured and is not what the AFM says. *)
(***************************************************************************)
EXTENDS SpdmSafety, SequenceTheorems, FiniteSetTheorems, WellFoundedInduction, TLAPS

-----------------------------------------------------------------------------
(* Types.                                                                   *)

Dirs == {"REQ", "RSP"}
Transcript(x) == x \in Seq({x[i] : i \in DOMAIN x})

ContextFields == {"state", "selected", "local", "remote", "msgA", "m1m2", "l1l2", "th2",
                  "mask", "cert", "enc"}
Context(c) ==
  /\ DOMAIN c = ContextFields
  /\ Transcript(c.msgA) /\ Transcript(c.th2)
  /\ DOMAIN c.cert = Slots /\ \A s \in Slots : DOMAIN c.cert[s] = {"digest", "data", "leaf"}
  /\ DOMAIN c.enc = {"slot", "offset", "first"}

SessionFields == {"valid", "id", "state", "type", "afm", "hb", "old", "msgA", "secret",
                  "reqMac", "rspMac", "key", "seq", "ver", "flags", "leaf", "dst"}
KeyFields == {"secret", "over", "dir", "epoch"}
Session(s) ==
  /\ DOMAIN s = SessionFields
  /\ s.valid \in BOOLEAN /\ s.type \in Dirs /\ s.id = <<s.id[1], s.id[2]>>
  /\ s.state \in {"NOT_READY", "CHALLENGED", "KEY_EXCHANGED", "ESTABLISHED"}
  /\ DOMAIN s.key = Dirs /\ DOMAIN s.seq = Dirs
  /\ \A d \in Dirs : /\ DOMAIN s.key[d] = KeyFields /\ s.key[d].epoch \in 0..(KeyEpochs - 1)
                     /\ s.key[d].dir \in Dirs /\ s.seq[d] \in Nat
  /\ Transcript(s.msgA)
Table(t) ==
  /\ DOMAIN t = 1..MaxSession
  /\ \A i \in 1..MaxSession : Session(t[i]) /\ (t[i].valid \/ t[i] = EmptySession)

\* The keys of a handshake over the transcript th, and the MAC it starts.
HandshakeKey(id, th, d) == [secret |-> id, over |-> th, dir |-> d, epoch |-> 0]
HandshakeMac(id, th, d) == [key |-> <<HandshakeKey(id, th, d)>>, over |-> th]

\* The secrets of a session are those of its identifier.
Shaken(s) ==
  /\ s.secret = s.id
  /\ s.rspMac = HandshakeMac(s.id, s.rspMac.over, "RSP")
  /\ s.reqMac \in {NoMac, HandshakeMac(s.id, s.rspMac.over, "REQ")}
Keyed(s) ==
  /\ s.state = "CHALLENGED" => s.reqMac = NoMac
  /\ s.state = "KEY_EXCHANGED" => Shaken(s)
  /\ s.state = "ESTABLISHED" => \A d \in Dirs : s.key[d].secret = s.id
  /\ \A d \in Dirs : s.key[d].secret = <<>> \/ (s.key[d].secret = s.id /\ s.key[d].dir = d)
  /\ \A d, e \in Dirs : s.key[d].secret = s.key[e].secret

\* Session i of a responder, and of an attester.
ServerSlot(d, i, s) ==
  s.valid => /\ s.type = "RSP" /\ s.state # "NOT_READY" /\ Keyed(s)
             /\ s.id[2] = d.base + i
ClientSlot(d, i, s) ==
  s.valid => /\ s.type = "REQ" /\ s.state # "NOT_READY" /\ Keyed(s)
             /\ s.id[1] = d.base + i
             /\ s.state # "CHALLENGED" => \E k \in DOMAIN d.afm : d.afm[k].index = s.dst
Attester(n) == Afm(n) # <<>>

-----------------------------------------------------------------------------
(* The nodes.                                                               *)

Early   == {"GET_VERSION", "GET_CAPABILITIES", "NEGOTIATE_ALGORITHMS", "GET_DIGESTS",
            "GET_CERTIFICATE", "CHALLENGE", "TOTAL", "MEASURE"}
Encap   == {"ENCAP_DIGESTS", "ENCAP_CERTIFICATE"}
Late    == {"HEARTBEAT", "KEEP_ALIVE", "SESSION_TOTAL", "SESSION_MEASURE"}
Pcs     == {"IDLE", "VERDICT", "KEY_EXCHANGE", "FINISH"} \cup Early \cup Encap \cup Late
AttFields == {"pc", "c", "slot", "part", "meas", "afm", "sess", "fin", "mut", "res", "dev"}
ChanFields == {"st", "req", "sealed", "m", "seal"}

\* An attestation whose session is made and not established yet.
Shaking(a, ch) ==
  \/ a.pc \in Encap \cup {"FINISH"}
  \/ a.pc = "KEY_EXCHANGE" /\ ch.st # "IDLE"

Attempt(a) == DOMAIN a = AttFields /\ Context(a.c) /\ a.res \in Results

\* The attestation a of a device d, with the table t and the channel ch.
AttesterOK(d, t, a, ch) ==
  /\ Attempt(a) /\ a.pc \in Pcs
  /\ a.pc # "IDLE" => a.dev \in DOMAIN d.afm
  /\ a.pc \in Early => a.sess = 0
  /\ a.pc = "KEY_EXCHANGE" /\ ch.st = "IDLE" => a.sess = 0
  /\ a.pc \in Late => a.sess \in 1..MaxSession
  /\ a.pc \in Late /\ t[a.sess].valid => t[a.sess].state = "ESTABLISHED"
  /\ \A i \in 1..MaxSession :
       t[i].valid /\ t[i].state # "ESTABLISHED" /\ d.afm # <<>> => Shaking(a, ch) /\ i = a.sess
  /\ Shaking(a, ch) => /\ a.sess \in 1..MaxSession /\ t[a.sess].valid
                       /\ t[a.sess].state \in {"CHALLENGED", "KEY_EXCHANGED"}
ChannelOK(a, ch) ==
  /\ DOMAIN ch = ChanFields
  /\ ch.st \in {"IDLE", "REQUEST", "RESPONSE", "LOST"}
  /\ a.pc \in {"IDLE", "VERDICT"} => ch.st = "IDLE"
  /\ ch.st # "IDLE" /\ ch.sealed => a.pc \in Late
  /\ ch.st = "REQUEST" =>
       /\ ch.m = ch.req /\ ch.m.code # "PSK_EXCHANGE"
       /\ ch.m.code = "KEY_EXCHANGE" => a.pc = "KEY_EXCHANGE"
       /\ ch.m.code = "FINISH" => a.pc = "FINISH"
       /\ ch.seal.on => ch.sealed /\ ch.seal.key.secret # <<>>

DevInv ==
  /\ dev \in [Nodes -> Devices]
  /\ \A n \in Nodes : \A k \in DOMAIN Afm(n) : dev[Afm(n)[k].peer].afm = <<>>
  /\ \A n, q \in Nodes, i, j \in 1..MaxSession :
       /\ dev[n].base + i = dev[q].base + j => n = q
       /\ dev[n].base + i # ForeignId

ServerTable(d, t) == Table(t) /\ \A i \in 1..MaxSession : ServerSlot(d, i, t[i])
ClientTable(d, t) == Table(t) /\ \A i \in 1..MaxSession : ClientSlot(d, i, t[i])
TableInv ==
  /\ DOMAIN tab = Nodes
  /\ \A n \in Nodes : IF Attester(n) THEN ClientTable(dev[n], tab[n]) ELSE ServerTable(dev[n], tab[n])

ResponderInv ==
  /\ DOMAIN rctx = Nodes
  /\ \A n \in Nodes :
       /\ Context(rctx[n])
       /\ Attester(n) => rctx[n].state \in {"NOT_READY", "GOT_VERSION"}

AttesterInv ==
  /\ DOMAIN att = Nodes /\ DOMAIN chan = Nodes
  /\ \A n \in Nodes : AttesterOK(dev[n], tab[n], att[n], chan[n]) /\ ChannelOK(att[n], chan[n])

ThreadInv ==
  /\ DOMAIN evt = Nodes /\ DOMAIN thread = Nodes
  /\ \A n \in Nodes : /\ evt[n] \subseteq {"T0", "TICK", "T0_I3C", "ATTESTED_CPU"}
                      /\ DOMAIN thread[n] = {"at", "k", "count"} /\ thread[n].k \in Nat \ {0}

-----------------------------------------------------------------------------
(* The handshake of node n: until its FINISH is answered no responder has   *)
(* established a session of that identifier, and the one that answers it     *)
(* has the transcript of its answer.                                         *)

Served(D, T, q, j, id) ==
  /\ D[q].afm = <<>> /\ T[q][j].valid /\ T[q][j].state = "ESTABLISHED" /\ T[q][j].id = id
NotServed(D, T, id) == \A q \in Nodes, j \in 1..MaxSession : ~Served(D, T, q, j, id)

\* The certificate in between, when authentication is mutual.
Between(d, a) == IF CapEnabled(a.c, "MUT_AUTH") THEN <<CertHash(d.slots[0])>> ELSE <<>>
FinishRspOf(m) == Msg("FINISH_RSP", m.ver, 0, 0, <<>>)
AnsweredWith(s, id, th, cert, req, m) ==
  m.mac = [key |-> <<HandshakeKey(id, th, "RSP")>>, over |-> th \o cert \o <<req, FinishRspOf(req)>>]
    => \A x \in Dirs : s.key[x].over = th \o cert \o <<req, m>>

\* Node n of the devices D, with the tables T, its attestation a and channel ch.
KeyExchangeOK(D, T, n, a, ch) ==
  LET s == T[n][a.sess]
      id1 == D[n].base + a.sess
  IN  a.pc = "KEY_EXCHANGE" /\ ch.st # "IDLE" =>
        /\ s.state = "CHALLENGED" /\ s.id = <<id1, 0>>
        /\ \A x \in Dirs : s.key[x].secret = <<>>
        /\ ch.st = "REQUEST" => ch.m.data = <<id1>>
        /\ ch.st = "RESPONSE" /\ ch.m.code = "KEY_EXCHANGE_RSP" => NotServed(D, T, <<id1, ch.m.data[1]>>)

\* FINISH is on its way for the session s.
FinishSent(d, s, a, m) ==
  /\ m.code = "FINISH" /\ m.p1 = 1
  /\ m.sig.over = a.c.th2 \o <<CertHash(d.slots[0]), FinishHeader(m.ver, 1)>>
  /\ m.mac.key = <<HandshakeKey(s.id, a.c.th2, "REQ")>>
FinishOK(D, T, n, a, ch) ==
  LET s == T[n][a.sess]
  IN  a.pc \in Encap \cup {"FINISH"} =>
        /\ ch.st \in {"IDLE", "REQUEST"} \/ a.pc # "FINISH" => NotServed(D, T, s.id)
        /\ s.state = "KEY_EXCHANGED" => s.rspMac.over = a.c.th2
        /\ a.pc = "FINISH" /\ ch.st # "IDLE" =>
             /\ a.fin = a.sess /\ s.state = "KEY_EXCHANGED"
             /\ ch.st = "REQUEST" => FinishSent(D[n], s, a, ch.m)
             /\ ch.st = "RESPONSE" /\ ch.m.code = "FINISH_RSP" =>
                  \A q \in Nodes, j \in 1..MaxSession : Served(D, T, q, j, s.id) =>
                    AnsweredWith(T[q][j], s.id, a.c.th2, Between(D[n], a), ch.req, ch.m)

HandOK(D, T, n, a, ch) == KeyExchangeOK(D, T, n, a, ch) /\ FinishOK(D, T, n, a, ch)
HandshakeInv == \A n \in Nodes : HandOK(dev, tab, n, att[n], chan[n])

TypesInv == DevInv /\ TableInv /\ ResponderInv /\ AttesterInv /\ ThreadInv
AgreeInv == TypesInv /\ HandshakeInv /\ SessionKeysAgree

-----------------------------------------------------------------------------
(* The session table.                                                       *)

\* A set of natural numbers that is not empty has a least element, and Min is it.
LEMMA LeastElement ==
  ASSUME NEW T, T \subseteq Nat, T # {}
  PROVE  Min(T) \in T /\ \A y \in T : Min(T) <= y
  <1> DEFINE less == OpToRel(<, Nat)
  <1>1. IsWellFoundedOn(less, Nat)
    BY NatLessThanWellFounded
  <1>2. \A x, y \in Nat : <<y, x>> \in less <=> y < x
    BY DEF OpToRel
  <1> HIDE DEF less
  <1>3. PICK x \in T : \A y \in T : ~(<<y, x>> \in less)
    BY <1>1, WFMin
  <1>4. ASSUME NEW y \in T PROVE x <= y
    <2>1. x \in Nat /\ y \in Nat /\ ~(y < x)
      BY <1>2, <1>3
    <2> QED
      BY <2>1
  <1> QED
    BY <1>4 DEF Min

\* First finds a session, if there is one.
LEMMA FirstOf ==
  ASSUME NEW S, S \subseteq 1..MaxSession
  PROVE  /\ S = {} => First(S) = 0
         /\ S # {} => First(S) \in S
         /\ First(S) \in 0..MaxSession
  <1>1. S # {} => First(S) \in S
    <2>1. S \subseteq Nat
      BY SpdmConstants
    <2> QED
      BY <2>1, LeastElement DEF First
  <1>2. S = {} => First(S) = 0
    BY DEF First
  <1>3. \A x \in 1..MaxSession : x \in 0..MaxSession
    BY SpdmConstants
  <1>4. 0 \in 0..MaxSession
    BY SpdmConstants
  <1>5. First(S) \in 0..MaxSession
    BY <1>1, <1>2, <1>3, <1>4
  <1> QED
    BY <1>1, <1>2, <1>5

\* A session through which messages went: keys advance, all else stays.
Moved(s, s2) ==
  /\ Session(s2)
  /\ \A f \in SessionFields \ {"key", "seq", "old"} : s2[f] = s[f]
  /\ \A d \in Dirs : /\ s2.key[d].secret = s.key[d].secret /\ s2.key[d].over = s.key[d].over
                     /\ s2.key[d].dir = s.key[d].dir
TableMoved(t, t2) ==
  Table(t2) /\ \A i \in 1..MaxSession : t2[i] = EmptySession \/ Moved(t[i], t2[i])

LEMMA EmptyIsSession == Session(EmptySession)
  <1>1. Transcript(<<>>)
    BY DEF Transcript
  <1> QED
    BY <1>1, SpdmConstants DEF Session, EmptySession, SessionFields, Dirs, KeyFields, NoKey

LEMMA MovedReflexive ==
  ASSUME NEW t, Table(t)
  PROVE  TableMoved(t, t)
  BY DEF TableMoved, Moved, Table

LEMMA MovedTransitive ==
  ASSUME NEW t, NEW u, NEW v, TableMoved(t, u), TableMoved(u, v)
  PROVE  TableMoved(t, v)
  <1>1. ASSUME NEW i \in 1..MaxSession, v[i] # EmptySession, Moved(u[i], v[i])
        PROVE  Moved(t[i], v[i])
    <2>1. CASE Moved(t[i], u[i])
      BY <1>1, <2>1 DEF Moved
    <2>2. CASE u[i] = EmptySession
      <3>1. v[i].valid = FALSE
        BY <1>1, <2>2 DEF Moved, EmptySession, SessionFields
      <3> QED
        BY <1>1, <3>1 DEF TableMoved, Table
    <2> QED
      BY <2>1, <2>2 DEF TableMoved
  <1> QED
    BY <1>1 DEF TableMoved

\* One session moved, the others left.
LEMMA SlotMoved ==
  ASSUME NEW t, Table(t), NEW i \in 1..MaxSession, NEW s, Moved(t[i], s), t[i].valid
  PROVE  TableMoved(t, [t EXCEPT ![i] = s])
  <1>1. s.valid
    BY DEF Moved, SessionFields
  <1> QED
    BY <1>1 DEF TableMoved, Table, Moved

LEMMA ReleaseMoved ==
  ASSUME NEW t, Table(t), NEW i \in 0..MaxSession
  PROVE  TableMoved(t, Release(t, i))
  BY MovedReflexive, EmptyIsSession DEF Release, TableMoved, Table, Moved

LEMMA FoundMoved ==
  ASSUME NEW t, Table(t), NEW S, S \subseteq 1..MaxSession
  PROVE  LET g == Found(t, S)
         IN  /\ TableMoved(t, g.t) /\ g.i \in 0..MaxSession
             /\ g.i # 0 => g.t = t /\ g.i \in S
  BY FirstOf, ReleaseMoved, MovedReflexive DEF Found

LEMMA GetMoved ==
  ASSUME NEW t, Table(t), NEW id
  PROVE  LET g == SpdmSessionGet(t, id)
         IN  /\ TableMoved(t, g.t) /\ g.i \in 0..MaxSession
             /\ g.i # 0 => g.t = t /\ t[g.i].valid /\ t[g.i].id = id
  <1> DEFINE S == {i \in DOMAIN t : t[i].valid /\ t[i].id = id}
  <1>1. S \subseteq 1..MaxSession
    BY DEF Table
  <1>2. \A i \in S : t[i].valid /\ t[i].id = id
    OBVIOUS
  <1>3. SpdmSessionGet(t, id) = Found(t, S)
    BY DEF SpdmSessionGet
  <1> HIDE DEF S
  <1>4. /\ TableMoved(t, Found(t, S).t) /\ Found(t, S).i \in 0..MaxSession
        /\ Found(t, S).i # 0 => Found(t, S).t = t /\ Found(t, S).i \in S
    BY <1>1, FoundMoved
  <1> QED
    BY <1>2, <1>3, <1>4

LEMMA GetByIdxMoved ==
  ASSUME NEW t, Table(t), NEW idx
  PROVE  LET g == SpdmSessionGetByIdx(t, idx)
         IN  /\ TableMoved(t, g.t) /\ g.i \in 0..MaxSession
             /\ g.i # 0 => g.t = t /\ t[g.i].valid /\ t[g.i].afm = idx
  <1> DEFINE S == {i \in DOMAIN t : t[i].valid /\ t[i].afm = idx}
  <1>1. S \subseteq 1..MaxSession
    BY DEF Table
  <1>2. \A i \in S : t[i].valid /\ t[i].afm = idx
    OBVIOUS
  <1>3. SpdmSessionGetByIdx(t, idx) = Found(t, S)
    BY DEF SpdmSessionGetByIdx
  <1> HIDE DEF S
  <1>4. /\ TableMoved(t, Found(t, S).t) /\ Found(t, S).i \in 0..MaxSession
        /\ Found(t, S).i # 0 => Found(t, S).t = t /\ Found(t, S).i \in S
    BY <1>1, FoundMoved
  <1> QED
    BY <1>2, <1>3, <1>4

\* The next generation of a key is another one.
LEMMA NextEpoch ==
  ASSUME NEW e \in 0..(KeyEpochs - 1)
  PROVE  (e + 1) % KeyEpochs \in 0..(KeyEpochs - 1) /\ (e + 1) % KeyEpochs # e
  <1>1. CASE e + 1 = KeyEpochs
    <2>1. (e + 1) % KeyEpochs = 0
      BY <1>1, SpdmConstants
    <2> QED
      BY <1>1, <2>1, SpdmConstants
  <1>2. CASE e + 1 < KeyEpochs
    <2>1. (e + 1) % KeyEpochs = e + 1
      BY <1>2, SpdmConstants
    <2> QED
      BY <1>2, <2>1, SpdmConstants
  <1> QED
    BY <1>1, <1>2, SpdmConstants

LEMMA UpdateKeyMoved ==
  ASSUME NEW s, Session(s), NEW d \in Dirs
  PROVE  /\ Moved(s, UpdateKey(s, d))
         /\ UpdateKey(s, d).seq[d] = 0 /\ UpdateKey(s, d).key[d] # s.key[d]
  <1> DEFINE u == UpdateKey(s, d)
  <1>1. /\ DOMAIN u = SessionFields /\ \A f \in SessionFields \ {"key", "seq"} : u[f] = s[f]
        /\ u.key = [s.key EXCEPT ![d].epoch = (@ + 1) % KeyEpochs]
        /\ u.seq = [s.seq EXCEPT ![d] = 0]
    BY DEF UpdateKey, Session, SessionFields
  <1>2. \A x \in Dirs : DOMAIN u.key[x] = KeyFields /\ u.seq[x] \in Nat
    BY <1>1 DEF Session
  <1>3. \A x \in Dirs : \A f \in KeyFields \ {"epoch"} : u.key[x][f] = s.key[x][f]
    BY <1>1 DEF Session, KeyFields
  <1>4. \A x \in Dirs : u.key[x].epoch = IF x = d THEN (s.key[x].epoch + 1) % KeyEpochs ELSE s.key[x].epoch
    BY <1>1 DEF Session, KeyFields
  <1>5. \A x \in Dirs : u.key[x].epoch \in 0..(KeyEpochs - 1)
    BY <1>4, NextEpoch DEF Session
  <1>6. DOMAIN u.key = Dirs /\ DOMAIN u.seq = Dirs /\ u.seq[d] = 0
    BY <1>1 DEF Session
  <1>7. u.key[d] # s.key[d]
    BY <1>4, NextEpoch DEF Session
  <1> HIDE DEF u
  <1>8. Moved(s, u)
    BY <1>1, <1>2, <1>3, <1>5, <1>6 DEF Moved, Session, SessionFields, KeyFields
  <1> QED
    BY <1>6, <1>7, <1>8 DEF u

LEMMA AdvanceMoved ==
  ASSUME NEW s, Session(s), NEW d \in Dirs
  PROVE  /\ Moved(s, Advance(s, d))
         /\ Advance(s, d).key[d] # s.key[d] \/ Advance(s, d).seq[d] > s.seq[d]
  <1> DEFINE n == [s EXCEPT !.seq[d] = @ + 1]
  <1>1. /\ DOMAIN n = SessionFields /\ \A f \in SessionFields \ {"seq"} : n[f] = s[f]
        /\ n.seq = [s.seq EXCEPT ![d] = @ + 1]
    BY DEF Session, SessionFields
  <1>2. \A x \in Dirs : n.seq[x] \in Nat
    BY <1>1 DEF Session
  <1>3. DOMAIN n.seq = Dirs /\ n.seq[d] = s.seq[d] + 1
    BY <1>1 DEF Session
  <1>4. Advance(s, d) = IF n.seq[d] >= RekeyCount THEN UpdateKey(n, d) ELSE n
    BY DEF Advance
  <1> HIDE DEF n
  <1>5. Session(n) /\ Moved(s, n) /\ n.key = s.key
    BY <1>1, <1>2, <1>3 DEF Session, SessionFields, Moved
  <1>6. Moved(n, UpdateKey(n, d)) /\ UpdateKey(n, d).key[d] # n.key[d]
    BY <1>5, UpdateKeyMoved
  <1>7. Moved(s, UpdateKey(n, d))
    BY <1>5, <1>6 DEF Moved
  <1>8. n.seq[d] > s.seq[d]
    BY <1>3 DEF Session
  <1> QED
    BY <1>4, <1>5, <1>6, <1>7, <1>8

\* The same session with another time stamp.
LEMMA OldMoved ==
  ASSUME NEW s, Session(s), NEW x
  PROVE  /\ Moved(s, [s EXCEPT !.old = x])
         /\ [s EXCEPT !.old = x].key = s.key /\ [s EXCEPT !.old = x].seq = s.seq
  BY DEF Moved, Session, SessionFields

LEMMA AdvanceOldMoved ==
  ASSUME NEW s, Session(s), NEW d \in Dirs, NEW x
  PROVE  LET u == [Advance(s, d) EXCEPT !.old = x]
         IN  Moved(s, u) /\ (u.key[d] # s.key[d] \/ u.seq[d] > s.seq[d])
  <1> DEFINE v == Advance(s, d)
             u == [v EXCEPT !.old = x]
  <1>1. Moved(s, v) /\ (v.key[d] # s.key[d] \/ v.seq[d] > s.seq[d])
    BY AdvanceMoved
  <1> HIDE DEF v
  <1>2. Moved(v, u) /\ u.key = v.key /\ u.seq = v.seq
    BY <1>1, OldMoved DEF Moved
  <1>3. Moved(s, u)
    BY <1>1, <1>2 DEF Moved
  <1> HIDE DEF u
  <1> QED
    BY <1>1, <1>2, <1>3 DEF u, v

LEMMA OtherDir == \A d \in Dirs : Other(d) \in Dirs
  BY DEF Other, Dirs

\* What is sealed takes the key and the number of its session, and uses them up.
Sealed(t, id, x) ==
  \E i \in 1..MaxSession :
    LET d == t[i].type
    IN  /\ t[i].valid /\ t[i].id = id
        /\ x.seal.key = t[i].key[d] /\ x.seal.seq = t[i].seq[d]
        /\ \A j \in 1..MaxSession \ {i} : x.t[j] = t[j]
        /\ \/ x.t[i] = EmptySession
           \/ x.t[i].key[d] # t[i].key[d] \/ x.t[i].seq[d] > t[i].seq[d]

LEMMA SealedSame ==
  ASSUME NEW t, NEW id, NEW x, NEW y, y.t = x.t, y.seal = x.seal, Sealed(t, id, x)
  PROVE  Sealed(t, id, y)
  <1>1. PICK i \in 1..MaxSession :
          /\ t[i].valid /\ t[i].id = id
          /\ x.seal.key = t[i].key[t[i].type] /\ x.seal.seq = t[i].seq[t[i].type]
          /\ \A j \in 1..MaxSession \ {i} : x.t[j] = t[j]
          /\ \/ x.t[i] = EmptySession
             \/ x.t[i].key[t[i].type] # t[i].key[t[i].type]
             \/ x.t[i].seq[t[i].type] > t[i].seq[t[i].type]
    BY Zenon DEF Sealed
  <1>2. /\ t[i].valid /\ t[i].id = id
        /\ y.seal.key = t[i].key[t[i].type] /\ y.seal.seq = t[i].seq[t[i].type]
        /\ \A j \in 1..MaxSession \ {i} : y.t[j] = t[j]
        /\ \/ y.t[i] = EmptySession
           \/ y.t[i].key[t[i].type] # t[i].key[t[i].type]
           \/ y.t[i].seq[t[i].type] > t[i].seq[t[i].type]
    BY <1>1
  <1> QED
    BY <1>2, Zenon DEF Sealed

LEMMA EncryptMoved ==
  ASSUME NEW t, Table(t), NEW id, NEW m
  PROVE  LET x == Encrypt(t, id, m)
         IN  /\ TableMoved(t, x.t) /\ x.ok \in BOOLEAN
             /\ x.seal.on \in BOOLEAN /\ x.seal.on => Sealed(t, id, x)
  <1> DEFINE g == SpdmSessionGet(t, id)
             s == t[g.i]
             d == s.type
             u == [Advance(s, d) EXCEPT !.old = FALSE]
             x == Encrypt(t, id, m)
  <1>1. /\ TableMoved(t, g.t) /\ g.i \in 0..MaxSession
        /\ g.i # 0 => g.t = t /\ t[g.i].valid /\ t[g.i].id = id
    BY GetMoved
  <1>2. CASE g.i = 0
    <2>1. x = [ok |-> FALSE, t |-> g.t, seal |-> NoSeal]
      BY <1>2 DEF Encrypt
    <2> QED
      BY <1>1, <2>1 DEF NoSeal
  <1>3. CASE g.i # 0
    <2>1. /\ x.ok = TRUE /\ x.seal = [on |-> TRUE, id |-> id, key |-> s.key[d], seq |-> s.seq[d]]
          /\ x.t = IF m.code = "END_SESSION_ACK" THEN Release(t, g.i) ELSE [t EXCEPT ![g.i] = u]
      BY <1>1, <1>3 DEF Encrypt
    <2>2. g.i \in 1..MaxSession /\ Session(s) /\ d \in Dirs
      <3> HIDE DEF g, x
      <3>1. g.i \in 1..MaxSession
        BY <1>1, <1>3, SpdmConstants
      <3> QED
        BY <3>1 DEF Table, Session
    <2>3. Moved(s, u) /\ (u.key[d] # s.key[d] \/ u.seq[d] > s.seq[d])
      BY <2>2, AdvanceOldMoved
    <2> HIDE DEF g, x
    <2> HIDE DEF u
    <2>4. TableMoved(t, [t EXCEPT ![g.i] = u])
      BY <1>1, <1>3, <2>2, <2>3, SlotMoved
    <2>5. TableMoved(t, Release(t, g.i))
      BY <1>1, ReleaseMoved
    <2>6. DOMAIN t = 1..MaxSession
      BY DEF Table
    <2>7. Sealed(t, id, x)
      <3>1. \A j \in 1..MaxSession \ {g.i} : x.t[j] = t[j]
        BY <2>1, <2>2, <2>6 DEF Release
      <3>2. x.t[g.i] = EmptySession \/ x.t[g.i] = u
        BY <2>1, <2>2, <2>6 DEF Release
      <3>3. x.seal.key = s.key[d] /\ x.seal.seq = s.seq[d]
        BY <2>1
      <3>4. t[g.i].valid /\ t[g.i].id = id
        BY <1>1, <1>3
      <3> QED
        BY <2>2, <2>3, <3>1, <3>2, <3>3, <3>4 DEF Sealed
    <2> QED
      BY <2>1, <2>4, <2>5, <2>7 DEF x
  <1> QED
    BY <1>2, <1>3

LEMMA DecryptMoved ==
  ASSUME NEW t, Table(t), NEW seal
  PROVE  TableMoved(t, Decrypt(t, seal).t)
  <1> DEFINE g == SpdmSessionGet(t, seal.id)
             s == t[g.i]
             d == Other(s.type)
             u(o) == [Advance(s, d) EXCEPT !.old = o]
             ok == seal.key = s.key[d] /\ seal.seq = s.seq[d]
             x == Decrypt(t, seal)
  <1>1. /\ TableMoved(t, g.t) /\ g.i \in 0..MaxSession
        /\ g.i # 0 => g.t = t /\ t[g.i].valid
    BY GetMoved
  <1>2. CASE ~seal.on
    BY <1>2, MovedReflexive DEF Decrypt
  <1>3. CASE seal.on /\ g.i = 0
    BY <1>1, <1>3 DEF Decrypt
  <1>4. CASE seal.on /\ g.i # 0
    <2>1. g.i \in 1..MaxSession /\ Session(s) /\ d \in Dirs
      <3> HIDE DEF g, x
      <3>1. g.i \in 1..MaxSession
        BY <1>1, <1>4, SpdmConstants
      <3> QED
        BY <3>1, OtherDir DEF Table, Session
    <2>2. x.t = [t EXCEPT ![g.i] = [Advance(s, d) EXCEPT !.old = IF ok THEN FALSE ELSE @]]
      BY <1>1, <1>4 DEF Decrypt
    <2>3. x.t = [t EXCEPT ![g.i] = u(IF ok THEN FALSE ELSE Advance(s, d).old)]
      BY <2>2
    <2>4. \A o : Moved(s, u(o))
      BY <2>1, AdvanceOldMoved
    <2> HIDE DEF u, g, x, ok
    <2>5. \A o : TableMoved(t, [t EXCEPT ![g.i] = u(o)])
      BY <1>1, <1>4, <2>1, <2>4, SlotMoved
    <2> QED
      BY <2>3, <2>5 DEF x
  <1> QED
    BY <1>2, <1>3, <1>4

-----------------------------------------------------------------------------
(* Transcripts.                                                             *)

LEMMA TranscriptParts ==
  ASSUME NEW x, NEW y, Transcript(x), Transcript(y)
  PROVE  /\ Transcript(x \o y) /\ Len(x) \in Nat /\ Len(y) \in Nat
         /\ Len(x \o y) = Len(x) + Len(y)
         /\ \A i \in 1..Len(x) : (x \o y)[i] = x[i]
         /\ \A i \in 1..Len(y) : (x \o y)[Len(x) + i] = y[i]
  <1> DEFINE T == {x[i] : i \in DOMAIN x} \cup {y[i] : i \in DOMAIN y}
             z == x \o y
  <1>1. x \in Seq(T) /\ y \in Seq(T)
    <2>1. x \in Seq({x[i] : i \in DOMAIN x}) /\ y \in Seq({y[i] : i \in DOMAIN y})
      BY DEF Transcript
    <2> QED
      BY <2>1, SeqMonotonic
  <1> HIDE DEF T
  <1>2. /\ z \in Seq(T) /\ Len(z) = Len(x) + Len(y)
        /\ \A i \in 1 .. Len(x) + Len(y) : z[i] = IF i <= Len(x) THEN x[i] ELSE y[i - Len(x)]
    BY <1>1, ConcatProperties
  <1>3. Len(x) \in Nat /\ Len(y) \in Nat
    BY <1>1, LenProperties
  <1> HIDE DEF z
  <1>4. Transcript(z)
    <2>1. DOMAIN z = 1..Len(z) /\ z \in [1..Len(z) -> T] /\ Len(z) \in Nat
      BY <1>2, LenProperties
    <2>2. z \in [1..Len(z) -> {z[i] : i \in DOMAIN z}]
      BY <2>1
    <2>3. z \in Seq({z[i] : i \in DOMAIN z})
      BY <2>1, <2>2
    <2> QED
      BY <2>3 DEF Transcript
  <1>5. \A i \in 1..Len(x) : z[i] = x[i]
    BY <1>2, <1>3
  <1>6. \A i \in 1..Len(y) : z[Len(x) + i] = y[i]
    <2> TAKE i \in 1..Len(y)
    <2>1. Len(x) + i \in 1 .. Len(x) + Len(y) /\ ~(Len(x) + i <= Len(x)) /\ Len(x) + i - Len(x) = i
      BY <1>3
    <2> QED
      BY <1>2, <2>1
  <1> QED
    BY <1>2, <1>3, <1>4, <1>5, <1>6 DEF z

LEMMA TranscriptOf ==
  /\ Transcript(<<>>) /\ Len(<<>>) = 0
  /\ \A a : Transcript(<<a>>) /\ Len(<<a>>) = 1
  /\ \A a, b : Transcript(<<a, b>>) /\ Len(<<a, b>>) = 2
  /\ \A a, b, c : Transcript(<<a, b, c>>) /\ Len(<<a, b, c>>) = 3
  <1>1. ASSUME NEW a PROVE Transcript(<<a>>) /\ Len(<<a>>) = 1
    <2>1. {<<a>>[i] : i \in DOMAIN <<a>>} = {a}
      OBVIOUS
    <2> QED
      BY <2>1 DEF Transcript
  <1>2. ASSUME NEW a, NEW b PROVE Transcript(<<a, b>>) /\ Len(<<a, b>>) = 2
    <2>1. {<<a, b>>[i] : i \in DOMAIN <<a, b>>} = {a, b}
      OBVIOUS
    <2> QED
      BY <2>1 DEF Transcript
  <1>3. ASSUME NEW a, NEW b, NEW c PROVE Transcript(<<a, b, c>>) /\ Len(<<a, b, c>>) = 3
    <2>1. {<<a, b, c>>[i] : i \in DOMAIN <<a, b, c>>} = {a, b, c}
      OBVIOUS
    <2> QED
      BY <2>1 DEF Transcript
  <1> QED
    BY <1>1, <1>2, <1>3 DEF Transcript

\* Transcripts that end alike in length are equal part by part.
LEMMA SamePrefix ==
  ASSUME NEW x, NEW y, NEW u, NEW v, Transcript(x), Transcript(y), Transcript(u), Transcript(v),
         Len(u) = Len(v), x \o u = y \o v
  PROVE  x = y /\ u = v
  <1>1. /\ Len(x) \in Nat /\ Len(u) \in Nat /\ Len(y) \in Nat
        /\ Len(x \o u) = Len(x) + Len(u)
        /\ \A i \in 1..Len(x) : (x \o u)[i] = x[i]
        /\ \A i \in 1..Len(u) : (x \o u)[Len(x) + i] = u[i]
    BY TranscriptParts, SMTT(20)
  <1>2. /\ Len(y \o v) = Len(y) + Len(v)
        /\ \A i \in 1..Len(y) : (y \o v)[i] = y[i]
        /\ \A i \in 1..Len(v) : (y \o v)[Len(y) + i] = v[i]
    BY TranscriptParts
  <1>3. Len(x) = Len(y)
    BY <1>1, <1>2
  <1>4. \A i \in 1..Len(x) : x[i] = y[i]
    BY <1>1, <1>2, <1>3
  <1>5. \A i \in 1..Len(u) : u[i] = v[i]
    BY <1>1, <1>2, <1>3
  <1> DEFINE T == {x[i] : i \in DOMAIN x} \cup {y[i] : i \in DOMAIN y}
             U == {u[i] : i \in DOMAIN u} \cup {v[i] : i \in DOMAIN v}
  <1>6. x \in Seq(T) /\ y \in Seq(T) /\ u \in Seq(U) /\ v \in Seq(U)
    <2>1. /\ x \in Seq({x[i] : i \in DOMAIN x}) /\ y \in Seq({y[i] : i \in DOMAIN y})
          /\ u \in Seq({u[i] : i \in DOMAIN u}) /\ v \in Seq({v[i] : i \in DOMAIN v})
      BY DEF Transcript
    <2> QED
      BY <2>1, SeqMonotonic
  <1> HIDE DEF T, U
  <1> QED
    BY <1>3, <1>4, <1>5, <1>6, SeqEqual

-----------------------------------------------------------------------------
(* The responder's handlers.                                                *)

\* A result that leaves the sessions alone.
Quiet(r, t) ==
  /\ DOMAIN r = {"ret", "c", "t", "rsp"} /\ Context(r.c) /\ r.t = t
  /\ r.rsp.code # "KEY_EXCHANGE_RSP"

LEMMA DoneQuiet ==
  ASSUME NEW ret, NEW c, Context(c), NEW t, NEW rsp, rsp.code # "KEY_EXCHANGE_RSP"
  PROVE  Quiet(Done(ret, c, t, rsp), t)
  BY DEF Done, Quiet

LEMMA TranscriptPair ==
  ASSUME NEW x, Transcript(x), NEW a, NEW b
  PROVE  Transcript(x \o <<a, b>>)
  BY TranscriptParts, TranscriptOf

\* Changes of a context that keep it one.
LEMMA ContextKept ==
  ASSUME NEW c, Context(c), NEW x
  PROVE  /\ Context([c EXCEPT !.m1m2 = x]) /\ Context([c EXCEPT !.l1l2 = x])
         /\ Context([c EXCEPT !.state = x]) /\ Context([c EXCEPT !.remote = x])
         /\ Context([c EXCEPT !.selected = x]) /\ Context([c EXCEPT !.mask = x])
         /\ Transcript(x) => Context([c EXCEPT !.th2 = x]) /\ Context([c EXCEPT !.msgA = x])
  BY DEF Context, ContextFields

LEMMA ContextTranscripts ==
  ASSUME NEW c, Context(c), NEW req, NEW rsp, NEW ver
  PROVE  /\ Context(ResetM1M2(c)) /\ Context(ResetL1L2(c, ver))
         /\ Context(UpdateM1M2(c, req, rsp)) /\ Context(UpdateL1L2(c, req, rsp))
         /\ Context(UpdateVca(c, req, rsp))
  <1>1. \A b : Context(b) => Context(UpdateM1M2(b, req, rsp)) /\ Context(UpdateL1L2(b, req, rsp))
    BY ContextKept DEF UpdateM1M2, UpdateL1L2
  <1>2. Context([c EXCEPT !.msgA = @ \o <<req, rsp>>])
    BY ContextKept, TranscriptPair DEF Context
  <1>3. Context(ResetM1M2(c)) /\ Context(ResetL1L2(c, ver))
    BY ContextKept DEF ResetM1M2, ResetL1L2
  <1> QED
    BY <1>1, <1>2, <1>3 DEF UpdateVca

LEMMA CertKept ==
  ASSUME NEW c, Context(c), NEW s, NEW x, NEW y
  PROVE  /\ Context([c EXCEPT !.cert[s].data = x]) /\ Context([c EXCEPT !.cert[s].leaf = x])
         /\ Context([c EXCEPT !.cert[s] = [@ EXCEPT !.data = x, !.leaf = y]])
  BY DEF Context, ContextFields

LEMMA EncKept ==
  ASSUME NEW c, Context(c), NEW x, NEW y, NEW z
  PROVE  /\ Context([c EXCEPT !.enc = [slot |-> x, offset |-> y, first |-> z]])
         /\ Context([c EXCEPT !.enc.slot = x])
  BY DEF Context, ContextFields

LEMMA VcaQuiet ==
  ASSUME NEW d, NEW c, Context(c), NEW t, NEW m
  PROVE  /\ Quiet(HandleGetVersion(d, c, t, m), t)
         /\ Quiet(HandleGetCapabilities(d, c, t, m), t)
         /\ Quiet(HandleNegotiateAlgorithms(d, c, t, m), t)
  <1>1. Quiet(HandleGetVersion(d, c, t, m), t)
    <2> DEFINE b == [c EXCEPT !.m1m2 = <<>>, !.msgA = <<>>]
               rsp == Msg("VERSION", 10, 0, 0, d.versions)
               err == Msg("ERROR", m.ver, 65, 0, <<>>)
    <2>1. Context(b)
      BY TranscriptOf DEF Context, ContextFields
    <2>2. rsp.code # "KEY_EXCHANGE_RSP" /\ err.code # "KEY_EXCHANGE_RSP"
      BY DEF Msg
    <2>3. HandleGetVersion(d, c, t, m) =
            IF m.ver # 10 THEN Done(-1, c, t, err) ELSE Done(0, UpdateVca(b, m, rsp), t, rsp)
      BY DEF HandleGetVersion
    <2> HIDE DEF b, rsp, err
    <2> QED
      BY <2>1, <2>2, <2>3, DoneQuiet, ContextTranscripts
  <1>2. Quiet(HandleGetCapabilities(d, c, t, m), t)
    <2> DEFINE b == IF m.ver >= 11 THEN [c EXCEPT !.remote = m.caps, !.selected = m.ver] ELSE c
               rsp == [Msg("CAPABILITIES", m.ver, 0, 0, <<>>) EXCEPT !.caps = c.local]
               err == InvalidRsp(m.ver)
    <2>1. Context(b)
      BY DEF Context, ContextFields
    <2>2. rsp.code # "KEY_EXCHANGE_RSP" /\ err.code # "KEY_EXCHANGE_RSP"
      BY DEF Msg, InvalidRsp
    <2>3. HandleGetCapabilities(d, c, t, m) =
            IF (m.ver = 10) # (m.data = <<>>) THEN Done(-1, c, t, err)
            ELSE Done(0, UpdateVca(b, m, rsp), t, rsp)
      BY DEF HandleGetCapabilities
    <2> HIDE DEF b, rsp, err
    <2> QED
      BY <2>1, <2>2, <2>3, DoneQuiet, ContextTranscripts
  <1>3. Quiet(HandleNegotiateAlgorithms(d, c, t, m), t)
    <2> DEFINE rsp == Msg("ALGORITHMS", m.ver, 0, 0, d.algorithms)
               err == InvalidRsp(m.ver)
    <2>2. rsp.code # "KEY_EXCHANGE_RSP" /\ err.code # "KEY_EXCHANGE_RSP"
      BY DEF Msg, InvalidRsp
    <2>3. HandleNegotiateAlgorithms(d, c, t, m) =
            IF m.data # <<384>> THEN Done(-1, c, t, err) ELSE Done(0, UpdateVca(c, m, rsp), t, rsp)
      BY DEF HandleNegotiateAlgorithms
    <2> HIDE DEF rsp, err
    <2> QED
      BY <2>2, <2>3, DoneQuiet, ContextTranscripts
  <1> QED
    BY <1>1, <1>2, <1>3

LEMMA IdentityQuiet ==
  ASSUME NEW d, NEW c, Context(c), NEW t, NEW m
  PROVE  /\ Quiet(HandleGetDigests(d, c, t, m), t)
         /\ Quiet(HandleGetCertificate(d, c, t, m), t)
         /\ Quiet(HandleChallenge(d, c, t, m), t)
  <1> DEFINE err == InvalidRsp(m.ver)
  <1>1. err.code # "KEY_EXCHANGE_RSP"
    BY DEF Msg, InvalidRsp
  <1>2. Quiet(HandleGetDigests(d, c, t, m), t)
    <2> DEFINE rsp == Msg("DIGESTS", m.ver, 0, 0, Chains(d))
    <2>1. rsp.code # "KEY_EXCHANGE_RSP"
      BY DEF Msg
    <2>2. HandleGetDigests(d, c, t, m) = Done(0, UpdateM1M2(c, m, rsp), t, rsp)
      BY DEF HandleGetDigests
    <2> HIDE DEF rsp
    <2> QED
      BY <2>1, <2>2, DoneQuiet, ContextTranscripts
  <1>3. Quiet(HandleGetCertificate(d, c, t, m), t)
    <2> DEFINE rsp == Msg("CERTIFICATE", m.ver, m.p1, m.p1,
                          <<d.served[m.p1], 1, ChainParts - m.data[1] - 1>>)
               none == [rsp EXCEPT !.data = <<>>]
    <2>1. rsp.code # "KEY_EXCHANGE_RSP" /\ none.code # "KEY_EXCHANGE_RSP"
      BY DEF Msg
    <2>2. HandleGetCertificate(d, c, t, m) =
            CASE m.p1 \notin SlotMask(d)    -> Done(-1, c, t, err)
              [] m.data[1] >= ChainParts    -> Done(-1, c, t, none)
              [] OTHER                      -> Done(0, UpdateM1M2(c, m, rsp), t, rsp)
      BY DEF HandleGetCertificate
    <2> HIDE DEF rsp, none, err
    <2> QED
      BY <1>1, <2>1, <2>2, DoneQuiet, ContextTranscripts
  <1>4. Quiet(HandleChallenge(d, c, t, m), t)
    <2> DEFINE rsp == Msg("CHALLENGE_AUTH", m.ver, m.p1, 0, <<d.slots[m.p1]>>)
               m1 == UpdateM1M2(c, m, rsp)
               signed == [rsp EXCEPT !.sig = Sign(d.key, m1.m1m2)]
    <2>1. signed.code # "KEY_EXCHANGE_RSP"
      BY DEF Msg
    <2>2. HandleChallenge(d, c, t, m) =
            IF m.p1 \notin SlotMask(d) THEN Done(-1, c, t, err)
            ELSE Done(0, ResetM1M2(m1), t, signed)
      BY DEF HandleChallenge
    <2>3. Context(ResetM1M2(m1))
      BY ContextTranscripts
    <2> HIDE DEF signed, err, m1
    <2> QED
      BY <1>1, <2>1, <2>2, <2>3, DoneQuiet
  <1> QED
    BY <1>2, <1>3, <1>4

LEMMA MeasurementsQuiet ==
  ASSUME NEW d, NEW c, Context(c), NEW t, NEW m
  PROVE  Quiet(HandleGetMeasurements(d, c, t, m), t)
  <1> DEFINE err == InvalidRsp(m.ver)
             rsp == IF m.p2 = 0 THEN Msg("MEASUREMENTS", m.ver, Len(d.meas), 0, <<>>)
                    ELSE Msg("MEASUREMENTS", m.ver, 1, 0, <<m.p2, d.meas[m.p2]>>)
             l1 == UpdateL1L2(c, m, rsp)
             signed == [rsp EXCEPT !.sig = Sign(d.key, l1.l1l2)]
  <1>1. err.code # "KEY_EXCHANGE_RSP" /\ rsp.code # "KEY_EXCHANGE_RSP"
    BY DEF Msg, InvalidRsp
  <1>2. signed.code # "KEY_EXCHANGE_RSP"
    BY DEF Msg
  <1>3. Context(l1) /\ Context(ResetL1L2(l1, m.ver))
    BY ContextTranscripts
  <1>4. HandleGetMeasurements(d, c, t, m) =
          CASE m.p2 > Len(d.meas) -> Done(-1, c, t, err)
            [] m.p2 <= Len(d.meas) /\ m.p1 = 0 -> Done(0, l1, t, rsp)
            [] OTHER -> Done(0, ResetL1L2(l1, m.ver), t, signed)
    BY DEF HandleGetMeasurements
  <1>5. Quiet(Done(-1, c, t, err), t) /\ Quiet(Done(0, l1, t, rsp), t)
        /\ Quiet(Done(0, ResetL1L2(l1, m.ver), t, signed), t)
    <2> HIDE DEF err, rsp, l1, signed
    <2> QED
      BY <1>1, <1>2, <1>3, DoneQuiet
  <1> HIDE DEF err, rsp, l1, signed
  <1> QED
    BY <1>4, <1>5

LEMMA EncapQuiet ==
  ASSUME NEW d, NEW c, Context(c), NEW t, NEW m
  PROVE  Quiet(HandleDeliverEncapRsp(d, c, t, m), t)
  <1>1. \A x : EncapAck(m, x).code # "KEY_EXCHANGE_RSP"
    BY DEF EncapAck, Msg
  <1>2. \A b, s : Context(b) => Quiet(EncapAskFirst(b, t, m, s), t)
    BY <1>1, EncKept, DoneQuiet DEF EncapAskFirst
  <1>3. Quiet(EncapCertificate(c, t, m), t)
    <2> DEFINE slot  == c.enc.slot
               chain == m.data[2]
               next  == NextCertId(c.mask, slot)
               took  == [c EXCEPT !.cert[slot].data = chain]
               kept  == [took EXCEPT !.cert[slot].leaf = chain]
               more  == [took EXCEPT !.enc.offset = @ + 1, !.enc.first = FALSE]
               last  == [kept EXCEPT !.enc.slot = 127]
               shut  == [c EXCEPT !.cert[slot] = [@ EXCEPT !.data = 0, !.leaf = 0],
                                  !.mask = @ \ {slot}]
    <2>1. Context(took)
      BY CertKept
    <2>2. Context(kept)
      BY <2>1, CertKept
    <2>3. Context(last) /\ Context(more)
      <3> HIDE DEF took, kept
      <3>1. Context(last)
        BY <2>2, EncKept
      <3>2. Context(more)
        BY <2>1 DEF Context, ContextFields
      <3> QED
        BY <3>1, <3>2
    <2>4. Context(shut)
      <3> DEFINE b == [c EXCEPT !.cert[slot] = [@ EXCEPT !.data = 0, !.leaf = 0]]
      <3>1. Context(b)
        BY CertKept
      <3>2. shut = [b EXCEPT !.mask = c.mask \ {slot}]
        BY DEF Context, ContextFields
      <3> HIDE DEF b
      <3> QED
        BY <3>1, <3>2, ContextKept
    <2>5. EncapCertificate(c, t, m) =
            CASE m.data[4] # 0 -> Done(0, more, t, EncapAck(m, <<slot, c.enc.offset + 1>>))
              [] m.data[4] = 0 /\ chain # c.cert[slot].digest ->
                   Done(-1, took, t, EncapAck(m, <<127, 5>>))
              [] m.data[4] = 0 /\ chain = c.cert[slot].digest /\ chain \notin RootedChain ->
                   Done(-1, shut, t, EncapAck(m, <<127, 5>>))
              [] OTHER ->
                   IF next = 127 THEN Done(0, last, t, EncapAck(m, <<>>))
                   ELSE EncapAskFirst(kept, t, m, next)
      BY DEF EncapCertificate
    <2>6. /\ Quiet(Done(0, more, t, EncapAck(m, <<slot, c.enc.offset + 1>>)), t)
          /\ Quiet(Done(-1, took, t, EncapAck(m, <<127, 5>>)), t)
          /\ Quiet(Done(-1, shut, t, EncapAck(m, <<127, 5>>)), t)
          /\ Quiet(Done(0, last, t, EncapAck(m, <<>>)), t)
          /\ Quiet(EncapAskFirst(kept, t, m, next), t)
      <3> HIDE DEF more, took, shut, last, kept, next, slot, chain
      <3> QED
        BY <1>1, <1>2, <2>1, <2>2, <2>3, <2>4, DoneQuiet
    <2> HIDE DEF more, took, shut, last, kept, next, slot, chain
    <2> QED
      BY <2>5, <2>6
  <1> DEFINE held == [c EXCEPT !.mask = {s \in Slots : m.data[s + 2] # 0},
                        !.cert = [s \in Slots |->
                           IF m.data[s + 2] # 0 THEN [@[s] EXCEPT !.digest = m.data[s + 2]]
                           ELSE @[s]]]
             last == [held EXCEPT !.enc.slot = 127]
             next == NextCertId(held.mask, c.enc.slot)
  <1>4. Context(held)
    BY DEF Context, ContextFields
  <1>5. HandleDeliverEncapRsp(d, c, t, m) =
          CASE m.data[1] = 2 -> EncapCertificate(c, t, m)
            [] m.data[1] = 1 /\ next = 127 -> Done(0, last, t, ErrorRsp(m.ver))
            [] OTHER -> EncapAskFirst(held, t, m, next)
    BY DEF HandleDeliverEncapRsp
  <1>6. Context(last)
    <2> HIDE DEF held
    <2> QED
      BY <1>4, EncKept
  <1>7. ErrorRsp(m.ver).code # "KEY_EXCHANGE_RSP"
    BY DEF ErrorRsp, Msg
  <1>8. Quiet(Done(0, last, t, ErrorRsp(m.ver)), t) /\ Quiet(EncapAskFirst(held, t, m, next), t)
    <2> HIDE DEF held, last, next
    <2> QED
      BY <1>2, <1>4, <1>6, <1>7, DoneQuiet
  <1> HIDE DEF held, last, next
  <1> QED
    BY <1>3, <1>5, <1>8

-----------------------------------------------------------------------------
(* Sessions, from their creation to their keys.                             *)

LEMMA ServerMoved ==
  ASSUME NEW d, NEW t, NEW u, ServerTable(d, t), TableMoved(t, u)
  PROVE  ServerTable(d, u)
  <1>1. ASSUME NEW i \in 1..MaxSession PROVE ServerSlot(d, i, u[i])
    <2>1. CASE u[i] = EmptySession
      BY <2>1 DEF ServerSlot, EmptySession
    <2>2. CASE Moved(t[i], u[i])
      <3>1. Session(t[i]) /\ ServerSlot(d, i, t[i])
        BY DEF ServerTable, Table
      <3> QED
        BY <2>2, <3>1 DEF Moved, ServerSlot, Keyed, Shaken, SessionFields
    <2> QED
      BY <2>1, <2>2 DEF TableMoved
  <1> QED
    BY <1>1 DEF ServerTable, TableMoved

LEMMA FreeSlot ==
  ASSUME NEW t, Table(t)
  PROVE  GetFreeSessionSlot(t) \in 0..MaxSession
  <1> DEFINE S == {i \in DOMAIN t : ~t[i].valid \/ Expired(t[i])}
  <1>1. S \subseteq 1..MaxSession
    BY DEF Table
  <1>2. GetFreeSessionSlot(t) = First(S)
    BY DEF GetFreeSessionSlot
  <1> HIDE DEF S
  <1> QED
    BY <1>1, <1>2, FirstOf

LEMMA PendingSlot ==
  ASSUME NEW t, Table(t)
  PROVE  LET i == FindPendingSession(t)
         IN  /\ i \in 0..MaxSession
             /\ i # 0 => t[i].valid /\ t[i].state # "ESTABLISHED"
             /\ i = 0 => \A j \in 1..MaxSession : t[j].valid => t[j].state = "ESTABLISHED"
  <1> DEFINE S == {i \in DOMAIN t : t[i].valid /\ t[i].state # "ESTABLISHED"}
  <1>1. S \subseteq 1..MaxSession /\ DOMAIN t = 1..MaxSession
    BY DEF Table
  <1>2. FindPendingSession(t) = First(S)
    BY DEF FindPendingSession
  <1>3. /\ \A i \in S : t[i].valid /\ t[i].state # "ESTABLISHED"
        /\ S = {} => \A j \in DOMAIN t : t[j].valid => t[j].state = "ESTABLISHED"
    OBVIOUS
  <1>4. 0 \notin 1..MaxSession
    BY SpdmConstants
  <1> HIDE DEF S
  <1> QED
    BY <1>1, <1>2, <1>3, <1>4, FirstOf

LEMMA CreatedSession ==
  ASSUME NEW t, Table(t), NEW i \in 1..MaxSession, NEW type \in Dirs, NEW reqId, NEW rspId
  PROVE  LET u == SpdmSessionCreate(t, i, type, reqId, rspId)
             s == u[i]
         IN  /\ Table(u) /\ \A j \in 1..MaxSession \ {i} : u[j] = t[j]
             /\ Session(s) /\ s.valid /\ s.id = <<reqId, rspId>> /\ s.state = "CHALLENGED"
             /\ s.type = type /\ s.reqMac = NoMac
             /\ \A d \in Dirs : s.key[d].secret = <<>>
  <1> DEFINE s == [EmptySession EXCEPT !.valid = TRUE, !.id = <<reqId, rspId>>,
                      !.state = "CHALLENGED", !.hb = TRUE, !.type = type]
             u == SpdmSessionCreate(t, i, type, reqId, rspId)
  <1>1. DOMAIN t = 1..MaxSession /\ u = [t EXCEPT ![i] = s]
    BY DEF SpdmSessionCreate, Table
  <1>2. Session(s)
    BY EmptyIsSession DEF Session, EmptySession, SessionFields
  <1>3. /\ s.valid /\ s.id = <<reqId, rspId>> /\ s.state = "CHALLENGED"
        /\ s.type = type /\ s.reqMac = NoMac
    BY DEF EmptySession
  <1>4. \A d \in Dirs : s.key[d].secret = <<>>
    BY DEF EmptySession, NoKey, Dirs
  <1> HIDE DEF s
  <1>5. /\ DOMAIN u = 1..MaxSession /\ u[i] = s /\ \A j \in 1..MaxSession \ {i} : u[j] = t[j]
    BY <1>1
  <1>6. Table(u)
    BY <1>2, <1>3, <1>5 DEF Table
  <1> HIDE DEF u
  <1> QED
    BY <1>2, <1>3, <1>4, <1>5, <1>6 DEF u

LEMMA DerivedKeys ==
  ASSUME NEW s, NEW th
  PROVE  /\ DOMAIN DeriveKeys(s, th) = Dirs
         /\ \A d \in Dirs : /\ DeriveKeys(s, th)[d] = HandshakeKey(s.secret, th, d)
                            /\ DOMAIN DeriveKeys(s, th)[d] = KeyFields
                            /\ DeriveKeys(s, th)[d].epoch \in 0..(KeyEpochs - 1)
                            /\ DeriveKeys(s, th)[d].dir = d /\ DeriveKeys(s, th)[d].over = th
                            /\ DeriveKeys(s, th)[d].secret = s.secret
  BY SpdmConstants DEF DeriveKeys, Dirs, HandshakeKey, KeyFields

\* The state of a session that has the keys of a transcript.
LEMMA GeneratedKeys ==
  ASSUME NEW s, Session(s), NEW th
  PROVE  LET g == GenSessionKeys(s, th)
         IN  /\ Session(g) /\ \A f \in SessionFields \ {"key"} : g[f] = s[f]
             /\ g.key = DeriveKeys(s, th)
  <1> DEFINE k == DeriveKeys(s, th)
             g == [s EXCEPT !.key = k]
  <1>1. DOMAIN k = Dirs /\ \A d \in Dirs : /\ DOMAIN k[d] = KeyFields
                                           /\ k[d].epoch \in 0..(KeyEpochs - 1) /\ k[d].dir = d
    BY DerivedKeys
  <1> HIDE DEF k
  <1>2. DOMAIN g = SessionFields /\ (\A f \in SessionFields \ {"key"} : g[f] = s[f]) /\ g.key = k
    BY DEF Session, SessionFields
  <1>3. Session(g)
    BY <1>1, <1>2 DEF Session, SessionFields
  <1> QED
    BY <1>2, <1>3 DEF GenSessionKeys, k

LEMMA PreparedSession ==
  ASSUME NEW s, Session(s), NEW th
  PROVE  LET h == PrepareHandshake(s, th)
         IN  /\ Session(h) /\ \A f \in SessionFields \ {"key", "secret", "reqMac", "rspMac"} : h[f] = s[f]
             /\ h.secret = s.id
             /\ h.reqMac = HandshakeMac(s.id, th, "REQ") /\ h.rspMac = HandshakeMac(s.id, th, "RSP")
             /\ \A d \in Dirs : h.key[d].secret = s.id /\ h.key[d].dir = d
  <1> DEFINE fresh == [s EXCEPT !.secret = s.id]
             k == DeriveKeys(fresh, th)
             mac(d) == [key |-> <<k[d]>>, over |-> th]
             h == [fresh EXCEPT !.key = k, !.reqMac = mac("REQ"), !.rspMac = mac("RSP")]
  <1>1. /\ Session(fresh) /\ fresh.secret = s.id
        /\ \A f \in SessionFields \ {"secret"} : fresh[f] = s[f]
    BY DEF Session, SessionFields
  <1>2. DOMAIN k = Dirs /\ \A d \in Dirs : /\ k[d] = HandshakeKey(s.id, th, d)
                                           /\ DOMAIN k[d] = KeyFields
                                           /\ k[d].epoch \in 0..(KeyEpochs - 1) /\ k[d].dir = d
                                           /\ k[d].secret = s.id
    <2> HIDE DEF fresh
    <2> QED
      BY <1>1, DerivedKeys
  <1>3. mac("REQ") = HandshakeMac(s.id, th, "REQ") /\ mac("RSP") = HandshakeMac(s.id, th, "RSP")
    <2> HIDE DEF k
    <2> QED
      BY <1>2 DEF HandshakeMac, Dirs
  <1>4. PrepareHandshake(s, th) = h
    BY DEF PrepareHandshake
  <1> HIDE DEF k, fresh, mac
  <1>5. /\ DOMAIN h = SessionFields /\ h.key = k
        /\ h.reqMac = mac("REQ") /\ h.rspMac = mac("RSP") /\ h.secret = s.id
        /\ \A f \in SessionFields \ {"key", "secret", "reqMac", "rspMac"} : h[f] = s[f]
    BY <1>1 DEF Session, SessionFields
  <1> HIDE DEF h
  <1>6. Session(h)
    BY <1>2, <1>5 DEF Session, SessionFields
  <1> QED
    BY <1>2, <1>3, <1>4, <1>5, <1>6

-----------------------------------------------------------------------------
(* What a request does to the sessions of a responder.                      *)

\* Slot i is established by this FINISH: the two MACs and the signature cover
\* what they should, and the keys come from the whole transcript.
Finished(c, t, m, r, i) ==
  /\ m.code = "FINISH" /\ t[i].valid /\ t[i].state = "KEY_EXCHANGED" /\ r.t[i].id = t[i].id
  /\ m.mac.key = <<HandshakeKey(t[i].id, t[i].rspMac.over, "REQ")>>
  /\ m.p1 = 1 => \E chain : m.sig.over = c.th2 \o <<CertHash(chain), FinishHeader(m.ver, m.p1)>>
  /\ \E cert \in {<<>>} \cup {<<CertHash(chain)>> : chain \in {c.cert[m.p2].digest}} :
       /\ r.rsp.mac = [key |-> <<HandshakeKey(t[i].id, t[i].rspMac.over, "RSP")>>,
                       over |-> t[i].rspMac.over \o cert \o <<m, FinishRspOf(m)>>]
       /\ \A x \in Dirs : r.t[i].key[x].over = c.th2 \o cert \o <<m, r.rsp>>

Effect(d, c, t, m, r) ==
  /\ DOMAIN r = {"ret", "c", "t", "rsp"} /\ Context(r.c) /\ ServerTable(d, r.t)
  /\ r.rsp.code = "KEY_EXCHANGE_RSP" =>
       /\ r.ret = 0
       /\ \E j \in 1..MaxSession : /\ r.t[j].valid /\ r.t[j].state = "KEY_EXCHANGED"
                                   /\ r.rsp.data[1] = d.base + j
  /\ \A i \in 1..MaxSession : r.t[i].valid /\ r.t[i].state = "ESTABLISHED" =>
       \/ Moved(t[i], r.t[i])
       \/ m.code = "PSK_EXCHANGE" /\ r.t[i].id[1] = m.data[1]
       \/ Finished(c, t, m, r, i)

LEMMA QuietEffect ==
  ASSUME NEW d, NEW c, NEW t, NEW m, NEW r, ServerTable(d, t), Quiet(r, t)
  PROVE  Effect(d, c, t, m, r)
  BY DEF Quiet, Effect, Moved, ServerTable, Table

LEMMA KeyExchangeEffect ==
  ASSUME NEW d, NEW c, NEW t, NEW m, ServerTable(d, t), Context(c)
  PROVE  Effect(d, c, t, m, HandleKeyExchange(d, c, t, m))
  <1> DEFINE i    == GetFreeSessionSlot(t)
             made == SpdmSessionCreate(t, i, "RSP", m.data[1], d.base + i)
             mut  == IF CapEnabled(c, "MUT_AUTH") THEN 4 ELSE 0
             body == Msg("KEY_EXCHANGE_RSP", m.ver, 1, 0, <<d.base + i, mut>>)
             th1  == c.msgA \o <<CertHash(d.slots[m.p2]), m, body>>
             rsp  == [body EXCEPT !.sig = Sign(d.key, th1)]
             th2  == c.msgA \o <<CertHash(d.slots[m.p2]), m, rsp>>
             prep == PrepareHandshake(made[i], th2)
             sess == [prep EXCEPT !.state = "KEY_EXCHANGED"]
             err  == ErrorRsp(m.ver)
             r    == Done(0, [c EXCEPT !.th2 = th2], [made EXCEPT ![i] = sess], rsp)
  <1>1. HandleKeyExchange(d, c, t, m) =
          CASE m.ver \notin {11, 12} -> Done(-1, c, t, err)
            [] m.ver \in {11, 12} /\ i = 0 -> Done(NoEmptySession, c, t, err)
            [] OTHER -> r
    BY DEF HandleKeyExchange
  <1>2. err.code # "KEY_EXCHANGE_RSP"
    BY DEF ErrorRsp, Msg
  <1>3. \A x : Effect(d, c, t, m, Done(x, c, t, err))
    <2> HIDE DEF err
    <2> QED
      BY <1>2, DoneQuiet, QuietEffect
  <1>4. ASSUME i # 0 PROVE Effect(d, c, t, m, r)
    <2>1. i \in 1..MaxSession
      <3>1. i \in 0..MaxSession
        BY FreeSlot DEF ServerTable
      <3> HIDE DEF i
      <3> QED
        BY <1>4, <3>1, SpdmConstants
    <2>2. rsp.data[1] = d.base + i
      BY DEF Msg
    <2>3. Context([c EXCEPT !.th2 = th2])
      <3>1. Transcript(th2)
        BY TranscriptParts, TranscriptOf DEF Context
      <3> HIDE DEF th2
      <3> QED
        BY <3>1, ContextKept
    <2>4. /\ Table(made) /\ \A j \in 1..MaxSession \ {i} : made[j] = t[j]
          /\ Session(made[i]) /\ made[i].valid /\ made[i].id = <<m.data[1], d.base + i>>
          /\ made[i].state = "CHALLENGED" /\ made[i].type = "RSP"
      <3> HIDE DEF i
      <3> QED
        BY <2>1, CreatedSession DEF ServerTable, Dirs
    <2>5. /\ Session(prep)
          /\ \A f \in SessionFields \ {"key", "secret", "reqMac", "rspMac"} : prep[f] = made[i][f]
          /\ prep.secret = made[i].id
          /\ prep.reqMac = HandshakeMac(made[i].id, th2, "REQ")
          /\ prep.rspMac = HandshakeMac(made[i].id, th2, "RSP")
          /\ \A x \in Dirs : prep.key[x].secret = made[i].id /\ prep.key[x].dir = x
      <3> HIDE DEF i, made, th2
      <3> QED
        BY <2>4, PreparedSession
    <2> HIDE DEF i, made, th2, prep, rsp
    <2>6. /\ Session(sess) /\ sess.state = "KEY_EXCHANGED"
          /\ \A f \in SessionFields \ {"state"} : sess[f] = prep[f]
      BY <2>5 DEF Session, SessionFields
    <2> HIDE DEF sess
    <2>7. sess.valid /\ sess.type = "RSP" /\ sess.id = <<m.data[1], d.base + i>>
      BY <2>4, <2>5, <2>6 DEF SessionFields
    <2>8. ServerSlot(d, i, sess)
      BY <2>5, <2>6, <2>7, <2>4 DEF ServerSlot, Keyed, Shaken, HandshakeMac, SessionFields
    <2>9. /\ DOMAIN r = {"ret", "c", "t", "rsp"} /\ r.ret = 0 /\ r.rsp = rsp
          /\ r.c = [c EXCEPT !.th2 = th2] /\ r.t = [made EXCEPT ![i] = sess]
      BY DEF Done
    <2> HIDE DEF r
    <2>10. r.t[i] = sess /\ \A j \in 1..MaxSession \ {i} : r.t[j] = t[j]
      BY <2>1, <2>4, <2>9 DEF Table
    <2>11. ServerTable(d, r.t)
      BY <2>4, <2>6, <2>7, <2>8, <2>9, <2>10 DEF ServerTable, Table
    <2>12. \A j \in 1..MaxSession : r.t[j].valid /\ r.t[j].state = "ESTABLISHED" => Moved(t[j], r.t[j])
      BY <2>6, <2>10 DEF Moved, ServerTable, Table
    <2> QED
      BY <2>1, <2>2, <2>3, <2>6, <2>7, <2>9, <2>10, <2>11, <2>12 DEF Effect
  <1> HIDE DEF i, r, err
  <1> QED
    BY <1>1, <1>3, <1>4

LEMMA PskExchangeEffect ==
  ASSUME NEW d, NEW c, NEW t, NEW m, ServerTable(d, t), Context(c), m.code = "PSK_EXCHANGE"
  PROVE  Effect(d, c, t, m, HandlePskExchange(d, c, t, m))
  <1> DEFINE i    == GetFreeSessionSlot(t)
             made == SpdmSessionCreate(t, i, "RSP", m.data[1], d.base + i)
             body == Msg("PSK_EXCHANGE_RSP", m.ver, 1, 0, <<d.base + i>>)
             th1  == c.msgA \o <<m, body>>
             prep == PrepareHandshake(made[i], th1)
             rsp  == [body EXCEPT !.mac = prep.rspMac]
             keys == GenSessionKeys(prep, Append(th1, rsp))
             sess == [keys EXCEPT !.state = "ESTABLISHED"]
             err  == ErrorRsp(m.ver)
             r    == Done(0, [c EXCEPT !.th2 = th1], [made EXCEPT ![i] = sess], rsp)
  <1>1. HandlePskExchange(d, c, t, m) =
          IF i = 0 THEN Done(NoEmptySession, c, t, err)
          ELSE IF m.p1 # 0 THEN Done(-1, c, made, err) ELSE r
    BY DEF HandlePskExchange
  <1>2. err.code # "KEY_EXCHANGE_RSP"
    BY DEF ErrorRsp, Msg
  <1>3. Effect(d, c, t, m, Done(NoEmptySession, c, t, err))
    <2> HIDE DEF err
    <2> QED
      BY <1>2, DoneQuiet, QuietEffect
  <1>4. ASSUME i # 0 PROVE Effect(d, c, t, m, Done(-1, c, made, err)) /\ Effect(d, c, t, m, r)
    <2>1. i \in 1..MaxSession
      <3>1. i \in 0..MaxSession
        BY FreeSlot DEF ServerTable
      <3> HIDE DEF i
      <3> QED
        BY <1>4, <3>1, SpdmConstants
    <2>2. rsp.code # "KEY_EXCHANGE_RSP"
      BY DEF Msg
    <2>3. Context([c EXCEPT !.th2 = th1])
      <3>1. Transcript(th1)
        BY TranscriptParts, TranscriptOf DEF Context
      <3> HIDE DEF th1
      <3> QED
        BY <3>1, ContextKept
    <2>4. /\ Table(made) /\ \A j \in 1..MaxSession \ {i} : made[j] = t[j]
          /\ Session(made[i]) /\ made[i].valid /\ made[i].id = <<m.data[1], d.base + i>>
          /\ made[i].state = "CHALLENGED" /\ made[i].type = "RSP" /\ made[i].reqMac = NoMac
          /\ \A x \in Dirs : made[i].key[x].secret = <<>>
      <3> HIDE DEF i
      <3> QED
        BY <2>1, CreatedSession DEF ServerTable, Dirs
    <2>5. /\ Session(prep) /\ prep.secret = made[i].id
          /\ \A f \in SessionFields \ {"key", "secret", "reqMac", "rspMac"} : prep[f] = made[i][f]
      <3> HIDE DEF i, made, th1
      <3> QED
        BY <2>4, PreparedSession
    <2>6. /\ Session(keys) /\ (\A f \in SessionFields \ {"key"} : keys[f] = prep[f])
          /\ \A x \in Dirs : keys.key[x].secret = prep.secret /\ keys.key[x].dir = x
      <3> HIDE DEF prep, th1, rsp
      <3> QED
        BY <2>5, GeneratedKeys, DerivedKeys
    <2> HIDE DEF i, made, th1, prep, rsp, keys
    <2>7. /\ Session(sess) /\ sess.state = "ESTABLISHED"
          /\ \A f \in SessionFields \ {"state"} : sess[f] = keys[f]
      BY <2>6 DEF Session, SessionFields
    <2> HIDE DEF sess
    <2>8. sess.valid /\ sess.type = "RSP" /\ sess.id = <<m.data[1], d.base + i>>
      BY <2>4, <2>5, <2>6, <2>7 DEF SessionFields
    <2>9. ServerSlot(d, i, sess) /\ ServerSlot(d, i, made[i])
      BY <2>4, <2>5, <2>6, <2>7, <2>8 DEF ServerSlot, Keyed, SessionFields
    <2>10. Effect(d, c, t, m, r)
      <3>1. /\ DOMAIN r = {"ret", "c", "t", "rsp"} /\ r.rsp = rsp
            /\ r.c = [c EXCEPT !.th2 = th1] /\ r.t = [made EXCEPT ![i] = sess]
        BY DEF Done
      <3> HIDE DEF r
      <3>2. r.t[i] = sess /\ \A j \in 1..MaxSession \ {i} : r.t[j] = t[j]
        BY <2>1, <2>4, <3>1 DEF Table
      <3>3. ServerTable(d, r.t)
        BY <2>4, <2>7, <2>8, <2>9, <3>1, <3>2 DEF ServerTable, Table
      <3>4. \A j \in 1..MaxSession \ {i} : Moved(t[j], r.t[j])
        BY <3>2 DEF Moved, ServerTable, Table
      <3> QED
        BY <2>2, <2>3, <2>8, <3>1, <3>2, <3>3, <3>4 DEF Effect
    <2>11. Effect(d, c, t, m, Done(-1, c, made, err))
      <3> DEFINE q == Done(-1, c, made, err)
      <3>1. DOMAIN q = {"ret", "c", "t", "rsp"} /\ q.rsp = err /\ q.c = c /\ q.t = made
        BY DEF Done
      <3> HIDE DEF q
      <3>2. ServerTable(d, q.t)
        BY <2>4, <2>9, <3>1 DEF ServerTable
      <3>3. \A j \in 1..MaxSession \ {i} : Moved(t[j], q.t[j])
        BY <2>4, <3>1 DEF Moved, ServerTable, Table
      <3>4. Effect(d, c, t, m, q)
        BY <1>2, <2>4, <3>1, <3>2, <3>3 DEF Effect
      <3> QED
        BY <3>4 DEF q
    <2> QED
      BY <2>10, <2>11
  <1> HIDE DEF i, r, err, made
  <1> QED
    BY <1>1, <1>3, <1>4

LEMMA FinishEffect ==
  ASSUME NEW d, NEW c, NEW t, NEW m, ServerTable(d, t), Context(c), m.code = "FINISH"
  PROVE  Effect(d, c, t, m, HandleFinish(d, c, t, m))
  <1> DEFINE i    == FindPendingSession(t)
             s    == t[i]
             mut  == CapEnabled(c, "MUT_AUTH")
             peer == c.cert[m.p2].digest
             signed == Verifies(c, 0, m.sig, c.th2 \o <<CertHash(peer), FinishHeader(m.ver, m.p1)>>)
             maced  == s.reqMac # NoMac
                       /\ m.mac = [s.reqMac EXCEPT !.over = FinishMacOver(@, peer, m, mut)]
             cert == IF mut THEN <<CertHash(peer)>> ELSE <<>>
             rsp  == [Msg("FINISH_RSP", m.ver, 0, 0, <<>>) EXCEPT
                        !.mac = [s.rspMac EXCEPT !.over = FinishRspMacOver(@, peer, m, mut)]]
             th2  == c.th2 \o cert \o <<m, rsp>>
             keys == GenSessionKeys(s, th2)
             sess == [keys EXCEPT !.state = "ESTABLISHED", !.reqMac = NoMac, !.rspMac = NoMac]
             err  == ErrorRsp(m.ver)
             r    == Done(0, [c EXCEPT !.th2 = <<>>], [t EXCEPT ![i] = sess], rsp)
  <1>1. HandleFinish(d, c, t, m) =
          IF i = 0 \/ m.ver \notin {11, 12} \/ (m.p1 = 1 /\ ~signed) \/ ~maced
          THEN Done(-1, c, t, err) ELSE r
    BY DEF HandleFinish
  <1>2. Effect(d, c, t, m, Done(-1, c, t, err))
    <2>1. err.code # "KEY_EXCHANGE_RSP"
      BY DEF ErrorRsp, Msg
    <2> HIDE DEF err
    <2> QED
      BY <2>1, DoneQuiet, QuietEffect
  <1>3. ASSUME i # 0, m.p1 = 1 => signed, maced PROVE Effect(d, c, t, m, r)
    <2>1. i \in 1..MaxSession /\ s.valid /\ s.state # "ESTABLISHED"
      <3>1. i \in 0..MaxSession /\ s.valid /\ s.state # "ESTABLISHED"
        BY <1>3, PendingSlot DEF ServerTable
      <3> HIDE DEF i
      <3> QED
        BY <1>3, <3>1, SpdmConstants
    <2>2. /\ Session(s) /\ s.type = "RSP" /\ s.id[2] = d.base + i /\ s.state = "KEY_EXCHANGED"
          /\ Shaken(s)
      <3>1. Session(s) /\ ServerSlot(d, i, s)
        BY <2>1 DEF ServerTable, Table
      <3>2. s.reqMac # NoMac
        BY <1>3
      <3> HIDE DEF s
      <3> QED
        BY <2>1, <3>1, <3>2 DEF Session, ServerSlot, Keyed
    <2>3. s.reqMac = HandshakeMac(s.id, s.rspMac.over, "REQ")
      <3> HIDE DEF s
      <3> QED
        BY <1>3, <2>2 DEF Shaken
    <2>4. s.rspMac = HandshakeMac(s.id, s.rspMac.over, "RSP")
      BY <2>2 DEF Shaken
    <2>5. m.mac.key = <<HandshakeKey(s.id, s.rspMac.over, "REQ")>>
      <3>1. m.mac.key = s.reqMac.key
        <4>1. \A x : [s.reqMac EXCEPT !.over = x].key = s.reqMac.key
          <5> HIDE DEF s
          <5> QED
            BY <2>3 DEF HandshakeMac
        <4> QED
          BY <1>3, <4>1
      <3> HIDE DEF s
      <3> QED
        BY <2>3, <3>1 DEF HandshakeMac
    <2>6. m.p1 = 1 => m.sig.over = c.th2 \o <<CertHash(peer), FinishHeader(m.ver, m.p1)>>
      <3> DEFINE over == c.th2 \o <<CertHash(peer), FinishHeader(m.ver, m.p1)>>
      <3> HIDE DEF over
      <3>1. \A x : Verifies(c, 0, m.sig, x) => m.sig.over = x
        BY DEF Verifies, Sign
      <3>2. m.p1 = 1 => Verifies(c, 0, m.sig, over)
        BY <1>3 DEF over
      <3>3. m.p1 = 1 => m.sig.over = over
        BY <3>1, <3>2
      <3> QED
        BY <3>3 DEF over
    <2>7. rsp.mac = [key |-> <<HandshakeKey(s.id, s.rspMac.over, "RSP")>>,
                     over |-> s.rspMac.over \o cert \o <<m, FinishRspOf(m)>>]
      <3>1. rsp.mac = [s.rspMac EXCEPT !.over = FinishRspMacOver(@, peer, m, mut)]
        BY DEF Msg
      <3>2. FinishRspMacOver(s.rspMac.over, peer, m, mut) = s.rspMac.over \o cert \o <<m, FinishRspOf(m)>>
        BY DEF FinishRspMacOver, FinishRspOf
      <3>3. \A id, th, x : [HandshakeMac(id, th, "RSP") EXCEPT !.over = x] =
                             [key |-> <<HandshakeKey(id, th, "RSP")>>, over |-> x]
        BY DEF HandshakeMac
      <3> HIDE DEF rsp, cert, s, peer, mut
      <3>4. \A x : [s.rspMac EXCEPT !.over = x] =
                   [key |-> <<HandshakeKey(s.id, s.rspMac.over, "RSP")>>, over |-> x]
        BY <2>4, <3>3
      <3> QED
        BY <3>1, <3>2, <3>4
    <2>8. rsp.code # "KEY_EXCHANGE_RSP"
      BY DEF Msg
    <2>9. cert \in {<<>>} \cup {<<CertHash(chain)>> : chain \in {peer}}
      BY DEF CertHash
    <2>10. Context([c EXCEPT !.th2 = <<>>])
      BY ContextKept, TranscriptOf
    <2>11. /\ Session(keys) /\ (\A f \in SessionFields \ {"key"} : keys[f] = s[f])
           /\ \A x \in Dirs : /\ keys.key[x].secret = s.secret /\ keys.key[x].dir = x
                              /\ keys.key[x].over = th2
      <3> HIDE DEF s, th2
      <3> QED
        BY <2>2, GeneratedKeys, DerivedKeys
    <2> HIDE DEF keys
    <2>12. /\ Session(sess) /\ sess.state = "ESTABLISHED" /\ sess.reqMac = NoMac
           /\ \A f \in SessionFields \ {"state", "reqMac", "rspMac"} : sess[f] = keys[f]
      BY <2>11 DEF Session, SessionFields
    <2>13. /\ DOMAIN r = {"ret", "c", "t", "rsp"} /\ r.rsp = rsp
           /\ r.c = [c EXCEPT !.th2 = <<>>] /\ r.t = [t EXCEPT ![i] = sess]
      BY DEF Done
    <2> HIDE DEF r, i, rsp, cert, sess, mut
    <2>14. r.t[i] = sess /\ DOMAIN r.t = 1..MaxSession
           /\ \A j \in 1..MaxSession \ {i} : r.t[j] = t[j]
      BY <2>1, <2>13 DEF ServerTable, Table
    <2>15. /\ sess.valid /\ sess.id = s.id /\ sess.type = "RSP" /\ sess.key = keys.key
           /\ sess.secret = s.secret
      BY <2>1, <2>2, <2>11, <2>12 DEF SessionFields
    <2>16. s.secret = s.id
      BY <2>2 DEF Shaken
    <2>17. ServerSlot(d, i, sess)
      <3> HIDE DEF s
      <3> QED
        BY <2>2, <2>11, <2>12, <2>15, <2>16 DEF ServerSlot, Keyed
    <2>18. ServerTable(d, r.t)
      BY <2>12, <2>14, <2>15, <2>17 DEF ServerTable, Table
    <2>19. \A j \in 1..MaxSession \ {i} : Moved(t[j], r.t[j])
      BY <2>14 DEF Moved, ServerTable, Table
    <2>20. Finished(c, t, m, r, i)
      <3>1. \A x \in Dirs : r.t[i].key[x].over = c.th2 \o cert \o <<m, r.rsp>>
        BY <2>11, <2>13, <2>14, <2>15, ZenonT(30)
      <3>2. /\ t[i].valid /\ t[i].state = "KEY_EXCHANGED" /\ r.t[i].id = t[i].id
            /\ m.mac.key = <<HandshakeKey(t[i].id, t[i].rspMac.over, "REQ")>>
        BY <2>1, <2>2, <2>5, <2>14, <2>15
      <3>3. r.rsp.mac = [key |-> <<HandshakeKey(t[i].id, t[i].rspMac.over, "RSP")>>,
                         over |-> t[i].rspMac.over \o cert \o <<m, FinishRspOf(m)>>]
        BY <2>7, <2>13
      <3> HIDE DEF s, th2
      <3> QED
        BY <2>6, <2>9, <3>1, <3>2, <3>3 DEF Finished
    <2> HIDE DEF s, th2, peer
    <2> QED
      BY <2>8, <2>10, <2>13, <2>18, <2>19, <2>20 DEF Effect
  <1> HIDE DEF i, r, err, signed, maced
  <1> QED
    BY <1>1, <1>2, <1>3

\* A result after which no session is new.
Calm(r, t) ==
  /\ DOMAIN r = {"ret", "c", "t", "rsp"} /\ Context(r.c) /\ TableMoved(t, r.t)
  /\ r.rsp.code # "KEY_EXCHANGE_RSP"

LEMMA DoneCalm ==
  ASSUME NEW ret, NEW c, Context(c), NEW t, NEW u, TableMoved(t, u), NEW rsp,
         rsp.code # "KEY_EXCHANGE_RSP"
  PROVE  Calm(Done(ret, c, u, rsp), t)
  BY DEF Done, Calm

LEMMA CalmEffect ==
  ASSUME NEW d, NEW c, NEW t, NEW m, NEW r, ServerTable(d, t), Calm(r, t)
  PROVE  Effect(d, c, t, m, r)
  <1>1. ServerTable(d, r.t)
    BY ServerMoved DEF Calm
  <1>2. \A i \in 1..MaxSession : r.t[i].valid => Moved(t[i], r.t[i])
    BY DEF Calm, TableMoved, EmptySession
  <1> QED
    BY <1>1, <1>2 DEF Calm, Effect

LEMMA KeyUpdateCalm ==
  ASSUME NEW d, NEW c, NEW t, NEW m, NEW sid, Table(t), Context(c)
  PROVE  Calm(HandleKeyUpdate(d, c, t, m, sid), t)
  <1> DEFINE g == SpdmSessionGet(t, sid)
             s == g.t[g.i]
             ack == Msg("KEY_UPDATE_ACK", m.ver, m.p1, m.p2, <<>>)
             one == UpdateKey(s, "REQ")
             two == UpdateKey(one, "RSP")
             new == CASE m.p1 = 1 -> one [] m.p1 = 2 -> two [] OTHER -> s
             err == ErrorRsp(m.ver)
  <1>1. HandleKeyUpdate(d, c, t, m, sid) =
          IF g.i = 0 \/ m.p1 > 3 THEN Done(-1, c, g.t, err)
          ELSE Done(0, c, [g.t EXCEPT ![g.i] = new], ack)
    BY DEF HandleKeyUpdate
  <1>2. err.code # "KEY_EXCHANGE_RSP" /\ ack.code # "KEY_EXCHANGE_RSP"
    BY DEF ErrorRsp, Msg
  <1>3. TableMoved(t, g.t) /\ g.i \in 0..MaxSession /\ (g.i # 0 => g.t = t /\ t[g.i].valid)
    BY GetMoved
  <1>4. ASSUME g.i # 0 PROVE TableMoved(t, [g.t EXCEPT ![g.i] = new])
    <2>1. g.i \in 1..MaxSession
      <3> HIDE DEF g
      <3> QED
        BY <1>3, <1>4, SpdmConstants
    <2>2. Session(s) /\ s = t[g.i]
      BY <1>3, <1>4, <2>1 DEF Table
    <2>3. Moved(s, s)
      BY <2>2 DEF Moved
    <2>4. Moved(s, one)
      <3> HIDE DEF s
      <3> QED
        BY <2>2, UpdateKeyMoved DEF Dirs
    <2>5. Moved(s, two)
      <3> HIDE DEF s, one
      <3>1. Moved(one, two)
        BY <2>4, UpdateKeyMoved DEF Moved, Dirs
      <3> QED
        BY <2>4, <3>1 DEF Moved
    <2> HIDE DEF one, two, g, s
    <2>6. Moved(t[g.i], new)
      BY <2>2, <2>3, <2>4, <2>5
    <2> HIDE DEF new
    <2> QED
      BY <1>3, <1>4, <2>1, <2>6, SlotMoved
  <1> HIDE DEF g, new, ack, err
  <1> QED
    BY <1>1, <1>2, <1>3, <1>4, DoneCalm

LEMMA EndSessionCalm ==
  ASSUME NEW d, NEW c, NEW t, NEW m, NEW sid, Table(t), Context(c)
  PROVE  /\ Calm(HandleEndSession(d, c, t, m, sid), t)
         /\ Calm(HandleHeartbeat(d, c, t, m), t)
         /\ Calm(Done(0, c, t, ErrorRsp(m.ver)), t)
  <1> DEFINE g == SpdmSessionGet(t, sid)
             ack == Msg("END_SESSION_ACK", m.ver, 0, 0, <<>>)
             beat == Msg("HEARTBEAT_ACK", m.ver, 0, 0, <<>>)
             err == ErrorRsp(m.ver)
  <1>1. HandleEndSession(d, c, t, m, sid) =
          IF g.i = 0 THEN Done(-1, c, g.t, err) ELSE Done(0, c, g.t, ack)
    BY DEF HandleEndSession
  <1>2. HandleHeartbeat(d, c, t, m) = Done(0, c, t, beat)
    BY DEF HandleHeartbeat
  <1>3. /\ err.code # "KEY_EXCHANGE_RSP" /\ ack.code # "KEY_EXCHANGE_RSP"
        /\ beat.code # "KEY_EXCHANGE_RSP"
    BY DEF ErrorRsp, Msg
  <1>4. TableMoved(t, g.t) /\ TableMoved(t, t)
    BY GetMoved, MovedReflexive
  <1>5. Calm(Done(0, c, t, err), t)
    <2> HIDE DEF err
    <2> QED
      BY <1>3, <1>4, DoneCalm
  <1> HIDE DEF g, ack, beat, err
  <1>6. Calm(HandleEndSession(d, c, t, m, sid), t) /\ Calm(HandleHeartbeat(d, c, t, m), t)
    BY <1>1, <1>2, <1>3, <1>4, DoneCalm
  <1> QED
    BY <1>5, <1>6 DEF err

LEMMA QuietCalm ==
  ASSUME NEW r, NEW t, Table(t), Quiet(r, t)
  PROVE  Calm(r, t)
  BY MovedReflexive DEF Quiet, Calm

SessionCodes == {"GET_MEASUREMENTS", "GET_DIGESTS", "GET_CERTIFICATE", "GET_VERSION"}

LEMMA DispatchEffect ==
  ASSUME NEW d, NEW c, NEW t, NEW m, Context(c)
  PROVE  /\ m.code \in SessionCodes => Quiet(Dispatch(d, c, t, m), t)
         /\ ServerTable(d, t) => Effect(d, c, t, m, Dispatch(d, c, t, m))
  <1>1. m.code \in SessionCodes => Quiet(Dispatch(d, c, t, m), t)
    BY VcaQuiet, IdentityQuiet, MeasurementsQuiet DEF Dispatch, SessionCodes
  <1>2. m.code \notin {"KEY_EXCHANGE", "PSK_EXCHANGE", "FINISH"} => Quiet(Dispatch(d, c, t, m), t)
    BY VcaQuiet, IdentityQuiet, MeasurementsQuiet, EncapQuiet DEF Dispatch
  <1>3. ASSUME ServerTable(d, t) PROVE Effect(d, c, t, m, Dispatch(d, c, t, m))
    <2>1. CASE m.code = "KEY_EXCHANGE"
      BY <1>3, <2>1, KeyExchangeEffect DEF Dispatch
    <2>2. CASE m.code = "PSK_EXCHANGE"
      BY <1>3, <2>2, PskExchangeEffect DEF Dispatch
    <2>3. CASE m.code = "FINISH"
      BY <1>3, <2>3, FinishEffect DEF Dispatch
    <2>4. CASE m.code \notin {"KEY_EXCHANGE", "PSK_EXCHANGE", "FINISH"}
      BY <1>2, <1>3, <2>4, QuietEffect
    <2> QED
      BY <2>1, <2>2, <2>3, <2>4
  <1> QED
    BY <1>1, <1>3

\* A state or a released session later, the effect is the same.
LEMMA EffectReleased ==
  ASSUME NEW d, NEW c, NEW t, NEW m, NEW r, Effect(d, c, t, m, r), NEW x, NEW i \in 0..MaxSession
  PROVE  /\ Effect(d, c, t, m, [r EXCEPT !.c.state = x])
         /\ r.ret # 0 => Effect(d, c, t, m, [r EXCEPT !.c.state = x, !.t = Release(@, i)])
  <1> DEFINE p == [r EXCEPT !.c.state = x]
             q == [r EXCEPT !.c.state = x, !.t = Release(@, i)]
             b == [r.c EXCEPT !.state = x]
  <1>1. Context(b)
    BY ContextKept DEF Effect
  <1>2. /\ p.ret = r.ret /\ p.c = b /\ p.t = r.t /\ p.rsp = r.rsp
        /\ DOMAIN p = {"ret", "c", "t", "rsp"}
    BY DEF Effect
  <1>3. /\ q.c = b /\ q.t = Release(r.t, i) /\ q.rsp = r.rsp
        /\ DOMAIN q = {"ret", "c", "t", "rsp"}
    BY DEF Effect
  <1> HIDE DEF p, q, b
  <1>4. Effect(d, c, t, m, p)
    <2>1. \A j : Finished(c, t, m, r, j) => Finished(c, t, m, p, j)
      BY <1>2, ZenonT(30) DEF Finished
    <2> QED
      BY <1>1, <1>2, <2>1 DEF Effect
  <1>5. ASSUME r.ret # 0 PROVE Effect(d, c, t, m, q)
    <2>1. TableMoved(r.t, Release(r.t, i)) /\ ServerTable(d, r.t)
      BY ReleaseMoved DEF Effect, ServerTable
    <2>2. ServerTable(d, q.t)
      BY <1>3, <2>1, ServerMoved
    <2>3. \A j \in 1..MaxSession : q.t[j].valid => q.t[j] = r.t[j]
      <3>1. DOMAIN r.t = 1..MaxSession
        BY <2>1 DEF ServerTable, Table
      <3> QED
        BY <1>3, <3>1 DEF Release, EmptySession
    <2>4. \A j \in 1..MaxSession : q.t[j].valid /\ Finished(c, t, m, r, j) => Finished(c, t, m, q, j)
      <3> SUFFICES ASSUME NEW j \in 1..MaxSession, q.t[j].valid, Finished(c, t, m, r, j)
                   PROVE  Finished(c, t, m, q, j)
        OBVIOUS
      <3>1. q.t[j] = r.t[j] /\ q.rsp = r.rsp
        BY <1>3, <2>3
      <3> QED
        BY <3>1, Zenon DEF Finished
    <2>5. q.rsp.code # "KEY_EXCHANGE_RSP"
      BY <1>3, <1>5 DEF Effect
    <2> QED
      BY <1>1, <1>3, <2>2, <2>3, <2>4, <2>5 DEF Effect
  <1> QED
    BY <1>4, <1>5 DEF p, q

LEMMA PlainEffect ==
  ASSUME NEW d, NEW c, NEW t, NEW m, ServerTable(d, t), Context(c)
  PROVE  Effect(d, c, t, m, PlainRequest(d, c, t, m))
  <1> DEFINE r == Dispatch(d, c, t, m)
             aborts == \/ c.state = "KEY_EXCHANGED"
                       \/ m.code \in {"KEY_EXCHANGE", "PSK_EXCHANGE"} /\ r.ret # NoEmptySession
             kept == [r EXCEPT !.c.state = StateAfter(c.state, m.code)]
             left == [r EXCEPT !.c.state = "NOT_READY", !.t = Release(@, FindPendingSession(@))]
             err == Done(0, c, t, ErrorRsp(m.ver))
  <1>1. PlainRequest(d, c, t, m) =
          IF m.code \notin Accepted[c.state] THEN err
          ELSE CASE r.ret = 0 -> kept [] r.ret # 0 /\ aborts -> left [] OTHER -> r
    BY DEF PlainRequest
  <1>2. Effect(d, c, t, m, r)
    BY DispatchEffect
  <1>3. Effect(d, c, t, m, err)
    <2>1. Calm(err, t)
      BY EndSessionCalm DEF ServerTable
    <2> HIDE DEF err
    <2> QED
      BY <2>1, CalmEffect
  <1> HIDE DEF r, err
  <1>4. FindPendingSession(r.t) \in 0..MaxSession
    BY <1>2, PendingSlot DEF Effect, ServerTable
  <1>5. left = [r EXCEPT !.c.state = "NOT_READY", !.t = Release(@, FindPendingSession(r.t))]
    BY <1>2 DEF Effect
  <1>6. Effect(d, c, t, m, kept) /\ (r.ret # 0 => Effect(d, c, t, m, left))
    BY <1>2, <1>4, <1>5, EffectReleased
  <1> HIDE DEF kept, left, aborts
  <1> QED
    BY <1>1, <1>2, <1>3, <1>6

LEMMA SecuredCalm ==
  ASSUME NEW d, NEW c, NEW t, NEW m, NEW sid, Table(t), Context(c)
  PROVE  Calm(SecuredRequest(d, c, t, m, sid), t)
  <1> DEFINE r == CASE m.code = "KEY_UPDATE"  -> HandleKeyUpdate(d, c, t, m, sid)
                    [] m.code = "HEARTBEAT"   -> HandleHeartbeat(d, c, t, m)
                    [] m.code = "END_SESSION" -> HandleEndSession(d, c, t, m, sid)
                    [] m.code \in {"GET_MEASUREMENTS", "GET_DIGESTS", "GET_CERTIFICATE", "GET_VERSION"}
                         -> Dispatch(d, c, t, m)
                    [] OTHER -> Done(0, c, t, ErrorRsp(m.ver))
             g == SpdmSessionGet(r.t, sid)
             state(x) == [r EXCEPT !.c.state = x]
             shut == [r EXCEPT !.c.state = "NOT_READY", !.t = Release(g.t, g.i)]
  <1>1. SecuredRequest(d, c, t, m, sid) =
          CASE r.ret # 0 -> shut
            [] r.ret = 0 /\ m.code = "GET_VERSION" -> state("GOT_VERSION")
            [] r.ret = 0 /\ m.code = "END_SESSION" -> state("NOT_READY")
            [] OTHER -> r
    BY DEF SecuredRequest
  <1>2. Calm(r, t)
    <2>1. m.code \in SessionCodes => Calm(Dispatch(d, c, t, m), t)
      BY DispatchEffect, QuietCalm
    <2> QED
      BY <2>1, KeyUpdateCalm, EndSessionCalm DEF SessionCodes
  <1> HIDE DEF r
  <1>3. TableMoved(r.t, g.t) /\ g.i \in 0..MaxSession
    BY <1>2, GetMoved DEF Calm, TableMoved
  <1> HIDE DEF g
  <1>4. TableMoved(t, Release(g.t, g.i))
    BY <1>2, <1>3, ReleaseMoved, MovedTransitive DEF Calm, TableMoved
  <1>5. \A x : Context([r.c EXCEPT !.state = x])
    BY <1>2, ContextKept DEF Calm
  <1>6. Calm(shut, t)
    <2>1. /\ DOMAIN shut = {"ret", "c", "t", "rsp"} /\ shut.c = [r.c EXCEPT !.state = "NOT_READY"]
          /\ shut.t = Release(g.t, g.i) /\ shut.rsp = r.rsp
      BY <1>2 DEF Calm
    <2> HIDE DEF shut
    <2> QED
      BY <1>2, <1>4, <1>5, <2>1 DEF Calm
  <1>7. ASSUME NEW x PROVE Calm(state(x), t)
    <2>1. /\ DOMAIN state(x) = {"ret", "c", "t", "rsp"} /\ state(x).c = [r.c EXCEPT !.state = x]
          /\ state(x).t = r.t /\ state(x).rsp = r.rsp
      BY <1>2 DEF Calm
    <2> HIDE DEF state
    <2> QED
      BY <1>2, <1>5, <2>1 DEF Calm
  <1> HIDE DEF state, shut
  <1> QED
    BY <1>1, <1>2, <1>6, <1>7

LEMMA HandlerEffect ==
  ASSUME NEW d, NEW c, NEW t, NEW m, NEW seal, Context(c)
  PROVE  /\ seal.on /\ Table(t) => Calm(SpdmHandler(d, c, t, m, seal), t)
         /\ ~seal.on /\ ServerTable(d, t) => Effect(d, c, t, m, SpdmHandler(d, c, t, m, seal))
  <1> DEFINE fresh == IF m.code = "GET_MEASUREMENTS" THEN c ELSE ResetL1L2(c, m.ver)
             r == PlainRequest(d, fresh, t, m)
  <1>1. SpdmHandler(d, c, t, m, seal) =
          IF seal.on THEN SecuredRequest(d, fresh, t, m, seal.id) ELSE r
    BY DEF SpdmHandler
  <1>2. Context(fresh) /\ fresh.th2 = c.th2 /\ fresh.cert = c.cert
    <2>1. Context(ResetL1L2(c, m.ver))
      BY ContextTranscripts
    <2>2. ResetL1L2(c, m.ver).th2 = c.th2 /\ ResetL1L2(c, m.ver).cert = c.cert
      BY DEF ResetL1L2, Context, ContextFields
    <2> QED
      BY <2>1, <2>2
  <1> HIDE DEF fresh
  <1>3. \A i : Finished(fresh, t, m, r, i) => Finished(c, t, m, r, i)
    <2> HIDE DEF r
    <2> QED
      BY <1>2, Zenon DEF Finished
  <1>4. ServerTable(d, t) => Effect(d, c, t, m, r)
    <2>1. ServerTable(d, t) => Effect(d, fresh, t, m, r)
      BY <1>2, PlainEffect
    <2> HIDE DEF r
    <2> QED
      BY <1>3, <2>1 DEF Effect
  <1>5. Table(t) => Calm(SecuredRequest(d, fresh, t, m, seal.id), t)
    BY <1>2, SecuredCalm
  <1> HIDE DEF r
  <1> QED
    BY <1>1, <1>4, <1>5

\* The responder thread's answer: what it leaves of the sessions.
Answered(p, m, y) ==
  /\ Context(y.c) /\ ServerTable(dev[p], y.t) /\ y.st \in {"RESPONSE", "LOST"}
  /\ y.st = "RESPONSE" /\ y.m.code = "KEY_EXCHANGE_RSP" =>
       \E j \in 1..MaxSession : /\ y.t[j].valid /\ y.t[j].state = "KEY_EXCHANGED"
                                /\ y.m.data[1] = dev[p].base + j
  /\ \A i \in 1..MaxSession : y.t[i].valid /\ y.t[i].state = "ESTABLISHED" =>
       \/ Moved(tab[p][i], y.t[i])
       \/ m.code = "PSK_EXCHANGE" /\ y.t[i].id[1] = m.data[1]
       \/ Finished(rctx[p], tab[p], m, [t |-> y.t, rsp |-> y.m], i)

LEMMA AnswerPlain ==
  ASSUME NEW p, NEW m, NEW seal, ~seal.on, Context(rctx[p]), ServerTable(dev[p], tab[p])
  PROVE  /\ Answered(p, m, Answer(p, m, seal))
         /\ Answer(p, m, seal).seal = NoSeal
  <1> DEFINE r == SpdmHandler(dev[p], rctx[p], tab[p], m, seal)
             y == [st |-> "RESPONSE", c |-> r.c, t |-> r.t, m |-> r.rsp, seal |-> NoSeal]
  <1>1. Answer(p, m, seal) = y
    BY DEF Answer
  <1>2. Effect(dev[p], rctx[p], tab[p], m, r)
    BY HandlerEffect
  <1> HIDE DEF r
  <1>3. y.st = "RESPONSE" /\ y.c = r.c /\ y.t = r.t /\ y.m = r.rsp /\ y.seal = NoSeal
    OBVIOUS
  <1>4. \A i : Finished(rctx[p], tab[p], m, r, i)
               => Finished(rctx[p], tab[p], m, [t |-> r.t, rsp |-> r.rsp], i)
    <2>1. [t |-> r.t, rsp |-> r.rsp].t = r.t /\ [t |-> r.t, rsp |-> r.rsp].rsp = r.rsp
      OBVIOUS
    <2> QED
      BY <2>1, Zenon DEF Finished
  <1> HIDE DEF y
  <1>5. Answered(p, m, y)
    BY <1>2, <1>3, <1>4 DEF Answered, Effect
  <1> QED
    BY <1>1, <1>3, <1>5

\* In a session: nothing new, and the answer is sealed in the session of the request.
LEMMA AnswerSealed ==
  ASSUME NEW p, NEW m, NEW seal, seal.on, Context(rctx[p]), Table(tab[p])
  PROVE  LET y == Answer(p, m, seal)
         IN  /\ Context(y.c) /\ TableMoved(tab[p], y.t) /\ y.st \in {"RESPONSE", "LOST"}
             /\ y.st = "RESPONSE" => y.m.code # "KEY_EXCHANGE_RSP"
  <1> DEFINE opened == Decrypt(tab[p], seal)
             r == SpdmHandler(dev[p], rctx[p], opened.t, m, seal)
             x == Encrypt(r.t, seal.id, r.rsp)
             lost == [st |-> "LOST", c |-> rctx[p], t |-> opened.t, m |-> m, seal |-> seal]
             sent == [st |-> "RESPONSE", c |-> r.c, t |-> x.t, m |-> r.rsp, seal |-> x.seal]
  <1>1. Answer(p, m, seal) = IF ~opened.ok THEN lost ELSE sent
    BY DEF Answer
  <1>2. TableMoved(tab[p], opened.t)
    BY DecryptMoved
  <1> HIDE DEF opened
  <1>3. Calm(r, opened.t)
    BY <1>2, HandlerEffect DEF TableMoved
  <1> HIDE DEF r
  <1>4. TableMoved(r.t, x.t)
    BY <1>3, EncryptMoved DEF Calm, TableMoved
  <1>5. TableMoved(tab[p], x.t)
    BY <1>2, <1>3, <1>4, MovedTransitive DEF Calm
  <1> HIDE DEF x
  <1> QED
    BY <1>1, <1>2, <1>3, <1>5 DEF Calm

LEMMA AnswerEffect ==
  ASSUME NEW p, NEW m, NEW seal, Context(rctx[p]), ServerTable(dev[p], tab[p])
  PROVE  Answered(p, m, Answer(p, m, seal))
  <1> DEFINE y == Answer(p, m, seal)
  <1>1. ASSUME seal.on PROVE Answered(p, m, y)
    <2>1. /\ Context(y.c) /\ TableMoved(tab[p], y.t) /\ y.st \in {"RESPONSE", "LOST"}
          /\ y.st = "RESPONSE" => y.m.code # "KEY_EXCHANGE_RSP"
      BY <1>1, AnswerSealed DEF ServerTable
    <2> HIDE DEF y
    <2>2. ServerTable(dev[p], y.t)
      BY <2>1, ServerMoved
    <2>3. \A i \in 1..MaxSession : y.t[i].valid => Moved(tab[p][i], y.t[i])
      BY <2>1 DEF TableMoved, EmptySession
    <2> QED
      BY <2>1, <2>2, <2>3 DEF Answered
  <1>2. ~seal.on => Answered(p, m, y)
    BY AnswerPlain
  <1> QED
    BY <1>1, <1>2

\* The responder of a node that attests, reached by a foreign requester only.
LEMMA AnswerIdle ==
  ASSUME NEW p, NEW m, NEW seal, ~seal.on, m.code \in {"GET_VERSION", "PSK_EXCHANGE"},
         Context(rctx[p]), rctx[p].state \in {"NOT_READY", "GOT_VERSION"}
  PROVE  LET y == Answer(p, m, seal)
         IN  y.t = tab[p] /\ Context(y.c) /\ y.c.state \in {"NOT_READY", "GOT_VERSION"}
  <1> DEFINE d == dev[p]
             t == tab[p]
             c == ResetL1L2(rctx[p], m.ver)
             r == SpdmHandler(d, rctx[p], t, m, seal)
             err == Done(0, c, t, ErrorRsp(m.ver))
             h == HandleGetVersion(d, c, t, m)
  <1>1. Answer(p, m, seal) =
          [st |-> "RESPONSE", c |-> r.c, t |-> r.t, m |-> r.rsp, seal |-> NoSeal]
    BY DEF Answer
  <1>2. r = PlainRequest(d, c, t, m)
    BY DEF SpdmHandler
  <1>3. Context(c) /\ c.state = rctx[p].state
    <2>1. Context(c)
      BY ContextTranscripts
    <2>2. c.state = rctx[p].state
      BY DEF ResetL1L2, Context, ContextFields
    <2> QED
      BY <2>1, <2>2
  <1>4. Quiet(h, t) /\ (h.ret # 0 => h.c = c)
    <2>1. Quiet(h, t)
      BY <1>3, VcaQuiet
    <2>2. h.ret # 0 => h.c = c
      BY DEF HandleGetVersion, Done
    <2> QED
      BY <2>1, <2>2
  <1>5. err.c = c /\ err.t = t
    BY DEF Done
  <1> HIDE DEF c, h, err
  <1>6. CASE m.code = "PSK_EXCHANGE"
    <2>1. r = err
      BY <1>2, <1>3, <1>6 DEF PlainRequest, Accepted, err
    <2> QED
      BY <1>1, <1>3, <1>5, <2>1
  <1>7. CASE m.code = "GET_VERSION"
    <2>1. m.code \in Accepted[c.state]
      BY <1>3, <1>7 DEF Accepted
    <2>2. Dispatch(d, c, t, m) = h
      BY <1>7 DEF Dispatch, h
    <2>3. r = IF h.ret = 0 THEN [h EXCEPT !.c.state = "GOT_VERSION"] ELSE h
      <3>1. StateAfter(c.state, m.code) = "GOT_VERSION" /\ c.state # "KEY_EXCHANGED"
        BY <1>3, <1>7 DEF StateAfter
      <3>2. m.code \notin {"KEY_EXCHANGE", "PSK_EXCHANGE"}
        BY <1>7
      <3> HIDE DEF r
      <3> QED
        BY <1>2, <2>1, <2>2, <3>1, <3>2 DEF PlainRequest
    <2>4. Context([h.c EXCEPT !.state = "GOT_VERSION"])
      BY <1>4, ContextKept DEF Quiet
    <2> HIDE DEF r
    <2>5. r.t = t /\ Context(r.c)
      BY <1>4, <2>3, <2>4 DEF Quiet
    <2>6. r.c.state \in {"NOT_READY", "GOT_VERSION"}
      BY <1>3, <1>4, <2>3 DEF Quiet, Context, ContextFields
    <2> QED
      BY <1>1, <2>5, <2>6
  <1> QED
    BY <1>6, <1>7

-----------------------------------------------------------------------------
(* The requester's steps.                                                   *)

Same(a, b) == Attempt(b) /\ b.sess = a.sess /\ b.dev = a.dev /\ b.pc = a.pc

\* A response taken: the next request of those in P, or the verdict, which
\* releases the session of the attestation when it is a failure.
Turn(t, a, o, P) ==
  /\ Attempt(o.a) /\ o.a.sess = a.sess /\ o.a.dev = a.dev /\ o.a.pc \in P \cup {"VERDICT"}
  /\ o.a.pc # "VERDICT" => o.t = t
  /\ o.a.pc = "VERDICT" => o.t = Release(t, a.sess) \/ (o.t = t /\ o.a.res = "SUCCEEDED")

LEMMA AttemptKept ==
  ASSUME NEW a, NEW b, Same(a, b), NEW x
  PROVE  /\ Context(x) => Same(a, [b EXCEPT !.c = x])
         /\ Same(a, [b EXCEPT !.slot = x]) /\ Same(a, [b EXCEPT !.part = x])
         /\ Same(a, [b EXCEPT !.meas = x]) /\ Same(a, [b EXCEPT !.afm = x])
  BY DEF Same, Attempt, AttFields

LEMMA GoTurn ==
  ASSUME NEW t, NEW a, NEW b, Same(a, b), NEW pc, pc # "VERDICT"
  PROVE  Turn(t, a, Go(t, b, pc), {pc})
  BY DEF Same, Attempt, AttFields, Turn, Go, Outcome

LEMMA ConcludeTurn ==
  ASSUME NEW t, NEW a, NEW b, Same(a, b), NEW res \in Results
  PROVE  Turn(t, a, Conclude(t, b, res), {})
  BY DEF Same, Attempt, AttFields, Turn, Conclude, Outcome

LEMMA TurnWider ==
  ASSUME NEW t, NEW a, NEW o, NEW P, NEW Q, Turn(t, a, o, P), P \subseteq Q
  PROVE  Turn(t, a, o, Q)
  BY DEF Turn

LEMMA NextSlotTurn ==
  ASSUME NEW t, NEW a, NEW b, Same(a, b), NEW s
  PROVE  Turn(t, a, NextSlot(t, b, s), {"GET_CERTIFICATE"})
  <1> DEFINE S == {x \in b.c.mask : x > s}
             n == [b EXCEPT !.slot = Min(S), !.part = 0]
  <1>1. Same(a, n)
    BY DEF Same, Attempt, AttFields
  <1>2. NextSlot(t, b, s) = IF S = {} THEN Conclude(t, b, "CERTIFICATE") ELSE Go(t, n, "GET_CERTIFICATE")
    BY DEF NextSlot
  <1> HIDE DEF n, S
  <1>3. Turn(t, a, Conclude(t, b, "CERTIFICATE"), {})
    BY ConcludeTurn DEF Results
  <1>4. Turn(t, a, Conclude(t, b, "CERTIFICATE"), {"GET_CERTIFICATE"})
    BY <1>3, TurnWider
  <1>5. Turn(t, a, Go(t, n, "GET_CERTIFICATE"), {"GET_CERTIFICATE"})
    BY <1>1, GoTurn
  <1> QED
    BY <1>2, <1>4, <1>5

LEMMA NextMeasurementTurn ==
  ASSUME NEW t, NEW a, NEW b, Same(a, b)
  PROVE  Turn(t, a, NextMeasurement(t, b), {IF InSession(a) THEN "SESSION_MEASURE" ELSE "MEASURE"})
  <1> DEFINE n == [b EXCEPT !.meas = @ + 1]
             pc == IF InSession(a) THEN "SESSION_MEASURE" ELSE "MEASURE"
  <1>1. Same(a, n)
    BY DEF Same, Attempt, AttFields
  <1>2. NextMeasurement(t, b) =
          IF b.meas + 1 = AllMeasurements THEN Conclude(t, b, "MEASUREMENTS") ELSE Go(t, n, pc)
    BY DEF NextMeasurement, InSession, Same
  <1>3. pc # "VERDICT"
    OBVIOUS
  <1> HIDE DEF n, pc
  <1>4. Turn(t, a, Conclude(t, b, "MEASUREMENTS"), {})
    BY ConcludeTurn DEF Results
  <1>5. Turn(t, a, Conclude(t, b, "MEASUREMENTS"), {pc})
    BY <1>4, TurnWider
  <1>6. Turn(t, a, Go(t, n, pc), {pc})
    BY <1>1, <1>3, GoTurn
  <1>7. Turn(t, a, NextMeasurement(t, b), {pc})
    BY <1>2, <1>5, <1>6
  <1> QED
    BY <1>7 DEF pc

\* Context changes of the requests before a session.
LEMMA VcaTurn ==
  ASSUME NEW t, NEW a, Attempt(a), NEW req, NEW m
  PROVE  /\ Turn(t, a, TakeVersion(t, a, req, m), Early)
         /\ Turn(t, a, TakeCapabilities(t, a, req, m), Early)
         /\ Turn(t, a, TakeAlgorithms(t, a, req, m), Early)
  <1>1. Same(a, a)
    BY DEF Same
  <1>2. \A res \in Results : Turn(t, a, Conclude(t, a, res), Early)
    BY <1>1, ConcludeTurn, TurnWider
  <1>3. \A b, pc : Same(a, b) /\ pc \in Early => Turn(t, a, Go(t, b, pc), Early)
    <2> TAKE b, pc
    <2> HAVE Same(a, b) /\ pc \in Early
    <2>1. Turn(t, a, Go(t, b, pc), {pc})
      BY GoTurn DEF Early
    <2> QED
      BY <2>1, TurnWider
  <1>4. Turn(t, a, TakeVersion(t, a, req, m), Early)
    <2> DEFINE best == Max({10} \cup {m.data[i] : i \in DOMAIN m.data})
               c == [a.c EXCEPT !.selected = best, !.msgA = <<>>, !.m1m2 = <<>>]
               b == [a EXCEPT !.c = UpdateVca(c, req, m)]
    <2>1. Context(c)
      <3> HIDE DEF best
      <3> QED
        BY TranscriptOf DEF Attempt, Context, ContextFields
    <2>2. TakeVersion(t, a, req, m) =
            IF ~Answers(m, req, "VERSION") \/ Len(m.data) \notin {1, 2} THEN Conclude(t, a, "VCA")
            ELSE Go(t, b, "GET_CAPABILITIES")
      BY DEF TakeVersion
    <2>3. Same(a, b)
      <3> HIDE DEF c
      <3> QED
        BY <1>1, <2>1, ContextTranscripts, AttemptKept
    <2> HIDE DEF b
    <2> QED
      BY <1>2, <1>3, <2>2, <2>3 DEF Early, Results
  <1>5. Turn(t, a, TakeCapabilities(t, a, req, m), Early)
    <2> DEFINE c == [a.c EXCEPT !.remote = m.caps]
               b == [a EXCEPT !.c = UpdateVca(c, req, m)]
    <2>1. Context(c)
      BY ContextKept DEF Attempt
    <2>2. TakeCapabilities(t, a, req, m) =
            IF ~Answers(m, req, "CAPABILITIES") THEN Conclude(t, a, "VCA")
            ELSE Go(t, b, "NEGOTIATE_ALGORITHMS")
      BY DEF TakeCapabilities
    <2>3. Same(a, b)
      <3> HIDE DEF c
      <3> QED
        BY <1>1, <2>1, ContextTranscripts, AttemptKept
    <2> HIDE DEF b
    <2> QED
      BY <1>2, <1>3, <2>2, <2>3 DEF Early, Results
  <1>6. Turn(t, a, TakeAlgorithms(t, a, req, m), Early)
    <2> DEFINE b == [a EXCEPT !.c = UpdateVca(@, req, m)]
    <2>1. Same(a, b)
      <3>1. b = [a EXCEPT !.c = UpdateVca(a.c, req, m)]
        BY DEF Attempt
      <3>2. Context(UpdateVca(a.c, req, m))
        BY ContextTranscripts DEF Attempt
      <3> QED
        BY <1>1, <3>1, <3>2, AttemptKept
    <2>2. TakeAlgorithms(t, a, req, m) =
            IF ~Answers(m, req, "ALGORITHMS") \/ m.data # <<384>> THEN Conclude(t, a, "VCA")
            ELSE IF "CERT" \in a.c.remote THEN Go(t, b, "GET_DIGESTS")
            ELSE Conclude(t, b, "SUCCEEDED")
      BY DEF TakeAlgorithms
    <2> HIDE DEF b
    <2>3. Turn(t, a, Conclude(t, b, "SUCCEEDED"), Early)
      BY <2>1, ConcludeTurn, TurnWider DEF Results
    <2> QED
      BY <1>2, <1>3, <2>1, <2>2, <2>3 DEF Early, Results
  <1> QED
    BY <1>4, <1>5, <1>6

LEMMA IdentityTurn ==
  ASSUME NEW t, NEW a, Attempt(a), NEW req, NEW m
  PROVE  /\ Turn(t, a, TakeDigests(t, a, req, m), Early)
         /\ Turn(t, a, TakeCertificate(t, a, req, m), Early)
         /\ Turn(t, a, TakeChallengeAuth(t, a, req, m), Early)
  <1>1. Same(a, a) /\ Context(a.c)
    BY DEF Same, Attempt
  <1>2. \A res \in Results : Turn(t, a, Conclude(t, a, res), Early)
    BY <1>1, ConcludeTurn, TurnWider
  <1>3. \A b, pc : Same(a, b) /\ pc \in Early => Turn(t, a, Go(t, b, pc), Early)
    <2> TAKE b, pc
    <2> HAVE Same(a, b) /\ pc \in Early
    <2>1. Turn(t, a, Go(t, b, pc), {pc})
      BY GoTurn DEF Early
    <2> QED
      BY <2>1, TurnWider
  <1>4. \A b, s : Same(a, b) => Turn(t, a, NextSlot(t, b, s), Early)
    BY NextSlotTurn, TurnWider DEF Early
  <1>5. Turn(t, a, TakeDigests(t, a, req, m), Early)
    <2> DEFINE mask == {s \in Slots : m.data[s + 1] # 0}
               c == [a.c EXCEPT !.mask = mask,
                       !.cert = [s \in Slots |-> IF s \in mask
                                  THEN [@[s] EXCEPT !.digest = m.data[s + 1]] ELSE @[s]]]
               b == [a EXCEPT !.c = UpdateM1M2(c, req, m)]
    <2>1. Context(c)
      <3> HIDE DEF mask
      <3> QED
        BY <1>1 DEF Context, ContextFields
    <2>2. TakeDigests(t, a, req, m) =
            IF ~Answers(m, req, "DIGESTS") THEN Conclude(t, a, "DIGEST")
            ELSE IF mask = {} THEN Go(t, b, "CHALLENGE")
            ELSE NextSlot(t, b, -1)
      BY DEF TakeDigests
    <2>3. Same(a, b)
      <3> HIDE DEF c
      <3> QED
        BY <1>1, <2>1, ContextTranscripts, AttemptKept
    <2> HIDE DEF b, mask
    <2> QED
      BY <1>2, <1>3, <1>4, <2>2, <2>3 DEF Early, Results
  <1>6. Turn(t, a, TakeCertificate(t, a, req, m), Early)
    <2> DEFINE s     == a.slot
               chain == m.data[1]
               rest  == m.data[3]
               c     == [a.c EXCEPT !.cert[s].data = chain]
               u     == UpdateM1M2(c, req, m)
               took  == [a EXCEPT !.c = UpdateM1M2([@ EXCEPT !.cert[s].data = chain], req, m)]
               bad   == [took EXCEPT !.c.cert[s] = [@ EXCEPT !.data = 0, !.leaf = 0],
                                     !.c.mask = @ \ {s}]
               v     == [u EXCEPT !.cert[s] = [@ EXCEPT !.data = 0, !.leaf = 0]]
               w     == [u EXCEPT !.cert[s].leaf = chain]
               shut  == [v EXCEPT !.mask = u.mask \ {s}]
               more  == [took EXCEPT !.part = @ + 1]
               good  == [took EXCEPT !.c.cert[s].leaf = chain]
    <2>1. TakeCertificate(t, a, req, m) =
            IF ~Answers(m, req, "CERTIFICATE") \/ m.data = <<>> THEN NextSlot(t, a, s)
            ELSE IF rest # 0 THEN Go(t, more, "GET_CERTIFICATE")
            ELSE IF chain # a.c.cert[s].digest THEN NextSlot(t, took, s)
            ELSE IF chain \notin RootedChain THEN NextSlot(t, bad, s)
            ELSE Go(t, good, "CHALLENGE")
      BY DEF TakeCertificate
    <2>2. Context(u)
      <3>1. Context(c)
        BY <1>1, CertKept
      <3> HIDE DEF c
      <3> QED
        BY <3>1, ContextTranscripts
    <2>3. Context(v) /\ Context(w) /\ Context(shut)
      <3> HIDE DEF u
      <3>1. Context(v) /\ Context(w)
        BY <2>2, CertKept
      <3> HIDE DEF v
      <3> QED
        BY <3>1, ContextKept
    <2>4. took = [a EXCEPT !.c = u]
      BY DEF Attempt, AttFields
    <2>5. Same(a, took)
      <3> HIDE DEF u, took
      <3> QED
        BY <1>1, <2>2, <2>4, AttemptKept
    <2> HIDE DEF took
    <2>6. took.c = u
      <3> HIDE DEF u
      <3> QED
        BY <2>4 DEF Attempt, AttFields
    <2>7. Same(a, more)
      BY <2>5, AttemptKept
    <2>8. Same(a, good)
      <3>1. good = [took EXCEPT !.c = w]
        <4> HIDE DEF u
        <4> QED
          BY <2>5, <2>6 DEF Same, Attempt, AttFields
      <3> HIDE DEF w
      <3> QED
        BY <2>3, <2>5, <3>1, AttemptKept
    <2>9. Same(a, bad)
      <3>1. bad = [took EXCEPT !.c = shut]
        <4> HIDE DEF u
        <4> QED
          BY <2>2, <2>5, <2>6 DEF Same, Attempt, AttFields, Context, ContextFields
      <3> HIDE DEF shut, bad
      <3> QED
        BY <2>3, <2>5, <3>1, AttemptKept
    <2> HIDE DEF more, bad, good
    <2> QED
      BY <1>1, <1>3, <1>4, <2>1, <2>5, <2>7, <2>8, <2>9 DEF Early
  <1>7. Turn(t, a, TakeChallengeAuth(t, a, req, m), Early)
    <2> DEFINE m1 == UpdateM1M2(a.c, req, m)
               c == ResetL1L2(ResetM1M2(m1), m1.selected)
               b == [a EXCEPT !.c = c]
    <2>1. TakeChallengeAuth(t, a, req, m) =
            IF ~Answers(m, req, "CHALLENGE_AUTH") \/ ~Verifies(a.c, a.slot, m.sig, m1.m1m2)
            THEN Conclude(t, a, "CHALLENGE_AUTH") ELSE Go(t, b, "TOTAL")
      BY DEF TakeChallengeAuth
    <2>2. Context(c)
      BY <1>1, ContextTranscripts
    <2> HIDE DEF c
    <2>3. Same(a, b)
      BY <1>1, <2>2, AttemptKept
    <2> HIDE DEF b, m1
    <2> QED
      BY <1>2, <1>3, <2>1, <2>3 DEF Early, Results
  <1> QED
    BY <1>5, <1>6, <1>7

Measuring(a) == IF InSession(a) THEN {"SESSION_MEASURE"} ELSE {"MEASURE", "KEY_EXCHANGE"}

LEMMA MeasurementsTurn ==
  ASSUME NEW t, NEW a, Attempt(a), NEW e, NEW req, NEW m
  PROVE  /\ Turn(t, a, TakeTotal(e, t, a, req, m), Measuring(a))
         /\ Turn(t, a, TakeMeasurement(e, t, a, req, m), Measuring(a))
  <1>1. Same(a, a) /\ Context(a.c)
    BY DEF Same, Attempt
  <1>2. \A b : \A res \in Results : Same(a, b) => Turn(t, a, Conclude(t, b, res), Measuring(a))
    BY ConcludeTurn, TurnWider
  <1>3. \A b : Same(a, b) => Turn(t, a, NextMeasurement(t, b), Measuring(a))
    BY NextMeasurementTurn, TurnWider DEF Measuring
  <1>4. \A b : Same(a, b) /\ ~InSession(a) => Turn(t, a, Go(t, b, "KEY_EXCHANGE"), Measuring(a))
    BY GoTurn, TurnWider DEF Measuring
  <1>5. Turn(t, a, TakeTotal(e, t, a, req, m), Measuring(a))
    <2> DEFINE b == [a EXCEPT !.c = UpdateL1L2(@, req, m)]
    <2>1. b = [a EXCEPT !.c = UpdateL1L2(a.c, req, m)]
      BY DEF Attempt
    <2>2. Same(a, b)
      BY <1>1, <2>1, ContextTranscripts, AttemptKept
    <2>3. TakeTotal(e, t, a, req, m) =
            IF ~Answers(m, req, "MEASUREMENTS") \/ m.p1 < Len(e.expect)
            THEN Conclude(t, a, "MEASUREMENTS") ELSE NextMeasurement(t, b)
      BY DEF TakeTotal
    <2> HIDE DEF b
    <2> QED
      BY <1>1, <1>2, <1>3, <2>2, <2>3 DEF Results
  <1>6. Turn(t, a, TakeMeasurement(e, t, a, req, m), Measuring(a))
    <2> DEFINE r == MeasurementResult(e, a, req, m)
               k == IF r.is = "OK" THEN a.afm + 1 ELSE a.afm
               l1 == UpdateL1L2(a.c, req, m)
               b == [a EXCEPT !.c = r.c]
               heard == [a EXCEPT !.c = r.c, !.afm = IF r.is = "OK" THEN @ + 1 ELSE @]
    <2>1. Context(r.c)
      <3>1. Context(l1) /\ Context(ResetL1L2(l1, req.ver))
        BY <1>1, ContextTranscripts
      <3>2. r.c \in {a.c, l1, ResetL1L2(l1, req.ver)}
        <4> HIDE DEF l1
        <4> QED
          BY DEF MeasurementResult, l1
      <3> QED
        BY <1>1, <3>1, <3>2
    <2>2. Same(a, heard)
      <3> HIDE DEF r
      <3>1. Same(a, b)
        BY <1>1, <2>1, AttemptKept
      <3>2. heard = [b EXCEPT !.afm = k]
        BY DEF Attempt, AttFields
      <3> HIDE DEF b, heard, k
      <3> QED
        BY <3>1, <3>2, AttemptKept
    <2>3. InSession(heard) <=> InSession(a)
      BY <2>2 DEF Same, InSession
    <2>4. TakeMeasurement(e, t, a, req, m) =
            CASE r.is \in {"INVALID_SIG", "GET_FAILED"} -> Conclude(t, heard, "MEASUREMENTS")
              [] r.is \in {"OK", "NOT_FOUND"} /\ heard.afm < Len(e.expect) -> NextMeasurement(t, heard)
              [] OTHER -> IF e.i3c /\ ~InSession(a) THEN Go(t, heard, "KEY_EXCHANGE")
                          ELSE Conclude(t, heard, "SUCCEEDED")
      BY DEF TakeMeasurement
    <2> HIDE DEF r, heard
    <2> QED
      BY <1>2, <1>3, <1>4, <2>2, <2>3, <2>4 DEF Results
  <1> QED
    BY <1>5, <1>6

\* What Request asks: a handshake is not among it.
LEMMA RequestCode ==
  ASSUME NEW d, NEW a, a.pc \in Early \cup Encap \cup Late
  PROVE  Request(d, a).code \notin {"KEY_EXCHANGE", "FINISH", "PSK_EXCHANGE"}
  BY DEF Request, Msg, Early, Encap, Late

LEMMA HeartbeatTurn ==
  ASSUME NEW t, NEW a, Attempt(a), NEW ok
  PROVE  Turn(t, a, IF ok THEN Conclude(t, a, "SUCCEEDED") ELSE Conclude(t, a, "HEARTBEAT"), {})
  BY ConcludeTurn DEF Same, Results

LEMMA EncapTurn ==
  ASSUME NEW t, NEW a, Attempt(a), NEW req, NEW m
  PROVE  LET o == TakeEncapAck(t, a, req, m)
         IN  /\ Turn(t, a, o, Encap \cup {"FINISH"}) /\ o.a.c = a.c
             /\ o.a.pc = "VERDICT" => o.t = Release(t, a.sess)
  <1> DEFINE b == [a EXCEPT !.slot = m.data[1], !.part = m.data[2]]
             fail == Conclude(t, a, "MUTUAL_AUTH")
             finish == Go(t, a, "FINISH")
             more == Go(t, b, "ENCAP_CERTIFICATE")
  <1>1. Same(a, a) /\ Same(a, b) /\ b.c = a.c
    BY DEF Same, Attempt, AttFields
  <1>2. TakeEncapAck(t, a, req, m) =
          CASE m.code # "ENCAP_RSP_ACK" -> fail
            [] m.code = "ENCAP_RSP_ACK" /\ m.data = <<>> -> finish
            [] m.code = "ENCAP_RSP_ACK" /\ m.data # <<>> /\ m.data[1] = 127 -> fail
            [] OTHER -> more
    BY DEF TakeEncapAck
  <1>3. Turn(t, a, fail, {}) /\ fail.a.c = a.c /\ fail.t = Release(t, a.sess)
    <2>1. Turn(t, a, fail, {})
      BY <1>1, ConcludeTurn DEF Results
    <2>2. fail.a.c = a.c /\ fail.t = Release(t, a.sess)
      BY DEF Conclude, Outcome, Attempt, AttFields
    <2> QED
      BY <2>1, <2>2
  <1> HIDE DEF b, fail
  <1>4. Turn(t, a, finish, {"FINISH"}) /\ finish.a.c = a.c /\ finish.a.pc # "VERDICT"
    <2>1. Turn(t, a, finish, {"FINISH"})
      BY <1>1, GoTurn
    <2>2. finish.a.c = a.c /\ finish.a.pc = "FINISH"
      BY DEF Go, Outcome, Attempt, AttFields
    <2> QED
      BY <2>1, <2>2
  <1>5. Turn(t, a, more, {"ENCAP_CERTIFICATE"}) /\ more.a.c = a.c /\ more.a.pc # "VERDICT"
    <2>1. Turn(t, a, more, {"ENCAP_CERTIFICATE"})
      BY <1>1, GoTurn
    <2>2. more.a.c = a.c /\ more.a.pc = "ENCAP_CERTIFICATE"
      BY <1>1 DEF Go, Outcome, Same, Attempt, AttFields
    <2> QED
      BY <2>1, <2>2
  <1> HIDE DEF finish, more
  <1>6. \A o, P : Turn(t, a, o, P) /\ P \subseteq Encap \cup {"FINISH"} => Turn(t, a, o, Encap \cup {"FINISH"})
    BY TurnWider
  <1>7. "ENCAP_CERTIFICATE" \in Encap
    BY DEF Encap
  <1> QED
    BY <1>2, <1>3, <1>4, <1>5, <1>6, <1>7

LEMMA ClientMoved ==
  ASSUME NEW d, NEW t, NEW u, ClientTable(d, t), TableMoved(t, u)
  PROVE  ClientTable(d, u)
  <1>1. ASSUME NEW i \in 1..MaxSession PROVE ClientSlot(d, i, u[i])
    <2>1. CASE u[i] = EmptySession
      BY <2>1 DEF ClientSlot, EmptySession
    <2>2. CASE Moved(t[i], u[i])
      <3>1. Session(t[i]) /\ ClientSlot(d, i, t[i])
        BY DEF ClientTable, Table
      <3> QED
        BY <2>2, <3>1 DEF Moved, ClientSlot, Keyed, Shaken, SessionFields
    <2> QED
      BY <2>1, <2>2 DEF TableMoved
  <1> QED
    BY <1>1 DEF ClientTable, TableMoved

\* One session replaced.
LEMMA ClientSet ==
  ASSUME NEW d, NEW t, ClientTable(d, t), NEW i \in 1..MaxSession, NEW s, Session(s), s.valid,
         ClientSlot(d, i, s)
  PROVE  LET u == [t EXCEPT ![i] = s]
         IN  /\ ClientTable(d, u) /\ u[i] = s
             /\ \A j \in 1..MaxSession \ {i} : u[j] = t[j]
  BY DEF ClientTable, Table

\* KEY_EXCHANGE goes out: its session is new.
LEMMA KeyExchangeIssued ==
  ASSUME NEW d, NEW t, ClientTable(d, t), NEW a, Attempt(a)
  PROVE  LET x == IssueKeyExchange(d, t, a)
             i == x.a.sess
         IN  /\ ~x.ok => x.t = t /\ x.a = a
             /\ x.ok => /\ i \in 1..MaxSession /\ ClientTable(d, x.t)
                        /\ \A j \in 1..MaxSession \ {i} : x.t[j] = t[j]
                        /\ x.t[i].valid /\ x.t[i].state = "CHALLENGED"
                        /\ x.t[i].id = <<d.base + i, 0>>
                        /\ \A k \in Dirs : x.t[i].key[k].secret = <<>>
                        /\ Attempt(x.a) /\ x.a.pc = a.pc /\ x.a.dev = a.dev
                        /\ x.m.code = "KEY_EXCHANGE" /\ x.m.data = <<d.base + i>>
                        /\ x.seal = NoSeal
  <1> DEFINE f == GetFreeSessionSlot(t)
             m == Msg("KEY_EXCHANGE", a.c.selected, IF MeasAttr(a.c) = 1 THEN 255 ELSE 0, 0,
                      <<d.base + f>>)
             u == SpdmSessionCreate(t, f, "REQ", d.base + f, 0)
             b == [a EXCEPT !.sess = f]
             x == IssueKeyExchange(d, t, a)
  <1>1. f \in 0..MaxSession
    BY FreeSlot DEF ClientTable
  <1>2. m.code = "KEY_EXCHANGE" /\ m.data = <<d.base + f>>
    BY DEF Msg
  <1>3. CASE f = 0
    <2>1. x.ok = FALSE /\ x.t = t /\ x.a = a
      BY <1>3 DEF IssueKeyExchange, NotSent
    <2> QED
      BY <2>1
  <1>4. CASE f # 0
    <2>1. x.ok /\ x.t = u /\ x.a = b /\ x.m = m /\ x.seal = NoSeal
      BY <1>4 DEF IssueKeyExchange, Sent
    <2>2. f \in 1..MaxSession
      <3> HIDE DEF f
      <3> QED
        BY <1>1, <1>4, SpdmConstants
    <2>3. Attempt(b) /\ b.pc = a.pc /\ b.dev = a.dev /\ b.sess = f
      <3> HIDE DEF f
      <3> QED
        BY DEF Attempt, AttFields
    <2> HIDE DEF x, b, m
    <2>4. /\ Table(u) /\ \A j \in 1..MaxSession \ {f} : u[j] = t[j]
          /\ Session(u[f]) /\ u[f].valid /\ u[f].id = <<d.base + f, 0>>
          /\ u[f].state = "CHALLENGED" /\ u[f].type = "REQ" /\ u[f].reqMac = NoMac
          /\ \A k \in Dirs : u[f].key[k].secret = <<>>
      <3> HIDE DEF f
      <3> QED
        BY <2>2, CreatedSession DEF ClientTable, Dirs
    <2> HIDE DEF u, f
    <2>5. ClientSlot(d, f, u[f])
      BY <2>4 DEF ClientSlot, Keyed
    <2>6. ClientTable(d, u)
      BY <2>4, <2>5 DEF ClientTable
    <2> QED
      BY <1>2, <2>1, <2>2, <2>3, <2>4, <2>6 DEF x
  <1> QED
    BY <1>3, <1>4

\* FINISH goes out for the pending session, which is that of the attestation.
LEMMA FinishIssued ==
  ASSUME NEW d, NEW t, ClientTable(d, t), NEW a, Attempt(a),
         a.sess \in 1..MaxSession, t[a.sess].valid, t[a.sess].state # "ESTABLISHED",
         \A j \in 1..MaxSession : t[j].valid /\ t[j].state # "ESTABLISHED" => j = a.sess
  PROVE  LET x == IssueFinish(d, t, a)
             i == a.sess
         IN  /\ ~x.ok => x.t = t /\ x.a = a
             /\ x.ok => /\ t[i].state = "KEY_EXCHANGED" /\ ClientTable(d, x.t)
                        /\ \A j \in 1..MaxSession \ {i} : x.t[j] = t[j]
                        /\ \A f \in SessionFields \ {"reqMac"} : x.t[i][f] = t[i][f]
                        /\ Attempt(x.a) /\ x.a.c = a.c /\ x.a.fin = i
                        /\ x.a.sess = a.sess /\ x.a.pc = a.pc /\ x.a.dev = a.dev
                        /\ x.m.code = "FINISH" /\ x.m.p1 = 1
                        /\ x.m.sig.over = a.c.th2 \o <<CertHash(d.slots[0]), FinishHeader(x.m.ver, 1)>>
                        /\ x.m.mac.key = <<HandshakeKey(t[i].id, t[i].rspMac.over, "REQ")>>
                        /\ x.seal = NoSeal
  <1> DEFINE i == FindPendingSession(t)
             s == t[i]
             header == FinishHeader(a.c.selected, 1)
             over == a.c.th2 \o <<CertHash(d.slots[0]), header>>
             signed == [header EXCEPT !.sig = Sign(d.key, over)]
             mac == [s.reqMac EXCEPT !.over = FinishMacOver(@, d.slots[0], signed, a.mut # 0)]
             m == [signed EXCEPT !.mac = mac]
             r == [s EXCEPT !.reqMac = NoMac]
             u == [t EXCEPT ![i].reqMac = NoMac]
             b == [a EXCEPT !.fin = i]
             x == IssueFinish(d, t, a)
  <1>1. i = a.sess
    <2>1. /\ i \in 0..MaxSession /\ (i # 0 => s.valid /\ s.state # "ESTABLISHED")
          /\ (i = 0 => \A j \in 1..MaxSession : t[j].valid => t[j].state = "ESTABLISHED")
      BY PendingSlot DEF ClientTable
    <2> HIDE DEF i
    <2>2. i \in 1..MaxSession
      BY <2>1, SpdmConstants
    <2> QED
      BY <2>1, <2>2
  <1>2. i # 0
    BY <1>1, SpdmConstants
  <1>3. CASE s.reqMac = NoMac
    <2>1. x.ok = FALSE /\ x.t = t /\ x.a = a
      BY <1>2, <1>3 DEF IssueFinish, NotSent
    <2> QED
      BY <2>1
  <1>4. CASE s.reqMac # NoMac
    <2>1. x.ok /\ x.t = u /\ x.a = b /\ x.m = m /\ x.seal = NoSeal
      BY <1>2, <1>4 DEF IssueFinish, Sent
    <2> HIDE DEF x
    <2>2. i \in 1..MaxSession
      BY <1>1
    <2>3. Session(s) /\ ClientSlot(d, i, s) /\ s.valid /\ s.state # "ESTABLISHED"
      <3> HIDE DEF i
      <3> QED
        BY <1>1, <2>2 DEF ClientTable, Table
    <2>4. s.state = "KEY_EXCHANGED" /\ Shaken(s)
      <3> HIDE DEF s
      <3> QED
        BY <1>4, <2>3 DEF Session, ClientSlot, Keyed
    <2>5. s.reqMac = HandshakeMac(s.id, s.rspMac.over, "REQ")
      <3> HIDE DEF s
      <3> QED
        BY <1>4, <2>4 DEF Shaken
    <2>6. m.code = "FINISH" /\ m.p1 = 1 /\ m.ver = a.c.selected /\ m.sig.over = over /\ m.mac = mac
      <3> HIDE DEF over, mac
      <3> QED
        BY DEF FinishHeader, Msg, Sign
    <2>7. mac.key = <<HandshakeKey(s.id, s.rspMac.over, "REQ")>>
      <3>1. \A id, th, y : [HandshakeMac(id, th, "REQ") EXCEPT !.over = y].key
                             = <<HandshakeKey(id, th, "REQ")>>
        BY DEF HandshakeMac
      <3> DEFINE y == FinishMacOver(s.reqMac.over, d.slots[0], signed, a.mut # 0)
      <3>2. mac = [s.reqMac EXCEPT !.over = y]
        OBVIOUS
      <3> HIDE DEF y, s, mac
      <3> QED
        BY <2>5, <3>1, <3>2
    <2>8. /\ Session(r) /\ \A f \in SessionFields \ {"reqMac"} : r[f] = s[f]
          /\ r.reqMac = NoMac
      <3> HIDE DEF s
      <3> QED
        BY <2>3 DEF Session, SessionFields
    <2>9. ClientSlot(d, i, r)
      <3> HIDE DEF s, r
      <3> QED
        BY <2>3, <2>8 DEF ClientSlot, Keyed, Shaken, SessionFields
    <2>10. u = [t EXCEPT ![i] = r]
      OBVIOUS
    <2>11. r.valid
      <3> HIDE DEF s, r
      <3> QED
        BY <2>3, <2>8 DEF SessionFields
    <2>12. /\ ClientTable(d, u) /\ u[i] = r
           /\ \A j \in 1..MaxSession \ {i} : u[j] = t[j]
      <3> DEFINE v == [t EXCEPT ![i] = r]
      <3> HIDE DEF i, r
      <3>1. /\ ClientTable(d, v) /\ v[i] = r
            /\ \A j \in 1..MaxSession \ {i} : v[j] = t[j]
        BY <2>2, <2>8, <2>9, <2>11, ClientSet
      <3> HIDE DEF v, u
      <3>2. u = v
        BY <2>10 DEF v
      <3> QED
        BY <3>1, <3>2
    <2>13. /\ Attempt(b) /\ b.c = a.c /\ b.fin = i /\ b.sess = a.sess /\ b.pc = a.pc
           /\ b.dev = a.dev
      <3> HIDE DEF i
      <3> QED
        BY DEF Attempt, AttFields
    <2>14. over = a.c.th2 \o <<CertHash(d.slots[0]), FinishHeader(m.ver, 1)>>
      BY <2>6
    <2> HIDE DEF u, r, b, m, mac, over
    <2>15. /\ s = t[a.sess] /\ u[a.sess] = r
           /\ \A j \in 1..MaxSession \ {a.sess} : u[j] = t[j]
           /\ b.fin = a.sess
      BY <1>1, <2>12, <2>13
    <2> HIDE DEF i, s
    <2> QED
      BY <2>1, <2>4, <2>6, <2>7, <2>8, <2>12, <2>13, <2>14, <2>15 DEF x
  <1> QED
    BY <1>3, <1>4

\* The answer to KEY_EXCHANGE: the session has the responder's identifier, and
\* keys when the signature verifies.
LEMMA KeyExchangeTaken ==
  ASSUME NEW d, NEW t, ClientTable(d, t), NEW a, Attempt(a), NEW e, NEW req, NEW m,
         a.sess \in 1..MaxSession, t[a.sess].valid, t[a.sess].state = "CHALLENGED",
         \A k \in Dirs : t[a.sess].key[k].secret = <<>>,
         \E k \in DOMAIN d.afm : d.afm[k].index = e.index,
         NEW o \in TakeKeyExchange(e, t, a, req, m)
  PROVE  LET i == a.sess
         IN  /\ Attempt(o.a) /\ o.a.sess = a.sess /\ o.a.dev = a.dev
             /\ o.a.pc \in {"VERDICT", "ENCAP_DIGESTS", "FINISH"}
             /\ o.a.pc = "VERDICT" => o.t = Release(t, i)
             /\ o.a.pc # "VERDICT" =>
                  /\ ClientTable(d, o.t) /\ \A j \in 1..MaxSession \ {i} : o.t[j] = t[j]
                  /\ o.t[i].valid /\ o.t[i].state \in {"CHALLENGED", "KEY_EXCHANGED"}
                  /\ o.t[i].state = "KEY_EXCHANGED" => o.t[i].rspMac.over = o.a.c.th2
                  /\ o.t[i].id = IF m.code = "KEY_EXCHANGE_RSP" THEN <<t[i].id[1], m.data[1]>>
                                 ELSE t[i].id
  <1> DEFINE i    == a.sess
             s    == t[i]
             th1  == a.c.msgA \o <<CertHash(a.c.cert[0].digest), req, Bare(m)>>
             th2  == a.c.msgA \o <<CertHash(a.c.cert[0].digest), req, m>>
             good == Verifies(a.c, 0, m.sig, th1)
             met  == [s EXCEPT !.id[2] = m.data[1], !.hb = m.p1 # 0,
                               !.ver = a.c.selected, !.dst = e.index]
             prep == PrepareHandshake(met, th2)
             shaken == [prep EXCEPT !.state = "KEY_EXCHANGED"]
             sess == IF good THEN shaken ELSE met
             unmet == [s EXCEPT !.ver = a.c.selected, !.dst = e.index]
             th == IF good THEN th2 ELSE th1
             b == [a EXCEPT !.c.th2 = th]
             pc(mut) == IF mut = 4 THEN "ENCAP_DIGESTS" ELSE "FINISH"
             go(u, x, mut) == Go(u, [x EXCEPT !.mut = mut], pc(mut))
  <1>1. o \in IF m = NoAnswer THEN {Conclude(t, a, "KEY_EXCHANGE")}
              ELSE IF m.code = "KEY_EXCHANGE_RSP" THEN {go([t EXCEPT ![i] = sess], b, m.data[2])}
              ELSE {go([t EXCEPT ![i] = unmet], a, mut) : mut \in {0, 4}}
    <2>1. \A u, x, mut : LET y == Outcome(u, x) IN
             Go(y.t, [y.a EXCEPT !.mut = mut], pc(mut)) = go(u, x, mut)
      BY DEF Outcome
    <2>2. unmet = [t[i] EXCEPT !.ver = a.c.selected, !.dst = e.index]
      OBVIOUS
    <2> QED
      BY DEF TakeKeyExchange, Outcome
  <1>2. Session(s) /\ ClientSlot(d, i, s) /\ s.valid /\ s.id = <<s.id[1], s.id[2]>>
    BY DEF ClientTable, Table, Session
  <1>3. \A u, x, mut : Attempt(x) =>
          LET y == go(u, x, mut)
          IN  /\ Attempt(y.a) /\ y.a.sess = x.sess /\ y.a.dev = x.dev /\ y.a.c = x.c
              /\ y.a.pc \in {"ENCAP_DIGESTS", "FINISH"} /\ y.t = u
    <2> SUFFICES ASSUME NEW u, NEW x, NEW mut, Attempt(x)
                 PROVE  LET y == go(u, x, mut)
                        IN  /\ Attempt(y.a) /\ y.a.sess = x.sess /\ y.a.dev = x.dev /\ y.a.c = x.c
                            /\ y.a.pc \in {"ENCAP_DIGESTS", "FINISH"} /\ y.t = u
      OBVIOUS
    <2> DEFINE z == [x EXCEPT !.mut = mut]
    <2>1. Attempt(z) /\ z.sess = x.sess /\ z.dev = x.dev /\ z.c = x.c
      BY DEF Attempt, AttFields
    <2>2. pc(mut) \in {"ENCAP_DIGESTS", "FINISH"}
      OBVIOUS
    <2>3. go(u, x, mut) = Outcome(u, [z EXCEPT !.pc = pc(mut)])
      BY DEF Go
    <2> HIDE DEF z, pc, go
    <2> QED
      BY <2>1, <2>2, <2>3 DEF Outcome, Attempt, AttFields
  <1>4. Transcript(th)
    BY TranscriptParts, TranscriptOf DEF Attempt, Context
  <1>5. Attempt(b) /\ b.sess = a.sess /\ b.dev = a.dev /\ b.c.th2 = th
    <2> HIDE DEF th
    <2>1. Context([a.c EXCEPT !.th2 = th])
      BY <1>4, ContextKept DEF Attempt
    <2>2. [a.c EXCEPT !.th2 = th].th2 = th
      BY DEF Attempt, Context, ContextFields
    <2>3. b = [a EXCEPT !.c = [a.c EXCEPT !.th2 = th]]
      OBVIOUS
    <2> QED
      BY <2>1, <2>2, <2>3 DEF Attempt, AttFields
  <1>6. /\ Session(unmet) /\ ClientSlot(d, i, unmet) /\ unmet.valid /\ unmet.state = "CHALLENGED"
        /\ unmet.id = s.id
    <2>1. /\ Session(unmet)
          /\ \A f \in SessionFields \ {"ver", "dst"} : unmet[f] = s[f]
      <3> HIDE DEF s
      <3> QED
        BY <1>2 DEF Session, SessionFields
    <2> HIDE DEF unmet
    <2> QED
      BY <1>2, <2>1 DEF ClientSlot, Keyed, SessionFields
  <1>7. /\ Session(met) /\ met.valid /\ met.state = "CHALLENGED" /\ met.type = "REQ"
        /\ met.id = <<s.id[1], m.data[1]>> /\ met.dst = e.index /\ met.reqMac = NoMac
        /\ \A k \in Dirs : met.key[k].secret = <<>>
    <2> HIDE DEF s
    <2>1. [s.id EXCEPT ![2] = m.data[1]] = <<s.id[1], m.data[1]>>
      BY <1>2
    <2>2. /\ DOMAIN met = SessionFields
          /\ \A f \in SessionFields \ {"id", "hb", "ver", "dst"} : met[f] = s[f]
          /\ met.id = [s.id EXCEPT ![2] = m.data[1]] /\ met.dst = e.index
      BY <1>2 DEF Session, SessionFields
    <2> HIDE DEF met
    <2>3. Session(met)
      <3>1. met.id = <<met.id[1], met.id[2]>>
        BY <2>1, <2>2
      <3>2. /\ met.valid = s.valid /\ met.type = s.type /\ met.state = s.state /\ met.key = s.key
            /\ met.seq = s.seq /\ met.msgA = s.msgA
        BY <2>2 DEF SessionFields
      <3> QED
        BY <1>2, <2>2, <3>1, <3>2 DEF Session
    <2>4. s.state = "CHALLENGED" /\ \A k \in Dirs : s.key[k].secret = <<>>
      BY DEF s
    <2> QED
      BY <1>2, <2>1, <2>2, <2>3, <2>4 DEF ClientSlot, Keyed, SessionFields
  <1>8. /\ Session(sess) /\ sess.valid /\ ClientSlot(d, i, sess)
        /\ sess.state \in {"CHALLENGED", "KEY_EXCHANGED"}
        /\ sess.state = "KEY_EXCHANGED" => sess.rspMac.over = th
        /\ sess.id = <<s.id[1], m.data[1]>>
    <2>1. s.id[1] = d.base + i
      BY <1>2 DEF ClientSlot
    <2> HIDE DEF met, s
    <2>2. ClientSlot(d, i, met)
      BY <1>7, <2>1 DEF ClientSlot, Keyed
    <2>3. /\ Session(prep)
          /\ \A f \in SessionFields \ {"key", "secret", "reqMac", "rspMac"} : prep[f] = met[f]
          /\ prep.secret = met.id
          /\ prep.reqMac = HandshakeMac(met.id, th2, "REQ")
          /\ prep.rspMac = HandshakeMac(met.id, th2, "RSP")
          /\ \A k \in Dirs : prep.key[k].secret = met.id /\ prep.key[k].dir = k
      <3> HIDE DEF th2
      <3> QED
        BY <1>7, PreparedSession
    <2> HIDE DEF prep, th1, th2
    <2>4. /\ Session(shaken) /\ shaken.state = "KEY_EXCHANGED"
          /\ \A f \in SessionFields \ {"state"} : shaken[f] = prep[f]
      BY <2>3 DEF Session, SessionFields
    <2> HIDE DEF shaken
    <2>5. /\ shaken.rspMac.over = th2 /\ shaken.valid /\ shaken.id = met.id /\ shaken.type = "REQ"
          /\ shaken.dst = e.index
      BY <1>7, <2>3, <2>4 DEF SessionFields, HandshakeMac
    <2>6. ClientSlot(d, i, shaken)
      BY <1>7, <2>1, <2>3, <2>4, <2>5 DEF ClientSlot, Keyed, Shaken, HandshakeMac, SessionFields
    <2> HIDE DEF good
    <2> QED
      BY <1>7, <2>2, <2>4, <2>5, <2>6
  <1>9. \A x : x \in {sess, unmet} =>
          LET u == [t EXCEPT ![i] = x]
          IN  /\ ClientTable(d, u) /\ u[i] = x
              /\ \A j \in 1..MaxSession \ {i} : u[j] = t[j]
    <2> HIDE DEF sess, unmet
    <2> QED
      BY <1>6, <1>8, ClientSet
  <1>10. LET y == Conclude(t, a, "KEY_EXCHANGE")
         IN  Attempt(y.a) /\ y.a.sess = a.sess /\ y.a.dev = a.dev /\ y.a.pc = "VERDICT"
             /\ y.t = Release(t, i)
    BY DEF Conclude, Outcome, Attempt, AttFields, Results
  <1> HIDE DEF go, b, sess, unmet, th
  <1>11. CASE m = NoAnswer
    BY <1>1, <1>10, <1>11
  <1>12. CASE m # NoAnswer /\ m.code = "KEY_EXCHANGE_RSP"
    <2> DEFINE u == [t EXCEPT ![i] = sess]
    <2>1. ClientTable(d, u) /\ u[i] = sess /\ \A j \in 1..MaxSession \ {i} : u[j] = t[j]
      BY <1>9
    <2>2. o = go(u, b, m.data[2])
      BY <1>1, <1>12
    <2> HIDE DEF u
    <2>3. /\ Attempt(o.a) /\ o.a.sess = b.sess /\ o.a.dev = b.dev /\ o.a.c = b.c
          /\ o.a.pc \in {"ENCAP_DIGESTS", "FINISH"} /\ o.t = u
      BY <1>3, <1>5, <2>2
    <2> QED
      BY <1>5, <1>8, <1>12, <2>1, <2>3
  <1>13. CASE m # NoAnswer /\ m.code # "KEY_EXCHANGE_RSP"
    <2> DEFINE u == [t EXCEPT ![i] = unmet]
    <2>1. ClientTable(d, u) /\ u[i] = unmet /\ \A j \in 1..MaxSession \ {i} : u[j] = t[j]
      BY <1>9
    <2>2. PICK mut : o = go(u, a, mut)
      BY <1>1, <1>13
    <2> HIDE DEF u
    <2>3. /\ Attempt(o.a) /\ o.a.sess = a.sess /\ o.a.dev = a.dev
          /\ o.a.pc \in {"ENCAP_DIGESTS", "FINISH"} /\ o.t = u
      BY <1>3, <2>2
    <2> QED
      BY <1>6, <1>13, <2>1, <2>3
  <1> QED
    BY <1>11, <1>12, <1>13

\* FINISH_RSP in: the session fails, or is established on the whole transcript.
FinishHeard(d, t, a, req, m, o) ==
  LET i == a.sess
      cert == Between(d, a)
  IN  /\ Attempt(o.a) /\ o.a.sess = a.sess /\ o.a.dev = a.dev
      /\ o.a.pc \in {"VERDICT", "HEARTBEAT"}
      /\ o.a.pc = "VERDICT" => o.t = Release(t, i)
      /\ o.a.pc # "VERDICT" =>
           /\ ClientTable(d, o.t) /\ \A j \in 1..MaxSession \ {i} : o.t[j] = t[j]
           /\ o.t[i].valid /\ o.t[i].state = "ESTABLISHED" /\ o.t[i].id = t[i].id
           /\ m.code = "FINISH_RSP"
           /\ m.mac = [key |-> <<HandshakeKey(t[i].id, t[i].rspMac.over, "RSP")>>,
                       over |-> t[i].rspMac.over \o cert \o <<req, FinishRspOf(req)>>]
           /\ \A x \in Dirs : /\ o.t[i].key[x].secret = t[i].id
                              /\ o.t[i].key[x].over = a.c.th2 \o cert \o <<req, m>>

\* The answer to FINISH: the session is established when the responder's MAC
\* covers the whole handshake.
LEMMA FinishTaken ==
  ASSUME NEW d, NEW t, ClientTable(d, t), NEW a, Attempt(a), NEW e, NEW req, NEW m,
         a.sess \in 1..MaxSession, a.fin = a.sess, t[a.sess].valid,
         t[a.sess].state = "KEY_EXCHANGED"
  PROVE  FinishHeard(d, t, a, req, m, TakeFinish(d, e, t, a, req, m))
  <1> DEFINE i    == a.fin
             s    == t[i]
             mut  == CapEnabled(a.c, "MUT_AUTH")
             own  == d.slots[0]
             cert == IF mut THEN <<CertHash(own)>> ELSE <<>>
             mac  == [s.rspMac EXCEPT !.over = FinishRspMacOver(@, own, req, mut)]
             th2  == a.c.th2 \o cert \o <<req, m>>
             keys == GenSessionKeys(s, th2)
             sess == [keys EXCEPT
                 !.state = "ESTABLISHED", !.afm = e.index, !.old = FALSE, !.rspMac = NoMac,
                 !.flags = <<a.c.local, a.c.remote>>, !.leaf = a.c.cert[0].leaf,
                 !.msgA = a.c.msgA]
             o == TakeFinish(d, e, t, a, req, m)
             fail == Conclude(t, a, "FINISH")
             pass == Go([t EXCEPT ![i] = sess], a, "HEARTBEAT")
  <1>0. cert = Between(d, a)
    BY DEF Between
  <1>1. o = IF m.code # "FINISH_RSP" \/ m.mac # mac THEN fail ELSE pass
    BY DEF TakeFinish
  <1>2. /\ Attempt(fail.a) /\ fail.a.sess = a.sess /\ fail.a.dev = a.dev /\ fail.a.pc = "VERDICT"
        /\ fail.t = Release(t, a.sess)
    BY DEF Conclude, Outcome, Attempt, AttFields, Results
  <1>3. /\ Attempt(pass.a) /\ pass.a.sess = a.sess /\ pass.a.dev = a.dev
        /\ pass.a.pc = "HEARTBEAT" /\ pass.t = [t EXCEPT ![i] = sess]
    <2> HIDE DEF sess
    <2> QED
      BY DEF Go, Outcome, Attempt, AttFields
  <1>4. Session(s) /\ ClientSlot(d, i, s) /\ s.valid /\ s.state = "KEY_EXCHANGED"
    BY DEF ClientTable, Table
  <1>5. Shaken(s)
    <2> HIDE DEF s
    <2> QED
      BY <1>4 DEF ClientSlot, Keyed
  <1>6. s.rspMac = HandshakeMac(s.id, s.rspMac.over, "RSP") /\ s.secret = s.id
    BY <1>5 DEF Shaken
  <1>7. mac = [key |-> <<HandshakeKey(s.id, s.rspMac.over, "RSP")>>,
               over |-> s.rspMac.over \o cert \o <<req, FinishRspOf(req)>>]
    <2>1. \A id, th, y : [HandshakeMac(id, th, "RSP") EXCEPT !.over = y]
                           = [key |-> <<HandshakeKey(id, th, "RSP")>>, over |-> y]
      BY DEF HandshakeMac
    <2>2. FinishRspMacOver(s.rspMac.over, own, req, mut)
            = s.rspMac.over \o cert \o <<req, FinishRspOf(req)>>
      BY DEF FinishRspMacOver, FinishRspOf
    <2>3. mac = [s.rspMac EXCEPT !.over = FinishRspMacOver(s.rspMac.over, own, req, mut)]
      OBVIOUS
    <2> HIDE DEF mac, s, own, mut, cert
    <2>4. \A y : [s.rspMac EXCEPT !.over = y] = [key |-> <<HandshakeKey(s.id, s.rspMac.over, "RSP")>>, over |-> y]
      BY <1>6, <2>1
    <2> QED
      BY <2>2, <2>3, <2>4
  <1>8. /\ Session(keys) /\ (\A f \in SessionFields \ {"key"} : keys[f] = s[f])
        /\ \A x \in Dirs : /\ keys.key[x].secret = s.secret /\ keys.key[x].dir = x
                           /\ keys.key[x].over = th2
    <2> HIDE DEF s, th2
    <2> QED
      BY <1>4, GeneratedKeys, DerivedKeys
  <1> HIDE DEF keys, s, mac, th2, cert
  <1>9. /\ Session(sess) /\ sess.state = "ESTABLISHED"
        /\ \A f \in SessionFields \ {"state", "afm", "old", "rspMac", "flags", "leaf", "msgA"} : sess[f] = keys[f]
    <2>1. Transcript(a.c.msgA)
      BY DEF Attempt, Context
    <2> QED
      BY <1>8, <2>1 DEF Session, SessionFields
  <1> HIDE DEF sess
  <1>10. /\ sess.valid = s.valid /\ sess.type = s.type /\ sess.id = s.id /\ sess.dst = s.dst
         /\ sess.key = keys.key
    BY <1>8, <1>9 DEF SessionFields
  <1>11. ClientSlot(d, i, sess)
    BY <1>4, <1>6, <1>8, <1>9, <1>10 DEF ClientSlot, Keyed
  <1> DEFINE u == [t EXCEPT ![i] = sess]
  <1>12. /\ ClientTable(d, u) /\ u[i] = sess
         /\ \A j \in 1..MaxSession \ {i} : u[j] = t[j]
    <2>1. i \in 1..MaxSession /\ sess.valid
      BY <1>4, <1>10
    <2> HIDE DEF i
    <2> QED
      BY <1>9, <1>11, <2>1, ClientSet
  <1> HIDE DEF u, fail, pass, o
  <1>13. pass.t = u
    BY <1>3 DEF u
  <1>14. CASE m.code # "FINISH_RSP" \/ m.mac # mac
    BY <1>1, <1>2, <1>14 DEF o, FinishHeard
  <1>15. CASE m.code = "FINISH_RSP" /\ m.mac = mac
    <2>1. o = pass
      BY <1>1, <1>15
    <2>2. \A x \in Dirs : u[i].key[x].secret = s.id /\ u[i].key[x].over = th2
      BY <1>6, <1>8, <1>10, <1>12
    <2>3. /\ Attempt(o.a) /\ o.a.sess = a.sess /\ o.a.dev = a.dev
          /\ o.a.pc = "HEARTBEAT" /\ o.t = u
      BY <1>3, <1>13, <2>1
    <2>4. u[i].valid /\ u[i].state = "ESTABLISHED" /\ u[i].id = s.id
      BY <1>4, <1>9, <1>10, <1>12
    <2>5. m.mac = [key |-> <<HandshakeKey(s.id, s.rspMac.over, "RSP")>>,
                   over |-> s.rspMac.over \o cert \o <<req, FinishRspOf(req)>>]
      BY <1>7, <1>15
    <2>6. i = a.sess /\ s = t[a.sess]
      BY DEF s
    <2> HIDE DEF i
    <2>7. /\ o.a.pc # "VERDICT" /\ ClientTable(d, o.t)
          /\ \A j \in 1..MaxSession \ {a.sess} : o.t[j] = t[j]
          /\ o.t[a.sess].valid /\ o.t[a.sess].state = "ESTABLISHED"
          /\ o.t[a.sess].id = t[a.sess].id /\ m.code = "FINISH_RSP"
      BY <1>12, <1>15, <2>3, <2>4, <2>6
    <2>8. \A x \in Dirs : /\ o.t[a.sess].key[x].secret = t[a.sess].id
                          /\ o.t[a.sess].key[x].over = a.c.th2 \o cert \o <<req, m>>
      BY <2>2, <2>3, <2>6 DEF th2
    <2>9. m.mac = [key |-> <<HandshakeKey(t[a.sess].id, t[a.sess].rspMac.over, "RSP")>>,
                   over |-> t[a.sess].rspMac.over \o cert \o <<req, FinishRspOf(req)>>]
      BY <2>5, <2>6
    <2> QED
      BY <1>0, <2>3, <2>7, <2>8, <2>9 DEF o, FinishHeard
  <1> QED
    BY <1>14, <1>15

\* A request in a session, or a heartbeat: messages go, nothing else changes.
LEMMA LateIssued ==
  ASSUME NEW d, NEW t, Table(t), NEW a, a.pc \in Late
  PROVE  LET x == Issue(d, t, a)
         IN  /\ TableMoved(t, x.t) /\ x.a = a
             /\ x.m.code \notin {"KEY_EXCHANGE", "FINISH", "PSK_EXCHANGE"}
             /\ x.seal.on => \E id : Sealed(t, id, x)
  <1> DEFINE m == Request(d, a)
             id == t[a.sess].id
             x == Issue(d, t, a)
             g == SpdmSessionGet(t, id)
  <1>1. m.code \notin {"KEY_EXCHANGE", "FINISH", "PSK_EXCHANGE"}
    BY RequestCode
  <1>2. \A u : Table(u) => LET y == IssueSealed(u, a, m, id)
                           IN  /\ TableMoved(u, y.t) /\ y.a = a /\ y.m = m
                               /\ y.seal.on => Sealed(u, id, y)
    <2> TAKE u
    <2> HAVE Table(u)
    <2> DEFINE z == Encrypt(u, id, m)
               y == IssueSealed(u, a, m, id)
    <2>1. TableMoved(u, z.t) /\ (z.seal.on => Sealed(u, id, z))
      BY EncryptMoved
    <2> HIDE DEF id, m
    <2>2. y = [ok |-> z.ok, t |-> z.t, a |-> a, m |-> m, seal |-> z.seal]
      BY DEF IssueSealed
    <2> HIDE DEF z, y
    <2>3. y.t = z.t /\ y.a = a /\ y.m = m /\ y.seal = z.seal
      BY <2>2
    <2>4. Sealed(u, id, z) => Sealed(u, id, y)
      BY <2>3, SealedSame
    <2> QED
      BY <2>1, <2>3, <2>4 DEF y
  <1>3. TableMoved(t, g.t) /\ (g.i # 0 => g.t = t)
    BY GetMoved
  <1>4. CASE a.pc \in {"HEARTBEAT", "KEEP_ALIVE"}
    <2>1. x = IssueSealed(t, a, m, id)
      BY <1>4 DEF Issue, InSession
    <2> HIDE DEF x, id, m
    <2> QED
      BY <1>1, <1>2, <2>1 DEF x, m
  <1>5. CASE a.pc \in {"SESSION_TOTAL", "SESSION_MEASURE"}
    <2>1. x = IF g.i = 0 THEN Sent(g.t, a, m) ELSE IssueSealed(g.t, a, m, id)
      BY <1>5 DEF Issue, InSession
    <2> HIDE DEF x, id, m, g
    <2>2. CASE g.i = 0
      BY <1>1, <1>3, <2>1, <2>2 DEF Sent, x, NoSeal
    <2>3. CASE g.i # 0
      <3>1. /\ TableMoved(g.t, x.t) /\ x.a = a /\ x.m = m
            /\ x.seal.on => Sealed(t, id, x)
        BY <1>2, <1>3, <2>1, <2>3 DEF TableMoved
      <3>2. TableMoved(t, x.t)
        BY <1>3, <3>1, MovedTransitive
      <3> QED
        BY <1>1, <3>1, <3>2 DEF x
    <2> QED
      BY <2>2, <2>3
  <1> QED
    BY <1>4, <1>5 DEF Late

LEMMA EarlyIssued ==
  ASSUME NEW d, NEW t, NEW a, a.pc \in Early \cup Encap
  PROVE  LET x == Issue(d, t, a)
         IN  /\ x.ok /\ x.t = t /\ x.a = a /\ x.seal = NoSeal
             /\ x.m.code \notin {"KEY_EXCHANGE", "FINISH", "PSK_EXCHANGE"}
  <1> DEFINE m == Request(d, a)
  <1>1. m.code \notin {"KEY_EXCHANGE", "FINISH", "PSK_EXCHANGE"}
    BY RequestCode
  <1>2. Issue(d, t, a) = Sent(t, a, m)
    BY DEF Issue, InSession, Early, Encap
  <1> HIDE DEF m
  <1> QED
    BY <1>1, <1>2 DEF Sent

\* In a session every response is another turn of the loop, or the verdict.
LEMMA LateTaken ==
  ASSUME NEW d, NEW e, NEW t, NEW a, Attempt(a), a.pc \in Late, NEW req, NEW m,
         NEW o \in Take(d, e, t, a, req, m)
  PROVE  Turn(t, a, o, Late)
  <1>1. CASE a.pc = "SESSION_TOTAL"
    <2>1. o = TakeTotal(e, t, a, req, m) /\ Measuring(a) \subseteq Late
      BY <1>1 DEF Take, Measuring, InSession, Late
    <2> QED
      BY <2>1, MeasurementsTurn, TurnWider
  <1>2. CASE a.pc = "SESSION_MEASURE"
    <2>1. o = TakeMeasurement(e, t, a, req, m) /\ Measuring(a) \subseteq Late
      BY <1>2 DEF Take, Measuring, InSession, Late
    <2> QED
      BY <2>1, MeasurementsTurn, TurnWider
  <1>3. CASE a.pc \in {"HEARTBEAT", "KEEP_ALIVE"}
    <2>1. PICK ok \in HeartbeatHeard(m) :
            o = IF ok THEN Conclude(t, a, "SUCCEEDED") ELSE Conclude(t, a, "HEARTBEAT")
      BY <1>3 DEF Take
    <2> QED
      BY <2>1, HeartbeatTurn, TurnWider
  <1> QED
    BY <1>1, <1>2, <1>3 DEF Late

LEMMA EarlyTaken ==
  ASSUME NEW d, NEW e, NEW t, NEW a, Attempt(a), a.pc \in Early, NEW req, NEW m,
         NEW o \in Take(d, e, t, a, req, m)
  PROVE  Turn(t, a, o, Early \cup {"KEY_EXCHANGE"})
  <1>1. \A P : P \subseteq Early \cup {"KEY_EXCHANGE"} /\ Turn(t, a, o, P)
                 => Turn(t, a, o, Early \cup {"KEY_EXCHANGE"})
    BY TurnWider
  <1>2. CASE a.pc \in {"GET_VERSION", "GET_CAPABILITIES", "NEGOTIATE_ALGORITHMS"}
    BY <1>1, <1>2, VcaTurn DEF Take
  <1>3. CASE a.pc \in {"GET_DIGESTS", "GET_CERTIFICATE", "CHALLENGE"}
    BY <1>1, <1>3, IdentityTurn DEF Take
  <1>4. CASE a.pc \in {"TOTAL", "MEASURE"}
    <2>1. Measuring(a) \subseteq Early \cup {"KEY_EXCHANGE"}
      BY <1>4 DEF Measuring, InSession, Early
    <2>2. o \in {TakeTotal(e, t, a, req, m), TakeMeasurement(e, t, a, req, m)}
      BY <1>4 DEF Take
    <2> QED
      BY <1>1, <2>1, <2>2, MeasurementsTurn
  <1> QED
    BY <1>2, <1>3, <1>4 DEF Early

LEMMA IdleAttempt == Attempt(Idle) /\ \A flags : Context(SpdmContextCreate(flags))
  <1>1. \A flags : Context(SpdmContextCreate(flags))
    BY TranscriptOf DEF SpdmContextCreate, Context, ContextFields, NoCert
  <1> QED
    BY <1>1 DEF Idle, Attempt, AttFields, Results

\* The start of an attestation: afresh, or in the session the table holds.
LEMMA AttestationStarted ==
  ASSUME NEW d, NEW e, NEW t, Table(t),
         \A i \in 1..MaxSession : t[i].valid => t[i].state = "ESTABLISHED"
  PROVE  LET o == StartAttestation(d, e, t)
         IN  /\ TableMoved(t, o.t) /\ Attempt(o.a)
             /\ o.a.pc \in {"GET_VERSION", "SESSION_TOTAL", "VERDICT"}
             /\ o.a.pc = "GET_VERSION" => o.a.sess = 0
             /\ o.a.pc = "SESSION_TOTAL" => o.a.sess \in 1..MaxSession
  <1> DEFINE g == SpdmSessionGetByIdx(t, e.index)
             s == g.t[g.i]
             a == [Idle EXCEPT !.c = SpdmContextCreate(d.caps), !.sess = g.i]
             o == StartAttestation(d, e, t)
             c == [a.c EXCEPT !.selected = s.ver, !.local = s.flags[1], !.remote = s.flags[2],
                       !.cert[0].leaf = s.leaf, !.msgA = s.msgA, !.l1l2 = s.msgA]
             b == [a EXCEPT !.c = c]
  <1>1. TableMoved(t, g.t) /\ g.i \in 0..MaxSession /\ (g.i # 0 => g.t = t /\ t[g.i].valid)
    BY GetByIdxMoved
  <1>2. Attempt(a) /\ a.sess = g.i /\ a.c = SpdmContextCreate(d.caps)
    <2> DEFINE x == SpdmContextCreate(d.caps)
    <2>1. Context(x)
      BY IdleAttempt
    <2> HIDE DEF x, g
    <2> QED
      BY <2>1, IdleAttempt DEF Attempt, AttFields
  <1>3. CASE g.i = 0
    <2>1. o = Go(g.t, a, "GET_VERSION")
      BY <1>3 DEF StartAttestation
    <2> HIDE DEF o, a
    <2> QED
      BY <1>1, <1>2, <1>3, <2>1 DEF Go, Outcome, Attempt, AttFields, o
  <1>4. CASE g.i # 0
    <2>1. o = IF s.leaf = 0 THEN Conclude(g.t, a, "MEASUREMENTS") ELSE Go(g.t, b, "SESSION_TOTAL")
      BY <1>4 DEF StartAttestation, WithSession
    <2>2. g.i \in 1..MaxSession /\ Session(s) /\ g.t = t
      <3> HIDE DEF g
      <3>1. g.i \in 1..MaxSession
        BY <1>1, <1>4, SpdmConstants
      <3> QED
        BY <1>1, <1>4, <3>1 DEF Table
    <2>3. Context(c)
      <3> HIDE DEF s, a
      <3> QED
        BY <1>2, <2>2 DEF Attempt, Context, ContextFields, Session
    <2> HIDE DEF c, a, s, o
    <2>4. Attempt(b) /\ b.sess = g.i
      <3> HIDE DEF g
      <3> QED
        BY <1>2, <2>3 DEF Attempt, AttFields
    <2>5. CASE s.leaf = 0
      <3> DEFINE f == Conclude(g.t, a, "MEASUREMENTS")
      <3>1. Attempt(f.a) /\ f.a.pc = "VERDICT" /\ f.t = Release(t, g.i)
        <4> HIDE DEF g
        <4> QED
          BY <1>2, <2>2 DEF Conclude, Outcome, Attempt, AttFields, Results
      <3>2. TableMoved(t, Release(t, g.i))
        BY <1>1, ReleaseMoved
      <3> HIDE DEF f
      <3> QED
        BY <2>1, <2>5, <3>1, <3>2 DEF o, f
    <2>6. CASE s.leaf # 0
      <3> DEFINE f == Go(g.t, b, "SESSION_TOTAL")
      <3>1. Attempt(f.a) /\ f.a.pc = "SESSION_TOTAL" /\ f.a.sess = g.i /\ f.t = g.t
        <4> HIDE DEF g, b
        <4> QED
          BY <2>4 DEF Go, Outcome, Attempt, AttFields
      <3> HIDE DEF f, b
      <3> QED
        BY <1>1, <2>1, <2>2, <2>6, <3>1 DEF o, f, b
    <2> QED
      BY <2>5, <2>6
  <1> QED
    BY <1>3, <1>4

-----------------------------------------------------------------------------
(* Steps of one attester.                                                   *)

Settled(t) == \A i \in 1..MaxSession : t[i].valid => t[i].state = "ESTABLISHED"

LEMMA SettledMoved ==
  ASSUME NEW t, NEW u, Settled(t), TableMoved(t, u)
  PROVE  Settled(u)
  BY DEF Settled, TableMoved, Moved, SessionFields, EmptySession

\* Between handshakes no session of an attester is pending, nor when its own is released.
LEMMA NoPending ==
  ASSUME NEW d, d.afm # <<>>, NEW t, Table(t), NEW a, NEW ch, AttesterOK(d, t, a, ch)
  PROVE  /\ ~Shaking(a, ch) => Settled(t)
         /\ a.sess \in 1..MaxSession => Settled(Release(t, a.sess))
  <1>1. ~Shaking(a, ch) => Settled(t)
    BY DEF AttesterOK, Settled
  <1>2. ASSUME a.sess \in 1..MaxSession PROVE Settled(Release(t, a.sess))
    <2> SUFFICES ASSUME NEW i \in 1..MaxSession, Release(t, a.sess)[i].valid
                 PROVE  Release(t, a.sess)[i].state = "ESTABLISHED"
      BY DEF Settled
    <2>1. Release(t, a.sess) = [t EXCEPT ![a.sess] = EmptySession]
      BY <1>2, SpdmConstants DEF Release
    <2>2. i # a.sess /\ Release(t, a.sess)[i] = t[i]
      BY <2>1 DEF Table, EmptySession
    <2> QED
      BY <2>2 DEF AttesterOK
  <1> QED
    BY <1>1, <1>2

\* An attestation that is over, or between the sessions it makes.
LEMMA SettledOK ==
  ASSUME NEW d, NEW t, Settled(t), NEW a, NEW ch, Attempt(a), ~Shaking(a, ch), a.pc \in Pcs,
         a.pc # "IDLE" => a.dev \in DOMAIN d.afm,
         a.pc \in Early \cup {"KEY_EXCHANGE"} => a.sess = 0,
         a.pc \in Late => a.sess \in 1..MaxSession
  PROVE  AttesterOK(d, t, a, ch)
  BY DEF AttesterOK, Settled

\* One attester's table, attestation and channel change.
AttesterStep(n, t, a, ch) ==
  /\ UNCHANGED <<dev, rctx>>
  /\ DOMAIN tab' = Nodes /\ DOMAIN att' = Nodes /\ DOMAIN chan' = Nodes
  /\ \A q \in Nodes : IF q = n THEN tab'[q] = t /\ att'[q] = a /\ chan'[q] = ch
                       ELSE tab'[q] = tab[q] /\ att'[q] = att[q] /\ chan'[q] = chan[q]

LEMMA AttesterStepTypes ==
  ASSUME TypesInv, ThreadInv', NEW n \in Nodes, Attester(n), NEW t, NEW a, NEW ch,
         AttesterStep(n, t, a, ch), ClientTable(dev[n], t), AttesterOK(dev[n], t, a, ch),
         ChannelOK(a, ch)
  PROVE  TypesInv'
  <1>1. dev' = dev /\ rctx' = rctx
    BY DEF AttesterStep
  <1>2. DevInv' /\ ResponderInv'
    BY <1>1 DEF TypesInv, DevInv, ResponderInv, Attester, Afm
  <1>3. \A q \in Nodes : IF q = n THEN tab'[q] = t /\ att'[q] = a /\ chan'[q] = ch
                         ELSE tab'[q] = tab[q] /\ att'[q] = att[q] /\ chan'[q] = chan[q]
    BY DEF AttesterStep, TypesInv, TableInv, AttesterInv
  <1>4. DOMAIN tab' = Nodes /\ DOMAIN att' = Nodes /\ DOMAIN chan' = Nodes
    BY DEF AttesterStep, TypesInv, TableInv, AttesterInv
  <1>5. \A q : Attester(q)' <=> Attester(q)
    BY <1>1 DEF Attester, Afm
  <1>6. TableInv'
    BY <1>1, <1>3, <1>4, <1>5 DEF TypesInv, TableInv
  <1>7. AttesterInv'
    BY <1>1, <1>3, <1>4 DEF TypesInv, AttesterInv
  <1> QED
    BY <1>2, <1>6, <1>7 DEF TypesInv

\* What the handshake of node n relies on, when others take the step: no
\* responder establishes a session with its identifier.
NoNewSession(id1) ==
  \A q \in Nodes, j \in 1..MaxSession :
    (~Attester(q) /\ tab'[q][j].valid /\ tab'[q][j].state = "ESTABLISHED")
      => Moved(tab[q][j], tab'[q][j]) \/ tab'[q][j].id[1] # id1

\* What the invariants know of a device does not change.
SameDevices ==
  \A n \in Nodes : /\ dev'[n].base = dev[n].base /\ dev'[n].afm = dev[n].afm
                   /\ dev'[n].slots = dev[n].slots

LEMMA ServedKept ==
  ASSUME NEW id, NoNewSession(id[1]), SameDevices,
         NEW q \in Nodes, NEW j \in 1..MaxSession, Served(dev', tab', q, j, id)
  PROVE  Served(dev, tab, q, j, id) /\ Moved(tab[q][j], tab'[q][j])
  <1>1. /\ ~Attester(q) /\ tab'[q][j].valid /\ tab'[q][j].state = "ESTABLISHED"
        /\ tab'[q][j].id = id /\ dev[q].afm = <<>>
    BY DEF Served, Attester, Afm, SameDevices
  <1>2. Moved(tab[q][j], tab'[q][j])
    BY <1>1 DEF NoNewSession
  <1> QED
    BY <1>1, <1>2 DEF Served, Moved, SessionFields

LEMMA NotServedKept ==
  ASSUME NEW id, NoNewSession(id[1]), SameDevices, NotServed(dev, tab, id)
  PROVE  NotServed(dev', tab', id)
  BY ServedKept DEF NotServed

LEMMA AnsweredKept ==
  ASSUME NEW s, NEW u, \A x \in Dirs : u.key[x].over = s.key[x].over,
         NEW id, NEW th, NEW cert, NEW req, NEW m, AnsweredWith(s, id, th, cert, req, m)
  PROVE  AnsweredWith(u, id, th, cert, req, m)
  BY DEF AnsweredWith

\* A node that stands by, or whose message is lost.
LEMMA HandKept ==
  ASSUME NEW n \in Nodes, Attester(n), TypesInv, NEW ch,
         HandOK(dev, tab, n, att[n], chan[n]), SameDevices,
         \/ ch = chan[n]
         \/ chan[n].st # "IDLE" /\ ch = [chan[n] EXCEPT !.st = "LOST"],
         Shaking(att[n], chan[n]) => tab'[n][att[n].sess] = tab[n][att[n].sess],
         NoNewSession(dev[n].base + att[n].sess)
  PROVE  HandOK(dev', tab', n, att[n], ch)
  <1> DEFINE a == att[n]
             s == tab[n][a.sess]
             id1 == dev[n].base + a.sess
  <1>1. AttesterOK(dev[n], tab[n], a, chan[n]) /\ ChannelOK(a, chan[n]) /\ ClientTable(dev[n], tab[n])
    BY DEF TypesInv, AttesterInv, TableInv
  <1>2. Shaking(a, chan[n]) => s.id[1] = id1 /\ tab'[n][a.sess] = s
    BY <1>1 DEF AttesterOK, ClientTable, ClientSlot
  <1>3. \A id : id[1] = id1 /\ NotServed(dev, tab, id) => NotServed(dev', tab', id)
    BY NotServedKept
  <1>4. \/ ch = chan[n]
        \/ /\ chan[n].st # "IDLE" /\ ch.st = "LOST" /\ ch.m = chan[n].m /\ ch.req = chan[n].req
    BY <1>1 DEF ChannelOK, ChanFields
  <1>5. dev'[n].base = dev[n].base /\ dev'[n].slots = dev[n].slots
    BY DEF SameDevices
  <1>6. KeyExchangeOK(dev', tab', n, a, ch)
    <2>1. <<id1, ch.m.data[1]>>[1] = id1
      OBVIOUS
    <2>2. CASE a.pc = "KEY_EXCHANGE" /\ chan[n].st # "IDLE"
      <3>1. tab'[n][a.sess] = s
        BY <1>2, <2>2 DEF Shaking
      <3> QED
        BY <1>3, <1>4, <1>5, <2>1, <2>2, <3>1 DEF KeyExchangeOK, HandOK
    <2>3. CASE ~(a.pc = "KEY_EXCHANGE" /\ chan[n].st # "IDLE")
      BY <1>4, <2>3 DEF KeyExchangeOK
    <2> QED
      BY <2>2, <2>3
  <1>7. FinishOK(dev', tab', n, a, ch)
    <2>1. CASE a.pc \notin Encap \cup {"FINISH"}
      BY <2>1 DEF FinishOK
    <2>2. CASE a.pc \in Encap \cup {"FINISH"}
      <3>1. tab'[n][a.sess] = s /\ s.id[1] = id1
        BY <1>2, <2>2 DEF Shaking
      <3>2. NotServed(dev, tab, s.id) => NotServed(dev', tab', s.id)
        BY <1>3, <3>1
      <3>3. \A q \in Nodes, j \in 1..MaxSession : Served(dev', tab', q, j, s.id) =>
              Served(dev, tab, q, j, s.id) /\ \A x \in Dirs : tab'[q][j].key[x].over = tab[q][j].key[x].over
        BY <3>1, ServedKept DEF Moved
      <3>4. Between(dev'[n], a) = Between(dev[n], a)
        BY <1>5 DEF Between
      <3>5. FinishOK(dev, tab, n, a, chan[n])
        BY DEF HandOK
      <3>6. \A m : FinishSent(dev[n], s, a, m) => FinishSent(dev'[n], s, a, m)
        BY <1>5 DEF FinishSent
      <3>7. ch.st = "RESPONSE" /\ ch.m.code = "FINISH_RSP" /\ a.pc = "FINISH" =>
              \A q \in Nodes, j \in 1..MaxSession : Served(dev', tab', q, j, s.id) =>
                AnsweredWith(tab'[q][j], s.id, a.c.th2, Between(dev'[n], a), ch.req, ch.m)
        <4> SUFFICES ASSUME ch.st = "RESPONSE", ch.m.code = "FINISH_RSP", a.pc = "FINISH",
                            NEW q \in Nodes, NEW j \in 1..MaxSession, Served(dev', tab', q, j, s.id)
                     PROVE  AnsweredWith(tab'[q][j], s.id, a.c.th2, Between(dev[n], a), ch.req, ch.m)
          BY <3>4, Zenon
        <4>1. ch = chan[n]
          BY <1>4
        <4>2. \A r \in Nodes, k \in 1..MaxSession : Served(dev, tab, r, k, s.id) =>
                AnsweredWith(tab[r][k], s.id, a.c.th2, Between(dev[n], a), ch.req, ch.m)
          BY <2>2, <3>5, <4>1 DEF FinishOK
        <4>3. Served(dev, tab, q, j, s.id) /\ \A x \in Dirs : tab'[q][j].key[x].over = tab[q][j].key[x].over
          BY <3>3
        <4>4. AnsweredWith(tab[q][j], s.id, a.c.th2, Between(dev[n], a), ch.req, ch.m)
          BY <4>2, <4>3
        <4> QED
          BY <4>3, <4>4, AnsweredKept
      <3> QED
        BY <1>4, <2>2, <3>1, <3>2, <3>5, <3>6, <3>7 DEF FinishOK
    <2> QED
      BY <2>1, <2>2
  <1> QED
    BY <1>6, <1>7 DEF HandOK

\* A node that does not shake hands has nothing to keep.
LEMMA NoHands ==
  ASSUME NEW D, NEW T, NEW n, NEW a, NEW ch, ~Shaking(a, ch)
  PROVE  HandOK(D, T, n, a, ch)
  BY DEF HandOK, KeyExchangeOK, FinishOK, Shaking

LEMMA NodeKept ==
  ASSUME AgreeInv, SameDevices, NEW n \in Nodes, att'[n] = att[n],
         \/ chan'[n] = chan[n]
         \/ chan[n].st # "IDLE" /\ chan'[n] = [chan[n] EXCEPT !.st = "LOST"],
         Shaking(att[n], chan[n]) => /\ tab'[n][att[n].sess] = tab[n][att[n].sess]
                                     /\ NoNewSession(dev[n].base + att[n].sess)
  PROVE  HandOK(dev', tab', n, att'[n], chan'[n])
  <1>1. AttesterOK(dev[n], tab[n], att[n], chan[n]) /\ ChannelOK(att[n], chan[n])
    BY DEF AgreeInv, TypesInv, AttesterInv
  <1>2. CASE Shaking(att[n], chan[n])
    <2>1. Attester(n)
      BY <1>1, <1>2 DEF AttesterOK, Shaking, Attester, Afm, Encap
    <2>2. HandOK(dev, tab, n, att[n], chan[n]) /\ TypesInv
      BY DEF AgreeInv, HandshakeInv
    <2>3. HandOK(dev', tab', n, att[n], chan'[n])
      BY <1>2, <2>1, <2>2, HandKept
    <2> QED
      BY <2>3
  <1>3. CASE ~Shaking(att[n], chan[n])
    <2>1. ~Shaking(att'[n], chan'[n])
      BY <1>1, <1>3 DEF Shaking, ChannelOK
    <2> QED
      BY <2>1, NoHands
  <1> QED
    BY <1>2, <1>3

\* The ends of a session agree when both only moved, or the requester's is new
\* and agrees with whatever serves it.
Agrees(s, D, T) ==
  \A q \in Nodes, j \in 1..MaxSession : Served(D, T, q, j, s.id) =>
    \A x \in Dirs : /\ s.key[x].secret = T[q][j].key[x].secret
                    /\ s.key[x].over = T[q][j].key[x].over

LEMMA KeysKept ==
  ASSUME AgreeInv, TypesInv', SameDevices,
         \A n \in Nodes, i \in 1..MaxSession :
           Attester(n) /\ tab'[n][i].valid /\ tab'[n][i].state = "ESTABLISHED" =>
             \/ Moved(tab[n][i], tab'[n][i]) /\ NoNewSession(tab'[n][i].id[1])
             \/ Agrees(tab'[n][i], dev', tab')
  PROVE  SessionKeysAgree'
  <1> SUFFICES ASSUME NEW n \in Nodes, NEW q \in Nodes, NEW i \in 1..MaxSession,
                      NEW j \in 1..MaxSession, Ends(n, i, q, j)', NEW x \in Dirs
               PROVE  /\ tab'[n][i].key[x].secret = tab'[q][j].key[x].secret
                      /\ tab'[n][i].key[x].over = tab'[q][j].key[x].over
    BY Zenon DEF SessionKeysAgree, Dirs
  <1> DEFINE s == tab'[n][i]
  <1>1. /\ n # q /\ s.valid /\ tab'[q][j].valid /\ s.type = "REQ" /\ tab'[q][j].type = "RSP"
        /\ s.state = "ESTABLISHED" /\ tab'[q][j].state = "ESTABLISHED" /\ s.id = tab'[q][j].id
    BY Zenon DEF Ends
  <1>2. \A p \in Nodes : IF Attester(p)' THEN ClientTable(dev'[p], tab'[p])
                         ELSE ServerTable(dev'[p], tab'[p])
    BY DEF TypesInv, TableInv
  <1>3. Attester(n)' /\ ~Attester(q)'
    BY <1>1, <1>2 DEF ClientTable, ClientSlot, ServerTable, ServerSlot
  <1>4. Served(dev', tab', q, j, s.id)
    BY <1>1, <1>3 DEF Served, Attester, Afm
  <1>5. CASE Agrees(s, dev', tab')
    BY <1>4, <1>5 DEF Agrees
  <1>6. CASE Moved(tab[n][i], s) /\ NoNewSession(s.id[1])
    <2>1. Served(dev, tab, q, j, s.id) /\ Moved(tab[q][j], tab'[q][j])
      BY <1>4, <1>6, ServedKept
    <2>2. Ends(n, i, q, j)
      BY <1>1, <1>6, <2>1 DEF Ends, Moved, SessionFields
    <2>3. /\ tab[n][i].key[x].secret = tab[q][j].key[x].secret
          /\ tab[n][i].key[x].over = tab[q][j].key[x].over
      BY <2>2 DEF AgreeInv, SessionKeysAgree, Dirs
    <2> QED
      BY <1>6, <2>1, <2>3 DEF Moved
  <1>7. Attester(n)
    BY <1>3 DEF Attester, Afm, SameDevices
  <1> QED
    BY <1>1, <1>5, <1>6, <1>7

-----------------------------------------------------------------------------
(* The steps of an attester keep the invariant.                             *)

LEMMA ServedSame ==
  ASSUME NEW n \in Nodes, Attester(n), TypesInv, NEW t, NEW a, NEW ch, AttesterStep(n, t, a, ch)
  PROVE  /\ \A q \in Nodes, j \in 1..MaxSession : \A id :
              Served(dev, tab', q, j, id) => Served(dev, tab, q, j, id) /\ tab'[q][j] = tab[q][j]
         /\ \A id : NotServed(dev, tab, id) => NotServed(dev, tab', id)
  <1>1. ASSUME NEW q \in Nodes, NEW j \in 1..MaxSession, NEW id, Served(dev, tab', q, j, id)
        PROVE  Served(dev, tab, q, j, id) /\ tab'[q][j] = tab[q][j]
    <2>1. q # n
      BY <1>1 DEF Served, Attester, Afm
    <2>2. tab'[q] = tab[q]
      BY <2>1 DEF AttesterStep, TypesInv, TableInv
    <2> QED
      BY <1>1, <2>2 DEF Served
  <1> QED
    BY <1>1 DEF NotServed

LEMMA AttesterStepAgrees ==
  ASSUME AgreeInv, ThreadInv', NEW n \in Nodes, Attester(n), NEW t, NEW a, NEW ch,
         AttesterStep(n, t, a, ch), ClientTable(dev[n], t), AttesterOK(dev[n], t, a, ch),
         ChannelOK(a, ch), HandOK(dev, tab', n, a, ch),
         \A i \in 1..MaxSession : t[i].valid /\ t[i].state = "ESTABLISHED" =>
           Moved(tab[n][i], t[i]) \/ Agrees(t[i], dev, tab)
  PROVE  AgreeInv'
  <1>1. TypesInv'
    BY AttesterStepTypes DEF AgreeInv
  <1>2. dev' = dev /\ SameDevices
    BY DEF AttesterStep, SameDevices
  <1>3. \A q \in Nodes : IF q = n THEN tab'[q] = t /\ att'[q] = a /\ chan'[q] = ch
                         ELSE tab'[q] = tab[q] /\ att'[q] = att[q] /\ chan'[q] = chan[q]
    BY DEF AttesterStep, AgreeInv, TypesInv, TableInv, AttesterInv
  <1>4. \A id1 : NoNewSession(id1)
    <2>1. ASSUME NEW q \in Nodes, ~Attester(q), NEW j \in 1..MaxSession
          PROVE  Moved(tab[q][j], tab'[q][j])
      <3>1. tab'[q] = tab[q]
        BY <1>3, <2>1
      <3>2. Session(tab[q][j])
        BY <2>1 DEF AgreeInv, TypesInv, TableInv, ServerTable, Table
      <3> QED
        BY <3>1, <3>2 DEF Moved
    <2> QED
      BY <2>1 DEF NoNewSession
  <1>5. HandshakeInv'
    <2> SUFFICES ASSUME NEW q \in Nodes
                 PROVE  HandOK(dev', tab', q, att'[q], chan'[q])
      BY Zenon DEF HandshakeInv
    <2>1. CASE q = n
      BY <1>2, <1>3, <2>1
    <2>2. CASE q # n
      BY <1>2, <1>3, <1>4, <2>2, NodeKept
    <2> QED
      BY <2>1, <2>2
  <1>6. ASSUME NEW q \in Nodes, NEW i \in 1..MaxSession, Attester(q),
               tab'[q][i].valid, tab'[q][i].state = "ESTABLISHED"
        PROVE  \/ Moved(tab[q][i], tab'[q][i]) /\ NoNewSession(tab'[q][i].id[1])
               \/ Agrees(tab'[q][i], dev', tab')
    <2>1. CASE q = n
      <3>1. ASSUME Agrees(t[i], dev, tab) PROVE Agrees(t[i], dev', tab')
        BY <1>2, <3>1, ServedSame DEF Agrees, AgreeInv
      <3> QED
        BY <1>3, <1>4, <1>6, <2>1, <3>1
    <2>2. CASE q # n
      <3>1. Session(tab[q][i])
        BY <1>6 DEF AgreeInv, TypesInv, TableInv, ClientTable, Table
      <3> QED
        BY <1>3, <1>4, <2>2, <3>1 DEF Moved
    <2> QED
      BY <2>1, <2>2
  <1>7. SessionKeysAgree'
    BY <1>1, <1>2, <1>6, KeysKept
  <1> QED
    BY <1>1, <1>5, <1>7 DEF AgreeInv

\* What the invariant says of one attester.
LEMMA AttesterFacts ==
  ASSUME AgreeInv, NEW n \in Nodes
  PROVE  /\ AttesterOK(dev[n], tab[n], att[n], chan[n]) /\ ChannelOK(att[n], chan[n])
         /\ HandOK(dev, tab, n, att[n], chan[n])
         /\ Table(tab[n]) /\ (Attester(n) => ClientTable(dev[n], tab[n]) /\ dev[n].afm # <<>>)
         /\ att[n].pc # "IDLE" => Attester(n)
         /\ chan[n].st # "IDLE" => Attester(n) /\ att[n].pc \notin {"IDLE", "VERDICT"}
  <1>1. AttesterOK(dev[n], tab[n], att[n], chan[n]) /\ ChannelOK(att[n], chan[n])
    BY DEF AgreeInv, TypesInv, AttesterInv
  <1>2. Table(tab[n]) /\ (Attester(n) => ClientTable(dev[n], tab[n]) /\ dev[n].afm # <<>>)
    BY DEF AgreeInv, TypesInv, TableInv, ServerTable, ClientTable, Attester, Afm
  <1>3. att[n].pc # "IDLE" => Attester(n)
    BY <1>1 DEF AttesterOK, Attester, Afm
  <1>4. chan[n].st # "IDLE" => att[n].pc \notin {"IDLE", "VERDICT"}
    BY <1>1 DEF ChannelOK
  <1> QED
    BY <1>1, <1>2, <1>3, <1>4 DEF AgreeInv, HandshakeInv

\* A step that touches neither tables nor messages.
LEMMA ThreadStepAgrees ==
  ASSUME AgreeInv, ThreadInv', UNCHANGED <<dev, rctx, tab, att, chan>>
  PROVE  AgreeInv'
  <1>1. DevInv'
    BY DEF AgreeInv, TypesInv, DevInv, Afm
  <1>2. TableInv' /\ ResponderInv'
    BY DEF AgreeInv, TypesInv, TableInv, ResponderInv, Attester, Afm
  <1>3. AttesterInv'
    BY DEF AgreeInv, TypesInv, AttesterInv
  <1>4. HandshakeInv' /\ SessionKeysAgree'
    BY DEF AgreeInv, HandshakeInv, SessionKeysAgree, Ends
  <1> QED
    BY <1>1, <1>2, <1>3, <1>4 DEF AgreeInv, TypesInv

LEMMA EventSteps ==
  ASSUME AgreeInv, NEW n \in Nodes,
         RunAttester(n) \/ StopAttester(n) \/ Tick(n) \/ I3cAttestation(n) \/ Wake(n)
  PROVE  AgreeInv'
  <1>1. ThreadInv
    BY DEF AgreeInv, TypesInv
  <1>2. ThreadInv' /\ UNCHANGED <<dev, rctx, tab, att, chan>>
    <2>1. CASE RunAttester(n) \/ StopAttester(n) \/ Tick(n) \/ I3cAttestation(n)
      BY <1>1, <2>1 DEF ThreadInv, RunAttester, StopAttester, Tick, I3cAttestation
    <2>2. CASE Wake(n)
      BY <1>1, <2>2 DEF ThreadInv, Wake
    <2> QED
      BY <2>1, <2>2
  <1> QED
    BY <1>2, ThreadStepAgrees

\* The table moved at most, and no hands shake.
LEMMA SettledStep ==
  ASSUME AgreeInv, ThreadInv', NEW n \in Nodes, Attester(n), NEW t, NEW a, NEW ch,
         AttesterStep(n, t, a, ch), TableMoved(tab[n], t), AttesterOK(dev[n], t, a, ch),
         ChannelOK(a, ch), ~Shaking(a, ch)
  PROVE  AgreeInv'
  <1>1. ClientTable(dev[n], t)
    BY AttesterFacts, ClientMoved
  <1>2. HandOK(dev, tab', n, a, ch)
    BY NoHands
  <1>3. \A i \in 1..MaxSession : t[i].valid => Moved(tab[n][i], t[i])
    BY DEF TableMoved, EmptySession
  <1> QED
    BY <1>1, <1>2, <1>3, AttesterStepAgrees

\* Between attestations: nothing is pending, and nothing is outstanding.
LEMMA IdleFacts ==
  ASSUME AgreeInv, NEW n \in Nodes, Attester(n), att[n].pc \in {"IDLE", "VERDICT"}
  PROVE  Settled(tab[n]) /\ chan[n].st = "IDLE" /\ ChannelOK(Idle, chan[n])
  <1>1. chan[n].st = "IDLE" /\ ChannelOK(att[n], chan[n])
    BY AttesterFacts DEF ChannelOK
  <1>2. ~Shaking(att[n], chan[n])
    BY DEF Shaking, Encap
  <1>3. Settled(tab[n])
    BY <1>2, AttesterFacts, NoPending
  <1> QED
    BY <1>1, <1>3 DEF ChannelOK

\* An idle channel fits every attestation.
LEMMA IdleChannel ==
  ASSUME NEW a, NEW b, NEW ch, ChannelOK(a, ch), ch.st = "IDLE"
  PROVE  ChannelOK(b, ch)
  BY DEF ChannelOK

LEMMA KeepAliveAgrees ==
  ASSUME AgreeInv, NEW n \in Nodes, KeepAlive(n)
  PROVE  AgreeInv'
  <1> DEFINE alive == {i \in thread[n].k..MaxSession :
                         tab[n][i].valid /\ tab[n][i].type = "REQ" /\ tab[n][i].hb}
             i == First(alive)
             entry == CHOOSE j \in DOMAIN Afm(n) : Afm(n)[j].index = tab[n][i].dst
             c == SpdmContextCreate(dev[n].caps)
             b == [c EXCEPT !.selected = tab[n][i].ver]
             a == [Idle EXCEPT !.pc = "KEEP_ALIVE", !.sess = i, !.dev = entry, !.c = b]
  <1>1. att[n].pc = "IDLE" /\ ThreadInv
    BY DEF KeepAlive, AgreeInv, TypesInv
  <1>2. UNCHANGED <<dev, rctx, tab, chan>>
    BY DEF KeepAlive
  <1>3. CASE i = 0
    <2>1. UNCHANGED att /\ ThreadInv'
      BY <1>1, <1>3 DEF KeepAlive, ThreadInv, Waiting, ClearTick
    <2> QED
      BY <1>2, <2>1, ThreadStepAgrees
  <1>4. CASE i # 0
    <2>1. alive \subseteq 1..MaxSession
      BY <1>1, SpdmConstants DEF ThreadInv
    <2>2. i \in alive /\ i \in 1..MaxSession
      BY <1>4, <2>1, FirstOf
    <2>3. tab[n][i].valid /\ tab[n][i].type = "REQ"
      BY <2>2
    <2> HIDE DEF alive, i
    <2>4. att' = [att EXCEPT ![n] = a] /\ ThreadInv'
      <3>1. thread' = [thread EXCEPT ![n].k = i + 1] /\ UNCHANGED evt
        BY <1>4 DEF KeepAlive, alive, i
      <3>2. i + 1 \in Nat \ {0}
        BY <2>2, SpdmConstants
      <3>3. att' = [att EXCEPT ![n] = a]
        BY <1>4, Zenon DEF KeepAlive, alive, i
      <3> QED
        BY <1>1, <3>1, <3>2, <3>3 DEF ThreadInv
    <2>5. Attester(n)
      BY <2>2, <2>3 DEF AgreeInv, TypesInv, TableInv, ServerTable, ServerSlot
    <2>6. Settled(tab[n]) /\ chan[n].st = "IDLE" /\ ChannelOK(Idle, chan[n])
      BY <1>1, <2>5, IdleFacts
    <2>7. entry \in DOMAIN dev[n].afm
      <3>1. tab[n][i].state = "ESTABLISHED"
        BY <2>2, <2>3, <2>6 DEF Settled
      <3>2. \E k \in DOMAIN dev[n].afm : dev[n].afm[k].index = tab[n][i].dst
        BY <2>2, <2>3, <2>5, <3>1, AttesterFacts DEF ClientTable, ClientSlot
      <3> QED
        BY <3>2 DEF Afm
    <2> HIDE DEF entry
    <2>8. Attempt(a) /\ a.pc = "KEEP_ALIVE" /\ a.sess = i /\ a.dev = entry
      <3>1. Context(c)
        BY IdleAttempt
      <3> HIDE DEF c
      <3>2. Context(b)
        BY <3>1 DEF Context, ContextFields
      <3> HIDE DEF b
      <3> QED
        BY <3>2, IdleAttempt DEF Attempt, AttFields
    <2> HIDE DEF a
    <2>9. ~Shaking(a, chan[n])
      BY <2>8 DEF Shaking, Encap
    <2>10. AttesterOK(dev[n], tab[n], a, chan[n])
      BY <2>2, <2>6, <2>7, <2>8, <2>9, SettledOK DEF Pcs, Late, Early
    <2>11. AttesterStep(n, tab[n], a, chan[n])
      BY <1>2, <2>4 DEF AttesterStep, AgreeInv, TypesInv, TableInv, AttesterInv
    <2>12. TableMoved(tab[n], tab[n])
      BY AttesterFacts, MovedReflexive
    <2>13. ChannelOK(a, chan[n])
      BY <2>6, IdleChannel
    <2> QED
      BY <2>4, <2>5, <2>9, <2>10, <2>11, <2>12, <2>13, SettledStep
  <1> QED
    BY <1>3, <1>4

LEMMA AfmOf ==
  ASSUME AgreeInv, NEW n \in Nodes
  PROVE  Afm(n) \in Seq(AfmEntries) /\ Afm(n) = dev[n].afm
  BY DEF AgreeInv, TypesInv, DevInv, Devices, Afm

LEMMA NextDeviceAgrees ==
  ASSUME AgreeInv, NEW n \in Nodes, NextDevice(n)
  PROVE  AgreeInv'
  <1> DEFINE k == thread[n].k
             e == Afm(n)[k]
             o == StartAttestation(dev[n], e, tab[n])
             a == [o.a EXCEPT !.dev = k]
  <1>1. att[n].pc = "IDLE" /\ ThreadInv /\ k \in Nat \ {0}
    BY DEF NextDevice, AgreeInv, TypesInv, ThreadInv
  <1>2. UNCHANGED <<dev, rctx, chan>>
    BY DEF NextDevice
  <1>3. ThreadInv'
    <2>1. evt' = evt \/ evt' = [evt EXCEPT ![n] = @ \ {"TICK"}]
      BY DEF NextDevice, ClearTick
    <2>2. \/ thread' = [thread EXCEPT ![n] = Waiting(@.count)]
          \/ thread' = [thread EXCEPT ![n].k = @ + 1]
      BY DEF NextDevice
    <2> QED
      BY <1>1, <2>1, <2>2 DEF ThreadInv, Waiting
  <1>4. \/ UNCHANGED <<tab, att>>
        \/ /\ k <= Len(Afm(n))
           /\ tab' = [tab EXCEPT ![n] = o.t] /\ att' = [att EXCEPT ![n] = a]
    <2> HIDE DEF o
    <2> QED
      BY DEF NextDevice, o
  <1>5. CASE UNCHANGED <<tab, att>>
    BY <1>2, <1>3, <1>5, ThreadStepAgrees
  <1>6. CASE /\ k <= Len(Afm(n))
             /\ tab' = [tab EXCEPT ![n] = o.t] /\ att' = [att EXCEPT ![n] = a]
    <2>1. k \in DOMAIN dev[n].afm /\ Attester(n)
      BY <1>1, <1>6, AfmOf DEF Attester
    <2>2. Settled(tab[n]) /\ chan[n].st = "IDLE" /\ ChannelOK(Idle, chan[n])
      BY <1>1, <2>1, IdleFacts
    <2>3. /\ TableMoved(tab[n], o.t) /\ Attempt(o.a)
          /\ o.a.pc \in {"GET_VERSION", "SESSION_TOTAL", "VERDICT"}
          /\ o.a.pc = "GET_VERSION" => o.a.sess = 0
          /\ o.a.pc = "SESSION_TOTAL" => o.a.sess \in 1..MaxSession
      BY <2>2, AttesterFacts, AttestationStarted DEF Settled
    <2> HIDE DEF o, k
    <2>4. Attempt(a) /\ a.pc = o.a.pc /\ a.sess = o.a.sess /\ a.dev = k
      BY <2>3 DEF Attempt, AttFields
    <2> HIDE DEF a
    <2>5. ~Shaking(a, chan[n])
      BY <2>3, <2>4 DEF Shaking, Encap
    <2>6. Settled(o.t)
      BY <2>2, <2>3, SettledMoved
    <2>7. AttesterOK(dev[n], o.t, a, chan[n])
      BY <2>1, <2>3, <2>4, <2>5, <2>6, SettledOK DEF Pcs, Late, Early
    <2>8. AttesterStep(n, o.t, a, chan[n])
      BY <1>2, <1>6 DEF AttesterStep, AgreeInv, TypesInv, TableInv, AttesterInv
    <2>9. ChannelOK(a, chan[n])
      BY <2>2, IdleChannel
    <2> QED
      BY <1>3, <2>1, <2>3, <2>5, <2>7, <2>8, <2>9, SettledStep
  <1> QED
    BY <1>4, <1>5, <1>6

LEMMA VerdictAgrees ==
  ASSUME AgreeInv, NEW n \in Nodes, Verdict(n)
  PROVE  AgreeInv'
  <1>1. /\ att[n].pc = "VERDICT" /\ att' = [att EXCEPT ![n] = Idle]
        /\ UNCHANGED <<dev, rctx, tab, thread, chan>>
    BY DEF Verdict
  <1>2. ThreadInv'
    <2>1. evt'[n] \subseteq evt[n] \cup {"ATTESTED_CPU"} /\ DOMAIN evt' = DOMAIN evt
          /\ \A q \in Nodes \ {n} : evt'[q] = evt[q]
      BY DEF Verdict, AgreeInv, TypesInv, ThreadInv
    <2> QED
      BY <1>1, <2>1 DEF AgreeInv, TypesInv, ThreadInv
  <1>3. Attester(n)
    BY <1>1, AttesterFacts
  <1>4. Settled(tab[n]) /\ chan[n].st = "IDLE" /\ ChannelOK(Idle, chan[n])
    BY <1>1, <1>3, IdleFacts
  <1>5. Idle.pc = "IDLE" /\ Attempt(Idle)
    BY IdleAttempt DEF Idle
  <1>6. ~Shaking(Idle, chan[n])
    BY <1>5 DEF Shaking, Encap
  <1>7. AttesterOK(dev[n], tab[n], Idle, chan[n])
    BY <1>4, <1>5, <1>6, SettledOK DEF Pcs, Late, Early
  <1>8. AttesterStep(n, tab[n], Idle, chan[n])
    BY <1>1 DEF AttesterStep, AgreeInv, TypesInv, TableInv, AttesterInv
  <1>9. TableMoved(tab[n], tab[n])
    BY AttesterFacts, MovedReflexive
  <1> QED
    BY <1>2, <1>3, <1>4, <1>6, <1>7, <1>8, <1>9, SettledStep

\* A step between handshakes, at whichever point of the attestation.
LEMMA QuietStep ==
  ASSUME AgreeInv, ThreadInv', NEW n \in Nodes, Attester(n), NEW t, NEW a, NEW ch,
         AttesterStep(n, t, a, ch), TableMoved(tab[n], t), Settled(t), Attempt(a), a.pc \in Pcs,
         a.dev \in DOMAIN dev[n].afm, ChannelOK(a, ch), ~Shaking(a, ch),
         a.pc \in Early \cup {"KEY_EXCHANGE"} => a.sess = 0,
         a.pc \in Late => a.sess \in 1..MaxSession
  PROVE  AgreeInv'
  <1>1. AttesterOK(dev[n], t, a, ch)
    BY SettledOK
  <1> QED
    BY <1>1, SettledStep

\* The attestation fails, and its session goes.
LEMMA FailedStep ==
  ASSUME AgreeInv, ThreadInv', NEW n \in Nodes, att[n].pc # "IDLE", NEW t, TableMoved(tab[n], t),
         Settled(Release(t, att[n].sess)), NEW a, NEW ch, Attempt(a), a.pc = "VERDICT",
         a.dev = att[n].dev, att[n].sess \in 0..MaxSession, ch.st = "IDLE", ChannelOK(Idle, ch),
         AttesterStep(n, Release(t, att[n].sess), a, ch)
  PROVE  AgreeInv'
  <1>1. Attester(n) /\ a.dev \in DOMAIN dev[n].afm
    BY AttesterFacts DEF AttesterOK
  <1>2. TableMoved(t, Release(t, att[n].sess))
    BY ReleaseMoved DEF TableMoved
  <1>3. TableMoved(tab[n], Release(t, att[n].sess))
    BY <1>2, MovedTransitive
  <1>4. ChannelOK(a, ch) /\ ~Shaking(a, ch)
    BY IdleChannel DEF Shaking, Encap
  <1> QED
    BY <1>1, <1>3, <1>4, QuietStep DEF Pcs, Early, Late

LEMMA IssueFailure ==
  ASSUME NEW t, NEW a, Attempt(a)
  PROVE  LET f == IssueFailed(t, a)
         IN  Attempt(f.a) /\ f.a.pc = "VERDICT" /\ f.a.dev = a.dev /\ f.t = Release(t, a.sess)
  BY DEF IssueFailed, Conclude, Outcome, Attempt, AttFields, Results

\* Where the session of an attestation is.
LEMMA SessionOf ==
  ASSUME AgreeInv, NEW n \in Nodes, att[n].pc \notin {"IDLE", "VERDICT"}
  PROVE  /\ att[n].sess \in 0..MaxSession
         /\ ~Shaking(att[n], chan[n]) => Settled(tab[n])
         /\ att[n].sess # 0 => att[n].sess \in 1..MaxSession /\ Settled(Release(tab[n], att[n].sess))
         /\ att[n].sess = 0 => Settled(Release(tab[n], att[n].sess))
  <1>1. att[n].sess = 0 \/ att[n].sess \in 1..MaxSession
    BY AttesterFacts DEF AttesterOK, Pcs, Shaking
  <1>2. /\ ~Shaking(att[n], chan[n]) => Settled(tab[n])
        /\ att[n].sess \in 1..MaxSession => Settled(Release(tab[n], att[n].sess))
    BY AttesterFacts, NoPending
  <1>3. att[n].sess = 0 => ~Shaking(att[n], chan[n])
    BY AttesterFacts, SpdmConstants DEF AttesterOK
  <1>4. att[n].sess = 0 => Release(tab[n], att[n].sess) = tab[n]
    BY DEF Release
  <1> QED
    BY <1>1, <1>2, <1>3, <1>4, SpdmConstants

\* What Send leaves, when the request is built and when it is not.
SentChan(x) ==
  [st |-> "REQUEST", req |-> x.m, sealed |-> x.seal.on, m |-> x.m, seal |-> x.seal]

LEMMA SentStep ==
  ASSUME AgreeInv, NEW n \in Nodes, Send(n)
  PROVE  LET x == Issue(dev[n], tab[n], att[n])
             f == IssueFailed(x.t, x.a)
         IN  /\ ThreadInv' /\ att[n].pc \notin {"IDLE", "VERDICT"} /\ chan[n].st = "IDLE"
             /\ Attester(n) /\ ChannelOK(Idle, chan[n])
             /\ x.ok => AttesterStep(n, x.t, x.a, SentChan(x))
             /\ ~x.ok => AttesterStep(n, f.t, f.a, chan[n])
  <1> DEFINE x == Issue(dev[n], tab[n], att[n])
             f == IssueFailed(x.t, x.a)
  <1> HIDE DEF x, f
  <1>1. /\ att[n].pc \notin {"IDLE", "VERDICT"} /\ chan[n].st = "IDLE"
        /\ UNCHANGED <<dev, rctx, thread, evt>>
        /\ x.ok => /\ tab' = [tab EXCEPT ![n] = x.t] /\ att' = [att EXCEPT ![n] = x.a]
                   /\ chan' = [chan EXCEPT ![n] = SentChan(x)]
        /\ ~x.ok => /\ tab' = [tab EXCEPT ![n] = f.t] /\ att' = [att EXCEPT ![n] = f.a]
                    /\ UNCHANGED chan
    BY DEF Send, SentChan, x, f
  <1>2. ThreadInv'
    BY <1>1 DEF AgreeInv, TypesInv, ThreadInv
  <1>3. x.ok => AttesterStep(n, x.t, x.a, SentChan(x))
    BY <1>1 DEF AttesterStep, AgreeInv, TypesInv, TableInv, AttesterInv
  <1>4. ~x.ok => AttesterStep(n, f.t, f.a, chan[n])
    BY <1>1 DEF AttesterStep, AgreeInv, TypesInv, TableInv, AttesterInv
  <1>5. Attester(n) /\ ChannelOK(att[n], chan[n])
    BY <1>1, AttesterFacts
  <1>6. ChannelOK(Idle, chan[n])
    BY <1>1, <1>5, IdleChannel
  <1> QED
    BY <1>1, <1>2, <1>3, <1>4, <1>5, <1>6 DEF x, f

\* A message on its way.
LEMMA SentChannel ==
  ASSUME NEW x, NEW a, a.pc \notin {"IDLE", "VERDICT"}, x.seal.on => a.pc \in Late,
         x.m.code # "PSK_EXCHANGE",
         x.m.code = "KEY_EXCHANGE" => a.pc = "KEY_EXCHANGE",
         x.m.code = "FINISH" => a.pc = "FINISH",
         x.seal.on => x.seal.key.secret # <<>>
  PROVE  /\ ChannelOK(a, SentChan(x)) /\ SentChan(x).st = "REQUEST" /\ SentChan(x).m = x.m
         /\ SentChan(x).sealed = x.seal.on
  BY DEF ChannelOK, SentChan, ChanFields

LEMMA SendEarlyAgrees ==
  ASSUME AgreeInv, NEW n \in Nodes, Send(n), att[n].pc \in Early \cup Encap
  PROVE  AgreeInv'
  <1> DEFINE x == Issue(dev[n], tab[n], att[n])
             a == att[n]
             t == tab[n]
             ch == SentChan(x)
  <1>1. /\ x.ok /\ x.t = t /\ x.a = a /\ x.seal = NoSeal
        /\ x.m.code \notin {"KEY_EXCHANGE", "FINISH", "PSK_EXCHANGE"}
    BY EarlyIssued
  <1>2. /\ ThreadInv' /\ Attester(n) /\ chan[n].st = "IDLE" /\ AttesterStep(n, t, a, ch)
    BY <1>1, SentStep
  <1> HIDE DEF x
  <1>3. ChannelOK(a, ch) /\ ch.st = "REQUEST" /\ ch.m = x.m
    BY <1>1, SentChannel DEF Early, Encap, NoSeal
  <1> HIDE DEF ch
  <1>4. /\ AttesterOK(dev[n], t, a, chan[n]) /\ HandOK(dev, tab, n, a, chan[n])
        /\ ClientTable(dev[n], t) /\ Table(t)
    BY <1>2, AttesterFacts
  <1>5. a.pc \notin {"KEY_EXCHANGE", "FINISH", "IDLE"}
    BY DEF Early, Encap
  <1>6. AttesterOK(dev[n], t, a, ch)
    BY <1>4, <1>5 DEF AttesterOK, Shaking
  <1>7. HandOK(dev, tab', n, a, ch)
    <2>1. tab'[n] = tab[n]
      BY <1>2 DEF AttesterStep
    <2>2. \A id : NotServed(dev, tab, id) => NotServed(dev, tab', id)
      BY <1>2, ServedSame DEF AgreeInv
    <2> QED
      BY <1>4, <1>5, <2>1, <2>2 DEF HandOK, KeyExchangeOK, FinishOK
  <1>8. \A i \in 1..MaxSession : t[i].valid => Moved(tab[n][i], t[i])
    BY <1>4 DEF Table, Moved
  <1> QED
    BY <1>2, <1>3, <1>4, <1>6, <1>7, <1>8, AttesterStepAgrees

LEMMA SendLateAgrees ==
  ASSUME AgreeInv, NEW n \in Nodes, Send(n), att[n].pc \in Late
  PROVE  AgreeInv'
  <1> DEFINE x == Issue(dev[n], tab[n], att[n])
             a == att[n]
             t == tab[n]
             ch == SentChan(x)
             f == IssueFailed(x.t, x.a)
  <1>1. /\ AttesterOK(dev[n], t, a, chan[n]) /\ Table(t) /\ Settled(t) /\ ~Shaking(a, chan[n])
    BY AttesterFacts, SessionOf DEF Late, Shaking, Encap
  <1>2. /\ ThreadInv' /\ Attester(n) /\ chan[n].st = "IDLE" /\ ChannelOK(Idle, chan[n])
        /\ x.ok => AttesterStep(n, x.t, x.a, ch)
        /\ ~x.ok => AttesterStep(n, f.t, f.a, chan[n])
    BY SentStep
  <1>3. /\ TableMoved(t, x.t) /\ x.a = a
        /\ x.m.code \notin {"KEY_EXCHANGE", "FINISH", "PSK_EXCHANGE"}
        /\ x.seal.on => \E id : Sealed(t, id, x)
    BY <1>1, LateIssued
  <1> HIDE DEF x
  <1>8. x.seal.on => x.seal.key.secret # <<>>
    <2> SUFFICES ASSUME x.seal.on PROVE x.seal.key.secret # <<>>
      OBVIOUS
    <2>1. PICK j \in 1..MaxSession : t[j].valid /\ x.seal.key = t[j].key[t[j].type]
      BY <1>3 DEF Sealed
    <2>2. ClientTable(dev[n], t) /\ t[j].state = "ESTABLISHED"
      BY <1>1, <1>2, <2>1, AttesterFacts DEF Settled
    <2>3. t[j].key[t[j].type].secret = t[j].id /\ t[j].id = <<t[j].id[1], t[j].id[2]>>
      BY <2>1, <2>2 DEF ClientTable, ClientSlot, Keyed, Table, Session
    <2> QED
      BY <2>1, <2>3
  <1>4. /\ a.pc \in Pcs /\ a.dev \in DOMAIN dev[n].afm /\ a.sess \in 1..MaxSession /\ Attempt(a)
        /\ a.pc \notin Early \cup Encap \cup {"KEY_EXCHANGE", "FINISH", "IDLE", "VERDICT"}
    BY <1>1 DEF AttesterOK, Late, Early, Encap
  <1>5. Settled(x.t)
    BY <1>1, <1>3, SettledMoved
  <1>6. CASE x.ok
    <2>1. ChannelOK(a, ch) /\ ~Shaking(a, ch)
      BY <1>3, <1>4, <1>8, SentChannel DEF Shaking
    <2> QED
      BY <1>2, <1>3, <1>4, <1>5, <1>6, <2>1, QuietStep
  <1>7. CASE ~x.ok
    <2>1. Attempt(f.a) /\ f.a.pc = "VERDICT" /\ f.a.dev = a.dev /\ f.t = Release(x.t, a.sess)
      BY <1>3, <1>4, IssueFailure
    <2> HIDE DEF f
    <2>2. Settled(Release(x.t, a.sess)) /\ a.sess \in 0..MaxSession
      <3>1. a.sess \in 0..MaxSession
        BY <1>4, SpdmConstants
      <3>2. TableMoved(x.t, Release(x.t, a.sess))
        BY <1>3, <3>1, ReleaseMoved DEF TableMoved
      <3> QED
        BY <1>5, <3>1, <3>2, SettledMoved
    <2>3. AttesterStep(n, Release(x.t, a.sess), f.a, chan[n])
      BY <1>2, <1>7, <2>1
    <2> QED
      BY <1>2, <1>3, <1>4, <2>1, <2>2, <2>3, FailedStep
  <1> QED
    BY <1>6, <1>7

LEMMA SendKeyExchangeAgrees ==
  ASSUME AgreeInv, NEW n \in Nodes, Send(n), att[n].pc = "KEY_EXCHANGE"
  PROVE  AgreeInv'
  <1> DEFINE x == Issue(dev[n], tab[n], att[n])
             a == att[n]
             t == tab[n]
             d == dev[n]
             ch == SentChan(x)
             f == IssueFailed(x.t, x.a)
             i == x.a.sess
  <1>1. /\ ThreadInv' /\ Attester(n) /\ chan[n].st = "IDLE" /\ ChannelOK(Idle, chan[n])
        /\ x.ok => AttesterStep(n, x.t, x.a, ch)
        /\ ~x.ok => AttesterStep(n, f.t, f.a, chan[n])
    BY SentStep
  <1>2. /\ AttesterOK(d, t, a, chan[n]) /\ ClientTable(d, t) /\ Table(t) /\ d.afm # <<>>
        /\ Settled(t) /\ a.sess = 0
    <2>1. AttesterOK(d, t, a, chan[n]) /\ ClientTable(d, t) /\ Table(t) /\ d.afm # <<>>
      BY <1>1, AttesterFacts
    <2>2. ~Shaking(a, chan[n])
      BY <1>1 DEF Shaking, Encap
    <2> QED
      BY <1>1, <2>1, <2>2, SessionOf DEF AttesterOK
  <1>3. Attempt(a) /\ a.dev \in DOMAIN d.afm
    BY <1>2 DEF AttesterOK
  <1>4. x = IssueKeyExchange(d, t, a)
    BY DEF Issue, InSession
  <1>5. /\ ~x.ok => x.t = t /\ x.a = a
        /\ x.ok => /\ i \in 1..MaxSession /\ ClientTable(d, x.t)
                   /\ \A j \in 1..MaxSession \ {i} : x.t[j] = t[j]
                   /\ x.t[i].valid /\ x.t[i].state = "CHALLENGED"
                   /\ x.t[i].id = <<d.base + i, 0>>
                   /\ \A k \in Dirs : x.t[i].key[k].secret = <<>>
                   /\ Attempt(x.a) /\ x.a.pc = a.pc /\ x.a.dev = a.dev
                   /\ x.m.code = "KEY_EXCHANGE" /\ x.m.data = <<d.base + i>>
                   /\ x.seal = NoSeal
    <2>0. ClientTable(d, t) /\ Attempt(a)
      BY <1>2, <1>3
    <2> HIDE DEF a, t, d
    <2>1. LET z == IssueKeyExchange(d, t, a)
              k == z.a.sess
          IN  /\ ~z.ok => z.t = t /\ z.a = a
              /\ z.ok => /\ k \in 1..MaxSession /\ ClientTable(d, z.t)
                         /\ \A j \in 1..MaxSession \ {k} : z.t[j] = t[j]
                         /\ z.t[k].valid /\ z.t[k].state = "CHALLENGED"
                         /\ z.t[k].id = <<d.base + k, 0>>
                         /\ \A y \in Dirs : z.t[k].key[y].secret = <<>>
                         /\ Attempt(z.a) /\ z.a.pc = a.pc /\ z.a.dev = a.dev
                         /\ z.m.code = "KEY_EXCHANGE" /\ z.m.data = <<d.base + k>>
                         /\ z.seal = NoSeal
      BY <2>0, KeyExchangeIssued
    <2> QED
      BY <1>4, <2>1, Zenon
  <1> HIDE DEF x
  <1>6. CASE x.ok
    <2>1. ChannelOK(x.a, ch) /\ ch.st = "REQUEST" /\ ch.m = x.m
      BY <1>5, <1>6, SentChannel DEF NoSeal
    <2> HIDE DEF ch
    <2>2. AttesterOK(d, x.t, x.a, ch)
      <3>1. Shaking(x.a, ch) /\ x.a.pc = "KEY_EXCHANGE"
        BY <1>5, <1>6, <2>1 DEF Shaking
      <3>2. \A j \in 1..MaxSession : x.t[j].valid /\ x.t[j].state # "ESTABLISHED" => j = i
        BY <1>2, <1>5, <1>6 DEF Settled
      <3> QED
        BY <1>3, <1>5, <1>6, <2>1, <3>1, <3>2 DEF AttesterOK, Pcs, Early, Late
    <2>3. HandOK(dev, tab', n, x.a, ch)
      <3>1. tab'[n] = x.t
        BY <1>1, <1>6 DEF AttesterStep
      <3> QED
        BY <1>5, <1>6, <2>1, <3>1 DEF HandOK, KeyExchangeOK, FinishOK, Encap
    <2>4. \A j \in 1..MaxSession : x.t[j].valid /\ x.t[j].state = "ESTABLISHED" => Moved(t[j], x.t[j])
      BY <1>2, <1>5, <1>6 DEF Table, Moved
    <2> QED
      BY <1>1, <1>5, <1>6, <2>1, <2>2, <2>3, <2>4, AttesterStepAgrees
  <1>7. CASE ~x.ok
    <2>1. Attempt(f.a) /\ f.a.pc = "VERDICT" /\ f.a.dev = a.dev /\ f.t = Release(t, a.sess)
      BY <1>3, <1>5, <1>7, IssueFailure
    <2> HIDE DEF f
    <2>2. Settled(Release(t, a.sess)) /\ a.sess \in 0..MaxSession
      BY <1>2, SpdmConstants DEF Release
    <2>3. AttesterStep(n, Release(t, a.sess), f.a, chan[n])
      BY <1>1, <1>7, <2>1
    <2>4. TableMoved(t, t)
      BY <1>2, MovedReflexive
    <2> QED
      BY <1>1, <2>1, <2>2, <2>3, <2>4, FailedStep
  <1> QED
    BY <1>6, <1>7

LEMMA SendFinishAgrees ==
  ASSUME AgreeInv, NEW n \in Nodes, Send(n), att[n].pc = "FINISH"
  PROVE  AgreeInv'
  <1> DEFINE x == Issue(dev[n], tab[n], att[n])
             a == att[n]
             t == tab[n]
             d == dev[n]
             ch == SentChan(x)
             f == IssueFailed(x.t, x.a)
             i == a.sess
  <1>1. /\ ThreadInv' /\ Attester(n) /\ chan[n].st = "IDLE" /\ ChannelOK(Idle, chan[n])
        /\ x.ok => AttesterStep(n, x.t, x.a, ch)
        /\ ~x.ok => AttesterStep(n, f.t, f.a, chan[n])
    BY SentStep
  <1>2. /\ AttesterOK(d, t, a, chan[n]) /\ ClientTable(d, t) /\ Table(t) /\ d.afm # <<>>
        /\ HandOK(dev, tab, n, a, chan[n])
    BY <1>1, AttesterFacts
  <1>3. /\ Attempt(a) /\ a.dev \in DOMAIN d.afm /\ i \in 1..MaxSession /\ t[i].valid
        /\ t[i].state \in {"CHALLENGED", "KEY_EXCHANGED"}
        /\ \A j \in 1..MaxSession : t[j].valid /\ t[j].state # "ESTABLISHED" => j = i
    BY <1>2 DEF AttesterOK, Shaking
  <1>4. x = IssueFinish(d, t, a)
    BY DEF Issue, InSession
  <1> HIDE DEF x
  <1>5. /\ ~x.ok => x.t = t /\ x.a = a
        /\ x.ok => /\ t[i].state = "KEY_EXCHANGED" /\ ClientTable(d, x.t)
                   /\ \A j \in 1..MaxSession \ {i} : x.t[j] = t[j]
                   /\ \A y \in SessionFields \ {"reqMac"} : x.t[i][y] = t[i][y]
                   /\ Attempt(x.a) /\ x.a.c = a.c /\ x.a.fin = i
                   /\ x.a.sess = a.sess /\ x.a.pc = a.pc /\ x.a.dev = a.dev
                   /\ x.m.code = "FINISH" /\ x.m.p1 = 1
                   /\ x.m.sig.over = a.c.th2 \o <<CertHash(d.slots[0]), FinishHeader(x.m.ver, 1)>>
                   /\ x.m.mac.key = <<HandshakeKey(t[i].id, t[i].rspMac.over, "REQ")>>
                   /\ x.seal = NoSeal
    <2>1. t[i].state # "ESTABLISHED"
      BY <1>3
    <2>2. LET z == IssueFinish(d, t, a)
          IN  /\ ~z.ok => z.t = t /\ z.a = a
              /\ z.ok => /\ t[i].state = "KEY_EXCHANGED" /\ ClientTable(d, z.t)
                         /\ \A j \in 1..MaxSession \ {i} : z.t[j] = t[j]
                         /\ \A y \in SessionFields \ {"reqMac"} : z.t[i][y] = t[i][y]
                         /\ Attempt(z.a) /\ z.a.c = a.c /\ z.a.fin = i
                         /\ z.a.sess = a.sess /\ z.a.pc = a.pc /\ z.a.dev = a.dev
                         /\ z.m.code = "FINISH" /\ z.m.p1 = 1
                         /\ z.m.sig.over = a.c.th2 \o <<CertHash(d.slots[0]), FinishHeader(z.m.ver, 1)>>
                         /\ z.m.mac.key = <<HandshakeKey(t[i].id, t[i].rspMac.over, "REQ")>>
                         /\ z.seal = NoSeal
      BY <1>2, <1>3, <2>1, FinishIssued
    <2> QED
      BY <1>4, <2>2, Zenon
  <1>6. CASE x.ok
    <2>0. x.m.code = "FINISH" /\ x.a.pc = "FINISH" /\ x.seal = NoSeal
      BY <1>5, <1>6, Zenon
    <2>1. ChannelOK(x.a, ch) /\ ch.st = "REQUEST" /\ ch.m = x.m
      BY <2>0, SentChannel DEF NoSeal
    <2> HIDE DEF ch
    <2>2. x.t[i].valid /\ x.t[i].state = "KEY_EXCHANGED" /\ x.t[i].id = t[i].id
          /\ x.t[i].rspMac = t[i].rspMac
      BY <1>3, <1>5, <1>6 DEF SessionFields
    <2>3. AttesterOK(d, x.t, x.a, ch)
      <3>1. Shaking(x.a, ch) /\ x.a.pc = "FINISH" /\ x.a.sess = i
        BY <1>5, <1>6 DEF Shaking
      <3>2. \A j \in 1..MaxSession : x.t[j].valid /\ x.t[j].state # "ESTABLISHED" => j = i
        BY <1>3, <1>5, <1>6
      <3> QED
        BY <1>3, <1>5, <1>6, <2>1, <2>2, <3>1, <3>2 DEF AttesterOK, Pcs, Early, Late
    <2>4. HandOK(dev, tab', n, x.a, ch)
      <3>1. tab'[n] = x.t
        BY <1>1, <1>6 DEF AttesterStep
      <3>2. NotServed(dev, tab, t[i].id) /\ t[i].rspMac.over = a.c.th2
        BY <1>1, <1>2, <1>5, <1>6 DEF HandOK, FinishOK
      <3>3. NotServed(dev, tab', t[i].id)
        BY <1>1, <1>6, <3>2, ServedSame DEF AgreeInv
      <3>4. FinishSent(d, x.t[i], x.a, ch.m)
        <4>1. /\ x.m.code = "FINISH" /\ x.m.p1 = 1 /\ x.a.c = a.c
              /\ x.m.sig.over = a.c.th2 \o <<CertHash(d.slots[0]), FinishHeader(x.m.ver, 1)>>
              /\ x.m.mac.key = <<HandshakeKey(t[i].id, t[i].rspMac.over, "REQ")>>
          BY <1>5, <1>6, Zenon
        <4>2. x.m.mac.key = <<HandshakeKey(x.t[i].id, x.a.c.th2, "REQ")>>
          BY <2>2, <3>2, <4>1, Zenon
        <4>3. x.m.sig.over = x.a.c.th2 \o <<CertHash(d.slots[0]), FinishHeader(x.m.ver, 1)>>
          BY <4>1, Zenon
        <4> QED
          BY <2>1, <4>1, <4>2, <4>3, Zenon DEF FinishSent
      <3>5. x.a.sess = i /\ x.a.fin = i /\ x.a.c = a.c /\ x.a.pc = "FINISH"
        BY <1>5, <1>6, Zenon
      <3>6. KeyExchangeOK(dev, tab', n, x.a, ch)
        BY <3>5 DEF KeyExchangeOK
      <3>7. FinishOK(dev, tab', n, x.a, ch)
        BY <2>1, <2>2, <3>1, <3>2, <3>3, <3>4, <3>5 DEF FinishOK
      <3> QED
        BY <3>6, <3>7 DEF HandOK
    <2>5. \A j \in 1..MaxSession : x.t[j].valid /\ x.t[j].state = "ESTABLISHED" => Moved(t[j], x.t[j])
      <3>1. x.t[i].state = t[i].state /\ t[i].state = "KEY_EXCHANGED"
        BY <1>5, <1>6, Zenon DEF SessionFields
      <3>2. \A j \in 1..MaxSession \ {i} : x.t[j] = t[j] /\ Session(t[j])
        BY <1>2, <1>5, <1>6 DEF Table
      <3> QED
        BY <3>1, <3>2 DEF Moved
    <2> QED
      BY <1>1, <1>5, <1>6, <2>1, <2>3, <2>4, <2>5, AttesterStepAgrees
  <1>7. CASE ~x.ok
    <2>1. Attempt(f.a) /\ f.a.pc = "VERDICT" /\ f.a.dev = a.dev /\ f.t = Release(t, a.sess)
      BY <1>3, <1>5, <1>7, IssueFailure
    <2> HIDE DEF f
    <2>2. Settled(Release(t, a.sess)) /\ a.sess \in 0..MaxSession
      BY <1>2, <1>3, NoPending, SpdmConstants
    <2>3. AttesterStep(n, Release(t, a.sess), f.a, chan[n])
      BY <1>1, <1>7, <2>1
    <2>4. TableMoved(t, t)
      BY <1>2, MovedReflexive
    <2> QED
      BY <1>1, <2>1, <2>2, <2>3, <2>4, FailedStep
  <1> QED
    BY <1>6, <1>7

LEMMA SendAgrees ==
  ASSUME AgreeInv, NEW n \in Nodes, Send(n)
  PROVE  AgreeInv'
  <1>1. att[n].pc \in Early \cup Encap \cup Late \cup {"KEY_EXCHANGE", "FINISH"}
    <2>1. att[n].pc \notin {"IDLE", "VERDICT"} /\ att[n].pc \in Pcs
      BY SentStep, AttesterFacts DEF AttesterOK
    <2> QED
      BY <2>1 DEF Pcs
  <1> QED
    BY <1>1, SendEarlyAgrees, SendLateAgrees, SendKeyExchangeAgrees, SendFinishAgrees

\* A response, or its loss, is taken.
LEMMA Received ==
  ASSUME AgreeInv, NEW n \in Nodes, Receive(n)
  PROVE  \E t, m, o :
           /\ TableMoved(tab[n], t) /\ (~chan[n].sealed => t = tab[n])
           /\ o \in Take(dev[n], Entry(n), t, att[n], chan[n].req, m)
           /\ m.code \in {"KEY_EXCHANGE_RSP", "FINISH_RSP"} =>
                chan[n].st = "RESPONSE" /\ m = chan[n].m
           /\ \/ m \in {NoAnswer, Unset, BadSeal}
              \/ chan[n].st = "RESPONSE" /\ m = chan[n].m
           /\ AttesterStep(n, o.t, o.a, IdleChan)
  <1> DEFINE lost == chan[n].st = "LOST"
             opened == Decrypt(tab[n], chan[n].seal)
             t == IF chan[n].sealed /\ ~lost THEN opened.t ELSE tab[n]
             m == IF lost THEN IF chan[n].sealed THEN Unset ELSE NoAnswer
                  ELSE IF chan[n].sealed /\ ~opened.ok THEN BadSeal ELSE chan[n].m
  <1>1. TableMoved(tab[n], t) /\ (~chan[n].sealed => t = tab[n])
    BY AttesterFacts, DecryptMoved, MovedReflexive
  <1>2. m.code \in {"KEY_EXCHANGE_RSP", "FINISH_RSP"} => ~lost /\ m = chan[n].m
    BY DEF Unset, NoAnswer, BadSeal, Msg
  <1>6. m \in {NoAnswer, Unset, BadSeal} \/ (~lost /\ m = chan[n].m)
    OBVIOUS
  <1> HIDE DEF t, m
  <1>3. /\ \E o \in Take(dev[n], Entry(n), t, att[n], chan[n].req, m) :
             tab' = [tab EXCEPT ![n] = o.t] /\ att' = [att EXCEPT ![n] = o.a]
        /\ chan' = [chan EXCEPT ![n] = IdleChan] /\ UNCHANGED <<dev, rctx>>
        /\ chan[n].st \in {"RESPONSE", "LOST"}
    BY DEF Receive, t, m
  <1>4. PICK o \in Take(dev[n], Entry(n), t, att[n], chan[n].req, m) :
          tab' = [tab EXCEPT ![n] = o.t] /\ att' = [att EXCEPT ![n] = o.a]
    BY <1>3
  <1>5. AttesterStep(n, o.t, o.a, IdleChan)
    BY <1>3, <1>4 DEF AttesterStep, AgreeInv, TypesInv, TableInv, AttesterInv
  <1> QED
    BY <1>1, <1>2, <1>3, <1>4, <1>5, <1>6

LEMMA IdleChannelOK ==
  ASSUME NEW a
  PROVE  ChannelOK(a, IdleChan) /\ IdleChan.st = "IDLE"
  BY DEF ChannelOK, IdleChan, ChanFields

LEMMA ReceiveFacts ==
  ASSUME AgreeInv, NEW n \in Nodes, Receive(n)
  PROVE  /\ ThreadInv' /\ chan[n].st # "IDLE" /\ Attester(n)
         /\ att[n].pc \in Early \cup Encap \cup Late \cup {"KEY_EXCHANGE", "FINISH"}
         /\ AttesterOK(dev[n], tab[n], att[n], chan[n]) /\ Attempt(att[n])
         /\ att[n].dev \in DOMAIN dev[n].afm /\ dev[n].afm # <<>>
         /\ HandOK(dev, tab, n, att[n], chan[n]) /\ ClientTable(dev[n], tab[n]) /\ Table(tab[n])
         /\ att[n].pc \notin Late => ~chan[n].sealed
         /\ att[n].sess \in 0..MaxSession
  <1>1. chan[n].st # "IDLE" /\ UNCHANGED <<thread, evt>>
    BY DEF Receive
  <1>2. /\ Attester(n) /\ att[n].pc \notin {"IDLE", "VERDICT"}
        /\ AttesterOK(dev[n], tab[n], att[n], chan[n]) /\ ChannelOK(att[n], chan[n])
        /\ HandOK(dev, tab, n, att[n], chan[n]) /\ ClientTable(dev[n], tab[n]) /\ Table(tab[n])
        /\ dev[n].afm # <<>>
    BY <1>1, AttesterFacts
  <1>3. ThreadInv'
    BY <1>1 DEF AgreeInv, TypesInv, ThreadInv
  <1>4. /\ att[n].pc \in Early \cup Encap \cup Late \cup {"KEY_EXCHANGE", "FINISH"}
        /\ Attempt(att[n]) /\ att[n].dev \in DOMAIN dev[n].afm
    BY <1>2 DEF AttesterOK, Pcs
  <1>5. att[n].pc \notin Late => chan[n].sealed # TRUE
    BY <1>1, <1>2 DEF ChannelOK
  <1>6. att[n].sess \in 0..MaxSession
    BY <1>2, SessionOf
  <1> QED
    BY <1>1, <1>2, <1>3, <1>4, <1>5, <1>6

LEMMA ReceiveTurnAgrees ==
  ASSUME AgreeInv, NEW n \in Nodes, Receive(n), att[n].pc \in Early \cup Late
  PROVE  AgreeInv'
  <1> DEFINE a == att[n]
  <1>1. PICK t, m, o :
           /\ TableMoved(tab[n], t)
           /\ o \in Take(dev[n], Entry(n), t, a, chan[n].req, m)
           /\ AttesterStep(n, o.t, o.a, IdleChan)
    BY Received
  <1>2. /\ ThreadInv' /\ Attester(n) /\ Attempt(a) /\ a.dev \in DOMAIN dev[n].afm
        /\ AttesterOK(dev[n], tab[n], a, chan[n]) /\ a.sess \in 0..MaxSession
    BY ReceiveFacts
  <1>3. Settled(t)
    <2>1. ~Shaking(a, chan[n]) /\ a.pc \notin {"IDLE", "VERDICT"}
      BY DEF Shaking, Early, Late, Encap
    <2>2. Settled(tab[n])
      BY <2>1, SessionOf
    <2> QED
      BY <1>1, <2>2, SettledMoved
  <1>4. /\ Attempt(o.a) /\ o.a.sess = a.sess /\ o.a.dev = a.dev
        /\ a.pc \in Early => o.a.pc \in Early \cup {"KEY_EXCHANGE", "VERDICT"} /\ a.sess = 0
        /\ a.pc \in Late => o.a.pc \in Late \cup {"VERDICT"} /\ a.sess \in 1..MaxSession
        /\ o.t = t \/ o.t = Release(t, a.sess)
    <2>1. CASE a.pc \in Early
      <3>1. Turn(t, a, o, Early \cup {"KEY_EXCHANGE"})
        BY <1>1, <1>2, <2>1, EarlyTaken
      <3> QED
        BY <1>2, <2>1, <3>1 DEF Turn, AttesterOK, Early, Late
    <2>2. CASE a.pc \in Late
      <3>1. Turn(t, a, o, Late)
        BY <1>1, <1>2, <2>2, LateTaken
      <3> QED
        BY <1>2, <2>2, <3>1 DEF Turn, AttesterOK, Early, Late
    <2> QED
      BY <2>1, <2>2
  <1>5. TableMoved(tab[n], o.t) /\ Settled(o.t)
    <2>1. Table(t)
      BY <1>1 DEF TableMoved
    <2>2. TableMoved(t, o.t)
      BY <1>2, <1>4, <2>1, ReleaseMoved, MovedReflexive
    <2> QED
      BY <1>1, <1>3, <2>2, MovedTransitive, SettledMoved
  <1>6. ~Shaking(o.a, IdleChan) /\ o.a.pc \in Pcs
    BY <1>4, IdleChannelOK DEF Shaking, Pcs, Early, Late, Encap
  <1>7. ChannelOK(o.a, IdleChan)
    BY IdleChannelOK
  <1>8. /\ o.a.pc \in Early \cup {"KEY_EXCHANGE"} => o.a.sess = 0
        /\ o.a.pc \in Late => o.a.sess \in 1..MaxSession
    BY <1>4 DEF Early, Late
  <1>9. o.a.dev \in DOMAIN dev[n].afm
    BY <1>2, <1>4
  <1> QED
    BY <1>1, <1>2, <1>4, <1>5, <1>6, <1>7, <1>8, <1>9, QuietStep

\* The handshake fails: its session goes, and nothing is pending.
LEMMA HandshakeFailed ==
  ASSUME AgreeInv, NEW n \in Nodes, Receive(n),
         att[n].pc \in Encap \cup {"KEY_EXCHANGE", "FINISH"}, NEW o, Attempt(o.a),
         o.a.pc = "VERDICT", o.a.dev = att[n].dev, o.t = Release(tab[n], att[n].sess),
         AttesterStep(n, o.t, o.a, IdleChan)
  PROVE  AgreeInv'
  <1>1. ThreadInv' /\ att[n].sess \in 0..MaxSession /\ att[n].pc \notin {"IDLE", "VERDICT"}
    BY ReceiveFacts DEF Encap
  <1>2. Settled(Release(tab[n], att[n].sess))
    BY <1>1, SessionOf
  <1>3. TableMoved(tab[n], tab[n])
    BY ReceiveFacts, MovedReflexive
  <1>4. ChannelOK(Idle, IdleChan) /\ IdleChan.st = "IDLE"
    BY IdleChannelOK
  <1> QED
    BY <1>1, <1>2, <1>3, <1>4, FailedStep

\* It goes on with the session it has.
LEMMA HandshakeGoesOn ==
  ASSUME AgreeInv, NEW n \in Nodes, Attester(n), NEW t, NEW a, Attempt(a),
         a.pc \in Encap \cup {"FINISH"}, a.dev \in DOMAIN dev[n].afm, a.sess \in 1..MaxSession,
         t[a.sess].valid, t[a.sess].state \in {"CHALLENGED", "KEY_EXCHANGED"},
         \A j \in 1..MaxSession \ {a.sess} : t[j] = tab[n][j],
         \A j \in 1..MaxSession :
           tab[n][j].valid /\ tab[n][j].state # "ESTABLISHED" => j = a.sess,
         NotServed(dev, tab, t[a.sess].id),
         t[a.sess].state = "KEY_EXCHANGED" => t[a.sess].rspMac.over = a.c.th2,
         ClientTable(dev[n], t), ThreadInv', AttesterStep(n, t, a, IdleChan)
  PROVE  AgreeInv'
  <1>1. Shaking(a, IdleChan) /\ IdleChan.st = "IDLE" /\ ChannelOK(a, IdleChan)
    BY IdleChannelOK DEF Shaking
  <1>2. AttesterOK(dev[n], t, a, IdleChan)
    BY <1>1 DEF AttesterOK, Pcs, Early, Encap, Late
  <1>3. HandOK(dev, tab', n, a, IdleChan)
    <2>1. tab'[n] = t
      BY DEF AttesterStep
    <2>2. NotServed(dev, tab', t[a.sess].id)
      BY ServedSame DEF AgreeInv
    <2> QED
      BY <1>1, <2>1, <2>2 DEF HandOK, KeyExchangeOK, FinishOK
  <1>4. \A j \in 1..MaxSession : t[j].valid /\ t[j].state = "ESTABLISHED" => Moved(tab[n][j], t[j])
    BY AttesterFacts DEF Table, Moved
  <1> QED
    BY <1>1, <1>2, <1>3, <1>4, AttesterStepAgrees

LEMMA ReceiveEncapAgrees ==
  ASSUME AgreeInv, NEW n \in Nodes, Receive(n), att[n].pc \in Encap
  PROVE  AgreeInv'
  <1> DEFINE a == att[n]
             t == tab[n]
  <1>1. /\ ThreadInv' /\ Attester(n) /\ Attempt(a) /\ a.dev \in DOMAIN dev[n].afm
        /\ AttesterOK(dev[n], t, a, chan[n]) /\ a.sess \in 0..MaxSession /\ ~chan[n].sealed
        /\ HandOK(dev, tab, n, a, chan[n]) /\ ClientTable(dev[n], t) /\ dev[n].afm # <<>>
    BY ReceiveFacts DEF Encap, Late
  <1>2. PICK m, o : /\ o \in Take(dev[n], Entry(n), t, a, chan[n].req, m)
                    /\ AttesterStep(n, o.t, o.a, IdleChan)
    BY <1>1, Received
  <1>3. o = TakeEncapAck(t, a, chan[n].req, m)
    BY <1>2 DEF Take, Encap
  <1>4. /\ Attempt(o.a) /\ o.a.sess = a.sess /\ o.a.dev = a.dev /\ o.a.c = a.c
        /\ o.a.pc \in Encap \cup {"FINISH", "VERDICT"}
        /\ o.a.pc # "VERDICT" => o.t = t
        /\ o.a.pc = "VERDICT" => o.t = Release(t, a.sess)
    <2>1. LET x == TakeEncapAck(t, a, chan[n].req, m)
          IN  /\ Turn(t, a, x, Encap \cup {"FINISH"}) /\ x.a.c = a.c
              /\ x.a.pc = "VERDICT" => x.t = Release(t, a.sess)
      <3>1. Attempt(a)
        BY <1>1
      <3> HIDE DEF a, t
      <3> QED
        BY <3>1, EncapTurn
    <2> QED
      BY <1>3, <2>1 DEF Turn
  <1>5. CASE o.a.pc = "VERDICT"
    BY <1>2, <1>4, <1>5, HandshakeFailed
  <1>6. CASE o.a.pc # "VERDICT"
    <2>1. /\ a.sess \in 1..MaxSession /\ t[a.sess].valid
          /\ t[a.sess].state \in {"CHALLENGED", "KEY_EXCHANGED"}
          /\ \A j \in 1..MaxSession : t[j].valid /\ t[j].state # "ESTABLISHED" => j = a.sess
      BY <1>1 DEF AttesterOK, Shaking
    <2>2. /\ NotServed(dev, tab, t[a.sess].id)
          /\ t[a.sess].state = "KEY_EXCHANGED" => t[a.sess].rspMac.over = a.c.th2
      BY <1>1 DEF HandOK, FinishOK, Encap
    <2> QED
      BY <1>1, <1>2, <1>4, <1>6, <2>1, <2>2, HandshakeGoesOn
  <1> QED
    BY <1>5, <1>6

LEMMA ReceiveKeyExchangeAgrees ==
  ASSUME AgreeInv, NEW n \in Nodes, Receive(n), att[n].pc = "KEY_EXCHANGE"
  PROVE  AgreeInv'
  <1> DEFINE a == att[n]
             t == tab[n]
             i == a.sess
             e == Entry(n)
  <1>1. /\ ThreadInv' /\ Attester(n) /\ Attempt(a) /\ a.dev \in DOMAIN dev[n].afm
        /\ AttesterOK(dev[n], t, a, chan[n]) /\ a.sess \in 0..MaxSession /\ ~chan[n].sealed
        /\ HandOK(dev, tab, n, a, chan[n]) /\ ClientTable(dev[n], t) /\ dev[n].afm # <<>>
        /\ chan[n].st # "IDLE"
    BY ReceiveFacts DEF Late
  <1>2. PICK m, o : /\ o \in Take(dev[n], e, t, a, chan[n].req, m)
                    /\ m.code \in {"KEY_EXCHANGE_RSP", "FINISH_RSP"} =>
                         chan[n].st = "RESPONSE" /\ m = chan[n].m
                    /\ AttesterStep(n, o.t, o.a, IdleChan)
    BY <1>1, Received
  <1>3. o \in TakeKeyExchange(e, t, a, chan[n].req, m)
    BY <1>2 DEF Take
  <1>4. /\ i \in 1..MaxSession /\ t[i].valid
        /\ \A j \in 1..MaxSession : t[j].valid /\ t[j].state # "ESTABLISHED" => j = i
    BY <1>1 DEF AttesterOK, Shaking
  <1>5. /\ t[i].state = "CHALLENGED" /\ t[i].id = <<dev[n].base + i, 0>>
        /\ \A x \in Dirs : t[i].key[x].secret = <<>>
        /\ chan[n].st = "RESPONSE" /\ chan[n].m.code = "KEY_EXCHANGE_RSP" =>
             NotServed(dev, tab, <<dev[n].base + i, chan[n].m.data[1]>>)
    BY <1>1 DEF HandOK, KeyExchangeOK
  <1>6. \E k \in DOMAIN dev[n].afm : dev[n].afm[k].index = e.index
    BY <1>1 DEF Entry, Afm
  <1> HIDE DEF e
  <1>7. /\ Attempt(o.a) /\ o.a.sess = a.sess /\ o.a.dev = a.dev
        /\ o.a.pc \in {"VERDICT", "ENCAP_DIGESTS", "FINISH"}
        /\ o.a.pc = "VERDICT" => o.t = Release(t, i)
        /\ o.a.pc # "VERDICT" =>
             /\ ClientTable(dev[n], o.t) /\ \A j \in 1..MaxSession \ {i} : o.t[j] = t[j]
             /\ o.t[i].valid /\ o.t[i].state \in {"CHALLENGED", "KEY_EXCHANGED"}
             /\ o.t[i].state = "KEY_EXCHANGED" => o.t[i].rspMac.over = o.a.c.th2
             /\ o.t[i].id = IF m.code = "KEY_EXCHANGE_RSP" THEN <<t[i].id[1], m.data[1]>>
                            ELSE t[i].id
    <2>1. ClientTable(dev[n], t) /\ Attempt(a)
      BY <1>1
    <2>2. /\ a.sess \in 1..MaxSession /\ t[a.sess].valid /\ t[a.sess].state = "CHALLENGED"
          /\ \A x \in Dirs : t[a.sess].key[x].secret = <<>>
      BY <1>4, <1>5
    <2> HIDE DEF a, t
    <2> QED
      BY <1>3, <1>6, <2>1, <2>2, KeyExchangeTaken
  <1>8. CASE o.a.pc = "VERDICT"
    BY <1>2, <1>7, <1>8, HandshakeFailed
  <1>9. CASE o.a.pc # "VERDICT"
    <2>1. NotServed(dev, tab, o.t[i].id)
      <3>1. CASE m.code = "KEY_EXCHANGE_RSP"
        <4>1. o.t[i].id = <<dev[n].base + i, chan[n].m.data[1]>>
          BY <1>2, <1>5, <1>7, <1>9, <3>1
        <4> QED
          BY <1>2, <1>5, <3>1, <4>1
      <3>2. CASE m.code # "KEY_EXCHANGE_RSP"
        <4>1. o.t[i].id = <<dev[n].base + i, 0>>
          BY <1>5, <1>7, <1>9, <3>2
        <4>2. \A q \in Nodes, j \in 1..MaxSession : ~Served(dev, tab, q, j, o.t[i].id)
          <5> SUFFICES ASSUME NEW q \in Nodes, NEW j \in 1..MaxSession,
                              Served(dev, tab, q, j, o.t[i].id)
                       PROVE  FALSE
            OBVIOUS
          <5>1. ServerTable(dev[q], tab[q])
            BY DEF Served, AgreeInv, TypesInv, TableInv, Attester, Afm
          <5>2. tab[q][j].id[2] = dev[q].base + j
            BY <5>1 DEF Served, ServerTable, ServerSlot
          <5>3. dev[q].base \in Nat
            BY DEF AgreeInv, TypesInv, DevInv, Devices
          <5>4. tab[q][j].id[2] = 0
            BY <4>1 DEF Served
          <5> QED
            BY <5>2, <5>3, <5>4, SpdmConstants
        <4> QED
          BY <4>2 DEF NotServed
      <3> QED
        BY <3>1, <3>2
    <2> QED
      BY <1>1, <1>2, <1>4, <1>7, <1>9, <2>1, HandshakeGoesOn DEF Encap
  <1> QED
    BY <1>8, <1>9

LEMMA ReceiveFinishAgrees ==
  ASSUME AgreeInv, NEW n \in Nodes, Receive(n), att[n].pc = "FINISH"
  PROVE  AgreeInv'
  <1> DEFINE a == att[n]
             t == tab[n]
             i == a.sess
             e == Entry(n)
             req == chan[n].req
             cert == Between(dev[n], a)
  <1>1. /\ ThreadInv' /\ Attester(n) /\ Attempt(a) /\ a.dev \in DOMAIN dev[n].afm
        /\ AttesterOK(dev[n], t, a, chan[n]) /\ a.sess \in 0..MaxSession /\ ~chan[n].sealed
        /\ HandOK(dev, tab, n, a, chan[n]) /\ ClientTable(dev[n], t) /\ dev[n].afm # <<>>
        /\ chan[n].st # "IDLE"
    BY ReceiveFacts DEF Late
  <1>2. PICK m, o : /\ o \in Take(dev[n], e, t, a, req, m)
                    /\ m.code \in {"KEY_EXCHANGE_RSP", "FINISH_RSP"} =>
                         chan[n].st = "RESPONSE" /\ m = chan[n].m
                    /\ AttesterStep(n, o.t, o.a, IdleChan)
    BY <1>1, Received
  <1>3. o = TakeFinish(dev[n], e, t, a, req, m)
    BY <1>2 DEF Take
  <1>4. /\ i \in 1..MaxSession /\ t[i].valid
        /\ \A j \in 1..MaxSession : t[j].valid /\ t[j].state # "ESTABLISHED" => j = i
    BY <1>1 DEF AttesterOK, Shaking
  <1>5. /\ a.fin = i /\ t[i].state = "KEY_EXCHANGED" /\ t[i].rspMac.over = a.c.th2
        /\ chan[n].st = "RESPONSE" /\ chan[n].m.code = "FINISH_RSP" =>
             \A q \in Nodes, j \in 1..MaxSession : Served(dev, tab, q, j, t[i].id) =>
               AnsweredWith(tab[q][j], t[i].id, a.c.th2, cert, req, chan[n].m)
    BY <1>1 DEF HandOK, FinishOK
  <1> HIDE DEF e
  <1>6. /\ Attempt(o.a) /\ o.a.sess = a.sess /\ o.a.dev = a.dev
        /\ o.a.pc \in {"VERDICT", "HEARTBEAT"}
        /\ o.a.pc = "VERDICT" => o.t = Release(t, i)
        /\ o.a.pc # "VERDICT" =>
             /\ ClientTable(dev[n], o.t) /\ \A j \in 1..MaxSession \ {i} : o.t[j] = t[j]
             /\ o.t[i].valid /\ o.t[i].state = "ESTABLISHED" /\ o.t[i].id = t[i].id
             /\ m.code = "FINISH_RSP"
             /\ m.mac = [key |-> <<HandshakeKey(t[i].id, t[i].rspMac.over, "RSP")>>,
                         over |-> t[i].rspMac.over \o cert \o <<req, FinishRspOf(req)>>]
             /\ \A x \in Dirs : /\ o.t[i].key[x].secret = t[i].id
                                /\ o.t[i].key[x].over = a.c.th2 \o cert \o <<req, m>>
    <2>1. ClientTable(dev[n], t) /\ Attempt(a)
      BY <1>1
    <2>2. /\ a.sess \in 1..MaxSession /\ a.fin = a.sess /\ t[a.sess].valid
          /\ t[a.sess].state = "KEY_EXCHANGED"
      BY <1>4, <1>5
    <2> HIDE DEF a, t, req
    <2>3. FinishHeard(dev[n], t, a, req, m, o)
      BY <1>3, <2>1, <2>2, FinishTaken
    <2> QED
      BY <2>3, Zenon DEF FinishHeard
  <1>7. CASE o.a.pc = "VERDICT"
    BY <1>2, <1>6, <1>7, HandshakeFailed
  <1>8. CASE o.a.pc # "VERDICT"
    <2>1. /\ ClientTable(dev[n], o.t) /\ \A j \in 1..MaxSession \ {i} : o.t[j] = t[j]
          /\ o.t[i].valid /\ o.t[i].state = "ESTABLISHED" /\ o.t[i].id = t[i].id
          /\ chan[n].st = "RESPONSE" /\ chan[n].m.code = "FINISH_RSP" /\ m = chan[n].m
      BY <1>2, <1>6, <1>8
    <2>2. Settled(o.t)
      BY <1>4, <2>1 DEF Settled
    <2>3. ~Shaking(o.a, IdleChan) /\ ChannelOK(o.a, IdleChan)
      BY <1>6, <1>8, IdleChannelOK DEF Shaking, Encap
    <2>4. AttesterOK(dev[n], o.t, o.a, IdleChan)
      BY <1>1, <1>4, <1>6, <1>8, <2>2, <2>3, SettledOK DEF Pcs, Early, Late
    <2>5. HandOK(dev, tab', n, o.a, IdleChan)
      BY <2>3, NoHands
    <2>6. Agrees(o.t[i], dev, tab)
      <3> SUFFICES ASSUME NEW q \in Nodes, NEW j \in 1..MaxSession,
                          Served(dev, tab, q, j, t[i].id), NEW x \in Dirs
                   PROVE  /\ o.t[i].key[x].secret = tab[q][j].key[x].secret
                          /\ o.t[i].key[x].over = tab[q][j].key[x].over
        BY <2>1 DEF Agrees
      <3>1. AnsweredWith(tab[q][j], t[i].id, a.c.th2, cert, req, m)
        BY <1>5, <2>1
      <3>2. m.mac = [key |-> <<HandshakeKey(t[i].id, a.c.th2, "RSP")>>,
                     over |-> a.c.th2 \o cert \o <<req, FinishRspOf(req)>>]
        BY <1>5, <1>6, <1>8
      <3>3. tab[q][j].key[x].over = a.c.th2 \o cert \o <<req, m>>
        BY <3>1, <3>2, Zenon DEF AnsweredWith
      <3>4. tab[q][j].key[x].secret = t[i].id
        <4>1. ServerTable(dev[q], tab[q])
          BY DEF Served, AgreeInv, TypesInv, TableInv, Attester, Afm
        <4> QED
          BY <4>1 DEF ServerTable, ServerSlot, Served, Keyed
      <3> QED
        BY <1>6, <1>8, <3>3, <3>4
    <2>7. \A j \in 1..MaxSession : o.t[j].valid /\ o.t[j].state = "ESTABLISHED" =>
            Moved(t[j], o.t[j]) \/ Agrees(o.t[j], dev, tab)
      <3>1. Table(t)
        BY <1>1 DEF ClientTable
      <3> QED
        BY <2>1, <2>6, <3>1 DEF Table, Moved
    <2> QED
      BY <1>1, <1>2, <2>1, <2>3, <2>4, <2>5, <2>7, AttesterStepAgrees
  <1> QED
    BY <1>6, <1>7, <1>8

LEMMA ReceiveAgrees ==
  ASSUME AgreeInv, NEW n \in Nodes, Receive(n)
  PROVE  AgreeInv'
  BY ReceiveFacts, ReceiveTurnAgrees, ReceiveEncapAgrees, ReceiveKeyExchangeAgrees, ReceiveFinishAgrees

-----------------------------------------------------------------------------
(* The steps of a responder keep the invariant.                             *)

\* A FINISH that establishes a session is that of the attestation whose
\* session it is, and both have the same transcript.
LEMMA FinishedBy ==
  ASSUME NEW c, Context(c), NEW t, NEW m, NEW r, NEW i, Finished(c, t, m, r, i),
         NEW d, NEW s, NEW a, Attempt(a), FinishSent(d, s, a, m)
  PROVE  /\ r.t[i].id = s.id
         /\ AnsweredWith(r.t[i], s.id, a.c.th2, Between(d, a), m, r.rsp)
  <1> DEFINE th == a.c.th2
             B == Between(d, a)
             over == t[i].rspMac.over
             id == t[i].id
  <1>1. HandshakeKey(id, over, "REQ") = HandshakeKey(s.id, th, "REQ")
    <2>1. <<HandshakeKey(id, over, "REQ")>> = <<HandshakeKey(s.id, th, "REQ")>>
      BY DEF Finished, FinishSent
    <2> HIDE DEF id, over, th
    <2> QED
      BY <2>1
  <1>2. id = s.id /\ over = th
    BY <1>1 DEF HandshakeKey
  <1>3. c.th2 = th
    <2>1. PICK chain : m.sig.over = c.th2 \o <<CertHash(chain), FinishHeader(m.ver, m.p1)>>
      BY DEF Finished, FinishSent
    <2> DEFINE u == <<CertHash(chain), FinishHeader(m.ver, m.p1)>>
               v == <<CertHash(d.slots[0]), FinishHeader(m.ver, 1)>>
    <2>2. c.th2 \o u = th \o v
      BY <2>1 DEF FinishSent
    <2>3. Transcript(u) /\ Transcript(v) /\ Len(u) = Len(v)
      BY TranscriptOf
    <2>4. Transcript(c.th2) /\ Transcript(th)
      BY DEF Context, Attempt
    <2> HIDE DEF th, u, v
    <2> QED
      BY <2>2, <2>3, <2>4, SamePrefix
  <1>4. PICK cert \in {<<>>} \cup {<<CertHash(chain)>> : chain \in {c.cert[m.p2].digest}} :
       /\ r.rsp.mac = [key |-> <<HandshakeKey(id, over, "RSP")>>,
                       over |-> over \o cert \o <<m, FinishRspOf(m)>>]
       /\ \A x \in Dirs : r.t[i].key[x].over = c.th2 \o cert \o <<m, r.rsp>>
    BY DEF Finished
  <1>5. Transcript(th \o cert) /\ Transcript(th \o B)
    <2>1. \A x : Transcript(<<x>>) /\ Transcript(<<>>)
      BY TranscriptOf
    <2>2. Transcript(cert) /\ Transcript(B)
      BY <2>1 DEF Between
    <2>3. Transcript(th)
      BY DEF Attempt, Context
    <2> HIDE DEF th, B
    <2> QED
      BY <2>2, <2>3, TranscriptParts, TranscriptOf
  <1>6. r.t[i].id = s.id
    BY <1>2 DEF Finished
  <1>7. ASSUME r.rsp.mac = [key |-> <<HandshakeKey(s.id, th, "RSP")>>,
                            over |-> th \o B \o <<m, FinishRspOf(m)>>]
        PROVE  \A x \in Dirs : r.t[i].key[x].over = th \o B \o <<m, r.rsp>>
    <2> DEFINE X == <<m, FinishRspOf(m)>>
    <2>1. (th \o cert) \o X = (th \o B) \o X
      <3>1. r.rsp.mac.over = (th \o cert) \o X
        BY <1>2, <1>4
      <3>2. r.rsp.mac.over = (th \o B) \o X
        BY <1>7
      <3> QED
        BY <3>1, <3>2, Zenon
    <2>2. Transcript(X)
      BY TranscriptOf
    <2> HIDE DEF X, th, B
    <2>3. th \o cert = th \o B
      BY <1>5, <2>1, <2>2, SamePrefix
    <2>4. \A x \in Dirs : r.t[i].key[x].over = (th \o cert) \o <<m, r.rsp>>
      BY <1>3, <1>4, Zenon
    <2> QED
      BY <2>3, <2>4, Zenon
  <1> QED
    BY <1>6, <1>7 DEF AnsweredWith

\* The responder of p leaves the sessions u and the context c.
ResponderStep(p, u, c) ==
  /\ UNCHANGED <<dev, att>>
  /\ DOMAIN tab' = Nodes /\ DOMAIN rctx' = Nodes
  /\ \A q \in Nodes : IF q = p THEN tab'[q] = u /\ rctx'[q] = c
                      ELSE tab'[q] = tab[q] /\ rctx'[q] = rctx[q]

LEMMA ResponderStepTypes ==
  ASSUME TypesInv, ThreadInv', NEW p \in Nodes, ~Attester(p), NEW u, NEW c,
         ResponderStep(p, u, c), ServerTable(dev[p], u), Context(c), DOMAIN chan' = Nodes,
         \A q \in Nodes : /\ ChannelOK(att[q], chan'[q])
                          /\ (chan'[q].st = "IDLE") <=> (chan[q].st = "IDLE")
  PROVE  TypesInv'
  <1>1. dev' = dev /\ att' = att
    BY DEF ResponderStep
  <1>2. DevInv'
    BY <1>1 DEF TypesInv, DevInv, Afm
  <1>3. \A q : Attester(q)' <=> Attester(q)
    BY <1>1 DEF Attester, Afm
  <1>4. TableInv' /\ ResponderInv'
    BY <1>1, <1>3 DEF ResponderStep, TypesInv, TableInv, ResponderInv
  <1>5. ASSUME NEW q \in Nodes PROVE AttesterOK(dev[q], tab'[q], att[q], chan'[q])
    <2>1. AttesterOK(dev[q], tab[q], att[q], chan[q])
      BY DEF TypesInv, AttesterInv
    <2>2. CASE q # p
      <3>1. tab'[q] = tab[q]
        BY <2>2 DEF ResponderStep
      <3> QED
        BY <2>1, <3>1 DEF AttesterOK, Shaking
    <2>3. CASE q = p
      <3>1. dev[q].afm = <<>>
        BY <2>3 DEF Attester, Afm
      <3>2. att[q].pc = "IDLE"
        BY <2>1, <3>1 DEF AttesterOK
      <3> QED
        BY <2>1, <3>1, <3>2 DEF AttesterOK, Shaking, Early, Late, Encap
    <2> QED
      BY <2>2, <2>3
  <1>6. AttesterInv'
    BY <1>1, <1>5 DEF AttesterInv, TypesInv
  <1> QED
    BY <1>2, <1>4, <1>6 DEF TypesInv

LEMMA ResponderNoNew ==
  ASSUME TypesInv, NEW p \in Nodes, NEW y, NEW m, Answered(p, m, y), ResponderStep(p, y.t, y.c),
         NEW id1, m.code = "PSK_EXCHANGE" => m.data[1] # id1,
         \A i \in 1..MaxSession :
           Finished(rctx[p], tab[p], m, [t |-> y.t, rsp |-> y.m], i) => y.t[i].id[1] # id1
  PROVE  NoNewSession(id1)
  <1> SUFFICES ASSUME NEW q \in Nodes, NEW j \in 1..MaxSession, ~Attester(q),
                      tab'[q][j].valid, tab'[q][j].state = "ESTABLISHED"
               PROVE  Moved(tab[q][j], tab'[q][j]) \/ tab'[q][j].id[1] # id1
    BY DEF NoNewSession
  <1>1. CASE q = p
    <2>1. tab'[q] = y.t
      BY <1>1 DEF ResponderStep
    <2> QED
      BY <1>1, <2>1 DEF Answered
  <1>2. CASE q # p
    <2>1. tab'[q] = tab[q]
      BY <1>2 DEF ResponderStep
    <2>2. Session(tab[q][j])
      BY DEF TypesInv, TableInv, ServerTable, Table
    <2> QED
      BY <2>1, <2>2 DEF Moved
  <1> QED
    BY <1>1, <1>2

LEMMA ResponderStepAgrees ==
  ASSUME AgreeInv, ThreadInv', NEW p \in Nodes, ~Attester(p), NEW y, NEW m, Answered(p, m, y),
         ResponderStep(p, y.t, y.c), DOMAIN chan' = Nodes,
         \A q \in Nodes : /\ ChannelOK(att[q], chan'[q])
                          /\ (chan'[q].st = "IDLE") <=> (chan[q].st = "IDLE")
                          /\ HandOK(dev', tab', q, att'[q], chan'[q]),
         \A q \in Nodes, i \in 1..MaxSession :
           Attester(q) /\ tab[q][i].valid /\ tab[q][i].state = "ESTABLISHED" =>
             NoNewSession(tab[q][i].id[1])
  PROVE  AgreeInv'
  <1>1. TypesInv'
    BY ResponderStepTypes DEF AgreeInv, Answered
  <1>2. HandshakeInv'
    BY Zenon DEF HandshakeInv
  <1>3. SameDevices
    BY DEF SameDevices, ResponderStep
  <1>4. ASSUME NEW n \in Nodes, NEW i \in 1..MaxSession, Attester(n),
               tab'[n][i].valid, tab'[n][i].state = "ESTABLISHED"
        PROVE  Moved(tab[n][i], tab'[n][i]) /\ NoNewSession(tab'[n][i].id[1])
    <2>1. tab'[n] = tab[n]
      BY <1>4 DEF ResponderStep
    <2>2. Session(tab[n][i])
      BY <1>4 DEF AgreeInv, TypesInv, TableInv, ClientTable, Table
    <2> QED
      BY <1>4, <2>1, <2>2 DEF Moved
  <1>5. SessionKeysAgree'
    BY <1>1, <1>3, <1>4, KeysKept
  <1> QED
    BY <1>1, <1>2, <1>5 DEF AgreeInv

\* The peer of a node that attests is a responder.
LEMMA PeerOf ==
  ASSUME AgreeInv, NEW n \in Nodes, att[n].pc # "IDLE"
  PROVE  Peer(n) \in Nodes /\ ~Attester(Peer(n)) /\ Peer(n) # n
  <1>1. att[n].dev \in DOMAIN Afm(n) /\ Attester(n)
    BY AttesterFacts DEF AttesterOK, Afm
  <1>2. Entry(n) \in AfmEntries
    BY <1>1, AfmOf DEF Entry
  <1>3. dev[Peer(n)].afm = <<>>
    BY <1>1 DEF AgreeInv, TypesInv, DevInv, Peer, Entry
  <1> QED
    BY <1>1, <1>2, <1>3 DEF AfmEntries, Peer, Attester, Afm

\* A step of Respond, and what it tells of the node that asked.
LEMMA RespondStepOf ==
  ASSUME AgreeInv, NEW n \in Nodes, Respond(n)
  PROVE  LET p == Peer(n)
             y == Answer(p, chan[n].m, chan[n].seal)
         IN  /\ ThreadInv' /\ p \in Nodes /\ ~Attester(p) /\ p # n /\ Attester(n)
             /\ Answered(p, chan[n].m, y) /\ ResponderStep(p, y.t, y.c)
             /\ DOMAIN chan' = Nodes /\ \A q \in Nodes \ {n} : chan'[q] = chan[q]
             /\ chan[n].st = "REQUEST" /\ chan'[n].st = y.st /\ chan'[n].m = y.m
             /\ chan'[n].req = chan[n].m /\ ChannelOK(att[n], chan'[n])
             /\ att[n].pc \notin {"IDLE", "VERDICT"}
  <1> DEFINE p == Peer(n)
             y == Answer(p, chan[n].m, chan[n].seal)
  <1> HIDE DEF y
  <1>1. /\ chan[n].st = "REQUEST" /\ UNCHANGED <<dev, att, thread, evt>>
        /\ rctx' = [rctx EXCEPT ![p] = y.c] /\ tab' = [tab EXCEPT ![p] = y.t]
        /\ chan' = [chan EXCEPT ![n] = [@ EXCEPT !.st = y.st, !.m = y.m, !.seal = y.seal]]
    BY DEF Respond, y
  <1>2. ThreadInv'
    BY <1>1 DEF AgreeInv, TypesInv, ThreadInv
  <1>3. /\ Attester(n) /\ att[n].pc \notin {"IDLE", "VERDICT"} /\ ChannelOK(att[n], chan[n])
    BY <1>1, AttesterFacts
  <1>4. p \in Nodes /\ ~Attester(p) /\ p # n
    BY <1>3, PeerOf
  <1> HIDE DEF p
  <1>5. Answered(p, chan[n].m, y)
    <2>1. Context(rctx[p]) /\ ServerTable(dev[p], tab[p])
      BY <1>4 DEF AgreeInv, TypesInv, ResponderInv, TableInv
    <2> QED
      BY <2>1, AnswerEffect DEF y
  <1>6. ResponderStep(p, y.t, y.c)
    BY <1>1, <1>4 DEF ResponderStep, AgreeInv, TypesInv, TableInv, ResponderInv
  <1>7. /\ DOMAIN chan' = Nodes /\ \A q \in Nodes \ {n} : chan'[q] = chan[q]
        /\ chan'[n] = [chan[n] EXCEPT !.st = y.st, !.m = y.m, !.seal = y.seal]
    BY <1>1 DEF AgreeInv, TypesInv, AttesterInv
  <1>8. /\ chan'[n].st = y.st /\ chan'[n].m = y.m /\ chan'[n].req = chan[n].m
        /\ ChannelOK(att[n], chan'[n])
    BY <1>1, <1>3, <1>5, <1>7 DEF ChannelOK, ChanFields, Answered
  <1> QED
    BY <1>1, <1>2, <1>3, <1>4, <1>5, <1>6, <1>7, <1>8 DEF p, y

\* Only its own FINISH establishes a session of its identifier.
LEMMA RespondNoNew ==
  ASSUME AgreeInv, NEW n \in Nodes, Respond(n), NEW id1,
         att[n].pc = "FINISH" => id1 # dev[n].base + att[n].sess
  PROVE  NoNewSession(id1)
  <1> DEFINE p == Peer(n)
             m == chan[n].m
             y == Answer(p, m, chan[n].seal)
             a == att[n]
             s == tab[n][a.sess]
  <1>1. /\ p \in Nodes /\ Attester(n) /\ Answered(p, m, y) /\ ResponderStep(p, y.t, y.c)
        /\ chan[n].st = "REQUEST"
    BY RespondStepOf
  <1>2. /\ AttesterOK(dev[n], tab[n], a, chan[n]) /\ ChannelOK(a, chan[n])
        /\ HandOK(dev, tab, n, a, chan[n]) /\ ClientTable(dev[n], tab[n]) /\ Context(rctx[p])
    BY <1>1, AttesterFacts DEF AgreeInv, TypesInv, ResponderInv
  <1>3. m.code # "PSK_EXCHANGE" /\ (m.code = "FINISH" => a.pc = "FINISH")
    BY <1>1, <1>2 DEF ChannelOK
  <1> HIDE DEF y, p
  <1>4. ASSUME NEW i \in 1..MaxSession,
               Finished(rctx[p], tab[p], m, [t |-> y.t, rsp |-> y.m], i)
        PROVE  y.t[i].id[1] # id1
    <2>1. m.code = "FINISH" /\ a.pc = "FINISH"
      BY <1>3, <1>4 DEF Finished
    <2>2. FinishSent(dev[n], s, a, m)
      BY <1>1, <1>2, <2>1 DEF HandOK, FinishOK
    <2>3. Attempt(a) /\ s.id[1] = dev[n].base + a.sess
      BY <1>2, <2>1 DEF AttesterOK, Shaking, ClientTable, ClientSlot
    <2>4. y.t[i].id = s.id
      <3> DEFINE r == [t |-> y.t, rsp |-> y.m]
      <3>1. r.t = y.t
        OBVIOUS
      <3> HIDE DEF r, s, a, m
      <3>2. Finished(rctx[p], tab[p], m, r, i)
        BY <1>4 DEF r
      <3>3. r.t[i].id = s.id
        BY <1>2, <2>2, <2>3, <3>2, FinishedBy
      <3> QED
        BY <3>1, <3>3
    <2> QED
      BY <2>1, <2>3, <2>4
  <1> QED
    BY <1>1, <1>3, <1>4, ResponderNoNew DEF AgreeInv

\* KEY_EXCHANGE is answered with an identifier that no session has.
LEMMA RespondKeyExchange ==
  ASSUME AgreeInv, NEW n \in Nodes, Respond(n), att[n].pc = "KEY_EXCHANGE"
  PROVE  HandOK(dev', tab', n, att'[n], chan'[n])
  <1> DEFINE p == Peer(n)
             m == chan[n].m
             y == Answer(p, m, chan[n].seal)
             a == att[n]
             id1 == dev[n].base + a.sess
  <1>1. /\ p \in Nodes /\ ~Attester(p) /\ p # n /\ Attester(n) /\ Answered(p, m, y)
        /\ ResponderStep(p, y.t, y.c) /\ chan[n].st = "REQUEST"
        /\ chan'[n].st = y.st /\ chan'[n].m = y.m
    BY RespondStepOf
  <1> HIDE DEF y, p
  <1>2. /\ HandOK(dev, tab, n, a, chan[n])
        /\ dev' = dev /\ att' = att /\ tab'[n] = tab[n] /\ tab'[p] = y.t
        /\ \A q \in Nodes \ {p} : tab'[q] = tab[q]
    BY <1>1, AttesterFacts DEF ResponderStep
  <1>3. y.st \in {"RESPONSE", "LOST"} /\ ServerTable(dev[p], y.t)
    BY <1>1 DEF Answered
  <1>4. ASSUME y.st = "RESPONSE", y.m.code = "KEY_EXCHANGE_RSP"
        PROVE  NotServed(dev, tab', <<id1, y.m.data[1]>>)
    <2>1. PICK j \in 1..MaxSession : /\ y.t[j].valid /\ y.t[j].state = "KEY_EXCHANGED"
                                     /\ y.m.data[1] = dev[p].base + j
      BY <1>1, <1>4 DEF Answered
    <2> SUFFICES ASSUME NEW q \in Nodes, NEW k \in 1..MaxSession,
                        Served(dev, tab', q, k, <<id1, y.m.data[1]>>)
                 PROVE  FALSE
      BY DEF NotServed
    <2>2. ~Attester(q) /\ tab'[q][k].valid /\ tab'[q][k].state = "ESTABLISHED"
          /\ tab'[q][k].id[2] = dev[p].base + j
      <3> HIDE DEF id1
      <3> QED
        BY <2>1 DEF Served, Attester, Afm
    <2>3. ServerTable(dev[q], tab'[q])
      BY <1>2, <1>3, <2>2 DEF AgreeInv, TypesInv, TableInv
    <2>4. dev[q].base + k = dev[p].base + j
      BY <2>2, <2>3 DEF ServerTable, ServerSlot
    <2>5. q = p
      BY <1>1, <2>4 DEF AgreeInv, TypesInv, DevInv
    <2>6. dev[p].base \in Nat
      BY <1>1 DEF AgreeInv, TypesInv, DevInv, Devices
    <2>7. k = j
      BY <2>4, <2>5, <2>6
    <2> QED
      BY <1>2, <2>1, <2>2, <2>5, <2>7
  <1>5. KeyExchangeOK(dev', tab', n, att'[n], chan'[n])
    BY <1>1, <1>2, <1>3, <1>4 DEF HandOK, KeyExchangeOK
  <1>6. FinishOK(dev', tab', n, att'[n], chan'[n])
    BY <1>2 DEF FinishOK, Encap
  <1> QED
    BY <1>5, <1>6 DEF HandOK

LEMMA RespondEncap ==
  ASSUME AgreeInv, NEW n \in Nodes, Respond(n), att[n].pc \in Encap
  PROVE  HandOK(dev', tab', n, att'[n], chan'[n])
  <1> DEFINE p == Peer(n)
             y == Answer(p, chan[n].m, chan[n].seal)
             a == att[n]
             s == tab[n][a.sess]
  <1>1. /\ p # n /\ Attester(n) /\ ResponderStep(p, y.t, y.c)
    BY RespondStepOf
  <1> HIDE DEF y, p
  <1>2. /\ HandOK(dev, tab, n, a, chan[n]) /\ AttesterOK(dev[n], tab[n], a, chan[n])
        /\ ClientTable(dev[n], tab[n])
        /\ dev' = dev /\ att' = att /\ tab'[n] = tab[n]
    BY <1>1, AttesterFacts DEF ResponderStep
  <1>3. s.id[1] = dev[n].base + a.sess
    BY <1>2 DEF AttesterOK, Shaking, ClientTable, ClientSlot
  <1>4. a.pc \notin {"FINISH", "KEY_EXCHANGE"}
    BY DEF Encap
  <1>5. NoNewSession(s.id[1]) /\ SameDevices
    BY <1>2, <1>4, RespondNoNew DEF SameDevices
  <1>6. NotServed(dev, tab, s.id)
    BY <1>2, <1>4 DEF HandOK, FinishOK
  <1>7. NotServed(dev', tab', s.id)
    BY <1>5, <1>6, NotServedKept
  <1>8. FinishOK(dev', tab', n, att'[n], chan'[n])
    BY <1>2, <1>4, <1>7 DEF HandOK, FinishOK
  <1>9. KeyExchangeOK(dev', tab', n, att'[n], chan'[n])
    BY <1>2, <1>4 DEF KeyExchangeOK
  <1> QED
    BY <1>8, <1>9 DEF HandOK

\* FINISH is answered by the one session it establishes, if any.
LEMMA RespondFinish ==
  ASSUME AgreeInv, NEW n \in Nodes, Respond(n), att[n].pc = "FINISH"
  PROVE  HandOK(dev', tab', n, att'[n], chan'[n])
  <1> DEFINE p == Peer(n)
             m == chan[n].m
             y == Answer(p, m, chan[n].seal)
             a == att[n]
             s == tab[n][a.sess]
             r == [t |-> y.t, rsp |-> y.m]
  <1>1. /\ p \in Nodes /\ ~Attester(p) /\ p # n /\ Attester(n) /\ Answered(p, m, y)
        /\ ResponderStep(p, y.t, y.c) /\ chan[n].st = "REQUEST"
        /\ chan'[n].st = y.st /\ chan'[n].m = y.m /\ chan'[n].req = m
    BY RespondStepOf
  <1> HIDE DEF y, p
  <1>2. /\ HandOK(dev, tab, n, a, chan[n]) /\ AttesterOK(dev[n], tab[n], a, chan[n])
        /\ ChannelOK(a, chan[n]) /\ Context(rctx[p])
        /\ dev' = dev /\ att' = att /\ tab'[n] = tab[n] /\ tab'[p] = y.t
        /\ \A q \in Nodes \ {p} : tab'[q] = tab[q]
    BY <1>1, AttesterFacts DEF ResponderStep, AgreeInv, TypesInv, ResponderInv
  <1>3. y.st \in {"RESPONSE", "LOST"} /\ m.code # "PSK_EXCHANGE" /\ Attempt(a)
    BY <1>1, <1>2 DEF Answered, ChannelOK, AttesterOK
  <1>4. /\ a.fin = a.sess /\ s.state = "KEY_EXCHANGED" /\ s.rspMac.over = a.c.th2
        /\ NotServed(dev, tab, s.id) /\ FinishSent(dev[n], s, a, m)
    BY <1>1, <1>2 DEF HandOK, FinishOK
  <1>5. ASSUME NEW q \in Nodes, NEW j \in 1..MaxSession, Served(dev, tab', q, j, s.id)
        PROVE  AnsweredWith(tab'[q][j], s.id, a.c.th2, Between(dev[n], a), m, y.m)
    <2>1. ~Served(dev, tab, q, j, s.id)
      BY <1>4 DEF NotServed
    <2>2. q = p /\ tab'[q][j] = y.t[j]
      BY <1>2, <1>5, <2>1 DEF Served
    <2>3. ~Moved(tab[p][j], y.t[j])
      BY <1>2, <1>5, <2>1, <2>2 DEF Served, Moved, SessionFields
    <2>4. Finished(rctx[p], tab[p], m, r, j)
      BY <1>1, <1>3, <1>5, <2>2, <2>3 DEF Answered, Served
    <2>5. r.t = y.t /\ r.rsp = y.m
      OBVIOUS
    <2> HIDE DEF r, a, s, m
    <2>6. AnsweredWith(r.t[j], s.id, a.c.th2, Between(dev[n], a), m, r.rsp)
      BY <1>2, <1>3, <1>4, <2>4, FinishedBy
    <2> QED
      BY <2>2, <2>5, <2>6, Zenon
  <1>6. FinishOK(dev', tab', n, att'[n], chan'[n])
    BY <1>1, <1>2, <1>3, <1>4, <1>5 DEF FinishOK, Encap
  <1>7. KeyExchangeOK(dev', tab', n, att'[n], chan'[n])
    BY <1>2 DEF KeyExchangeOK
  <1> QED
    BY <1>6, <1>7 DEF HandOK

\* Where a node is whose hands shake.
LEMMA ShakingFacts ==
  ASSUME AgreeInv, NEW n \in Nodes, Shaking(att[n], chan[n])
  PROVE  /\ Attester(n) /\ att[n].sess \in 1..MaxSession /\ tab[n][att[n].sess].valid
         /\ tab[n][att[n].sess].state \in {"CHALLENGED", "KEY_EXCHANGED"}
         /\ tab[n][att[n].sess].id[1] = dev[n].base + att[n].sess
  <1>1. att[n].pc # "IDLE"
    BY DEF Shaking, Encap
  <1>2. /\ Attester(n) /\ AttesterOK(dev[n], tab[n], att[n], chan[n])
        /\ ClientTable(dev[n], tab[n])
    BY <1>1, AttesterFacts
  <1> QED
    BY <1>2 DEF AttesterOK, ClientTable, ClientSlot

\* Session identifiers of attesters are their own.
LEMMA OwnIds ==
  ASSUME AgreeInv, NEW n \in Nodes, NEW q \in Nodes, NEW i \in 1..MaxSession,
         NEW j \in 1..MaxSession, dev[n].base + i = dev[q].base + j
  PROVE  n = q /\ i = j
  <1>1. n = q
    BY DEF AgreeInv, TypesInv, DevInv
  <1>2. dev[n].base \in Nat
    BY DEF AgreeInv, TypesInv, DevInv, Devices
  <1> QED
    BY <1>1, <1>2

LEMMA RespondAgrees ==
  ASSUME AgreeInv, NEW n \in Nodes, Respond(n)
  PROVE  AgreeInv'
  <1> DEFINE p == Peer(n)
             m == chan[n].m
             y == Answer(p, m, chan[n].seal)
  <1>1. /\ ThreadInv' /\ p \in Nodes /\ ~Attester(p) /\ p # n /\ Attester(n)
        /\ Answered(p, m, y) /\ ResponderStep(p, y.t, y.c)
        /\ DOMAIN chan' = Nodes /\ \A q \in Nodes \ {n} : chan'[q] = chan[q]
        /\ chan[n].st = "REQUEST" /\ chan'[n].st = y.st
        /\ ChannelOK(att[n], chan'[n]) /\ att[n].pc \notin {"IDLE", "VERDICT"}
    BY RespondStepOf
  <1> HIDE DEF y, p
  <1>2. y.st # "IDLE" /\ att' = att /\ SameDevices
    BY <1>1 DEF Answered, ResponderStep, SameDevices
  <1>3. HandOK(dev', tab', n, att'[n], chan'[n])
    <2>1. CASE att[n].pc \in Encap \cup {"KEY_EXCHANGE", "FINISH"}
      BY <2>1, RespondKeyExchange, RespondEncap, RespondFinish
    <2>2. CASE att[n].pc \notin Encap \cup {"KEY_EXCHANGE", "FINISH"}
      BY <1>2, <2>2, NoHands DEF Shaking
    <2> QED
      BY <2>1, <2>2
  <1>4. att[n].pc = "FINISH" => /\ Shaking(att[n], chan[n])
                                /\ att[n].sess \in 1..MaxSession
                                /\ tab[n][att[n].sess].state # "ESTABLISHED"
    BY ShakingFacts DEF Shaking
  <1>5. ASSUME NEW q \in Nodes, q # n
        PROVE  HandOK(dev', tab', q, att'[q], chan'[q])
    <2>1. ASSUME Shaking(att[q], chan[q])
          PROVE  /\ tab'[q][att[q].sess] = tab[q][att[q].sess]
                 /\ NoNewSession(dev[q].base + att[q].sess)
      <3>1. Attester(q) /\ att[q].sess \in 1..MaxSession
        BY <2>1, ShakingFacts
      <3>2. tab'[q] = tab[q]
        BY <1>1, <3>1 DEF ResponderStep
      <3>3. att[n].pc = "FINISH" => dev[q].base + att[q].sess # dev[n].base + att[n].sess
        BY <1>4, <1>5, <3>1, OwnIds
      <3> QED
        BY <3>2, <3>3, RespondNoNew
    <2>2. att'[q] = att[q] /\ chan'[q] = chan[q]
      BY <1>1, <1>2, <1>5
    <2> QED
      BY <1>2, <2>1, <2>2, NodeKept
  <1>6. ASSUME NEW q \in Nodes, NEW i \in 1..MaxSession, Attester(q), tab[q][i].valid,
               tab[q][i].state = "ESTABLISHED"
        PROVE  NoNewSession(tab[q][i].id[1])
    <2>1. tab[q][i].id[1] = dev[q].base + i
      BY <1>6, AttesterFacts DEF ClientTable, ClientSlot
    <2>2. att[n].pc = "FINISH" => dev[q].base + i # dev[n].base + att[n].sess
      BY <1>4, <1>6, OwnIds
    <2> QED
      BY <2>1, <2>2, RespondNoNew
  <1>7. ASSUME NEW q \in Nodes
        PROVE  /\ ChannelOK(att[q], chan'[q])
               /\ (chan'[q].st = "IDLE") <=> (chan[q].st = "IDLE")
    BY <1>1, <1>2, AttesterFacts
  <1>8. \A q \in Nodes : HandOK(dev', tab', q, att'[q], chan'[q])
    BY <1>3, <1>5
  <1> QED
    BY <1>1, <1>6, <1>7, <1>8, ResponderStepAgrees

-----------------------------------------------------------------------------
(* The environment keeps the invariant.                                     *)

\* Only the contexts of responders change.
LEMMA ContextStepAgrees ==
  ASSUME AgreeInv, ThreadInv', ResponderInv', UNCHANGED <<dev, att, chan>>, DOMAIN tab' = Nodes,
         \A q \in Nodes : tab'[q] = tab[q]
  PROVE  AgreeInv'
  <1>1. DevInv' /\ TableInv' /\ AttesterInv'
    BY DEF AgreeInv, TypesInv, DevInv, TableInv, AttesterInv, Attester, Afm
  <1>2. \A D, n, a, ch : HandOK(D, tab, n, a, ch) /\ n \in Nodes => HandOK(D, tab', n, a, ch)
    <2> TAKE D, n, a, ch
    <2> HAVE HandOK(D, tab, n, a, ch) /\ n \in Nodes
    <2>1. \A id : NotServed(D, tab, id) => NotServed(D, tab', id)
      BY DEF NotServed, Served
    <2>2. KeyExchangeOK(D, tab', n, a, ch)
      BY <2>1 DEF HandOK, KeyExchangeOK
    <2>3. \A q \in Nodes, j \in 1..MaxSession : \A id : Served(D, tab', q, j, id) => Served(D, tab, q, j, id)
      BY DEF Served
    <2>4. FinishOK(D, tab', n, a, ch)
      BY <2>1, <2>3 DEF HandOK, FinishOK
    <2> QED
      BY <2>2, <2>4 DEF HandOK
  <1>3. HandshakeInv'
    BY <1>2 DEF AgreeInv, HandshakeInv
  <1>4. SessionKeysAgree'
    BY DEF AgreeInv, SessionKeysAgree, Ends
  <1> QED
    BY <1>1, <1>3, <1>4 DEF AgreeInv, TypesInv

\* The requests of the one requester that is none of the nodes.
ForeignMessages ==
  {Msg("GET_VERSION", 10, 0, 0, <<>>)}
  \cup {Msg("PSK_EXCHANGE", 12, hint, 0, <<ForeignId>>) : hint \in {0, 1}}
  \cup {Msg("KEY_UPDATE", 12, op, 1, <<>>) : op \in 1..4}
  \cup {Msg(code, 12, 0, 0, <<>>) : code \in {"HEARTBEAT", "END_SESSION"}}

LEMMA ForeignCodes ==
  ASSUME NEW m \in ForeignMessages
  PROVE  m.code # "FINISH" /\ (m.code = "PSK_EXCHANGE" => m.data[1] = ForeignId)
  BY DEF ForeignMessages, Msg

LEMMA ForeignStepOf ==
  ASSUME AgreeInv, NEW n \in Nodes, ForeignRequest(n)
  PROVE  /\ ThreadInv' /\ UNCHANGED <<dev, att, chan>>
         /\ \E m \in ForeignMessages : \E seal :
              /\ m.code \in {"GET_VERSION", "PSK_EXCHANGE"} => ~seal.on
              /\ Attester(n) => m.code \in {"GET_VERSION", "PSK_EXCHANGE"}
              /\ ResponderStep(n, Answer(n, m, seal).t, Answer(n, m, seal).c)
  <1> DEFINE Opened == {tab[n][i] : i \in {j \in 1..MaxSession :
                          tab[n][j].valid /\ tab[n][j].type = "RSP" /\ tab[n][j].id[1] = ForeignId}}
             Seals(m) == IF m.code \in {"GET_VERSION", "PSK_EXCHANGE"} THEN {NoSeal}
                         ELSE {[on |-> TRUE, id |-> s.id, key |-> s.key["REQ"], seq |-> s.seq["REQ"]] :
                                 s \in Opened}
  <1>1. UNCHANGED <<dev, att, thread, chan, evt>>
    BY DEF ForeignRequest
  <1>a. PICK m \in ForeignMessages : \E seal \in Seals(m) :
          /\ rctx' = [rctx EXCEPT ![n] = Answer(n, m, seal).c]
          /\ tab' = [tab EXCEPT ![n] = Answer(n, m, seal).t]
    BY Zenon DEF ForeignRequest, ForeignMessages
  <1>2. PICK seal \in Seals(m) :
          /\ rctx' = [rctx EXCEPT ![n] = Answer(n, m, seal).c]
          /\ tab' = [tab EXCEPT ![n] = Answer(n, m, seal).t]
    BY <1>a
  <1> DEFINE y == Answer(n, m, seal)
  <1> HIDE DEF y
  <1>3. ThreadInv'
    BY <1>1 DEF AgreeInv, TypesInv, ThreadInv
  <1>4. Attester(n) => Opened = {}
    BY DEF AgreeInv, TypesInv, TableInv, ClientTable, ClientSlot
  <1> HIDE DEF Opened
  <1>5. Attester(n) => m.code \in {"GET_VERSION", "PSK_EXCHANGE"}
    BY <1>2, <1>4
  <1>6. m.code \in {"GET_VERSION", "PSK_EXCHANGE"} => ~seal.on
    BY <1>2 DEF NoSeal
  <1>7. ResponderStep(n, y.t, y.c)
    BY <1>1, <1>2 DEF ResponderStep, AgreeInv, TypesInv, TableInv, ResponderInv, y
  <1> QED
    BY <1>1, <1>3, <1>5, <1>6, <1>7 DEF y

LEMMA ForeignAgrees ==
  ASSUME AgreeInv, NEW n \in Nodes, ForeignRequest(n)
  PROVE  AgreeInv'
  <1>1. ThreadInv' /\ UNCHANGED <<dev, att, chan>> /\ SameDevices
    BY ForeignStepOf DEF SameDevices
  <1>a. PICK m \in ForeignMessages : \E seal :
              /\ m.code \in {"GET_VERSION", "PSK_EXCHANGE"} => ~seal.on
              /\ Attester(n) => m.code \in {"GET_VERSION", "PSK_EXCHANGE"}
              /\ ResponderStep(n, Answer(n, m, seal).t, Answer(n, m, seal).c)
    BY ForeignStepOf
  <1>2. PICK seal :
              /\ m.code \in {"GET_VERSION", "PSK_EXCHANGE"} => ~seal.on
              /\ Attester(n) => m.code \in {"GET_VERSION", "PSK_EXCHANGE"}
              /\ ResponderStep(n, Answer(n, m, seal).t, Answer(n, m, seal).c)
    BY <1>a
  <1> DEFINE y == Answer(n, m, seal)
  <1>3. Context(rctx[n]) /\ (Attester(n) => rctx[n].state \in {"NOT_READY", "GOT_VERSION"})
    BY DEF AgreeInv, TypesInv, ResponderInv
  <1>4. CASE Attester(n)
    <2>1. y.t = tab[n] /\ Context(y.c) /\ y.c.state \in {"NOT_READY", "GOT_VERSION"}
      BY <1>2, <1>3, <1>4, AnswerIdle
    <2> HIDE DEF y
    <2>2. ResponderStep(n, y.t, y.c)
      BY <1>2 DEF y
    <2>3. ResponderInv'
      BY <1>1, <2>1, <2>2 DEF ResponderStep, AgreeInv, TypesInv, ResponderInv, Attester, Afm
    <2>4. DOMAIN tab' = Nodes /\ \A q \in Nodes : tab'[q] = tab[q]
      BY <2>1, <2>2 DEF ResponderStep
    <2> QED
      BY <1>1, <2>3, <2>4, ContextStepAgrees
  <1>5. CASE ~Attester(n)
    <2>1. Answered(n, m, y)
      <3>1. ServerTable(dev[n], tab[n])
        BY <1>5 DEF AgreeInv, TypesInv, TableInv
      <3> QED
        BY <1>3, <3>1, AnswerEffect
    <2> HIDE DEF y
    <2>2. ResponderStep(n, y.t, y.c)
      BY <1>2 DEF y
    <2>3. ASSUME NEW id1, id1 # ForeignId PROVE NoNewSession(id1)
      <3>1. m.code # "FINISH" /\ (m.code = "PSK_EXCHANGE" => m.data[1] # id1)
        BY <2>3, ForeignCodes
      <3>2. \A i : ~Finished(rctx[n], tab[n], m, [t |-> y.t, rsp |-> y.m], i)
        BY <3>1 DEF Finished
      <3> QED
        BY <2>1, <2>2, <3>1, <3>2, ResponderNoNew DEF AgreeInv
    <2>4. \A q \in Nodes, i \in 1..MaxSession : NoNewSession(dev[q].base + i)
      BY <2>3 DEF AgreeInv, TypesInv, DevInv
    <2>5. ASSUME NEW q \in Nodes
          PROVE  HandOK(dev', tab', q, att'[q], chan'[q])
      <3>1. ASSUME Shaking(att[q], chan[q])
            PROVE  /\ tab'[q][att[q].sess] = tab[q][att[q].sess]
                   /\ NoNewSession(dev[q].base + att[q].sess)
        <4>1. Attester(q) /\ att[q].sess \in 1..MaxSession
          BY <3>1, ShakingFacts
        <4>2. tab'[q] = tab[q]
          BY <1>5, <2>2, <4>1 DEF ResponderStep
        <4> QED
          BY <2>4, <4>1, <4>2
      <3>2. att'[q] = att[q] /\ chan'[q] = chan[q]
        BY <1>1
      <3> QED
        BY <1>1, <3>1, <3>2, NodeKept
    <2>6. ASSUME NEW q \in Nodes, NEW i \in 1..MaxSession, Attester(q), tab[q][i].valid
          PROVE  NoNewSession(tab[q][i].id[1])
      <3>1. tab[q][i].id[1] = dev[q].base + i
        BY <2>6, AttesterFacts DEF ClientTable, ClientSlot
      <3> QED
        BY <2>4, <3>1
    <2>7. DOMAIN chan' = Nodes
      BY <1>1 DEF AgreeInv, TypesInv, AttesterInv
    <2>8. ASSUME NEW q \in Nodes
          PROVE  /\ ChannelOK(att[q], chan'[q])
                 /\ (chan'[q].st = "IDLE") <=> (chan[q].st = "IDLE")
      BY <1>1, AttesterFacts
    <2> QED
      BY <1>1, <1>5, <2>1, <2>2, <2>5, <2>6, <2>7, <2>8, ResponderStepAgrees
  <1> QED
    BY <1>4, <1>5

\* Sessions age or are gone, attestations stop and messages are lost.
LEMMA EnvironmentStep ==
  ASSUME AgreeInv, DevInv', ResponderInv', ThreadInv', SameDevices,
         DOMAIN tab' = Nodes, DOMAIN att' = Nodes, DOMAIN chan' = Nodes,
         \A q \in Nodes : TableMoved(tab[q], tab'[q]),
         \A q \in Nodes :
           \/ /\ ~Shaking(att'[q], chan'[q]) /\ ChannelOK(att'[q], chan'[q])
              /\ AttesterOK(dev[q], tab'[q], att'[q], chan'[q])
           \/ /\ att'[q] = att[q] /\ tab'[q] = tab[q]
              /\ \/ chan'[q] = chan[q]
                 \/ chan[q].st # "IDLE" /\ chan'[q] = [chan[q] EXCEPT !.st = "LOST"]
  PROVE  AgreeInv'
  <1>1. \A id1 : NoNewSession(id1)
    BY DEF NoNewSession, TableMoved, EmptySession
  <1>2. ASSUME NEW q \in Nodes
        PROVE  /\ AttesterOK(dev'[q], tab'[q], att'[q], chan'[q]) /\ ChannelOK(att'[q], chan'[q])
               /\ HandOK(dev', tab', q, att'[q], chan'[q])
    <2>1. /\ AttesterOK(dev[q], tab[q], att[q], chan[q]) /\ ChannelOK(att[q], chan[q])
          /\ dev'[q].afm = dev[q].afm
      BY AttesterFacts DEF SameDevices
    <2>2. CASE /\ ~Shaking(att'[q], chan'[q]) /\ ChannelOK(att'[q], chan'[q])
               /\ AttesterOK(dev[q], tab'[q], att'[q], chan'[q])
      <3>1. AttesterOK(dev'[q], tab'[q], att'[q], chan'[q])
        BY <2>1, <2>2 DEF AttesterOK
      <3> QED
        BY <2>2, <3>1, NoHands
    <2>3. CASE /\ att'[q] = att[q] /\ tab'[q] = tab[q]
               /\ \/ chan'[q] = chan[q]
                  \/ chan[q].st # "IDLE" /\ chan'[q] = [chan[q] EXCEPT !.st = "LOST"]
      <3>1. HandOK(dev', tab', q, att'[q], chan'[q])
        BY <1>1, <2>3, NodeKept
      <3>2. /\ (chan'[q].st = "IDLE") <=> (chan[q].st = "IDLE")
            /\ ChannelOK(att'[q], chan'[q])
        BY <2>1, <2>3 DEF ChannelOK, ChanFields
      <3>3. Shaking(att'[q], chan'[q]) <=> Shaking(att[q], chan[q])
        BY <2>3, <3>2 DEF Shaking
      <3>4. AttesterOK(dev'[q], tab'[q], att'[q], chan'[q])
        BY <2>1, <2>3, <3>2, <3>3 DEF AttesterOK
      <3> QED
        BY <3>1, <3>2, <3>4
    <2> QED
      BY <2>2, <2>3
  <1>3. TableInv'
    <2>1. ASSUME NEW q \in Nodes
          PROVE  IF Attester(q)' THEN ClientTable(dev'[q], tab'[q]) ELSE ServerTable(dev'[q], tab'[q])
      <3>1. Attester(q)' <=> Attester(q)
        BY DEF SameDevices, Attester, Afm
      <3>2. IF Attester(q) THEN ClientTable(dev[q], tab'[q]) ELSE ServerTable(dev[q], tab'[q])
        BY ClientMoved, ServerMoved DEF AgreeInv, TypesInv, TableInv
      <3>3. dev'[q].base = dev[q].base /\ dev'[q].afm = dev[q].afm
        BY DEF SameDevices
      <3> QED
        BY <3>1, <3>2, <3>3 DEF ClientTable, ClientSlot, ServerTable, ServerSlot
    <2> QED
      BY <2>1 DEF TableInv
  <1>4. AttesterInv' /\ HandshakeInv'
    BY <1>2 DEF AttesterInv, HandshakeInv
  <1>5. TypesInv'
    BY <1>3, <1>4 DEF TypesInv
  <1>6. SessionKeysAgree'
    <2>1. \A q \in Nodes, i \in 1..MaxSession : tab'[q][i].valid => Moved(tab[q][i], tab'[q][i])
      BY DEF TableMoved, EmptySession
    <2> QED
      BY <1>1, <1>5, <2>1, KeysKept
  <1> QED
    BY <1>4, <1>5, <1>6 DEF AgreeInv

LEMMA LoseAgrees ==
  ASSUME AgreeInv, NEW n \in Nodes, Lose(n)
  PROVE  AgreeInv'
  <1>1. /\ UNCHANGED <<dev, rctx, tab, att, thread, evt>> /\ SameDevices
        /\ chan' = [chan EXCEPT ![n].st = "LOST"] /\ chan[n].st # "IDLE"
    BY DEF Lose, SameDevices
  <1>2. DevInv' /\ ResponderInv' /\ ThreadInv'
    BY <1>1 DEF AgreeInv, TypesInv, DevInv, ResponderInv, ThreadInv, Attester, Afm
  <1>3. DOMAIN tab = Nodes /\ DOMAIN att = Nodes /\ DOMAIN chan = Nodes
    BY DEF AgreeInv, TypesInv, TableInv, AttesterInv
  <1>4. \A q \in Nodes : TableMoved(tab[q], tab'[q])
    BY <1>1, AttesterFacts, MovedReflexive
  <1>5. \A q \in Nodes : \/ chan'[q] = chan[q]
                         \/ chan[q].st # "IDLE" /\ chan'[q] = [chan[q] EXCEPT !.st = "LOST"]
    BY <1>1, <1>3
  <1>6. DOMAIN tab' = Nodes /\ DOMAIN att' = Nodes /\ DOMAIN chan' = Nodes
    BY <1>1, <1>3
  <1> QED
    BY <1>1, <1>2, <1>4, <1>5, <1>6, EnvironmentStep

LEMMA ExpireAgrees ==
  ASSUME AgreeInv, NEW n \in Nodes, NEW i \in 1..MaxSession, Expire(n, i)
  PROVE  AgreeInv'
  <1>1. /\ UNCHANGED <<dev, rctx, att, chan, thread, evt>> /\ SameDevices
        /\ tab' = [tab EXCEPT ![n][i].old = TRUE] /\ tab[n][i].valid
        /\ \A q \in Nodes : att[q].pc = "IDLE"
    BY DEF Expire, SameDevices
  <1>2. DevInv' /\ ResponderInv' /\ ThreadInv'
    BY <1>1 DEF AgreeInv, TypesInv, DevInv, ResponderInv, ThreadInv, Attester, Afm
  <1>3. DOMAIN tab = Nodes /\ DOMAIN att = Nodes /\ DOMAIN chan = Nodes
    BY DEF AgreeInv, TypesInv, TableInv, AttesterInv
  <1>4. ASSUME NEW q \in Nodes PROVE TableMoved(tab[q], tab'[q])
    <2>1. CASE q # n
      BY <1>1, <1>3, <2>1, AttesterFacts, MovedReflexive
    <2>2. CASE q = n
      <3> DEFINE s == [tab[n][i] EXCEPT !.old = TRUE]
      <3>1. tab'[n] = [tab[n] EXCEPT ![i] = s]
        BY <1>1, <1>3
      <3>2. Table(tab[n])
        BY AttesterFacts
      <3>3. Moved(tab[n][i], s)
        BY <3>2, OldMoved DEF Table
      <3> HIDE DEF s
      <3> QED
        BY <1>1, <2>2, <3>1, <3>2, <3>3, SlotMoved
    <2> QED
      BY <2>1, <2>2
  <1>5. ASSUME NEW q \in Nodes
        PROVE  /\ ~Shaking(att'[q], chan'[q]) /\ ChannelOK(att'[q], chan'[q])
               /\ AttesterOK(dev[q], tab'[q], att'[q], chan'[q])
    <2>1. AttesterOK(dev[q], tab[q], att[q], chan[q]) /\ ChannelOK(att[q], chan[q]) /\ att[q].pc = "IDLE"
      BY <1>1, AttesterFacts
    <2>2. ~Shaking(att[q], chan[q])
      BY <2>1 DEF Shaking, Encap
    <2>3. \A j \in 1..MaxSession : tab'[q][j].valid => tab[q][j].valid /\ tab'[q][j].state = tab[q][j].state
      BY <1>4 DEF TableMoved, Moved, SessionFields, EmptySession
    <2>4. AttesterOK(dev[q], tab'[q], att[q], chan[q])
      BY <2>1, <2>2, <2>3 DEF AttesterOK, Early, Late
    <2> QED
      BY <1>1, <2>1, <2>2, <2>4
  <1>6. DOMAIN tab' = Nodes /\ DOMAIN att' = Nodes /\ DOMAIN chan' = Nodes
    BY <1>1, <1>3
  <1> QED
    BY <1>1, <1>2, <1>4, <1>5, <1>6, EnvironmentStep

LEMMA ChangeFirmwareAgrees ==
  ASSUME AgreeInv, NEW n \in Nodes, ChangeFirmware(n)
  PROVE  AgreeInv'
  <1>1. PICK b \in DOMAIN dev[n].meas : dev' = [dev EXCEPT ![n].meas[b] = 0]
    BY DEF ChangeFirmware
  <1>2. UNCHANGED <<rctx, tab, att, chan, thread, evt>>
    BY DEF ChangeFirmware
  <1>3. dev \in [Nodes -> Devices]
    BY DEF AgreeInv, TypesInv, DevInv
  <1> DEFINE d == [dev[n] EXCEPT !.meas[b] = 0]
  <1>4. d \in Devices
    <2>1. [dev[n].meas EXCEPT ![b] = 0] \in Seq(Nat)
      <3>1. dev[n].meas \in Seq(Nat)
        BY <1>3 DEF Devices
      <3>2. b \in 1..Len(dev[n].meas) /\ 0 \in Nat
        BY <3>1
      <3> QED
        BY <3>1, <3>2, ExceptSeq
    <2> QED
      BY <1>3, <2>1 DEF Devices
  <1>5. d.base = dev[n].base /\ d.afm = dev[n].afm /\ d.slots = dev[n].slots
    BY <1>3 DEF Devices
  <1>6. dev' = [dev EXCEPT ![n] = d]
    BY <1>1, <1>3
  <1> HIDE DEF d
  <1>7. SameDevices /\ dev' \in [Nodes -> Devices]
    BY <1>3, <1>4, <1>5, <1>6 DEF SameDevices
  <1>8. DevInv'
    <2>1. \A q \in Nodes : dev'[q].base = dev[q].base /\ dev'[q].afm = dev[q].afm
      BY <1>7 DEF SameDevices
    <2>2. \A q \in Nodes : \A k \in DOMAIN dev[q].afm : dev[q].afm[k].peer \in Nodes
      <3> TAKE q \in Nodes
      <3> TAKE k \in DOMAIN dev[q].afm
      <3>1. dev[q].afm \in Seq(AfmEntries)
        BY <1>3 DEF Devices
      <3>2. dev[q].afm[k] \in AfmEntries
        BY <3>1
      <3> QED
        BY <3>2 DEF AfmEntries
    <2> QED
      BY <1>7, <2>1, <2>2 DEF AgreeInv, TypesInv, DevInv, Afm
  <1>9. ResponderInv' /\ ThreadInv'
    BY <1>2, <1>7 DEF AgreeInv, TypesInv, ResponderInv, ThreadInv, Attester, Afm, SameDevices
  <1>10. DOMAIN tab' = Nodes /\ DOMAIN att' = Nodes /\ DOMAIN chan' = Nodes
    BY <1>2 DEF AgreeInv, TypesInv, TableInv, AttesterInv
  <1>11. \A q \in Nodes : TableMoved(tab[q], tab'[q])
    BY <1>2, AttesterFacts, MovedReflexive
  <1> QED
    BY <1>2, <1>7, <1>8, <1>9, <1>10, <1>11, EnvironmentStep

LEMMA RebootAgrees ==
  ASSUME AgreeInv, NEW n \in Nodes, Reboot(n)
  PROVE  AgreeInv'
  <1> DEFINE c == SpdmContextCreate(dev[n].caps)
  <1>1. /\ rctx' = [rctx EXCEPT ![n] = c] /\ tab' = [tab EXCEPT ![n] = InitSessionTable]
        /\ att' = [att EXCEPT ![n] = Idle] /\ dev' = dev /\ SameDevices
    BY DEF Reboot, SameDevices
  <1>2. chan' = [q \in Nodes |->
       IF q = n THEN IdleChan
       ELSE IF chan[q].st = "REQUEST" /\ Peer(q) = n THEN [chan[q] EXCEPT !.st = "LOST"]
       ELSE chan[q]]
    BY Zenon DEF Reboot
  <1>3. DOMAIN tab = Nodes /\ DOMAIN att = Nodes /\ DOMAIN rctx = Nodes
    BY DEF AgreeInv, TypesInv, TableInv, AttesterInv, ResponderInv
  <1>4. Context(c) /\ c.state = "NOT_READY"
    BY IdleAttempt DEF SpdmContextCreate
  <1> HIDE DEF c
  <1>5. DevInv' /\ ResponderInv'
    BY <1>1, <1>3, <1>4 DEF AgreeInv, TypesInv, DevInv, ResponderInv, Attester, Afm
  <1>6. ThreadInv'
    <2>1. /\ thread' = [thread EXCEPT ![n] = Boot.thread] /\ evt' = [evt EXCEPT ![n] = Boot.evt]
      BY DEF Reboot
    <2>2. Boot.evt = {} /\ DOMAIN Boot.thread = {"at", "k", "count"} /\ Boot.thread.k = 1
      BY DEF Boot, Waiting
    <2> QED
      BY <2>1, <2>2 DEF AgreeInv, TypesInv, ThreadInv
  <1>7. DOMAIN tab' = Nodes /\ DOMAIN att' = Nodes /\ DOMAIN chan' = Nodes
    BY <1>1, <1>2, <1>3
  <1>8. ASSUME NEW q \in Nodes PROVE TableMoved(tab[q], tab'[q])
    <2>1. CASE q # n
      BY <1>1, <1>3, <2>1, AttesterFacts, MovedReflexive
    <2>2. CASE q = n
      <3>1. tab'[n] = [i \in 1..MaxSession |-> EmptySession]
        BY <1>1, <1>3 DEF InitSessionTable
      <3> QED
        BY <2>2, <3>1, EmptyIsSession DEF TableMoved, Table
    <2> QED
      BY <2>1, <2>2
  <1>9. ASSUME NEW q \in Nodes
        PROVE
           \/ /\ ~Shaking(att'[q], chan'[q]) /\ ChannelOK(att'[q], chan'[q])
              /\ AttesterOK(dev[q], tab'[q], att'[q], chan'[q])
           \/ /\ att'[q] = att[q] /\ tab'[q] = tab[q]
              /\ \/ chan'[q] = chan[q]
                 \/ chan[q].st # "IDLE" /\ chan'[q] = [chan[q] EXCEPT !.st = "LOST"]
    <2>1. CASE q # n
      <3>1. att'[q] = att[q] /\ tab'[q] = tab[q]
        BY <1>1, <1>3, <2>1
      <3>2. \/ chan'[q] = chan[q]
            \/ chan[q].st # "IDLE" /\ chan'[q] = [chan[q] EXCEPT !.st = "LOST"]
        BY <1>2, <2>1
      <3> QED
        BY <3>1, <3>2
    <2>2. CASE q = n
      <3>1. att'[n] = Idle /\ chan'[n] = IdleChan /\ tab'[n] = InitSessionTable
        BY <1>1, <1>2, <1>3
      <3>2. ~Shaking(Idle, IdleChan) /\ Idle.pc = "IDLE" /\ Idle.sess = 0
        BY DEF Shaking, Encap, Idle
      <3>3. Settled(InitSessionTable)
        BY DEF Settled, InitSessionTable, EmptySession
      <3>4. AttesterOK(dev[n], InitSessionTable, Idle, IdleChan)
        <4>1. "IDLE" \in Pcs /\ "IDLE" \notin Early \cup {"KEY_EXCHANGE"} /\ "IDLE" \notin Late
          BY DEF Pcs, Early, Late
        <4> QED
          BY <3>2, <3>3, <4>1, IdleAttempt, SettledOK
      <3> QED
        BY <2>2, <3>1, <3>2, <3>4, IdleChannelOK
    <2> QED
      BY <2>1, <2>2
  <1> QED
    BY <1>1, <1>5, <1>6, <1>7, <1>8, <1>9, EnvironmentStep

-----------------------------------------------------------------------------
(* The invariant holds of every behaviour.                                  *)

LEMMA InitDevices ==
  ASSUME Init, OneWay, FreshSecrets
  PROVE  DevInv
  <1>1. PICK x \in Scenarios : dev = x.dev
    BY DEF Init
  <1>2. x.dev \in [Nodes -> Devices]
    BY AttestationConstants
  <1>3. \A n \in Nodes : \A k \in DOMAIN x.dev[n].afm : x.dev[x.dev[n].afm[k].peer].afm = <<>>
    BY DEF OneWay
  <1>4. \A n, q \in Nodes, i, j \in 1..MaxSession :
          /\ x.dev[n].base + i = x.dev[q].base + j => n = q
          /\ x.dev[n].base + i # ForeignId
    BY DEF FreshSecrets
  <1> QED
    BY <1>1, <1>2, <1>3, <1>4 DEF DevInv, Afm

LEMMA InitAgrees ==
  ASSUME Init, OneWay, FreshSecrets
  PROVE  AgreeInv
  <1>1. /\ rctx = [n \in Nodes |-> SpdmContextCreate(dev[n].caps)]
        /\ tab = [n \in Nodes |-> InitSessionTable] /\ att = [n \in Nodes |-> Idle]
        /\ thread = [n \in Nodes |-> Boot.thread] /\ chan = [n \in Nodes |-> IdleChan]
        /\ evt = [n \in Nodes |-> Boot.evt]
    BY Zenon DEF Init
  <1>2. DevInv
    BY InitDevices
  <1>3. InitSessionTable = [i \in 1..MaxSession |-> EmptySession] /\ ~EmptySession.valid
    BY DEF InitSessionTable, EmptySession
  <1>4. TableInv
    <2>1. Table(InitSessionTable)
      BY <1>3, EmptyIsSession DEF Table
    <2>2. \A n : ServerTable(dev[n], InitSessionTable) /\ ClientTable(dev[n], InitSessionTable)
      BY <1>3, <2>1 DEF ServerTable, ServerSlot, ClientTable, ClientSlot
    <2> QED
      BY <1>1, <2>2 DEF TableInv
  <1>5. ResponderInv
    <2>1. \A flags : SpdmContextCreate(flags).state = "NOT_READY"
      BY DEF SpdmContextCreate
    <2> QED
      BY <1>1, <2>1, IdleAttempt DEF ResponderInv
  <1>6. ~Shaking(Idle, IdleChan) /\ Idle.pc = "IDLE" /\ Idle.sess = 0
    BY DEF Shaking, Encap, Idle
  <1>7. AttesterInv
    <2>1. Settled(InitSessionTable)
      BY <1>3 DEF Settled
    <2>2. "IDLE" \in Pcs /\ "IDLE" \notin Early \cup {"KEY_EXCHANGE"} /\ "IDLE" \notin Late
      BY DEF Pcs, Early, Late
    <2>3. \A n : AttesterOK(dev[n], InitSessionTable, Idle, IdleChan)
      BY <1>6, <2>1, <2>2, IdleAttempt, SettledOK
    <2> QED
      BY <1>1, <2>3, IdleChannelOK DEF AttesterInv
  <1>8. ThreadInv
    <2>1. Boot.evt = {} /\ DOMAIN Boot.thread = {"at", "k", "count"} /\ Boot.thread.k = 1
      BY DEF Boot, Waiting
    <2> QED
      BY <1>1, <2>1 DEF ThreadInv
  <1>9. HandshakeInv
    BY <1>1, <1>6, NoHands DEF HandshakeInv
  <1>10. SessionKeysAgree
    BY <1>1, <1>3 DEF SessionKeysAgree, Ends
  <1> QED
    BY <1>2, <1>4, <1>5, <1>7, <1>8, <1>9, <1>10 DEF AgreeInv, TypesInv

LEMMA NextAgrees ==
  ASSUME AgreeInv, [Next]_vars
  PROVE  AgreeInv'
  <1>1. CASE Next
    <2>1. PICK n \in Nodes :
            \/ RunAttester(n) \/ StopAttester(n) \/ Tick(n) \/ I3cAttestation(n)
            \/ Thread(n) \/ Respond(n) \/ ForeignRequest(n) \/ Lose(n)
            \/ (\E i \in 1..MaxSession : Expire(n, i))
            \/ ChangeFirmware(n) \/ Reboot(n)
      BY <1>1, Zenon DEF Next
    <2>2. CASE RunAttester(n) \/ StopAttester(n) \/ Tick(n) \/ I3cAttestation(n)
      BY <2>2, EventSteps
    <2>3. CASE Thread(n)
      BY <2>3, EventSteps, KeepAliveAgrees, NextDeviceAgrees, VerdictAgrees, SendAgrees,
         ReceiveAgrees DEF Thread
    <2>4. CASE Respond(n)
      BY <2>4, RespondAgrees
    <2>5. CASE ForeignRequest(n)
      BY <2>5, ForeignAgrees
    <2>6. CASE Lose(n)
      BY <2>6, LoseAgrees
    <2>7. CASE \E i \in 1..MaxSession : Expire(n, i)
      BY <2>7, ExpireAgrees
    <2>8. CASE ChangeFirmware(n)
      BY <2>8, ChangeFirmwareAgrees
    <2>9. CASE Reboot(n)
      BY <2>9, RebootAgrees
    <2> QED
      BY <2>1, <2>2, <2>3, <2>4, <2>5, <2>6, <2>7, <2>8, <2>9
  <1>2. CASE UNCHANGED vars
    <2>1. UNCHANGED <<dev, rctx, tab, att, chan, thread, evt>>
      BY <1>2 DEF vars
    <2>2. ThreadInv'
      BY <2>1 DEF AgreeInv, TypesInv, ThreadInv
    <2> QED
      BY <2>1, <2>2, ThreadStepAgrees
  <1> QED
    BY <1>1, <1>2

\* What the session tables, the contexts, the attestations and the handshakes
\* keep to whatever the nodes and the environment do: in particular, until a
\* FINISH is answered no responder has established a session of that identifier
\* (spdm_send_finish, spdm_finish).
THEOREM AgreeInvariant ==
  ASSUME OneWay, FreshSecrets
  PROVE  Spec => []AgreeInv
  <1>1. Init => AgreeInv
    BY InitAgrees
  <1>2. AgreeInv /\ [Next]_vars => AgreeInv'
    BY NextAgrees
  <1> QED
    BY <1>1, <1>2, PTL DEF Spec

\* Type correctness of the attesters, the responders and the session tables
\* they share: a slot that is not in use is as spdm_session_release leaves it,
\* and the attester thread waits for no answer between two attestations.
THEOREM AttestationTypes ==
  ASSUME OneWay, FreshSecrets
  PROVE  Spec => []SpdmTypeOK
  <1>1. AgreeInv => SpdmTypeOK
    <2> SUFFICES ASSUME AgreeInv PROVE SpdmTypeOK
      OBVIOUS
    <2> SUFFICES ASSUME NEW n \in Nodes
                 PROVE  /\ att[n].res \in Results
                        /\ att[n].pc \in {"IDLE", "VERDICT"} => chan[n].st = "IDLE"
                        /\ \A i \in 1..MaxSession : tab[n][i].valid \/ tab[n][i] = EmptySession
                        /\ evt[n] \subseteq {"T0", "TICK", "T0_I3C", "ATTESTED_CPU"}
      BY Zenon DEF SpdmTypeOK
    <2>1. AttesterOK(dev[n], tab[n], att[n], chan[n]) /\ ChannelOK(att[n], chan[n]) /\ Table(tab[n])
      BY AttesterFacts
    <2>2. evt[n] \subseteq {"T0", "TICK", "T0_I3C", "ATTESTED_CPU"}
      BY DEF AgreeInv, TypesInv, ThreadInv
    <2> QED
      BY <2>1, <2>2 DEF AttesterOK, Attempt, ChannelOK, Table
  <1> QED
    BY <1>1, AgreeInvariant, PTL

\* The two ends of an established session derived the same traffic keys,
\* whatever was lost, stopped or rebooted on the way: spdm_finish and
\* spdm_send_finish establish it over one transcript.
THEOREM KeysAgree ==
  ASSUME OneWay, FreshSecrets
  PROVE  Spec => []SessionKeysAgree
  <1>1. AgreeInv => SessionKeysAgree
    BY DEF AgreeInv
  <1> QED
    BY <1>1, AgreeInvariant, PTL

-----------------------------------------------------------------------------
(* Every message is sealed with a key and a number of its own.              *)

\* The sessions with the key of a seal are one: that of its identifier at the
\* end that made it, which has gone on.
LEMMA SealSpent ==
  ASSUME AgreeInv, AgreeInv', SameDevices, NEW p \in Nodes, NEW t,
         IF Attester(p) THEN ClientTable(dev[p], t) ELSE ServerTable(dev[p], t),
         NEW id, NEW x, Sealed(t, id, x), tab'[p] = x.t, x.seal.key.secret # <<>>,
         NEW q \in Nodes, NEW j \in 1..MaxSession, tab'[q][j].valid
  PROVE  LET d == tab'[q][j].type
         IN  tab'[q][j].key[d] # x.seal.key \/ tab'[q][j].seq[d] > x.seal.seq
  <1> DEFINE u == tab'[q][j]
             d == u.type
  <1> SUFFICES ASSUME u.key[d] = x.seal.key PROVE u.seq[d] > x.seal.seq
    OBVIOUS
  <1>1. PICK i \in 1..MaxSession :
          /\ t[i].valid /\ t[i].id = id
          /\ x.seal.key = t[i].key[t[i].type] /\ x.seal.seq = t[i].seq[t[i].type]
          /\ \/ x.t[i] = EmptySession
             \/ x.t[i].key[t[i].type] # t[i].key[t[i].type]
             \/ x.t[i].seq[t[i].type] > t[i].seq[t[i].type]
    BY DEF Sealed
  <1> DEFINE s == t[i]
  <1>2. /\ Session(s) /\ Keyed(s)
        /\ IF Attester(p) THEN s.type = "REQ" /\ s.id[1] = dev[p].base + i
           ELSE s.type = "RSP" /\ s.id[2] = dev[p].base + i
    BY <1>1 DEF ClientTable, ServerTable, ClientSlot, ServerSlot, Table
  <1>3. /\ Session(u) /\ Keyed(u) /\ (Attester(q)' <=> Attester(q))
        /\ IF Attester(q)' THEN u.type = "REQ" /\ u.id[1] = dev'[q].base + j
           ELSE u.type = "RSP" /\ u.id[2] = dev'[q].base + j
    BY DEF AgreeInv, TypesInv, TableInv, ClientTable, ServerTable, ClientSlot, ServerSlot, Table,
           SameDevices, Attester, Afm
  <1>4. s.type \in Dirs /\ d \in Dirs
    BY <1>2, <1>3 DEF Session
  <1> HIDE DEF u, s, d
  <1>5. /\ x.seal.key.secret = s.id /\ x.seal.key.dir = s.type
    BY <1>1, <1>2, <1>4 DEF Keyed, s
  <1>6. /\ x.seal.key.secret = u.id /\ x.seal.key.dir = d
    BY <1>3, <1>4 DEF Keyed
  <1>7. d = s.type /\ u.id = s.id
    BY <1>5, <1>6
  <1>8. Attester(q) <=> Attester(p)
    BY <1>2, <1>3, <1>7 DEF d
  <1>9. dev[q].base + j = dev[p].base + i
    BY <1>2, <1>3, <1>7, <1>8 DEF SameDevices
  <1>10. q = p /\ j = i
    <2>1. q = p
      BY <1>9 DEF AgreeInv, TypesInv, DevInv
    <2>2. dev[p].base \in Nat
      BY DEF AgreeInv, TypesInv, DevInv, Devices
    <2> QED
      BY <1>9, <2>1, <2>2, SpdmConstants
  <1>11. u = x.t[i]
    BY <1>10 DEF u
  <1>12. u # EmptySession
    BY DEF u, EmptySession
  <1> QED
    BY <1>1, <1>7, <1>11, <1>12 DEF s

\* What the responder thread seals, in the session of the request.
LEMMA AnswerSeal ==
  ASSUME NEW p, NEW m, NEW seal, seal.on, seal.key.secret # <<>>, Context(rctx[p]),
         ServerTable(dev[p], tab[p]), dev[p].base \in Nat,
         Answer(p, m, seal).seal.on, Answer(p, m, seal).seal # seal
  PROVE  /\ Answer(p, m, seal).seal.key.secret # <<>>
         /\ \E t : ServerTable(dev[p], t) /\ Sealed(t, seal.id, Answer(p, m, seal))
  <1> DEFINE y == Answer(p, m, seal)
             opened == Decrypt(tab[p], seal)
             r == SpdmHandler(dev[p], rctx[p], opened.t, m, seal)
             x == Encrypt(r.t, seal.id, r.rsp)
             lost == [st |-> "LOST", c |-> rctx[p], t |-> opened.t, m |-> m, seal |-> seal]
             sent == [st |-> "RESPONSE", c |-> r.c, t |-> x.t, m |-> r.rsp, seal |-> x.seal]
             g == SpdmSessionGet(tab[p], seal.id)
  <1>1. y = IF ~opened.ok THEN lost ELSE sent
    BY DEF Answer
  <1>2. TableMoved(tab[p], opened.t) /\ Table(tab[p])
    BY DecryptMoved DEF ServerTable
  <1>3. /\ g.i \in 0..MaxSession
        /\ g.i # 0 => g.t = tab[p] /\ tab[p][g.i].valid /\ tab[p][g.i].id = seal.id
    BY <1>2, GetMoved
  <1>4. opened.ok => /\ g.i # 0
                     /\ seal.key = tab[p][g.i].key[Other(tab[p][g.i].type)]
    BY <1>3 DEF Decrypt
  <1> HIDE DEF opened, g
  <1>5. Calm(r, opened.t)
    BY <1>2, HandlerEffect DEF TableMoved
  <1> HIDE DEF r
  <1>6. TableMoved(tab[p], r.t)
    BY <1>2, <1>5, MovedTransitive DEF Calm
  <1>7. Table(r.t) /\ (x.seal.on => Sealed(r.t, seal.id, x))
    BY <1>6, EncryptMoved DEF TableMoved
  <1>8. opened.ok /\ y.t = x.t /\ y.seal = x.seal
    <2> HIDE DEF x
    <2> QED
      BY <1>1
  <1> HIDE DEF x, y
  <1>9. ServerTable(dev[p], r.t)
    BY <1>6, ServerMoved
  <1>10. Sealed(r.t, seal.id, x)
    BY <1>7, <1>8 DEF y
  <1>11. Sealed(r.t, seal.id, y)
    BY <1>8, <1>10, SealedSame
  <1>12. PICK i \in 1..MaxSession :
          /\ r.t[i].valid /\ r.t[i].id = seal.id /\ x.seal.key = r.t[i].key[r.t[i].type]
    BY <1>10 DEF Sealed
  <1>13. i = g.i
    <2>1. g.i \in 1..MaxSession
      BY <1>3, <1>4, <1>8, SpdmConstants
    <2>2. tab[p][g.i].id[2] = dev[p].base + g.i
      BY <1>3, <1>4, <1>8, <2>1 DEF ServerTable, ServerSlot
    <2>3. r.t[i].id[2] = dev[p].base + i
      BY <1>9, <1>12 DEF ServerTable, ServerSlot
    <2> QED
      BY <1>3, <1>4, <1>8, <1>12, <2>1, <2>2, <2>3, SpdmConstants
  <1>14. Moved(tab[p][i], r.t[i])
    BY <1>6, <1>12 DEF TableMoved, EmptySession
  <1>15. /\ \A d, e \in Dirs : tab[p][i].key[d].secret = tab[p][i].key[e].secret
         /\ tab[p][i].type \in Dirs /\ r.t[i].type \in Dirs
    BY <1>2, <1>3, <1>4, <1>7, <1>8, <1>13 DEF ServerTable, ServerSlot, Keyed, Table, Session
  <1>16. r.t[i].key[r.t[i].type].secret = tab[p][i].key[r.t[i].type].secret
    BY <1>14, <1>15 DEF Moved
  <1>17. seal.key.secret = tab[p][i].key[r.t[i].type].secret
    <2>1. Other(tab[p][i].type) \in Dirs
      BY <1>15, OtherDir
    <2>2. seal.key = tab[p][i].key[Other(tab[p][i].type)]
      BY <1>4, <1>8, <1>13
    <2> QED
      BY <1>15, <2>1, <2>2
  <1> QED
    BY <1>8, <1>9, <1>11, <1>12, <1>16, <1>17 DEF y

\* Only what an attester sends and its responder answers is sealed anew.
LEMMA SealedBy ==
  ASSUME AgreeInv, Next, NEW n \in Nodes, chan'[n].seal.on, chan'[n].seal # chan[n].seal
  PROVE  Send(n) \/ Respond(n)
  <1>1. ~NoSeal.on /\ IdleChan.seal = NoSeal
    BY DEF NoSeal, IdleChan
  <1>2. DOMAIN chan = Nodes /\ DOMAIN chan[n] = ChanFields
    BY AttesterFacts DEF AgreeInv, TypesInv, AttesterInv, ChannelOK
  <1>3. [chan[n] EXCEPT !.st = "LOST"].seal = chan[n].seal
    BY <1>2 DEF ChanFields
  <1>4. PICK k \in Nodes :
            \/ RunAttester(k) \/ StopAttester(k) \/ Tick(k) \/ I3cAttestation(k)
            \/ Thread(k) \/ Respond(k) \/ ForeignRequest(k) \/ Lose(k)
            \/ (\E i \in 1..MaxSession : Expire(k, i))
            \/ ChangeFirmware(k) \/ Reboot(k)
    BY Zenon DEF Next
  <1>5. CASE chan'[n] = chan[n]
    BY <1>5
  <1>6. CASE chan'[n] # chan[n]
    <2>1. \/ Send(k) \/ Receive(k) \/ Respond(k) \/ Lose(k) \/ Reboot(k)
      BY <1>4, <1>6 DEF RunAttester, StopAttester, Tick, I3cAttestation, Thread, Wake, KeepAlive,
         NextDevice, Verdict, ForeignRequest, Expire, ChangeFirmware
    <2>2. CASE Reboot(k)
      <3>1. chan' = [q \in Nodes |->
             IF q = k THEN IdleChan
             ELSE IF chan[q].st = "REQUEST" /\ Peer(q) = k THEN [chan[q] EXCEPT !.st = "LOST"]
             ELSE chan[q]]
        BY <2>2, Zenon DEF Reboot
      <3>2. chan'[n] \in {IdleChan, [chan[n] EXCEPT !.st = "LOST"], chan[n]}
        BY <3>1
      <3> QED
        BY <1>1, <1>3, <3>2
    <2>3. CASE Receive(k)
      <3>1. chan' = [chan EXCEPT ![k] = IdleChan]
        BY <2>3 DEF Receive
      <3> QED
        BY <1>1, <1>2, <1>6, <3>1
    <2>4. CASE Lose(k)
      <3>1. chan' = [chan EXCEPT ![k].st = "LOST"]
        BY <2>4 DEF Lose
      <3> QED
        BY <1>2, <1>3, <1>6, <3>1
    <2>5. CASE Send(k)
      <3>1. \E c : chan' = [chan EXCEPT ![k] = c]
        <4>1. \/ UNCHANGED chan
              \/ chan' = [chan EXCEPT ![k] = SentChan(Issue(dev[k], tab[k], att[k]))]
          BY <2>5 DEF Send, SentChan
        <4> QED
          BY <1>6, <4>1
      <3>2. k = n
        BY <1>2, <1>6, <3>1
      <3> QED
        BY <2>5, <3>2
    <2>6. CASE Respond(k)
      <3>1. \A q \in Nodes \ {k} : chan'[q] = chan[q]
        BY <2>6, RespondStepOf
      <3> QED
        BY <1>6, <2>6, <3>1
    <2> QED
      BY <2>1, <2>2, <2>3, <2>4, <2>5, <2>6
  <1> QED
    BY <1>5, <1>6

LEMMA SealsStep ==
  ASSUME AgreeInv, AgreeInv', Next, NEW n \in Nodes, chan'[n].seal.on,
         chan'[n].seal # chan[n].seal,
         NEW q \in Nodes, NEW j \in 1..MaxSession, tab'[q][j].valid
  PROVE  LET d == tab'[q][j].type
         IN  tab'[q][j].key[d] # chan'[n].seal.key \/ tab'[q][j].seq[d] > chan'[n].seal.seq
  <1>1. CASE Send(n)
    <2> DEFINE x == Issue(dev[n], tab[n], att[n])
               f == IssueFailed(x.t, x.a)
    <2>1. /\ Attester(n)
          /\ x.ok => AttesterStep(n, x.t, x.a, SentChan(x))
          /\ ~x.ok => AttesterStep(n, f.t, f.a, chan[n])
      BY <1>1, SentStep
    <2>2. SameDevices
      BY <1>1 DEF Send, SameDevices
    <2>3. att[n].pc \notin Late => x.seal = NoSeal
      BY DEF Issue, IssueKeyExchange, IssueFinish, Sent, NotSent, InSession, Late
    <2>4. ClientTable(dev[n], tab[n]) /\ Table(tab[n])
      BY <2>1, AttesterFacts
    <2>5. att[n].pc \in Late /\ x.seal.on => \E id : Sealed(tab[n], id, x)
      BY <2>4, LateIssued
    <2> HIDE DEF x, f
    <2>6. x.ok /\ chan'[n] = SentChan(x) /\ tab'[n] = x.t
      BY <2>1 DEF AttesterStep
    <2>7. chan'[n].seal = x.seal /\ chan'[n].st = "REQUEST"
      BY <2>6 DEF SentChan
    <2>8. PICK id : Sealed(tab[n], id, x)
      BY <2>3, <2>5, <2>7 DEF NoSeal
    <2>9. x.seal.key.secret # <<>>
      <3>1. ChannelOK(att'[n], chan'[n])
        BY DEF AgreeInv, TypesInv, AttesterInv
      <3> QED
        BY <2>7, <3>1 DEF ChannelOK
    <2>10. Attester(n)
      BY <2>1
    <2> QED
      BY <2>2, <2>4, <2>6, <2>7, <2>8, <2>9, <2>10, SealSpent
  <1>2. CASE Respond(n)
    <2> DEFINE p == Peer(n)
               m == chan[n].m
               seal == chan[n].seal
               y == Answer(p, m, seal)
    <2>1. /\ p \in Nodes /\ ~Attester(p) /\ ResponderStep(p, y.t, y.c) /\ chan[n].st = "REQUEST"
      BY <1>2, RespondStepOf
    <2>2. chan'[n].seal = y.seal
      <3>1. chan' = [chan EXCEPT ![n] = [@ EXCEPT !.st = y.st, !.m = y.m, !.seal = y.seal]]
        BY <1>2 DEF Respond
      <3>2. DOMAIN chan = Nodes /\ DOMAIN chan[n] = ChanFields
        BY AttesterFacts DEF AgreeInv, TypesInv, AttesterInv, ChannelOK
      <3> HIDE DEF y
      <3> QED
        BY <3>1, <3>2 DEF ChanFields
    <2>3. /\ SameDevices /\ Context(rctx[p]) /\ ServerTable(dev[p], tab[p]) /\ dev[p].base \in Nat
      <3>1. dev' = dev
        BY <1>2 DEF Respond
      <3> QED
        BY <2>1, <3>1 DEF SameDevices, AgreeInv, TypesInv, ResponderInv, TableInv, DevInv, Devices
    <2>4. seal.on
      <3>1. ~seal.on => y.seal = NoSeal
        BY <2>3, AnswerPlain
      <3> QED
        BY <2>2, <3>1 DEF NoSeal
    <2>5. seal.key.secret # <<>>
      BY <2>1, <2>4, AttesterFacts DEF ChannelOK
    <2>6. /\ y.seal.key.secret # <<>>
          /\ \E t : ServerTable(dev[p], t) /\ Sealed(t, seal.id, y)
      BY <2>2, <2>3, <2>4, <2>5, AnswerSeal
    <2>7. tab'[p] = y.t
      BY <2>1 DEF ResponderStep
    <2> HIDE DEF y, p, seal
    <2> QED
      BY <2>1, <2>2, <2>3, <2>6, <2>7, SealSpent
  <1> QED
    BY <1>1, <1>2, SealedBy

\* A key seals a message under one sequence number only, at either end:
\* encrypt_secure_content uses the number up, and a key that is updated is
\* another one.
THEOREM SealsNeverRepeat ==
  ASSUME OneWay, FreshSecrets
  PROVE  Spec => SealsAdvance
  <1> DEFINE Advances ==
        \A n \in Nodes :
          chan'[n].seal.on /\ chan'[n].seal # chan[n].seal
            => \A q \in Nodes, i \in 1..MaxSession, d \in {"REQ", "RSP"} :
                 tab'[q][i].valid /\ tab'[q][i].type = d
                   => \/ tab'[q][i].key[d] # chan'[n].seal.key
                      \/ tab'[q][i].seq[d] > chan'[n].seal.seq
  <1>1. AgreeInv /\ AgreeInv' /\ [Next]_vars => [Advances]_vars
    <2> SUFFICES ASSUME AgreeInv, AgreeInv', Next PROVE Advances
      OBVIOUS
    <2> QED
      BY SealsStep, Zenon
  <1>2. Spec => []AgreeInv
    BY AgreeInvariant
  <1>3. Spec => [][Next]_vars
    BY PTL DEF Spec
  <1>4. SealsAdvance <=> [][Advances]_vars
    BY DEF SealsAdvance
  <1> QED
    BY <1>1, <1>2, <1>3, <1>4, PTL

-----------------------------------------------------------------------------
(* No device passes that can be measured and is not what the AFM says: what  *)
(* an attestation knows of the device grows from request to request.         *)

Altered(d) == \E b \in DOMAIN d.meas : d.meas[b] = 0

\* Firmware aside, a device stays what it is; firmware that changed stays so.
Later(d, d2) ==
  /\ d2.caps = d.caps /\ d2.key = d.key /\ d2.slots = d.slots /\ d2.served = d.served
  /\ DOMAIN d2.meas = DOMAIN d.meas
  /\ d2.meas = d.meas \/ Altered(d2)

\* The chains that the context c holds are the device's own.
Certified(d, c) ==
  \A s \in Slots :
    /\ c.cert[s].digest \in {0, d.slots[s]}
    /\ c.cert[s].leaf # 0 =>
         /\ c.cert[s].leaf \in RootedChain
         /\ c.cert[s].leaf = d.slots[s] /\ d.served[s] = d.slots[s]
Unproven(c) == \A s \in Slots : c.cert[s].leaf = 0
Proven(d, c) ==
  /\ \E s \in Slots : Identified(d, s)
  /\ \A s \in Slots : c.cert[s].leaf # 0 => Identified(d, s)

\* The first k expected values, in order, among the blocks before m.
Progress(d, e, k, m) ==
  \E f \in [1..k -> 1..(m - 1)] :
    /\ \A i \in 1..k : /\ f[i] \in DOMAIN d.meas
                       /\ i \in DOMAIN e.expect => d.meas[f[i]] \in e.expect[i]
    /\ \A i, j \in 1..k : i < j => f[i] < f[j]

Naming    == {"GET_VERSION", "GET_CAPABILITIES", "NEGOTIATE_ALGORITHMS", "GET_DIGESTS",
              "GET_CERTIFICATE"}
Comparing == {"MEASURE", "SESSION_MEASURE"}
Keying    == {"KEY_EXCHANGE", "FINISH", "HEARTBEAT"} \cup Encap
Counting  == Comparing \cup {"TOTAL", "SESSION_TOTAL"}

Passed(d, e) ==
  Measurable(d) => (\E s \in Slots : Identified(d, s)) /\ (Measured(d, e) \/ Altered(d))

\* What the attestation a of the device d, with the entry e, knows.
Knows(d, e, a) ==
  /\ a.pc \in Naming \cup {"CHALLENGE"} =>
       Certified(d, a.c) /\ a.slot \in Slots /\ a.meas = 0 /\ a.afm = 0
  /\ a.pc \in Naming => Unproven(a.c)
  /\ a.pc = "GET_CERTIFICATE" => a.c.mask \subseteq Slots
  /\ a.pc = "CHALLENGE" => \A s \in Slots : a.c.cert[s].leaf # 0 => s = a.slot
  /\ a.pc \in {"NEGOTIATE_ALGORITHMS", "GET_DIGESTS", "GET_CERTIFICATE", "CHALLENGE"}
              \cup Counting \cup Keying
       => a.c.remote = d.caps
  /\ a.pc \in Counting \cup Keying => Proven(d, a.c)
  /\ a.pc \in {"TOTAL", "SESSION_TOTAL"} => a.meas = 0 /\ a.afm = 0
  /\ a.pc \in Comparing =>
       /\ a.meas \in Nat \ {0} /\ a.afm \in Nat
       /\ Measurable(d) => Altered(d) \/ Progress(d, e, a.afm, a.meas)
  /\ a.pc \in Keying => Passed(d, e)

Pass(a) == a.pc = "VERDICT" /\ a.res = "SUCCEEDED"

\* What the device says in its answer m to req.
Told(d, req, m) ==
  /\ m.code = "CAPABILITIES" => m.caps = d.caps
  /\ m.code = "DIGESTS" => m.data = Chains(d)
  /\ m.code = "CERTIFICATE" => m.data = <<>> \/ m.data[1] = d.served[req.p1]
  /\ m.code = "CHALLENGE_AUTH" => m.sig.key = d.key
  /\ m.code = "MEASUREMENTS" =>
       /\ req.p1 # 0 => m.sig.key = d.key
       /\ req.p2 \in Nat \ {0} =>
            req.p2 \in DOMAIN d.meas /\ (m.data[2] = d.meas[req.p2] \/ Altered(d))
Asked(a, req) ==
  /\ a.pc = "GET_CERTIFICATE" => req.p1 = a.slot
  /\ a.pc \in Comparing => req.p1 = MeasAttr(a.c) /\ req.p2 = a.meas
Heard(d, a, ch) ==
  /\ ch.st # "IDLE" => Asked(a, ch.req)
  /\ ch.st = "RESPONSE" => Told(d, ch.req, ch.m)

\* The session s was established with the device d.
Vouched(d, s) == s.flags[2] = d.caps /\ (s.leaf # 0 => Identified(d, 0))
Vouchers(D, n, t) ==
  \A i \in 1..MaxSession : t[i].valid /\ t[i].state = "ESTABLISHED" =>
    \E k \in DOMAIN D[n].afm : /\ t[i].afm = D[n].afm[k].index
                               /\ Vouched(D[D[n].afm[k].peer], t[i])

NodeSound(D, n, t, a, ch, th) ==
  LET e == D[n].afm[a.dev]
      d == D[e.peer]
  IN  /\ Vouchers(D, n, t)
      /\ th.at = "WAIT" => a.pc = "IDLE"
      /\ a.pc = "KEEP_ALIVE" => th.at = "HEARTBEATS"
      /\ a.pc # "IDLE" => /\ Knows(d, e, a) /\ Heard(d, a, ch)
                          /\ Pass(a) /\ th.at = "DEVICES" => Passed(d, e)

\* A responder offers the capabilities of its device.
Offers(c, d) == "local" \in DOMAIN c /\ c.local = d.caps

PassInv ==
  /\ \A n \in Nodes : Offers(rctx[n], dev[n])
  /\ \A n \in Nodes : \A k, l \in DOMAIN Afm(n) : Afm(n)[k].index = Afm(n)[l].index => k = l
  /\ \A n \in Nodes : Attester(n) => NodeSound(dev, n, tab[n], att[n], chan[n], thread[n])

-----------------------------------------------------------------------------
(* A device that changed its firmware is known as it was.                   *)

LEMMA LaterSame == \A d : Later(d, d)
  BY DEF Later

LEMMA LaterMeasured ==
  ASSUME NEW d, NEW d2, Later(d, d2), NEW e
  PROVE  /\ Measurable(d2) <=> Measurable(d)
         /\ \A s \in Slots : Identified(d2, s) <=> Identified(d, s)
         /\ Altered(d) => Altered(d2)
         /\ Altered(d2) \/ d2.meas = d.meas
  BY DEF Later, Measurable, Identified, Altered

LEMMA LaterPassed ==
  ASSUME NEW d, NEW d2, Later(d, d2), NEW e, Passed(d, e)
  PROVE  Passed(d2, e)
  <1>1. Altered(d2) \/ (Measured(d, e) => Measured(d2, e))
    <2>1. d2.meas = d.meas => (Measured(d, e) => Measured(d2, e))
      BY Zenon DEF Measured
    <2> QED
      BY <2>1 DEF Later
  <1> QED
    BY <1>1, LaterMeasured DEF Passed

LEMMA LaterKnown ==
  ASSUME NEW d, NEW d2, Later(d, d2), NEW e, NEW a, Knows(d, e, a)
  PROVE  Knows(d2, e, a)
  <1>1. Certified(d, a.c) => Certified(d2, a.c)
    BY DEF Later, Certified
  <1>2. Proven(d, a.c) => Proven(d2, a.c)
    BY LaterMeasured DEF Proven
  <1>3. Altered(d2) \/ (Progress(d, e, a.afm, a.meas) => Progress(d2, e, a.afm, a.meas))
    <2>1. d2.meas = d.meas => (Progress(d, e, a.afm, a.meas) => Progress(d2, e, a.afm, a.meas))
      BY Zenon DEF Progress
    <2> QED
      BY <2>1 DEF Later
  <1>4. (Measurable(d) => Altered(d) \/ Progress(d, e, a.afm, a.meas))
          => (Measurable(d2) => Altered(d2) \/ Progress(d2, e, a.afm, a.meas))
    BY <1>3, LaterMeasured
  <1>5. Passed(d, e) => Passed(d2, e)
    BY LaterPassed
  <1>6. a.c.remote = d.caps => a.c.remote = d2.caps
    BY DEF Later
  <1> QED
    BY <1>1, <1>2, <1>4, <1>5, <1>6, Zenon DEF Knows

LEMMA LaterHeard ==
  ASSUME NEW d, NEW d2, Later(d, d2), NEW a, NEW ch, Heard(d, a, ch)
  PROVE  Heard(d2, a, ch)
  <1>1. Told(d, ch.req, ch.m) => Told(d2, ch.req, ch.m)
    <2>1. Chains(d2) = Chains(d) /\ (Altered(d) => Altered(d2))
      BY LaterMeasured DEF Later, Chains
    <2>2. \A i : d.meas[i] = d2.meas[i] \/ Altered(d2)
      BY DEF Later
    <2> QED
      BY <2>1, <2>2 DEF Told, Later
  <1> QED
    BY <1>1 DEF Heard

\* The devices D2 are those of D, some with other firmware.
LEMMA LaterSound ==
  ASSUME NEW D, NEW D2, NEW n, D2[n].afm = D[n].afm,
         \A k \in DOMAIN D[n].afm : Later(D[D[n].afm[k].peer], D2[D[n].afm[k].peer]),
         NEW t, NEW a, a.pc # "IDLE" => a.dev \in DOMAIN D[n].afm, NEW ch, NEW th,
         NodeSound(D, n, t, a, ch, th)
  PROVE  NodeSound(D2, n, t, a, ch, th)
  <1> DEFINE e == D[n].afm[a.dev]
             d == D[e.peer]
             d2 == D2[e.peer]
  <1>1. Vouchers(D2, n, t)
    <2>1. \A k \in DOMAIN D[n].afm : \A s :
            Vouched(D[D[n].afm[k].peer], s) => Vouched(D2[D[n].afm[k].peer], s)
      <3>1. 0 \in Slots
        BY SpdmConstants
      <3>2. \A x, y : Later(x, y) => y.caps = x.caps /\ (Identified(x, 0) => Identified(y, 0))
        BY <3>1, LaterMeasured DEF Later
      <3> QED
        BY <3>2 DEF Vouched
    <2> QED
      BY <2>1 DEF NodeSound, Vouchers
  <1>2. ASSUME a.pc # "IDLE"
        PROVE  /\ Knows(d2, e, a) /\ Heard(d2, a, ch)
               /\ Pass(a) /\ th.at = "DEVICES" => Passed(d2, e)
    <2>1. /\ Later(d, d2) /\ Knows(d, e, a) /\ Heard(d, a, ch)
          /\ Pass(a) /\ th.at = "DEVICES" => Passed(d, e)
      BY <1>2 DEF NodeSound
    <2> HIDE DEF d, d2, e
    <2> QED
      BY <2>1, LaterKnown, LaterHeard, LaterPassed
  <1> QED
    BY <1>1, <1>2 DEF NodeSound

-----------------------------------------------------------------------------
(* What a responder says of its device.                                     *)

Honest(d, req, r) ==
  DOMAIN r = {"ret", "c", "t", "rsp"} /\ Offers(r.c, d) /\ Told(d, req, r.rsp)

LEMMA DoneHonest ==
  ASSUME NEW d, NEW req, NEW ret, NEW c, NEW t, NEW rsp, Offers(c, d), Told(d, req, rsp)
  PROVE  Honest(d, req, Done(ret, c, t, rsp))
  BY DEF Done, Honest

LEMMA ToldOther ==
  ASSUME NEW d, NEW req, NEW m,
         m.code \notin {"CAPABILITIES", "DIGESTS", "CERTIFICATE", "CHALLENGE_AUTH", "MEASUREMENTS"}
  PROVE  Told(d, req, m)
  BY DEF Told

LEMMA OtherMessages ==
  ASSUME NEW d, NEW req, NEW ver, NEW x, NEW y
  PROVE  /\ Told(d, req, ErrorRsp(ver)) /\ Told(d, req, InvalidRsp(ver))
         /\ Told(d, req, Msg("ERROR", ver, x, 0, <<>>))
         /\ Told(d, req, Msg("KEY_UPDATE_ACK", ver, x, y, <<>>))
         /\ Told(d, req, Msg("HEARTBEAT_ACK", ver, 0, 0, <<>>))
         /\ Told(d, req, Msg("END_SESSION_ACK", ver, 0, 0, <<>>))
  BY DEF Told, ErrorRsp, InvalidRsp, Msg

\* Changes of a context that leave what it offers.
LEMMA OffersKept ==
  ASSUME NEW c, NEW d, Offers(c, d), NEW x, NEW y
  PROVE  /\ Offers([c EXCEPT !.m1m2 = x], d) /\ Offers([c EXCEPT !.l1l2 = x], d)
         /\ Offers([c EXCEPT !.msgA = x], d) /\ Offers([c EXCEPT !.th2 = x], d)
         /\ Offers([c EXCEPT !.state = x], d) /\ Offers([c EXCEPT !.cert = x], d)
         /\ Offers([c EXCEPT !.mask = x], d) /\ Offers([c EXCEPT !.enc = x], d)
         /\ Offers([c EXCEPT !.m1m2 = x, !.msgA = y], d)
         /\ Offers([c EXCEPT !.remote = x, !.selected = y], d)
         /\ Offers([c EXCEPT !.mask = x, !.cert = y], d)
  BY DEF Offers

LEMMA OffersTranscripts ==
  ASSUME NEW c, NEW d, Offers(c, d), NEW req, NEW rsp, NEW ver
  PROVE  /\ Offers(ResetM1M2(c), d) /\ Offers(ResetL1L2(c, ver), d)
         /\ Offers(UpdateM1M2(c, req, rsp), d) /\ Offers(UpdateL1L2(c, req, rsp), d)
         /\ Offers(UpdateVca(c, req, rsp), d)
  <1>1. \A b : Offers(b, d) => Offers(UpdateM1M2(b, req, rsp), d) /\ Offers(UpdateL1L2(b, req, rsp), d)
    BY OffersKept DEF UpdateM1M2, UpdateL1L2
  <1>2. Offers(ResetM1M2(c), d) /\ Offers(ResetL1L2(c, ver), d)
    BY OffersKept DEF ResetM1M2, ResetL1L2
  <1>3. Offers([c EXCEPT !.msgA = @ \o <<req, rsp>>], d)
    BY OffersKept
  <1> QED
    BY <1>1, <1>2, <1>3 DEF UpdateVca

LEMMA VcaHonest ==
  ASSUME NEW d, NEW c, Offers(c, d), NEW t, NEW m
  PROVE  /\ Honest(d, m, HandleGetVersion(d, c, t, m))
         /\ Honest(d, m, HandleGetCapabilities(d, c, t, m))
         /\ Honest(d, m, HandleNegotiateAlgorithms(d, c, t, m))
  <1>1. Honest(d, m, HandleGetVersion(d, c, t, m))
    <2> DEFINE b == [c EXCEPT !.m1m2 = <<>>, !.msgA = <<>>]
               rsp == Msg("VERSION", 10, 0, 0, d.versions)
               err == Msg("ERROR", m.ver, 65, 0, <<>>)
    <2>1. Offers(b, d)
      BY OffersKept
    <2>2. Told(d, m, rsp) /\ Told(d, m, err)
      BY OtherMessages, ToldOther DEF Msg
    <2>3. HandleGetVersion(d, c, t, m) =
            IF m.ver # 10 THEN Done(-1, c, t, err) ELSE Done(0, UpdateVca(b, m, rsp), t, rsp)
      BY DEF HandleGetVersion
    <2> HIDE DEF b, rsp, err
    <2> QED
      BY <2>1, <2>2, <2>3, DoneHonest, OffersTranscripts
  <1>2. Honest(d, m, HandleGetCapabilities(d, c, t, m))
    <2> DEFINE b == IF m.ver >= 11 THEN [c EXCEPT !.remote = m.caps, !.selected = m.ver] ELSE c
               rsp == [Msg("CAPABILITIES", m.ver, 0, 0, <<>>) EXCEPT !.caps = c.local]
               err == InvalidRsp(m.ver)
    <2>1. Offers(b, d)
      BY OffersKept
    <2>2. Told(d, m, rsp)
      <3>1. rsp.code = "CAPABILITIES" /\ rsp.caps = d.caps
        BY DEF Msg, Offers
      <3> HIDE DEF rsp
      <3> QED
        BY <3>1 DEF Told
    <2>4. Told(d, m, err)
      BY OtherMessages
    <2>3. HandleGetCapabilities(d, c, t, m) =
            IF (m.ver = 10) # (m.data = <<>>) THEN Done(-1, c, t, err)
            ELSE Done(0, UpdateVca(b, m, rsp), t, rsp)
      BY DEF HandleGetCapabilities
    <2> HIDE DEF b, rsp, err
    <2>5. Offers(UpdateVca(b, m, rsp), d)
      BY <2>1, OffersTranscripts
    <2> QED
      BY <2>2, <2>3, <2>4, <2>5, DoneHonest
  <1>3. Honest(d, m, HandleNegotiateAlgorithms(d, c, t, m))
    <2> DEFINE rsp == Msg("ALGORITHMS", m.ver, 0, 0, d.algorithms)
               err == InvalidRsp(m.ver)
    <2>1. Told(d, m, rsp) /\ Told(d, m, err)
      BY OtherMessages, ToldOther DEF Msg
    <2>2. HandleNegotiateAlgorithms(d, c, t, m) =
            IF m.data # <<384>> THEN Done(-1, c, t, err) ELSE Done(0, UpdateVca(c, m, rsp), t, rsp)
      BY DEF HandleNegotiateAlgorithms
    <2> HIDE DEF rsp, err
    <2> QED
      BY <2>1, <2>2, DoneHonest, OffersTranscripts
  <1> QED
    BY <1>1, <1>2, <1>3

LEMMA IdentityHonest ==
  ASSUME NEW d, NEW c, Offers(c, d), NEW t, NEW m
  PROVE  /\ Honest(d, m, HandleGetDigests(d, c, t, m))
         /\ Honest(d, m, HandleGetCertificate(d, c, t, m))
         /\ Honest(d, m, HandleChallenge(d, c, t, m))
  <1>0. Told(d, m, InvalidRsp(m.ver))
    BY OtherMessages
  <1>1. Honest(d, m, HandleGetDigests(d, c, t, m))
    <2> DEFINE rsp == Msg("DIGESTS", m.ver, 0, 0, Chains(d))
    <2>1. Told(d, m, rsp)
      BY DEF Msg, Told
    <2>2. HandleGetDigests(d, c, t, m) = Done(0, UpdateM1M2(c, m, rsp), t, rsp)
      BY DEF HandleGetDigests
    <2> HIDE DEF rsp
    <2> QED
      BY <2>1, <2>2, DoneHonest, OffersTranscripts
  <1>2. Honest(d, m, HandleGetCertificate(d, c, t, m))
    <2> DEFINE offset == m.data[1]
               rsp == Msg("CERTIFICATE", m.ver, m.p1, m.p1,
                          <<d.served[m.p1], 1, ChainParts - offset - 1>>)
               end == [rsp EXCEPT !.data = <<>>]
               err == InvalidRsp(m.ver)
    <2>1. Told(d, m, rsp) /\ Told(d, m, end)
      BY DEF Msg, Told
    <2>2. HandleGetCertificate(d, c, t, m) =
            CASE m.p1 \notin SlotMask(d) -> Done(-1, c, t, err)
              [] offset >= ChainParts    -> Done(-1, c, t, end)
              [] OTHER                   -> Done(0, UpdateM1M2(c, m, rsp), t, rsp)
      BY DEF HandleGetCertificate
    <2> HIDE DEF rsp, end, err, offset
    <2>3. Told(d, m, err)
      BY <1>0 DEF err
    <2> QED
      BY <2>1, <2>2, <2>3, DoneHonest, OffersTranscripts
  <1>3. Honest(d, m, HandleChallenge(d, c, t, m))
    <2> DEFINE rsp == Msg("CHALLENGE_AUTH", m.ver, m.p1, 0, <<d.slots[m.p1]>>)
               m1 == UpdateM1M2(c, m, rsp)
               signed == [rsp EXCEPT !.sig = Sign(d.key, m1.m1m2)]
               err == InvalidRsp(m.ver)
    <2>1. Told(d, m, signed)
      <3> HIDE DEF m1
      <3> QED
        BY DEF Msg, Told, Sign
    <2>2. HandleChallenge(d, c, t, m) =
            IF m.p1 \notin SlotMask(d) THEN Done(-1, c, t, err)
            ELSE Done(0, ResetM1M2(m1), t, signed)
      BY DEF HandleChallenge
    <2> HIDE DEF rsp
    <2>3. Offers(ResetM1M2(m1), d)
      BY OffersTranscripts
    <2> HIDE DEF m1, signed, err
    <2>4. Told(d, m, err)
      BY <1>0 DEF err
    <2> QED
      BY <2>1, <2>2, <2>3, <2>4, DoneHonest
  <1> QED
    BY <1>1, <1>2, <1>3

LEMMA MeasurementsHonest ==
  ASSUME NEW d \in Devices, NEW c, Offers(c, d), NEW t, NEW m
  PROVE  Honest(d, m, HandleGetMeasurements(d, c, t, m))
  <1> DEFINE err == InvalidRsp(m.ver)
             rsp == IF m.p2 = 0 THEN Msg("MEASUREMENTS", m.ver, Len(d.meas), 0, <<>>)
                    ELSE Msg("MEASUREMENTS", m.ver, 1, 0, <<m.p2, d.meas[m.p2]>>)
             l1 == UpdateL1L2(c, m, rsp)
             signed == [rsp EXCEPT !.sig = Sign(d.key, l1.l1l2)]
  <1>1. Told(d, m, err)
    BY OtherMessages
  <1>2. /\ rsp.code = "MEASUREMENTS"
        /\ m.p2 # 0 => rsp.data[2] = d.meas[m.p2]
        /\ signed.code = "MEASUREMENTS" /\ signed.sig.key = d.key /\ signed.data = rsp.data
    <2> HIDE DEF l1
    <2> QED
      BY DEF Msg, Sign
  <1>3. Offers(l1, d) /\ Offers(ResetL1L2(l1, m.ver), d)
    BY OffersTranscripts
  <1>4. HandleGetMeasurements(d, c, t, m) =
          CASE m.p2 > Len(d.meas) -> Done(-1, c, t, err)
            [] m.p2 <= Len(d.meas) /\ m.p1 = 0 -> Done(0, l1, t, rsp)
            [] OTHER -> Done(0, ResetL1L2(l1, m.ver), t, signed)
    BY DEF HandleGetMeasurements
  <1>5. DOMAIN d.meas = 1..Len(d.meas) /\ Len(d.meas) \in Nat
    BY DEF Devices
  <1> HIDE DEF err, rsp, l1, signed
  <1>6. CASE m.p2 > Len(d.meas)
    <2>1. Honest(d, m, Done(-1, c, t, err))
      BY <1>1, DoneHonest
    <2>2. m.p2 <= Len(d.meas) /\ m.p1 = 0 => Honest(d, m, Done(0, l1, t, rsp))
      <3>1. m.p1 = 0 => Told(d, m, rsp) \/ m.p2 \in Nat
        BY <1>2 DEF Told
      <3> QED
        BY <1>3, <1>5, <1>6, <3>1, DoneHonest
    <2> QED
      BY <1>4, <1>6, <2>1, <2>2
  <1>7. CASE ~(m.p2 > Len(d.meas))
    <2>1. m.p2 \in Nat \ {0} => m.p2 \in DOMAIN d.meas
      BY <1>5, <1>7
    <2>2. Told(d, m, signed) /\ (m.p1 = 0 => Told(d, m, rsp))
      BY <1>2, <2>1 DEF Told
    <2> QED
      BY <1>3, <1>4, <1>7, <2>2, DoneHonest
  <1> QED
    BY <1>6, <1>7

LEMMA ExchangeHonest ==
  ASSUME NEW d, NEW c, Offers(c, d), NEW t, NEW m
  PROVE  /\ Honest(d, m, HandleKeyExchange(d, c, t, m))
         /\ Honest(d, m, HandlePskExchange(d, c, t, m))
         /\ Honest(d, m, HandleFinish(d, c, t, m))
  <1>0. Told(d, m, ErrorRsp(m.ver))
    BY OtherMessages
  <1>1. Honest(d, m, HandleKeyExchange(d, c, t, m))
    <2> DEFINE i    == GetFreeSessionSlot(t)
               made == SpdmSessionCreate(t, i, "RSP", m.data[1], d.base + i)
               mut  == IF CapEnabled(c, "MUT_AUTH") THEN 4 ELSE 0
               body == Msg("KEY_EXCHANGE_RSP", m.ver, 1, 0, <<d.base + i, mut>>)
               th1  == c.msgA \o <<CertHash(d.slots[m.p2]), m, body>>
               rsp  == [body EXCEPT !.sig = Sign(d.key, th1)]
               th2  == c.msgA \o <<CertHash(d.slots[m.p2]), m, rsp>>
               sess == [PrepareHandshake(made[i], th2) EXCEPT !.state = "KEY_EXCHANGED"]
               b    == [c EXCEPT !.th2 = th2]
               u    == [made EXCEPT ![i] = sess]
    <2>1. rsp.code = "KEY_EXCHANGE_RSP"
      <3> HIDE DEF th1, mut, i
      <3> QED
        BY DEF Msg
    <2>2. HandleKeyExchange(d, c, t, m) =
            CASE m.ver \notin {11, 12} -> Done(-1, c, t, ErrorRsp(m.ver))
              [] m.ver \in {11, 12} /\ i = 0 -> Done(NoEmptySession, c, t, ErrorRsp(m.ver))
              [] OTHER -> Done(0, b, u, rsp)
      BY DEF HandleKeyExchange
    <2> HIDE DEF rsp, th1, sess, u, made, mut, i
    <2> HIDE DEF th2
    <2>3. Offers(b, d)
      BY OffersKept
    <2> HIDE DEF b
    <2>4. Told(d, m, rsp)
      BY <2>1, ToldOther
    <2> QED
      BY <1>0, <2>2, <2>3, <2>4, DoneHonest
  <1>2. Honest(d, m, HandlePskExchange(d, c, t, m))
    <2> DEFINE i    == GetFreeSessionSlot(t)
               made == SpdmSessionCreate(t, i, "RSP", m.data[1], d.base + i)
               body == Msg("PSK_EXCHANGE_RSP", m.ver, 1, 0, <<d.base + i>>)
               th1  == c.msgA \o <<m, body>>
               sess == PrepareHandshake(made[i], th1)
               rsp  == [body EXCEPT !.mac = sess.rspMac]
               b    == [c EXCEPT !.th2 = th1]
               u    == [made EXCEPT ![i] = [GenSessionKeys(sess, Append(th1, rsp)) EXCEPT
                                              !.state = "ESTABLISHED"]]
    <2>1. rsp.code = "PSK_EXCHANGE_RSP"
      <3> HIDE DEF sess, i
      <3> QED
        BY DEF Msg
    <2>2. HandlePskExchange(d, c, t, m) =
            IF i = 0 THEN Done(NoEmptySession, c, t, ErrorRsp(m.ver))
            ELSE IF m.p1 # 0 THEN Done(-1, c, made, ErrorRsp(m.ver))
            ELSE Done(0, b, u, rsp)
      BY DEF HandlePskExchange
    <2> HIDE DEF u, rsp, sess, made, i
    <2> HIDE DEF th1
    <2>3. Offers(b, d)
      BY OffersKept
    <2> HIDE DEF b
    <2>4. Told(d, m, rsp)
      BY <2>1, ToldOther
    <2> QED
      BY <1>0, <2>2, <2>3, <2>4, DoneHonest
  <1>3. Honest(d, m, HandleFinish(d, c, t, m))
    <2> DEFINE i    == FindPendingSession(t)
               s    == t[i]
               mut  == CapEnabled(c, "MUT_AUTH")
               peer == c.cert[m.p2].digest
               signed == Verifies(c, 0, m.sig, c.th2 \o <<CertHash(peer), FinishHeader(m.ver, m.p1)>>)
               maced  == s.reqMac # NoMac
                         /\ m.mac = [s.reqMac EXCEPT !.over = FinishMacOver(@, peer, m, mut)]
               mac  == [s.rspMac EXCEPT !.over = FinishRspMacOver(@, peer, m, mut)]
               rsp  == [Msg("FINISH_RSP", m.ver, 0, 0, <<>>) EXCEPT !.mac = mac]
               th2  == c.th2 \o (IF mut THEN <<CertHash(peer)>> ELSE <<>>) \o <<m, rsp>>
               b    == [c EXCEPT !.th2 = <<>>]
               u    == [t EXCEPT ![i] = [GenSessionKeys(s, th2) EXCEPT !.state = "ESTABLISHED",
                                           !.reqMac = NoMac, !.rspMac = NoMac]]
    <2>1. rsp.code = "FINISH_RSP"
      <3> HIDE DEF mac
      <3> QED
        BY DEF Msg
    <2>2. HandleFinish(d, c, t, m) =
            IF i = 0 \/ m.ver \notin {11, 12} \/ (m.p1 = 1 /\ ~signed) \/ ~maced
            THEN Done(-1, c, t, ErrorRsp(m.ver)) ELSE Done(0, b, u, rsp)
      BY DEF HandleFinish
    <2>3. Offers(b, d)
      BY OffersKept
    <2> HIDE DEF rsp, b, u, signed, maced, i
    <2>4. Told(d, m, rsp)
      BY <2>1, ToldOther
    <2> QED
      BY <1>0, <2>2, <2>3, <2>4, DoneHonest
  <1> QED
    BY <1>1, <1>2, <1>3

LEMMA EncapHonest ==
  ASSUME NEW d, NEW c, Offers(c, d), NEW t, NEW m
  PROVE  Honest(d, m, HandleDeliverEncapRsp(d, c, t, m))
  <1>1. \A x : Told(d, m, EncapAck(m, x))
    <2>1. \A x : EncapAck(m, x).code = "ENCAP_RSP_ACK"
      BY DEF EncapAck, Msg
    <2> QED
      BY <2>1, ToldOther
  <1>2. \A b, s : Offers(b, d) => Honest(d, m, EncapAskFirst(b, t, m, s))
    BY <1>1, OffersKept, DoneHonest DEF EncapAskFirst
  <1>3. Honest(d, m, EncapCertificate(c, t, m))
    <2> DEFINE slot  == c.enc.slot
               chain == m.data[2]
               next  == NextCertId(c.mask, slot)
               took  == [c EXCEPT !.cert[slot].data = chain]
               kept  == [took EXCEPT !.cert[slot].leaf = chain]
               more  == [took EXCEPT !.enc.offset = @ + 1, !.enc.first = FALSE]
               last  == [kept EXCEPT !.enc.slot = 127]
               shut  == [c EXCEPT !.cert[slot] = [@ EXCEPT !.data = 0, !.leaf = 0],
                                  !.mask = @ \ {slot}]
    <2>1. Offers(took, d)
      BY DEF Offers
    <2>2. Offers(kept, d)
      <3> HIDE DEF took
      <3> QED
        BY <2>1 DEF Offers
    <2>3. Offers(last, d) /\ Offers(more, d)
      <3> HIDE DEF took, kept
      <3> QED
        BY <2>1, <2>2 DEF Offers
    <2>4. Offers(shut, d)
      BY DEF Offers
    <2>5. EncapCertificate(c, t, m) =
            CASE m.data[4] # 0 -> Done(0, more, t, EncapAck(m, <<slot, c.enc.offset + 1>>))
              [] m.data[4] = 0 /\ chain # c.cert[slot].digest ->
                   Done(-1, took, t, EncapAck(m, <<127, 5>>))
              [] m.data[4] = 0 /\ chain = c.cert[slot].digest /\ chain \notin RootedChain ->
                   Done(-1, shut, t, EncapAck(m, <<127, 5>>))
              [] OTHER ->
                   IF next = 127 THEN Done(0, last, t, EncapAck(m, <<>>))
                   ELSE EncapAskFirst(kept, t, m, next)
      BY DEF EncapCertificate
    <2>6. /\ Honest(d, m, Done(0, more, t, EncapAck(m, <<slot, c.enc.offset + 1>>)))
          /\ Honest(d, m, Done(-1, took, t, EncapAck(m, <<127, 5>>)))
          /\ Honest(d, m, Done(-1, shut, t, EncapAck(m, <<127, 5>>)))
          /\ Honest(d, m, Done(0, last, t, EncapAck(m, <<>>)))
          /\ Honest(d, m, EncapAskFirst(kept, t, m, next))
      <3> HIDE DEF more, took, shut, last, kept, next, slot, chain
      <3> QED
        BY <1>1, <1>2, <2>1, <2>2, <2>3, <2>4, DoneHonest
    <2> HIDE DEF more, took, shut, last, kept, next, slot, chain
    <2> QED
      BY <2>5, <2>6
  <1> DEFINE held == [c EXCEPT !.mask = {s \in Slots : m.data[s + 2] # 0},
                        !.cert = [s \in Slots |->
                           IF m.data[s + 2] # 0 THEN [@[s] EXCEPT !.digest = m.data[s + 2]]
                           ELSE @[s]]]
             last == [held EXCEPT !.enc.slot = 127]
             next == NextCertId(held.mask, c.enc.slot)
  <1>4. Offers(held, d)
    BY DEF Offers
  <1>5. HandleDeliverEncapRsp(d, c, t, m) =
          CASE m.data[1] = 2 -> EncapCertificate(c, t, m)
            [] m.data[1] = 1 /\ next = 127 -> Done(0, last, t, ErrorRsp(m.ver))
            [] OTHER -> EncapAskFirst(held, t, m, next)
    BY DEF HandleDeliverEncapRsp
  <1>6. Offers(last, d)
    <2> HIDE DEF held
    <2> QED
      BY <1>4 DEF Offers
  <1>7. Told(d, m, ErrorRsp(m.ver))
    BY OtherMessages
  <1>8. Honest(d, m, Done(0, last, t, ErrorRsp(m.ver))) /\ Honest(d, m, EncapAskFirst(held, t, m, next))
    <2> HIDE DEF held, last, next
    <2> QED
      BY <1>2, <1>4, <1>6, <1>7, DoneHonest
  <1> HIDE DEF held, last, next
  <1> QED
    BY <1>3, <1>5, <1>8

LEMMA DispatchHonest ==
  ASSUME NEW d \in Devices, NEW c, Offers(c, d), NEW t, NEW m
  PROVE  Honest(d, m, Dispatch(d, c, t, m))
  BY VcaHonest, IdentityHonest, MeasurementsHonest, ExchangeHonest, EncapHonest, ZenonT(30)
     DEF Dispatch

LEMMA InSessionHonest ==
  ASSUME NEW d, NEW c, Offers(c, d), NEW t, NEW m, NEW sid
  PROVE  /\ Honest(d, m, HandleKeyUpdate(d, c, t, m, sid))
         /\ Honest(d, m, HandleHeartbeat(d, c, t, m))
         /\ Honest(d, m, HandleEndSession(d, c, t, m, sid))
         /\ Honest(d, m, Done(0, c, t, ErrorRsp(m.ver)))
  <1> DEFINE g == SpdmSessionGet(t, sid)
             s == g.t[g.i]
             one == UpdateKey(s, "REQ")
             new == CASE m.p1 = 1 -> one [] m.p1 = 2 -> UpdateKey(one, "RSP") [] OTHER -> s
             u == [g.t EXCEPT ![g.i] = new]
             err == ErrorRsp(m.ver)
             ack == Msg("KEY_UPDATE_ACK", m.ver, m.p1, m.p2, <<>>)
             beat == Msg("HEARTBEAT_ACK", m.ver, 0, 0, <<>>)
             end == Msg("END_SESSION_ACK", m.ver, 0, 0, <<>>)
  <1>1. Told(d, m, err) /\ Told(d, m, ack) /\ Told(d, m, beat) /\ Told(d, m, end)
    BY OtherMessages
  <1>2. HandleKeyUpdate(d, c, t, m, sid) =
          IF g.i = 0 \/ m.p1 > 3 THEN Done(-1, c, g.t, err) ELSE Done(0, c, u, ack)
    BY DEF HandleKeyUpdate
  <1>3. HandleHeartbeat(d, c, t, m) = Done(0, c, t, beat)
    BY DEF HandleHeartbeat
  <1>4. HandleEndSession(d, c, t, m, sid) =
          IF g.i = 0 THEN Done(-1, c, g.t, err) ELSE Done(0, c, g.t, end)
    BY DEF HandleEndSession
  <1>5. \A ret, v : /\ Honest(d, m, Done(ret, c, v, err)) /\ Honest(d, m, Done(ret, c, v, ack))
                    /\ Honest(d, m, Done(ret, c, v, beat)) /\ Honest(d, m, Done(ret, c, v, end))
    <2> HIDE DEF err, ack, beat, end
    <2> QED
      BY <1>1, DoneHonest
  <1>6. Honest(d, m, Done(0, c, t, ErrorRsp(m.ver)))
    BY <1>5
  <1> HIDE DEF g, u, err, ack, beat, end
  <1> QED
    BY <1>2, <1>3, <1>4, <1>5, <1>6

LEMMA PlainHonest ==
  ASSUME NEW d \in Devices, NEW c, Offers(c, d), NEW t, NEW m
  PROVE  Honest(d, m, PlainRequest(d, c, t, m))
  <1> DEFINE r == Dispatch(d, c, t, m)
             aborts == \/ c.state = "KEY_EXCHANGED"
                       \/ m.code \in {"KEY_EXCHANGE", "PSK_EXCHANGE"} /\ r.ret # NoEmptySession
             kept == [r EXCEPT !.c.state = StateAfter(c.state, m.code)]
             left == [r EXCEPT !.c.state = "NOT_READY", !.t = Release(@, FindPendingSession(@))]
             err == Done(0, c, t, ErrorRsp(m.ver))
  <1>1. PlainRequest(d, c, t, m) =
          IF m.code \notin Accepted[c.state] THEN err
          ELSE CASE r.ret = 0 -> kept [] r.ret # 0 /\ aborts -> left [] OTHER -> r
    BY DEF PlainRequest
  <1>2. Honest(d, m, r)
    BY DispatchHonest
  <1>3. Honest(d, m, err)
    BY InSessionHonest
  <1> HIDE DEF r, err
  <1>4. Honest(d, m, kept) /\ Honest(d, m, left)
    <2>1. \A x : Offers([r.c EXCEPT !.state = x], d)
      BY <1>2, OffersKept DEF Honest
    <2>2. /\ DOMAIN kept = {"ret", "c", "t", "rsp"} /\ kept.rsp = r.rsp
          /\ kept.c = [r.c EXCEPT !.state = StateAfter(c.state, m.code)]
      BY <1>2 DEF Honest
    <2>3. /\ DOMAIN left = {"ret", "c", "t", "rsp"} /\ left.rsp = r.rsp
          /\ left.c = [r.c EXCEPT !.state = "NOT_READY"]
      BY <1>2 DEF Honest
    <2> HIDE DEF kept, left
    <2> QED
      BY <1>2, <2>1, <2>2, <2>3 DEF Honest
  <1> HIDE DEF kept, left, aborts
  <1> QED
    BY <1>1, <1>2, <1>3, <1>4

LEMMA SecuredHonest ==
  ASSUME NEW d \in Devices, NEW c, Offers(c, d), NEW t, NEW m, NEW sid
  PROVE  Honest(d, m, SecuredRequest(d, c, t, m, sid))
  <1> DEFINE r == CASE m.code = "KEY_UPDATE"  -> HandleKeyUpdate(d, c, t, m, sid)
                    [] m.code = "HEARTBEAT"   -> HandleHeartbeat(d, c, t, m)
                    [] m.code = "END_SESSION" -> HandleEndSession(d, c, t, m, sid)
                    [] m.code \in {"GET_MEASUREMENTS", "GET_DIGESTS", "GET_CERTIFICATE", "GET_VERSION"}
                         -> Dispatch(d, c, t, m)
                    [] OTHER -> Done(0, c, t, ErrorRsp(m.ver))
             g == SpdmSessionGet(r.t, sid)
             state(x) == [r EXCEPT !.c.state = x]
             shut == [r EXCEPT !.c.state = "NOT_READY", !.t = Release(g.t, g.i)]
  <1>1. SecuredRequest(d, c, t, m, sid) =
          CASE r.ret # 0 -> shut
            [] r.ret = 0 /\ m.code = "GET_VERSION" -> state("GOT_VERSION")
            [] r.ret = 0 /\ m.code = "END_SESSION" -> state("NOT_READY")
            [] OTHER -> r
    BY DEF SecuredRequest
  <1>2. Honest(d, m, r)
    BY DispatchHonest, InSessionHonest, ZenonT(30)
  <1> HIDE DEF r, g
  <1>3. \A x : Offers([r.c EXCEPT !.state = x], d)
    BY <1>2, OffersKept DEF Honest
  <1>4. Honest(d, m, shut)
    <2>1. /\ DOMAIN shut = {"ret", "c", "t", "rsp"} /\ shut.rsp = r.rsp
          /\ shut.c = [r.c EXCEPT !.state = "NOT_READY"]
      BY <1>2 DEF Honest
    <2> HIDE DEF shut
    <2> QED
      BY <1>2, <1>3, <2>1 DEF Honest
  <1>5. ASSUME NEW x PROVE Honest(d, m, state(x))
    <2>1. /\ DOMAIN state(x) = {"ret", "c", "t", "rsp"} /\ state(x).rsp = r.rsp
          /\ state(x).c = [r.c EXCEPT !.state = x]
      BY <1>2 DEF Honest
    <2> HIDE DEF state
    <2> QED
      BY <1>2, <1>3, <2>1 DEF Honest
  <1> HIDE DEF state, shut
  <1> QED
    BY <1>1, <1>2, <1>4, <1>5

LEMMA HandlerHonest ==
  ASSUME NEW d \in Devices, NEW c, Offers(c, d), NEW t, NEW m, NEW seal
  PROVE  Honest(d, m, SpdmHandler(d, c, t, m, seal))
  <1> DEFINE fresh == IF m.code = "GET_MEASUREMENTS" THEN c ELSE ResetL1L2(c, m.ver)
  <1>1. Offers(fresh, d)
    BY OffersTranscripts
  <1>2. SpdmHandler(d, c, t, m, seal) =
          IF seal.on THEN SecuredRequest(d, fresh, t, m, seal.id) ELSE PlainRequest(d, fresh, t, m)
    BY DEF SpdmHandler
  <1> HIDE DEF fresh
  <1> QED
    BY <1>1, <1>2, PlainHonest, SecuredHonest

\* An answer of the responder thread speaks of its device.
LEMMA AnswerTold ==
  ASSUME NEW p, dev[p] \in Devices, Offers(rctx[p], dev[p]), NEW m, NEW seal
  PROVE  LET y == Answer(p, m, seal)
         IN  Offers(y.c, dev[p]) /\ (y.st = "RESPONSE" => Told(dev[p], m, y.m))
  <1> DEFINE d == dev[p]
             opened == Decrypt(tab[p], seal)
             r == SpdmHandler(d, rctx[p], IF seal.on THEN opened.t ELSE tab[p], m, seal)
             x == Encrypt(r.t, seal.id, r.rsp)
             lost == [st |-> "LOST", c |-> rctx[p], t |-> opened.t, m |-> m, seal |-> seal]
             sent == [st |-> "RESPONSE", c |-> r.c, t |-> IF seal.on THEN x.t ELSE r.t, m |-> r.rsp,
                      seal |-> IF seal.on THEN x.seal ELSE NoSeal]
  <1>1. Answer(p, m, seal) = IF seal.on /\ ~opened.ok THEN lost ELSE sent
    BY DEF Answer
  <1>2. Honest(d, m, r)
    <2> HIDE DEF opened
    <2> QED
      BY HandlerHonest
  <1> HIDE DEF opened, r, x
  <1>3. lost.st = "LOST" /\ lost.c = rctx[p] /\ sent.c = r.c /\ sent.m = r.rsp
    OBVIOUS
  <1> HIDE DEF lost, sent
  <1> QED
    BY <1>1, <1>2, <1>3 DEF Honest

-----------------------------------------------------------------------------
(* What a requester learns from an answer.                                  *)

Learned(d, e, a, o) ==
  /\ Knows(d, e, o.a) /\ o.a.pc # "KEEP_ALIVE"
  /\ Pass(o.a) /\ a.pc # "KEEP_ALIVE" => Passed(d, e)

LEMMA GoFields ==
  ASSUME NEW b, Attempt(b), NEW t, NEW pc
  PROVE  LET o == Go(t, b, pc)
         IN  /\ o.a.pc = pc /\ o.a.c = b.c /\ o.a.slot = b.slot
             /\ o.a.meas = b.meas /\ o.a.afm = b.afm
  BY DEF Attempt, AttFields, Go, Outcome

LEMMA NothingKnown ==
  ASSUME NEW d, NEW e, NEW x, x.pc \in {"IDLE", "VERDICT", "KEEP_ALIVE"}
  PROVE  Knows(d, e, x)
  <1>1. x.pc \notin Naming \cup {"CHALLENGE"} \cup Counting \cup Comparing \cup Keying
    BY DEF Naming, Counting, Comparing, Keying, Encap
  <1>2. x.pc \notin {"NEGOTIATE_ALGORITHMS", "GET_DIGESTS", "GET_CERTIFICATE", "CHALLENGE",
                    "TOTAL", "SESSION_TOTAL"}
    OBVIOUS
  <1> QED
    BY <1>1, <1>2 DEF Knows

LEMMA ConcludeLearned ==
  ASSUME NEW d, NEW e, NEW a, NEW b, Attempt(b), NEW t, NEW res,
         res # "SUCCEEDED" \/ a.pc = "KEEP_ALIVE" \/ Passed(d, e)
  PROVE  Learned(d, e, a, Conclude(t, b, res))
  <1> DEFINE o == Conclude(t, b, res)
  <1>1. o.a.pc = "VERDICT" /\ o.a.pc # "KEEP_ALIVE" /\ o.a.res = res
    BY DEF Attempt, AttFields, Conclude, Outcome
  <1> HIDE DEF o
  <1>2. Knows(d, e, o.a)
    BY <1>1, NothingKnown
  <1> QED
    BY <1>1, <1>2, Zenon DEF Learned, Pass, o

\* Transcripts aside, the context x is c.
Alike(c, x) == x.cert = c.cert /\ x.remote = c.remote /\ x.mask = c.mask

LEMMA TranscriptsAlike ==
  ASSUME NEW c, Context(c), NEW req, NEW rsp, NEW ver
  PROVE  /\ Alike(c, ResetM1M2(c)) /\ Alike(c, ResetL1L2(c, ver))
         /\ Alike(c, UpdateM1M2(c, req, rsp)) /\ Alike(c, UpdateL1L2(c, req, rsp))
         /\ Alike(c, UpdateVca(c, req, rsp))
  <1>1. \A b : Context(b) => /\ Alike(b, UpdateM1M2(b, req, rsp))
                             /\ Alike(b, UpdateL1L2(b, req, rsp))
    BY DEF UpdateM1M2, UpdateL1L2, Alike, Context, ContextFields
  <1>2. Alike(c, ResetM1M2(c)) /\ Alike(c, ResetL1L2(c, ver))
    BY DEF ResetM1M2, ResetL1L2, Alike, Context, ContextFields
  <1>3. Alike(c, UpdateVca(c, req, rsp))
    <2> DEFINE b == [c EXCEPT !.msgA = @ \o <<req, rsp>>]
    <2>1. Context(b)
      BY ContextKept, TranscriptPair DEF Context
    <2>2. Alike(c, b)
      BY DEF Alike, Context, ContextFields
    <2> HIDE DEF b
    <2>3. Alike(b, UpdateM1M2(b, req, rsp))
      BY <1>1, <2>1
    <2> QED
      BY <2>2, <2>3 DEF UpdateVca, Alike, b
  <1> QED
    BY <1>1, <1>2, <1>3

LEMMA AlikeKnown ==
  ASSUME NEW d, NEW c, NEW x, Alike(c, x)
  PROVE  /\ Certified(d, c) => Certified(d, x)
         /\ Unproven(c) => Unproven(x)
         /\ Proven(d, c) => Proven(d, x)
         /\ x.remote = c.remote /\ x.mask = c.mask /\ x.cert = c.cert
  BY DEF Alike, Certified, Unproven, Proven

-----------------------------------------------------------------------------
(* Counting measurements.                                                   *)

LEMMA ProgressStart == \A d, e : Progress(d, e, 0, 1)
  <1> TAKE d, e
  <1> DEFINE f == [i \in 1..0 |-> 1]
  <1>1. f \in [1..0 -> 1..(1 - 1)]
    OBVIOUS
  <1>2. \A i \in 1..0 : FALSE
    OBVIOUS
  <1> HIDE DEF f
  <1> QED
    BY <1>1, <1>2, Zenon DEF Progress

LEMMA ProgressWider ==
  ASSUME NEW d, NEW e, NEW k \in Nat, NEW m \in Nat, Progress(d, e, k, m)
  PROVE  Progress(d, e, k, m + 1)
  <1>1. PICK f \in [1..k -> 1..(m - 1)] :
          /\ \A i \in 1..k : /\ f[i] \in DOMAIN d.meas
                             /\ i \in DOMAIN e.expect => d.meas[f[i]] \in e.expect[i]
          /\ \A i, j \in 1..k : i < j => f[i] < f[j]
    BY Zenon DEF Progress
  <1>2. f \in [1..k -> 1..((m + 1) - 1)]
    <2>1. 1..(m - 1) \subseteq 1..((m + 1) - 1)
      OBVIOUS
    <2> QED
      BY <1>1, <2>1
  <1> QED
    BY <1>1, <1>2, Zenon DEF Progress

LEMMA ProgressMore ==
  ASSUME NEW d, NEW e, NEW k \in Nat, NEW m \in Nat \ {0}, Progress(d, e, k, m),
         m \in DOMAIN d.meas, k + 1 \in DOMAIN e.expect => d.meas[m] \in e.expect[k + 1]
  PROVE  Progress(d, e, k + 1, m + 1)
  <1>1. PICK f \in [1..k -> 1..(m - 1)] :
          /\ \A i \in 1..k : /\ f[i] \in DOMAIN d.meas
                             /\ i \in DOMAIN e.expect => d.meas[f[i]] \in e.expect[i]
          /\ \A i, j \in 1..k : i < j => f[i] < f[j]
    BY Zenon DEF Progress
  <1> DEFINE g == [i \in 1..(k + 1) |-> IF i = k + 1 THEN m ELSE f[i]]
  <1>2. \A i \in 1..(k + 1) : (i = k + 1 /\ g[i] = m) \/ (i \in 1..k /\ g[i] = f[i])
    OBVIOUS
  <1>3. \A i \in 1..k : f[i] \in 1..(m - 1)
    BY <1>1
  <1>4. g \in [1..(k + 1) -> 1..((m + 1) - 1)]
    <2>1. \A i \in 1..(k + 1) : g[i] \in 1..((m + 1) - 1)
      BY <1>2, <1>3
    <2>2. g = [i \in 1..(k + 1) |-> g[i]]
      OBVIOUS
    <2> HIDE DEF g
    <2> QED
      BY <2>1, <2>2
  <1> HIDE DEF g
  <1>5. \A i \in 1..(k + 1) : /\ g[i] \in DOMAIN d.meas
                              /\ i \in DOMAIN e.expect => d.meas[g[i]] \in e.expect[i]
    BY <1>1, <1>2
  <1>6. \A i, j \in 1..(k + 1) : i < j => g[i] < g[j]
    <2> SUFFICES ASSUME NEW i \in 1..(k + 1), NEW j \in 1..(k + 1), i < j PROVE g[i] < g[j]
      OBVIOUS
    <2>1. i \in 1..k /\ g[i] = f[i] /\ f[i] \in 1..(m - 1)
      BY <1>2, <1>3
    <2>2. CASE j = k + 1 /\ g[j] = m
      BY <2>1, <2>2
    <2>3. CASE j \in 1..k /\ g[j] = f[j]
      BY <1>1, <2>1, <2>3
    <2> QED
      BY <1>2, <2>2, <2>3
  <1> QED
    BY <1>4, <1>5, <1>6, Zenon DEF Progress

LEMMA ProgressDone ==
  ASSUME NEW d, NEW e \in AfmEntries, NEW k \in Nat, NEW m, Progress(d, e, k, m),
         Len(e.expect) <= k
  PROVE  Measured(d, e)
  <1>1. PICK f \in [1..k -> 1..(m - 1)] :
          /\ \A i \in 1..k : /\ f[i] \in DOMAIN d.meas
                             /\ i \in DOMAIN e.expect => d.meas[f[i]] \in e.expect[i]
          /\ \A i, j \in 1..k : i < j => f[i] < f[j]
    BY Zenon DEF Progress
  <1>2. DOMAIN e.expect \subseteq 1..k
    BY DEF AfmEntries
  <1> DEFINE g == [i \in DOMAIN e.expect |-> f[i]]
  <1>3. g \in [DOMAIN e.expect -> DOMAIN d.meas] /\ \A i \in DOMAIN e.expect : g[i] = f[i]
    BY <1>1, <1>2
  <1> HIDE DEF g
  <1>4. \A i \in DOMAIN e.expect : d.meas[g[i]] \in e.expect[i]
    BY <1>1, <1>2, <1>3
  <1>5. \A i, j \in DOMAIN e.expect : i < j => g[i] < g[j]
    BY <1>1, <1>2, <1>3
  <1> QED
    BY <1>3, <1>4, <1>5, Zenon DEF Measured

-----------------------------------------------------------------------------
(* What each answer teaches.                                                *)

\* Named, and not yet proven.
Named(d, b) ==
  /\ Attempt(b) /\ Certified(d, b.c) /\ Unproven(b.c)
  /\ b.slot \in Slots /\ b.meas = 0 /\ b.afm = 0

LEMMA NamingLearned ==
  ASSUME NEW d, NEW e, NEW a, NEW b, Named(d, b), NEW t, NEW pc \in Naming \cup {"CHALLENGE"},
         pc \in {"NEGOTIATE_ALGORITHMS", "GET_DIGESTS", "GET_CERTIFICATE", "CHALLENGE"}
           => b.c.remote = d.caps,
         pc = "GET_CERTIFICATE" => b.c.mask \subseteq Slots
  PROVE  Learned(d, e, a, Go(t, b, pc))
  <1> DEFINE o == Go(t, b, pc)
  <1>1. /\ o.a.pc = pc /\ o.a.c = b.c /\ o.a.slot = b.slot
        /\ o.a.meas = b.meas /\ o.a.afm = b.afm
    BY GoFields DEF Named
  <1> HIDE DEF o
  <1>2. pc \notin Counting \cup Comparing \cup Keying \cup {"VERDICT", "KEEP_ALIVE"}
    BY DEF Naming, Counting, Comparing, Keying, Encap
  <1>3. pc \notin {"TOTAL", "SESSION_TOTAL"}
    BY DEF Naming
  <1>4. \A s \in Slots : b.c.cert[s].leaf = 0
    BY DEF Named, Unproven
  <1>5. Knows(d, e, o.a)
    BY <1>1, <1>2, <1>3, <1>4 DEF Knows, Named
  <1>6. o.a.pc # "KEEP_ALIVE" /\ ~Pass(o.a)
    BY <1>1, <1>2 DEF Pass
  <1>7. Learned(d, e, a, o)
    BY <1>5, <1>6, Zenon DEF Learned
  <1> QED
    BY <1>7 DEF o

LEMMA NextSlotLearned ==
  ASSUME NEW d, NEW e, NEW a, NEW b, Named(d, b), NEW t, NEW s,
         b.c.remote = d.caps, b.c.mask \subseteq Slots
  PROVE  Learned(d, e, a, NextSlot(t, b, s))
  <1> DEFINE S == {x \in b.c.mask : x > s}
             n == [b EXCEPT !.slot = Min(S), !.part = 0]
  <1>1. NextSlot(t, b, s) = IF S = {} THEN Conclude(t, b, "CERTIFICATE") ELSE Go(t, n, "GET_CERTIFICATE")
    BY DEF NextSlot
  <1>2. Learned(d, e, a, Conclude(t, b, "CERTIFICATE"))
    BY ConcludeLearned DEF Named
  <1>3. ASSUME S # {} PROVE Learned(d, e, a, Go(t, n, "GET_CERTIFICATE"))
    <2>1. Min(S) \in Slots
      <3>1. S \subseteq Slots /\ \A x \in Slots : x \in Nat
        BY SpdmConstants
      <3> HIDE DEF S
      <3> QED
        BY <1>3, <3>1, LeastElement
    <2> HIDE DEF S
    <2>2. /\ Attempt(n) /\ n.c = b.c /\ n.slot = Min(S) /\ n.meas = b.meas /\ n.afm = b.afm
      BY DEF Named, Attempt, AttFields
    <2> HIDE DEF n
    <2>3. Named(d, n)
      BY <2>1, <2>2 DEF Named
    <2> QED
      BY <2>2, <2>3, NamingLearned DEF Naming
  <1> HIDE DEF S, n
  <1> QED
    BY <1>1, <1>2, <1>3

LEMMA VcaLearned ==
  ASSUME NEW d, NEW e, NEW t, NEW a, Attempt(a), Knows(d, e, a), NEW req, NEW m, Told(d, req, m)
  PROVE  /\ a.pc = "GET_VERSION" => Learned(d, e, a, TakeVersion(t, a, req, m))
         /\ a.pc = "GET_CAPABILITIES" => Learned(d, e, a, TakeCapabilities(t, a, req, m))
         /\ a.pc = "NEGOTIATE_ALGORITHMS" => Learned(d, e, a, TakeAlgorithms(t, a, req, m))
  <1>1. Context(a.c)
    BY DEF Attempt
  <1>2. a.pc \in Naming => Named(d, a)
    BY DEF Knows, Named
  <1>3. \A x : Context(x) => LET b == [a EXCEPT !.c = x]
                             IN  /\ Attempt(b) /\ b.c = x /\ b.slot = a.slot
                                 /\ b.meas = a.meas /\ b.afm = a.afm
    BY DEF Attempt, AttFields
  <1>4. ASSUME a.pc = "GET_VERSION" PROVE Learned(d, e, a, TakeVersion(t, a, req, m))
    <2> DEFINE best == Max({10} \cup {m.data[i] : i \in DOMAIN m.data})
               c == [a.c EXCEPT !.selected = best, !.msgA = <<>>, !.m1m2 = <<>>]
               x == UpdateVca(c, req, m)
               b == [a EXCEPT !.c = x]
    <2>1. Context(c) /\ Alike(a.c, c)
      <3> HIDE DEF best
      <3> QED
        BY <1>1, TranscriptOf DEF Alike, Context, ContextFields
    <2>2. TakeVersion(t, a, req, m) =
            IF ~Answers(m, req, "VERSION") \/ Len(m.data) \notin {1, 2} THEN Conclude(t, a, "VCA")
            ELSE Go(t, b, "GET_CAPABILITIES")
      BY DEF TakeVersion
    <2> HIDE DEF c
    <2>3. Context(x) /\ Alike(a.c, x)
      BY <2>1, ContextTranscripts, TranscriptsAlike DEF Alike
    <2> HIDE DEF x
    <2>4. Attempt(b) /\ b.c = x /\ b.slot = a.slot /\ b.meas = a.meas /\ b.afm = a.afm
      BY <1>3, <2>3
    <2> HIDE DEF b
    <2>5. Named(d, b)
      BY <1>2, <1>4, <2>3, <2>4, AlikeKnown DEF Named, Naming
    <2>6. Learned(d, e, a, Go(t, b, "GET_CAPABILITIES"))
      BY <2>5, NamingLearned DEF Naming
    <2> QED
      BY <2>2, <2>6, ConcludeLearned
  <1>5. ASSUME a.pc = "GET_CAPABILITIES" PROVE Learned(d, e, a, TakeCapabilities(t, a, req, m))
    <2> DEFINE c == [a.c EXCEPT !.remote = m.caps]
               x == UpdateVca(c, req, m)
               b == [a EXCEPT !.c = x]
    <2>1. Context(c) /\ c.cert = a.c.cert /\ c.remote = m.caps
      BY <1>1 DEF Context, ContextFields
    <2>2. TakeCapabilities(t, a, req, m) =
            IF ~Answers(m, req, "CAPABILITIES") THEN Conclude(t, a, "VCA")
            ELSE Go(t, b, "NEGOTIATE_ALGORITHMS")
      BY DEF TakeCapabilities
    <2> HIDE DEF c
    <2>3. Context(x) /\ Alike(c, x)
      BY <2>1, ContextTranscripts, TranscriptsAlike
    <2> HIDE DEF x
    <2>4. Attempt(b) /\ b.c = x /\ b.slot = a.slot /\ b.meas = a.meas /\ b.afm = a.afm
      BY <1>3, <2>3
    <2> HIDE DEF b
    <2>5. Named(d, b) /\ b.c.remote = m.caps
      BY <1>2, <1>5, <2>1, <2>3, <2>4 DEF Named, Naming, Alike, Certified, Unproven
    <2>6. Answers(m, req, "CAPABILITIES") => Learned(d, e, a, Go(t, b, "NEGOTIATE_ALGORITHMS"))
      BY <2>5, NamingLearned DEF Naming, Answers, Told
    <2> QED
      BY <2>2, <2>6, ConcludeLearned
  <1>6. ASSUME a.pc = "NEGOTIATE_ALGORITHMS" PROVE Learned(d, e, a, TakeAlgorithms(t, a, req, m))
    <2> DEFINE x == UpdateVca(a.c, req, m)
               b == [a EXCEPT !.c = x]
    <2>1. Context(x) /\ Alike(a.c, x)
      BY <1>1, ContextTranscripts, TranscriptsAlike
    <2>2. TakeAlgorithms(t, a, req, m) =
            IF ~Answers(m, req, "ALGORITHMS") \/ m.data # <<384>> THEN Conclude(t, a, "VCA")
            ELSE IF "CERT" \in a.c.remote THEN Go(t, b, "GET_DIGESTS")
            ELSE Conclude(t, b, "SUCCEEDED")
      BY DEF TakeAlgorithms, Attempt
    <2> HIDE DEF x
    <2>3. Attempt(b) /\ b.c = x /\ b.slot = a.slot /\ b.meas = a.meas /\ b.afm = a.afm
      BY <1>3, <2>1
    <2> HIDE DEF b
    <2>4. Named(d, b) /\ a.c.remote = d.caps /\ b.c.remote = d.caps
      <3>1. a.c.remote = d.caps
        BY <1>6 DEF Knows
      <3> QED
        BY <1>2, <1>6, <2>1, <2>3, <3>1, AlikeKnown DEF Named, Naming
    <2>5. Learned(d, e, a, Go(t, b, "GET_DIGESTS"))
      BY <2>4, NamingLearned DEF Naming
    <2>6. "CERT" \notin a.c.remote => Learned(d, e, a, Conclude(t, b, "SUCCEEDED"))
      <3>1. "CERT" \notin a.c.remote => Passed(d, e)
        BY <2>4 DEF Passed, Measurable
      <3> QED
        BY <2>3, <3>1, ConcludeLearned
    <2> QED
      BY <2>2, <2>5, <2>6, ConcludeLearned
  <1> QED
    BY <1>4, <1>5, <1>6

LEMMA ChainOfSlot ==
  ASSUME NEW d, NEW s \in Slots
  PROVE  Chains(d)[s + 1] = d.slots[s]
  <1>1. PICK k \in 1..8 : Slots = 0..(k - 1)
    BY SlotsFromZero
  <1>2. Cardinality(0..(k - 1)) = k
    BY FS_Interval
  <1>3. s \in 0..(k - 1) /\ s + 1 \in 1..k /\ (s + 1) - 1 = s
    BY <1>1
  <1>4. s + 1 \in 1..Cardinality(Slots)
    BY <1>1, <1>2, <1>3
  <1> QED
    BY <1>3, <1>4 DEF Chains

LEMMA DigestsLearned ==
  ASSUME NEW d, NEW e, NEW t, NEW a, Attempt(a), Knows(d, e, a), a.pc = "GET_DIGESTS",
         NEW req, NEW m, Told(d, req, m)
  PROVE  Learned(d, e, a, TakeDigests(t, a, req, m))
  <1> DEFINE mask == {s \in Slots : m.data[s + 1] # 0}
             cert == [s \in Slots |-> IF s \in mask THEN [a.c.cert[s] EXCEPT !.digest = m.data[s + 1]]
                                      ELSE a.c.cert[s]]
             c == [a.c EXCEPT !.mask = mask, !.cert = cert]
             x == UpdateM1M2(c, req, m)
             b == [a EXCEPT !.c = x]
  <1>1. Context(a.c) /\ Named(d, a) /\ a.c.remote = d.caps
    BY DEF Attempt, Knows, Named, Naming
  <1>2. TakeDigests(t, a, req, m) =
          IF ~Answers(m, req, "DIGESTS") THEN Conclude(t, a, "DIGEST")
          ELSE IF mask = {} THEN Go(t, b, "CHALLENGE")
          ELSE NextSlot(t, b, -1)
    BY <1>1 DEF TakeDigests, Context, ContextFields
  <1>3. mask \subseteq Slots
    OBVIOUS
  <1>4. Context(c) /\ c.mask = mask /\ c.remote = a.c.remote /\ c.cert = cert
    <2> HIDE DEF mask
    <2> QED
      BY <1>1 DEF Context, ContextFields
  <1>5. /\ \A s \in Slots : cert[s].leaf = a.c.cert[s].leaf
        /\ \A s \in Slots : cert[s].digest = IF s \in mask THEN m.data[s + 1] ELSE a.c.cert[s].digest
    <2> HIDE DEF mask
    <2> QED
      BY <1>1 DEF Context
  <1> HIDE DEF cert
  <1>6. ASSUME Answers(m, req, "DIGESTS") PROVE Certified(d, c) /\ Unproven(c)
    <2>1. \A s \in Slots : m.data[s + 1] = d.slots[s]
      BY <1>6, ChainOfSlot DEF Answers, Told
    <2> HIDE DEF mask
    <2> HIDE DEF c
    <2>2. \A s \in Slots : cert[s].leaf = 0
      BY <1>1, <1>5 DEF Named, Unproven
    <2> QED
      BY <1>1, <1>4, <1>5, <2>1, <2>2 DEF Named, Certified, Unproven
  <1> HIDE DEF c, mask
  <1>7. Context(x) /\ Alike(c, x)
    BY <1>4, ContextTranscripts, TranscriptsAlike
  <1> HIDE DEF x
  <1>8. Attempt(b) /\ b.c = x /\ b.slot = a.slot /\ b.meas = a.meas /\ b.afm = a.afm
    BY <1>7 DEF Attempt, AttFields
  <1> HIDE DEF b
  <1>9. ASSUME Answers(m, req, "DIGESTS")
        PROVE  /\ Learned(d, e, a, Go(t, b, "CHALLENGE")) /\ Learned(d, e, a, NextSlot(t, b, -1))
    <2>1. Named(d, b)
      BY <1>1, <1>6, <1>7, <1>8, <1>9, AlikeKnown DEF Named
    <2>2. b.c.remote = d.caps /\ b.c.mask \subseteq Slots
      BY <1>1, <1>3, <1>4, <1>7, <1>8 DEF Alike
    <2> QED
      BY <2>1, <2>2, NamingLearned, NextSlotLearned DEF Naming
  <1> QED
    BY <1>1, <1>2, <1>9, ConcludeLearned DEF Named

LEMMA CertificateLearned ==
  ASSUME NEW d, NEW e, NEW t, NEW a, Attempt(a), Knows(d, e, a), a.pc = "GET_CERTIFICATE",
         NEW req, NEW m, Told(d, req, m), Asked(a, req)
  PROVE  Learned(d, e, a, TakeCertificate(t, a, req, m))
  <1> DEFINE s     == a.slot
             chain == m.data[1]
             rest  == m.data[3]
             c     == [a.c EXCEPT !.cert[s].data = chain]
             u     == UpdateM1M2(c, req, m)
             took  == [a EXCEPT !.c = u]
             v     == [u EXCEPT !.cert[s] = [@ EXCEPT !.data = 0, !.leaf = 0], !.mask = @ \ {s}]
             w     == [u EXCEPT !.cert[s].leaf = chain]
             more  == [took EXCEPT !.part = @ + 1]
             bad   == [a EXCEPT !.c = v]
             good  == [a EXCEPT !.c = w]
  <1>1. /\ Context(a.c) /\ Named(d, a) /\ a.c.remote = d.caps
        /\ s \in Slots /\ a.c.mask \subseteq Slots
    BY DEF Attempt, Knows, Named, Naming
  <1>2. Context(c) /\ c.mask = a.c.mask /\ c.remote = a.c.remote
    BY <1>1, CertKept DEF Context, ContextFields
  <1>3. \A i \in Slots : c.cert[i].digest = a.c.cert[i].digest /\ c.cert[i].leaf = a.c.cert[i].leaf
    BY <1>1 DEF Context, ContextFields
  <1>4. Certified(d, c) /\ Unproven(c)
    <2> HIDE DEF c
    <2> QED
      BY <1>1, <1>3 DEF Named, Certified, Unproven
  <1> HIDE DEF c
  <1>5. Context(u) /\ Alike(c, u)
    BY <1>2, ContextTranscripts, TranscriptsAlike
  <1>6. Certified(d, u) /\ Unproven(u) /\ u.remote = d.caps /\ u.mask \subseteq Slots
    BY <1>1, <1>2, <1>4, <1>5, AlikeKnown
  <1>7. u.cert[s].digest = a.c.cert[s].digest
    BY <1>1, <1>3, <1>5 DEF Alike
  <1>8. TakeCertificate(t, a, req, m) =
          IF ~Answers(m, req, "CERTIFICATE") \/ m.data = <<>> THEN NextSlot(t, a, s)
          ELSE IF rest # 0 THEN Go(t, more, "GET_CERTIFICATE")
          ELSE IF chain # a.c.cert[s].digest THEN NextSlot(t, took, s)
          ELSE IF chain \notin RootedChain THEN NextSlot(t, bad, s)
          ELSE Go(t, good, "CHALLENGE")
    <2>1. took = [a EXCEPT !.c = UpdateM1M2([@ EXCEPT !.cert[s].data = chain], req, m)]
      BY DEF Attempt, AttFields, c
    <2> HIDE DEF u
    <2>2. /\ bad = [took EXCEPT !.c.cert[s] = [@ EXCEPT !.data = 0, !.leaf = 0], !.c.mask = @ \ {s}]
          /\ good = [took EXCEPT !.c.cert[s].leaf = chain]
      BY <1>5 DEF Attempt, AttFields, Context, ContextFields
    <2> HIDE DEF took, bad, good
    <2> QED
      BY <2>1, <2>2, SMTT(20) DEF TakeCertificate
  <1> HIDE DEF u
  <1>9. /\ Context(v) /\ Certified(d, v) /\ Unproven(v)
        /\ v.remote = d.caps /\ v.mask \subseteq Slots
    <2>1. Context(v) /\ v.remote = u.remote /\ v.mask = u.mask \ {s}
      BY <1>5 DEF Context, ContextFields
    <2>2. \A i \in Slots : v.cert[i].digest = u.cert[i].digest /\ v.cert[i].leaf \in {0, u.cert[i].leaf}
      BY <1>5 DEF Context, ContextFields
    <2> HIDE DEF v
    <2> QED
      BY <1>6, <2>1, <2>2 DEF Certified, Unproven
  <1>10. /\ Context(w) /\ w.remote = d.caps
         /\ \A i \in Slots : /\ w.cert[i].digest = u.cert[i].digest
                             /\ w.cert[i].leaf = IF i = s THEN chain ELSE 0
    <2>1. Context(w) /\ w.remote = u.remote
      BY <1>5 DEF Context, ContextFields
    <2>2. \A i \in Slots : /\ w.cert[i].digest = u.cert[i].digest
                           /\ w.cert[i].leaf = IF i = s THEN chain ELSE u.cert[i].leaf
      BY <1>5 DEF Context, ContextFields
    <2> HIDE DEF w
    <2> QED
      BY <1>6, <2>1, <2>2 DEF Unproven
  <1> HIDE DEF v, w
  <1>11. \A x : Context(x) => LET b == [a EXCEPT !.c = x]
                              IN  /\ Attempt(b) /\ b.c = x /\ b.slot = s
                                  /\ b.meas = a.meas /\ b.afm = a.afm
    BY DEF Attempt, AttFields
  <1>12. /\ Named(d, took) /\ took.c = u /\ Named(d, bad) /\ bad.c = v
         /\ Attempt(good) /\ good.c = w /\ good.slot = s /\ good.meas = 0 /\ good.afm = 0
    BY <1>1, <1>5, <1>6, <1>9, <1>10, <1>11 DEF Named
  <1>13. Named(d, more) /\ more.c = u
    <2> HIDE DEF took
    <2> QED
      BY <1>12 DEF Named, Attempt, AttFields
  <1> HIDE DEF took, bad, good, more
  <1>14. Learned(d, e, a, Go(t, more, "GET_CERTIFICATE"))
    BY <1>6, <1>13, NamingLearned DEF Naming
  <1>15. /\ Learned(d, e, a, NextSlot(t, a, s)) /\ Learned(d, e, a, NextSlot(t, took, s))
         /\ Learned(d, e, a, NextSlot(t, bad, s))
    BY <1>1, <1>6, <1>9, <1>12, NextSlotLearned
  <1>16. ASSUME Answers(m, req, "CERTIFICATE"), m.data # <<>>, chain = a.c.cert[s].digest,
                chain \in RootedChain
         PROVE  Learned(d, e, a, Go(t, good, "CHALLENGE"))
    <2>1. chain = d.served[s]
      BY <1>16 DEF Answers, Told, Asked
    <2>2. chain # 0 => chain = d.slots[s]
      BY <1>1, <1>16 DEF Named, Certified
    <2>3. Certified(d, w)
      BY <1>1, <1>6, <1>10, <1>16, <2>1, <2>2 DEF Certified
    <2> DEFINE o == Go(t, good, "CHALLENGE")
    <2>4. /\ o.a.pc = "CHALLENGE" /\ o.a.c = w /\ o.a.slot = s /\ o.a.meas = 0 /\ o.a.afm = 0
      BY <1>12, GoFields
    <2> HIDE DEF o
    <2>5. o.a.pc \notin Naming \cup Counting \cup Comparing \cup Keying
      BY <2>4 DEF Naming, Counting, Comparing, Keying, Encap
    <2>6. Knows(d, e, o.a)
      BY <1>1, <1>10, <2>3, <2>4, <2>5 DEF Knows
    <2>7. ~Pass(o.a) /\ o.a.pc # "KEEP_ALIVE"
      BY <2>4 DEF Pass
    <2> QED
      BY <2>6, <2>7, Zenon DEF Learned, o
  <1> HIDE DEF chain, rest, s
  <1> QED
    BY <1>8, <1>14, <1>15, <1>16

LEMMA ChallengeLearned ==
  ASSUME NEW d, NEW e, NEW t, NEW a, Attempt(a), Knows(d, e, a), a.pc = "CHALLENGE",
         NEW req, NEW m, Told(d, req, m)
  PROVE  Learned(d, e, a, TakeChallengeAuth(t, a, req, m))
  <1> DEFINE m1 == UpdateM1M2(a.c, req, m)
             x == ResetL1L2(ResetM1M2(m1), m1.selected)
             b == [a EXCEPT !.c = x]
             o == Go(t, b, "TOTAL")
  <1>1. /\ Context(a.c) /\ Certified(d, a.c) /\ a.slot \in Slots /\ a.meas = 0 /\ a.afm = 0
        /\ a.c.remote = d.caps /\ \A s \in Slots : a.c.cert[s].leaf # 0 => s = a.slot
    BY DEF Attempt, Knows
  <1>2. TakeChallengeAuth(t, a, req, m) =
          IF ~Answers(m, req, "CHALLENGE_AUTH") \/ ~Verifies(a.c, a.slot, m.sig, m1.m1m2)
          THEN Conclude(t, a, "CHALLENGE_AUTH") ELSE o
    BY DEF TakeChallengeAuth
  <1>3. Context(x) /\ Alike(a.c, x)
    <2>1. Context(m1) /\ Alike(a.c, m1)
      BY <1>1, ContextTranscripts, TranscriptsAlike
    <2> HIDE DEF m1
    <2>2. Context(ResetM1M2(m1)) /\ Alike(m1, ResetM1M2(m1))
      BY <2>1, ContextTranscripts, TranscriptsAlike
    <2>3. Context(x) /\ Alike(ResetM1M2(m1), x)
      BY <2>2, ContextTranscripts, TranscriptsAlike
    <2> QED
      BY <2>1, <2>2, <2>3, Zenon DEF Alike
  <1> HIDE DEF x
  <1>4. ASSUME Answers(m, req, "CHALLENGE_AUTH"), Verifies(a.c, a.slot, m.sig, m1.m1m2)
        PROVE  Learned(d, e, a, o)
    <2>1. a.c.cert[a.slot].leaf # 0 /\ m.sig.key = ChainOwner[a.c.cert[a.slot].leaf]
      <3> HIDE DEF m1
      <3> QED
        BY <1>4 DEF Verifies, Sign
    <2>2. m.sig.key = d.key
      BY <1>4 DEF Answers, Told
    <2>3. Identified(d, a.slot)
      BY <1>1, <2>1, <2>2 DEF Certified, Identified
    <2>4. Proven(d, a.c)
      BY <1>1, <2>3 DEF Proven
    <2>5. Proven(d, x) /\ x.remote = d.caps
      BY <1>1, <1>3, <2>4, AlikeKnown
    <2>6. Attempt(b) /\ b.c = x /\ b.meas = 0 /\ b.afm = 0
      BY <1>1, <1>3 DEF Attempt, AttFields
    <2> HIDE DEF b
    <2>7. o.a.pc = "TOTAL" /\ o.a.c = x /\ o.a.meas = 0 /\ o.a.afm = 0
      BY <2>6, GoFields
    <2> HIDE DEF o
    <2>8. o.a.pc \notin Naming \cup Comparing \cup Keying
      BY <2>7 DEF Naming, Comparing, Keying, Encap
    <2>9. Knows(d, e, o.a)
      BY <2>5, <2>7, <2>8 DEF Knows
    <2>10. ~Pass(o.a) /\ o.a.pc # "KEEP_ALIVE"
      BY <2>7 DEF Pass
    <2> QED
      BY <2>9, <2>10, Zenon DEF Learned
  <1> QED
    BY <1>2, <1>4, ConcludeLearned

LEMMA NextMeasurementLearned ==
  ASSUME NEW d, NEW e, NEW a, NEW t, NEW b, Attempt(b), b.c.remote = d.caps, Proven(d, b.c),
         b.meas \in Nat, b.afm \in Nat,
         Measurable(d) => Altered(d) \/ Progress(d, e, b.afm, b.meas + 1)
  PROVE  Learned(d, e, a, NextMeasurement(t, b))
  <1> DEFINE n == [b EXCEPT !.meas = @ + 1]
             pc == IF InSession(b) THEN "SESSION_MEASURE" ELSE "MEASURE"
             o == Go(t, n, pc)
  <1>1. NextMeasurement(t, b) =
          IF b.meas + 1 = AllMeasurements THEN Conclude(t, b, "MEASUREMENTS") ELSE o
    BY DEF NextMeasurement
  <1>2. Attempt(n) /\ n.c = b.c /\ n.meas = b.meas + 1 /\ n.afm = b.afm
    BY DEF Attempt, AttFields
  <1> HIDE DEF n
  <1>3. o.a.pc = pc /\ o.a.c = b.c /\ o.a.meas = b.meas + 1 /\ o.a.afm = b.afm
    BY <1>2, GoFields
  <1>4. /\ pc \in Comparing /\ pc # "GET_CERTIFICATE"
        /\ pc \notin Naming \cup Keying \cup {"CHALLENGE", "TOTAL", "SESSION_TOTAL"}
    BY DEF Comparing, Naming, Keying, Encap
  <1>5. pc \notin {"VERDICT", "KEEP_ALIVE"}
    OBVIOUS
  <1> HIDE DEF o, pc
  <1>6. Knows(d, e, o.a)
    <2>1. o.a.meas \in Nat \ {0}
      BY <1>3
    <2> QED
      BY <1>3, <1>4, <2>1 DEF Knows
  <1>7. ~Pass(o.a) /\ o.a.pc # "KEEP_ALIVE"
    BY <1>3, <1>5 DEF Pass
  <1>8. Learned(d, e, a, o)
    BY <1>6, <1>7, Zenon DEF Learned
  <1> QED
    BY <1>1, <1>8, ConcludeLearned

LEMMA TotalLearned ==
  ASSUME NEW d, NEW e, NEW t, NEW a, Attempt(a), Knows(d, e, a),
         a.pc \in {"TOTAL", "SESSION_TOTAL"}, NEW req, NEW m
  PROVE  Learned(d, e, a, TakeTotal(e, t, a, req, m))
  <1> DEFINE x == UpdateL1L2(a.c, req, m)
             b == [a EXCEPT !.c = x]
  <1>1. Context(a.c) /\ a.meas = 0 /\ a.afm = 0 /\ a.c.remote = d.caps /\ Proven(d, a.c)
    BY DEF Attempt, Knows, Counting
  <1>2. TakeTotal(e, t, a, req, m) =
          IF ~Answers(m, req, "MEASUREMENTS") \/ m.p1 < Len(e.expect)
          THEN Conclude(t, a, "MEASUREMENTS") ELSE NextMeasurement(t, b)
    BY DEF TakeTotal, Attempt
  <1>3. Context(x) /\ Alike(a.c, x)
    BY <1>1, ContextTranscripts, TranscriptsAlike
  <1> HIDE DEF x
  <1>4. Proven(d, x) /\ x.remote = d.caps
    BY <1>1, <1>3, AlikeKnown
  <1>5. Attempt(b) /\ b.c = x /\ b.meas = 0 /\ b.afm = 0
    BY <1>1, <1>3 DEF Attempt, AttFields
  <1> HIDE DEF b
  <1>6. Progress(d, e, b.afm, b.meas + 1)
    BY <1>5, ProgressStart
  <1>7. Learned(d, e, a, NextMeasurement(t, b))
    BY <1>4, <1>5, <1>6, NextMeasurementLearned
  <1> QED
    BY <1>2, <1>7, ConcludeLearned

\* One more measurement compared.
LEMMA Compared ==
  ASSUME NEW d, NEW e, NEW a, Attempt(a), Knows(d, e, a), a.pc \in Comparing,
         NEW req, Asked(a, req), NEW m, Told(d, req, m), NEW k,
         k = IF MeasurementResult(e, a, req, m).is = "OK" THEN a.afm + 1 ELSE a.afm
  PROVE  /\ k \in Nat
         /\ Measurable(d) => Altered(d) \/ Progress(d, e, k, a.meas + 1)
  <1> DEFINE l1 == UpdateL1L2(a.c, req, m)
             r == MeasurementResult(e, a, req, m)
  <1>1. /\ a.c.remote = d.caps /\ a.meas \in Nat \ {0} /\ a.afm \in Nat
        /\ Measurable(d) => Altered(d) \/ Progress(d, e, a.afm, a.meas)
        /\ req.p1 = MeasAttr(a.c) /\ req.p2 = a.meas
    BY DEF Knows, Counting, Asked
  <1>2. k \in Nat
    <2> HIDE DEF r
    <2> QED
      BY <1>1
  <1>3. ASSUME Measurable(d), ~Altered(d) PROVE Progress(d, e, k, a.meas + 1)
    <2>1. Progress(d, e, a.afm, a.meas) /\ req.p1 # 0
      BY <1>1, <1>3 DEF Measurable, MeasAttr
    <2>2. CASE r.is # "OK"
      BY <1>1, <2>1, <2>2, ProgressWider
    <2>3. CASE r.is = "OK"
      <3>1. Answers(m, req, "MEASUREMENTS") /\ m.data[2] \in e.expect[a.afm + 1]
        <4> HIDE DEF l1
        <4> QED
          BY <2>1, <2>3 DEF MeasurementResult, l1
      <3>2. a.meas \in DOMAIN d.meas /\ m.data[2] = d.meas[a.meas]
        BY <1>1, <1>3, <3>1 DEF Answers, Told
      <3>3. Progress(d, e, a.afm + 1, a.meas + 1)
        BY <1>1, <2>1, <3>1, <3>2, ProgressMore
      <3> QED
        BY <2>3, <3>3
    <2> QED
      BY <2>2, <2>3
  <1> QED
    BY <1>2, <1>3

LEMMA MeasurementLearned ==
  ASSUME NEW d, NEW e \in AfmEntries, NEW t, NEW a, Attempt(a), Knows(d, e, a), a.pc \in Comparing,
         NEW req, Asked(a, req), NEW m, Told(d, req, m)
  PROVE  Learned(d, e, a, TakeMeasurement(e, t, a, req, m))
  <1> DEFINE r == MeasurementResult(e, a, req, m)
             k == IF r.is = "OK" THEN a.afm + 1 ELSE a.afm
             l1 == UpdateL1L2(a.c, req, m)
             heard == [a EXCEPT !.c = r.c, !.afm = k]
             o == Go(t, heard, "KEY_EXCHANGE")
  <1>1. /\ Context(a.c) /\ a.c.remote = d.caps /\ Proven(d, a.c) /\ a.meas \in Nat \ {0}
        /\ a.afm \in Nat
    BY DEF Attempt, Knows, Counting
  <1>2. k \in Nat /\ (Measurable(d) => Altered(d) \/ Progress(d, e, k, a.meas + 1))
    BY Compared
  <1>3. Context(r.c) /\ Alike(a.c, r.c)
    <2>1. Context(l1) /\ Alike(a.c, l1)
      BY <1>1, ContextTranscripts, TranscriptsAlike
    <2>2. r.c \in {a.c, l1, ResetL1L2(l1, req.ver)}
      <3> HIDE DEF l1
      <3> QED
        BY DEF MeasurementResult, l1
    <2> HIDE DEF l1, r
    <2>3. Context(ResetL1L2(l1, req.ver)) /\ Alike(l1, ResetL1L2(l1, req.ver))
      BY <2>1, ContextTranscripts, TranscriptsAlike
    <2> QED
      BY <1>1, <2>1, <2>2, <2>3 DEF Alike
  <1>4. TakeMeasurement(e, t, a, req, m) =
          CASE r.is \in {"INVALID_SIG", "GET_FAILED"} -> Conclude(t, heard, "MEASUREMENTS")
            [] r.is \in {"OK", "NOT_FOUND"} /\ heard.afm < Len(e.expect) -> NextMeasurement(t, heard)
            [] OTHER -> IF e.i3c /\ ~InSession(a) THEN o ELSE Conclude(t, heard, "SUCCEEDED")
    BY DEF TakeMeasurement, Attempt, AttFields
  <1>5. r.is \in {"INVALID_SIG", "GET_FAILED", "OK", "NOT_FOUND"}
    <2> HIDE DEF l1
    <2> QED
      BY DEF MeasurementResult
  <1> HIDE DEF r, k
  <1>6. Attempt(heard) /\ heard.c = r.c /\ heard.meas = a.meas /\ heard.afm = k
    BY <1>3 DEF Attempt, AttFields
  <1>7. Proven(d, r.c) /\ r.c.remote = d.caps
    BY <1>1, <1>3, AlikeKnown
  <1> HIDE DEF heard
  <1>8. Learned(d, e, a, NextMeasurement(t, heard))
    BY <1>1, <1>2, <1>6, <1>7, NextMeasurementLearned
  <1>9. ASSUME ~(heard.afm < Len(e.expect)) PROVE Passed(d, e)
    <2>1. Len(e.expect) \in Nat
      BY DEF AfmEntries
    <2>2. Len(e.expect) <= k
      BY <1>2, <1>6, <1>9, <2>1
    <2>3. Measurable(d) => Altered(d) \/ Measured(d, e)
      BY <1>2, <2>2, ProgressDone
    <2> QED
      BY <1>1, <2>3 DEF Passed, Proven
  <1>10. ASSUME Passed(d, e) PROVE Learned(d, e, a, o)
    <2>1. o.a.pc = "KEY_EXCHANGE" /\ o.a.c = r.c
      BY <1>6, GoFields
    <2> HIDE DEF o
    <2>2. o.a.pc \notin Naming \cup Comparing \cup {"CHALLENGE", "TOTAL", "SESSION_TOTAL"}
      BY <2>1 DEF Naming, Comparing
    <2>3. Knows(d, e, o.a)
      BY <1>7, <1>10, <2>1, <2>2 DEF Knows
    <2>4. ~Pass(o.a) /\ o.a.pc # "KEEP_ALIVE"
      BY <2>1 DEF Pass
    <2> QED
      BY <2>3, <2>4, Zenon DEF Learned
  <1>11. /\ Learned(d, e, a, Conclude(t, heard, "MEASUREMENTS"))
         /\ Passed(d, e) => Learned(d, e, a, Conclude(t, heard, "SUCCEEDED"))
    BY <1>6, ConcludeLearned
  <1> HIDE DEF o
  <1> QED
    BY <1>4, <1>5, <1>8, <1>9, <1>10, <1>11

\* From the key exchange on, the device has passed.
LEMMA KeyingLearned ==
  ASSUME NEW d, NEW e, NEW a, Attempt(a), Knows(d, e, a), a.pc \in Keying,
         NEW b, b.pc \in Keying, b.c.cert = a.c.cert, b.c.remote = a.c.remote
  PROVE  Knows(d, e, b) /\ ~Pass(b) /\ b.pc # "KEEP_ALIVE" /\ Passed(d, e)
  <1>1. b.pc \notin Naming \cup Comparing \cup {"GET_CERTIFICATE", "CHALLENGE", "TOTAL", "SESSION_TOTAL",
                                                "VERDICT", "KEEP_ALIVE"}
    BY DEF Naming, Comparing, Keying, Encap
  <1>2. a.c.remote = d.caps /\ Proven(d, a.c) /\ Passed(d, e)
    BY DEF Knows
  <1>3. Proven(d, b.c) /\ b.c.remote = d.caps
    BY <1>2 DEF Proven
  <1> QED
    BY <1>1, <1>2, <1>3 DEF Knows, Pass

LEMMA KeyExchangeLearned ==
  ASSUME NEW d, NEW e, NEW t, NEW a, Attempt(a), Knows(d, e, a), a.pc = "KEY_EXCHANGE",
         NEW req, NEW m, NEW o \in TakeKeyExchange(e, t, a, req, m)
  PROVE  Learned(d, e, a, o)
  <1> DEFINE i    == a.sess
             s    == t[i]
             th1  == a.c.msgA \o <<CertHash(a.c.cert[0].digest), req, Bare(m)>>
             th2  == a.c.msgA \o <<CertHash(a.c.cert[0].digest), req, m>>
             good == Verifies(a.c, 0, m.sig, th1)
             met  == [s EXCEPT !.id[2] = m.data[1], !.hb = m.p1 # 0,
                               !.ver = a.c.selected, !.dst = e.index]
             sess == IF good THEN [PrepareHandshake(met, th2) EXCEPT !.state = "KEY_EXCHANGED"]
                     ELSE met
             unmet == [s EXCEPT !.ver = a.c.selected, !.dst = e.index]
             th == IF good THEN th2 ELSE th1
             b == [a EXCEPT !.c.th2 = th]
             pc(mut) == IF mut = 4 THEN "ENCAP_DIGESTS" ELSE "FINISH"
             go(u, x, mut) == Go(u, [x EXCEPT !.mut = mut], pc(mut))
  <1>1. o \in IF m = NoAnswer THEN {Conclude(t, a, "KEY_EXCHANGE")}
              ELSE IF m.code = "KEY_EXCHANGE_RSP" THEN {go([t EXCEPT ![i] = sess], b, m.data[2])}
              ELSE {go([t EXCEPT ![i] = unmet], a, mut) : mut \in {0, 4}}
    <2>1. \A u, x, mut : LET y == Outcome(u, x) IN
             Go(y.t, [y.a EXCEPT !.mut = mut], pc(mut)) = go(u, x, mut)
      BY DEF Outcome
    <2>2. unmet = [t[i] EXCEPT !.ver = a.c.selected, !.dst = e.index]
      OBVIOUS
    <2> QED
      BY DEF TakeKeyExchange, Outcome
  <1> HIDE DEF sess, unmet
  <1>2. \/ o = Conclude(t, a, "KEY_EXCHANGE")
        \/ \E u, mut : o = go(u, b, mut) \/ o = go(u, a, mut)
    <2> HIDE DEF go, b
    <2> QED
      BY <1>1
  <1>3. Context(a.c)
    BY DEF Attempt
  <1>4. b.c.cert = a.c.cert /\ b.c.remote = a.c.remote /\ DOMAIN b = AttFields
    <2> HIDE DEF th
    <2> QED
      BY <1>3 DEF Attempt, AttFields, Context, ContextFields
  <1> HIDE DEF b
  <1>5. ASSUME NEW u, NEW x, NEW mut, x \in {a, b} PROVE Learned(d, e, a, go(u, x, mut))
    <2> DEFINE y == go(u, x, mut)
    <2>1. DOMAIN x = AttFields /\ x.c.cert = a.c.cert /\ x.c.remote = a.c.remote
      BY <1>4, <1>5 DEF Attempt
    <2>2. y.a.pc = pc(mut) /\ y.a.c = x.c
      BY <2>1 DEF Go, Outcome, AttFields
    <2>3. pc(mut) \in Keying /\ a.pc \in Keying
      BY DEF Keying, Encap
    <2> HIDE DEF y, pc
    <2> QED
      BY <2>1, <2>2, <2>3, KeyingLearned DEF Learned, y
  <1> HIDE DEF go
  <1>6. Learned(d, e, a, Conclude(t, a, "KEY_EXCHANGE"))
    BY ConcludeLearned
  <1> QED
    BY <1>2, <1>5, <1>6

LEMMA EncapLearned ==
  ASSUME NEW d, NEW e, NEW t, NEW a, Attempt(a), Knows(d, e, a), a.pc \in Encap,
         NEW req, NEW m
  PROVE  Learned(d, e, a, TakeEncapAck(t, a, req, m))
  <1> DEFINE b == [a EXCEPT !.slot = m.data[1], !.part = m.data[2]]
             fail == Conclude(t, a, "MUTUAL_AUTH")
             finish == Go(t, a, "FINISH")
             more == Go(t, b, "ENCAP_CERTIFICATE")
  <1>1. TakeEncapAck(t, a, req, m) \in {fail, finish, more}
    BY DEF TakeEncapAck
  <1>2. Learned(d, e, a, fail)
    BY ConcludeLearned
  <1>3. Attempt(b) /\ b.c = a.c
    BY DEF Attempt, AttFields
  <1> HIDE DEF b
  <1>4. /\ finish.a.pc \in Keying /\ finish.a.c = a.c /\ more.a.pc \in Keying /\ more.a.c = a.c
        /\ a.pc \in Keying
    BY <1>3, GoFields DEF Keying, Encap
  <1> HIDE DEF fail, finish, more
  <1>5. Learned(d, e, a, finish) /\ Learned(d, e, a, more)
    BY <1>4, KeyingLearned DEF Learned
  <1> QED
    BY <1>1, <1>2, <1>5

LEMMA FinishLearned ==
  ASSUME NEW d, NEW e, NEW t, NEW a, Attempt(a), Knows(d, e, a), a.pc = "FINISH",
         NEW own, NEW req, NEW m
  PROVE  Learned(d, e, a, TakeFinish(own, e, t, a, req, m))
  <1> DEFINE o == TakeFinish(own, e, t, a, req, m)
  <1>1. o = Conclude(t, a, "FINISH") \/ \E u : o = Go(u, a, "HEARTBEAT")
    BY DEF TakeFinish
  <1>2. Learned(d, e, a, Conclude(t, a, "FINISH"))
    BY ConcludeLearned
  <1>3. ASSUME NEW u PROVE Learned(d, e, a, Go(u, a, "HEARTBEAT"))
    <2> DEFINE y == Go(u, a, "HEARTBEAT")
    <2>1. y.a.pc \in Keying /\ y.a.c = a.c /\ a.pc \in Keying
      BY GoFields DEF Keying
    <2> HIDE DEF y
    <2> QED
      BY <2>1, KeyingLearned DEF Learned, y
  <1> QED
    BY <1>1, <1>2, <1>3

LEMMA HeartbeatLearned ==
  ASSUME NEW d, NEW e, NEW t, NEW a, Attempt(a), Knows(d, e, a),
         a.pc \in {"HEARTBEAT", "KEEP_ALIVE"}, NEW ok
  PROVE  Learned(d, e, a, IF ok THEN Conclude(t, a, "SUCCEEDED") ELSE Conclude(t, a, "HEARTBEAT"))
  <1>1. a.pc = "HEARTBEAT" => Passed(d, e)
    BY DEF Knows, Keying
  <1> QED
    BY <1>1, ConcludeLearned

\* What an attestation knows after an answer.
LEMMA TakeLearned ==
  ASSUME NEW d, NEW own, NEW e \in AfmEntries, NEW t, NEW a, Attempt(a), Knows(d, e, a),
         a.pc \in Pcs \ {"IDLE", "VERDICT"},
         NEW req, Asked(a, req), NEW m, Told(d, req, m), NEW o \in Take(own, e, t, a, req, m)
  PROVE  Learned(d, e, a, o)
  <1>1. CASE a.pc \in {"GET_VERSION", "GET_CAPABILITIES", "NEGOTIATE_ALGORITHMS"}
    BY <1>1, VcaLearned DEF Take
  <1>2. CASE a.pc \in {"GET_DIGESTS", "GET_CERTIFICATE", "CHALLENGE"}
    BY <1>2, DigestsLearned, CertificateLearned, ChallengeLearned DEF Take
  <1>3. CASE a.pc \in {"TOTAL", "SESSION_TOTAL"}
    BY <1>3, TotalLearned DEF Take
  <1>4. CASE a.pc \in {"MEASURE", "SESSION_MEASURE"}
    BY <1>4, MeasurementLearned DEF Take, Comparing
  <1>5. CASE a.pc = "KEY_EXCHANGE"
    BY <1>5, KeyExchangeLearned DEF Take
  <1>6. CASE a.pc \in Encap
    BY <1>6, EncapLearned DEF Take, Encap
  <1>7. CASE a.pc = "FINISH"
    BY <1>7, FinishLearned DEF Take
  <1>8. CASE a.pc \in {"HEARTBEAT", "KEEP_ALIVE"}
    <2>1. PICK ok \in HeartbeatHeard(m) :
            o = IF ok THEN Conclude(t, a, "SUCCEEDED") ELSE Conclude(t, a, "HEARTBEAT")
      BY <1>8 DEF Take
    <2> QED
      BY <1>8, <2>1, HeartbeatLearned
  <1> QED
    BY <1>1, <1>2, <1>3, <1>4, <1>5, <1>6, <1>7, <1>8 DEF Pcs, Early, Encap, Late

\* An answer that is none says nothing.
LEMMA NothingTold ==
  ASSUME NEW d, NEW req
  PROVE  Told(d, req, NoAnswer) /\ Told(d, req, Unset) /\ Told(d, req, BadSeal)
  BY ToldOther DEF NoAnswer, Unset, BadSeal, Msg

-----------------------------------------------------------------------------
(* Sessions vouch for the device they were established with.                *)

\* Sessions that stay established stay with the device.
LEMMA VouchersKept ==
  ASSUME NEW D, NEW n, NEW t, Vouchers(D, n, t), NEW u,
         \A i \in 1..MaxSession : u[i].valid /\ u[i].state = "ESTABLISHED" =>
           /\ t[i].valid /\ t[i].state = "ESTABLISHED" /\ u[i].afm = t[i].afm
           /\ u[i].flags = t[i].flags /\ u[i].leaf = t[i].leaf
  PROVE  Vouchers(D, n, u)
  <1> SUFFICES ASSUME NEW i \in 1..MaxSession, u[i].valid, u[i].state = "ESTABLISHED"
               PROVE  \E k \in DOMAIN D[n].afm : /\ u[i].afm = D[n].afm[k].index
                                                 /\ Vouched(D[D[n].afm[k].peer], u[i])
    BY DEF Vouchers
  <1>1. PICK k \in DOMAIN D[n].afm : /\ t[i].afm = D[n].afm[k].index
                                     /\ Vouched(D[D[n].afm[k].peer], t[i])
    BY DEF Vouchers
  <1>2. Vouched(D[D[n].afm[k].peer], u[i])
    BY <1>1 DEF Vouched
  <1> QED
    BY <1>1, <1>2

LEMMA VouchersMoved ==
  ASSUME NEW D, NEW n, NEW t, Vouchers(D, n, t), NEW u, TableMoved(t, u)
  PROVE  Vouchers(D, n, u)
  <1>1. ASSUME NEW i \in 1..MaxSession, u[i].valid, u[i].state = "ESTABLISHED"
        PROVE  /\ t[i].valid /\ t[i].state = "ESTABLISHED" /\ u[i].afm = t[i].afm
               /\ u[i].flags = t[i].flags /\ u[i].leaf = t[i].leaf
    <2>1. Moved(t[i], u[i])
      BY <1>1 DEF TableMoved, EmptySession
    <2> QED
      BY <1>1, <2>1 DEF Moved, SessionFields
  <1> QED
    BY <1>1, VouchersKept

\* The session of a handshake vouches for nothing.
LEMMA VouchersPending ==
  ASSUME NEW D, NEW n, NEW t, Vouchers(D, n, t), NEW u, NEW i \in 1..MaxSession,
         \A j \in 1..MaxSession \ {i} : u[j] = t[j], u[i].state # "ESTABLISHED"
  PROVE  Vouchers(D, n, u)
  BY VouchersKept

\* TakeFinish establishes the session with the device that the attestation knows.
LEMMA FinishVouched ==
  ASSUME NEW own, NEW e, NEW t, Table(t), NEW a, a.fin \in 1..MaxSession, NEW req, NEW m,
         Attempt(a)
  PROVE  LET o == TakeFinish(own, e, t, a, req, m)
         IN  o.a.pc # "VERDICT" =>
               /\ o.t[a.fin].afm = e.index /\ o.t[a.fin].flags[2] = a.c.remote
               /\ o.t[a.fin].leaf = a.c.cert[0].leaf
  <1> DEFINE i    == a.fin
             s    == t[i]
             mut  == CapEnabled(a.c, "MUT_AUTH")
             mac  == [s.rspMac EXCEPT !.over = FinishRspMacOver(@, own.slots[0], req, mut)]
             th2  == a.c.th2 \o (IF mut THEN <<CertHash(own.slots[0])>> ELSE <<>>) \o <<req, m>>
             keys == GenSessionKeys(s, th2)
             sess == [keys EXCEPT
                 !.state = "ESTABLISHED", !.afm = e.index, !.old = FALSE, !.rspMac = NoMac,
                 !.flags = <<a.c.local, a.c.remote>>, !.leaf = a.c.cert[0].leaf,
                 !.msgA = a.c.msgA]
             o == TakeFinish(own, e, t, a, req, m)
             fail == Conclude(t, a, "FINISH")
             pass == Go([t EXCEPT ![i] = sess], a, "HEARTBEAT")
  <1>1. o = IF m.code # "FINISH_RSP" \/ m.mac # mac THEN fail ELSE pass
    BY DEF TakeFinish
  <1>2. fail.a.pc = "VERDICT"
    BY DEF Conclude, Outcome, Attempt, AttFields
  <1>3. DOMAIN keys = SessionFields
    <2> HIDE DEF th2
    <2> QED
      BY DEF GenSessionKeys, Table, Session
  <1> HIDE DEF keys
  <1>4. sess.afm = e.index /\ sess.flags[2] = a.c.remote /\ sess.leaf = a.c.cert[0].leaf
    BY <1>3 DEF SessionFields
  <1> HIDE DEF sess
  <1>5. pass.t[i] = sess
    BY DEF Go, Outcome, Table
  <1> HIDE DEF fail, pass, mac, o
  <1> QED
    BY <1>1, <1>2, <1>4, <1>5 DEF o

\* An answer that is another turn leaves the sessions, or releases one.
LEMMA TurnVouched ==
  ASSUME NEW D, NEW n, NEW t, Table(t), Vouchers(D, n, t), NEW a, a.sess \in 0..MaxSession,
         NEW o, NEW P, Turn(t, a, o, P)
  PROVE  o.a.dev = a.dev /\ Vouchers(D, n, o.t)
  <1>1. o.t = t \/ o.t = Release(t, a.sess)
    BY DEF Turn
  <1>2. TableMoved(t, Release(t, a.sess))
    BY ReleaseMoved
  <1> QED
    BY <1>1, <1>2, VouchersMoved DEF Turn

LEMMA KeyExchangeVouched ==
  ASSUME AgreeInv, NEW n \in Nodes, Receive(n), att[n].pc = "KEY_EXCHANGE",
         Vouchers(dev, n, tab[n]), NEW m,
         NEW o \in Take(dev[n], Entry(n), tab[n], att[n], chan[n].req, m)
  PROVE  o.a.dev = att[n].dev /\ Vouchers(dev, n, o.t)
  <1> DEFINE a == att[n]
             t == tab[n]
             i == a.sess
             e == Entry(n)
  <1>1. /\ Attempt(a) /\ a.dev \in DOMAIN dev[n].afm
        /\ AttesterOK(dev[n], t, a, chan[n]) /\ a.sess \in 0..MaxSession
        /\ HandOK(dev, tab, n, a, chan[n]) /\ ClientTable(dev[n], t) /\ chan[n].st # "IDLE"
    BY ReceiveFacts
  <1>2. o \in TakeKeyExchange(e, t, a, chan[n].req, m)
    BY DEF Take
  <1>3. i \in 1..MaxSession /\ t[i].valid
    BY <1>1 DEF AttesterOK, Shaking
  <1>4. t[i].state = "CHALLENGED" /\ \A x \in Dirs : t[i].key[x].secret = <<>>
    BY <1>1 DEF HandOK, KeyExchangeOK
  <1>5. \E k \in DOMAIN dev[n].afm : dev[n].afm[k].index = e.index
    BY <1>1 DEF Entry, Afm
  <1>6. ClientTable(dev[n], t) /\ Attempt(a) /\ Table(t) /\ Vouchers(dev, n, t)
    BY <1>1 DEF ClientTable
  <1> HIDE DEF e, a, t
  <1>7. /\ o.a.dev = a.dev
        /\ o.a.pc = "VERDICT" => o.t = Release(t, i)
        /\ o.a.pc # "VERDICT" => /\ \A j \in 1..MaxSession \ {i} : o.t[j] = t[j]
                                 /\ o.t[i].state \in {"CHALLENGED", "KEY_EXCHANGED"}
    <2>1. /\ a.sess \in 1..MaxSession /\ t[a.sess].valid /\ t[a.sess].state = "CHALLENGED"
          /\ \A x \in Dirs : t[a.sess].key[x].secret = <<>>
      BY <1>3, <1>4
    <2>2. /\ Attempt(o.a) /\ o.a.sess = a.sess /\ o.a.dev = a.dev
          /\ o.a.pc \in {"VERDICT", "ENCAP_DIGESTS", "FINISH"}
          /\ o.a.pc = "VERDICT" => o.t = Release(t, i)
          /\ o.a.pc # "VERDICT" =>
               /\ ClientTable(dev[n], o.t) /\ \A j \in 1..MaxSession \ {i} : o.t[j] = t[j]
               /\ o.t[i].valid /\ o.t[i].state \in {"CHALLENGED", "KEY_EXCHANGED"}
               /\ o.t[i].state = "KEY_EXCHANGED" => o.t[i].rspMac.over = o.a.c.th2
               /\ o.t[i].id = IF m.code = "KEY_EXCHANGE_RSP" THEN <<t[i].id[1], m.data[1]>>
                              ELSE t[i].id
      BY <1>2, <1>5, <1>6, <2>1, KeyExchangeTaken
    <2> QED
      BY <2>2
  <1>8. CASE o.a.pc = "VERDICT"
    <2>1. TableMoved(t, Release(t, i))
      BY <1>1, <1>6, ReleaseMoved DEF a
    <2> QED
      BY <1>6, <1>7, <1>8, <2>1, VouchersMoved DEF a
  <1>9. CASE o.a.pc # "VERDICT"
    <2>1. Vouchers(dev, n, o.t)
      <3> HIDE DEF i
      <3> QED
        BY <1>3, <1>6, <1>7, <1>9, VouchersPending
    <2> QED
      BY <1>7, <2>1 DEF a
  <1> QED
    BY <1>8, <1>9

LEMMA FinishTakenVouched ==
  ASSUME AgreeInv, NEW n \in Nodes, Receive(n), att[n].pc = "FINISH",
         Vouchers(dev, n, tab[n]), Knows(dev[Peer(n)], Entry(n), att[n]), NEW m,
         NEW o \in Take(dev[n], Entry(n), tab[n], att[n], chan[n].req, m)
  PROVE  o.a.dev = att[n].dev /\ Vouchers(dev, n, o.t)
  <1> DEFINE a == att[n]
             t == tab[n]
             i == a.sess
             e == Entry(n)
             d == dev[Peer(n)]
             req == chan[n].req
  <1>1. /\ Attempt(a) /\ a.dev \in DOMAIN dev[n].afm
        /\ AttesterOK(dev[n], t, a, chan[n]) /\ a.sess \in 0..MaxSession
        /\ HandOK(dev, tab, n, a, chan[n]) /\ ClientTable(dev[n], t) /\ chan[n].st # "IDLE"
    BY ReceiveFacts
  <1>2. o = TakeFinish(dev[n], e, t, a, req, m)
    BY DEF Take
  <1>3. i \in 1..MaxSession /\ t[i].valid
    BY <1>1 DEF AttesterOK, Shaking
  <1>4. a.fin = i /\ t[i].state = "KEY_EXCHANGED"
    BY <1>1 DEF HandOK, FinishOK
  <1>5. /\ a.c.remote = d.caps /\ Proven(d, a.c)
    BY DEF Knows, Keying
  <1>6. /\ a.dev \in DOMAIN dev[n].afm /\ e.index = dev[n].afm[a.dev].index
        /\ dev[dev[n].afm[a.dev].peer] = d
    BY <1>1 DEF Entry, Peer, Afm
  <1>7. ClientTable(dev[n], t) /\ Attempt(a) /\ Table(t) /\ Vouchers(dev, n, t)
    BY <1>1 DEF ClientTable
  <1> HIDE DEF e, t, req, d
  <1>8. /\ o.a.dev = a.dev
        /\ o.a.pc = "VERDICT" => o.t = Release(t, i)
        /\ o.a.pc # "VERDICT" => \A j \in 1..MaxSession \ {i} : o.t[j] = t[j]
    <2> HIDE DEF a
    <2>1. FinishHeard(dev[n], t, a, req, m, o)
      BY <1>2, <1>3, <1>4, <1>7, FinishTaken
    <2> QED
      BY <2>1, Zenon DEF FinishHeard
  <1>9. CASE o.a.pc = "VERDICT"
    <2>1. TableMoved(t, Release(t, i))
      BY <1>1, <1>7, ReleaseMoved
    <2> QED
      BY <1>7, <1>8, <1>9, <2>1, VouchersMoved
  <1>10. CASE o.a.pc # "VERDICT"
    <2>1. o.t[i].afm = e.index /\ o.t[i].flags[2] = a.c.remote /\ o.t[i].leaf = a.c.cert[0].leaf
      <3> HIDE DEF a
      <3> QED
        BY <1>2, <1>3, <1>4, <1>7, <1>10, FinishVouched
    <2>2. Vouched(d, o.t[i])
      BY <1>5, <2>1, SpdmConstants DEF Vouched, Proven
    <2> HIDE DEF a, i
    <2>3. ASSUME NEW j \in 1..MaxSession, o.t[j].valid, o.t[j].state = "ESTABLISHED"
          PROVE  \E k \in DOMAIN dev[n].afm : /\ o.t[j].afm = dev[n].afm[k].index
                                              /\ Vouched(dev[dev[n].afm[k].peer], o.t[j])
      <3>1. CASE j = i
        BY <1>6, <2>1, <2>2, <3>1
      <3>2. CASE j # i
        <4>1. o.t[j] = t[j]
          BY <1>8, <1>10, <3>2
        <4> QED
          BY <1>7, <2>3, <4>1 DEF Vouchers
      <3> QED
        BY <3>1, <3>2
    <2> QED
      BY <1>8, <2>3 DEF Vouchers, a
  <1> QED
    BY <1>9, <1>10

\* What an attester takes, as its sessions go.
LEMMA ReceiveVouched ==
  ASSUME AgreeInv, NEW n \in Nodes, Receive(n), Vouchers(dev, n, tab[n]),
         Knows(dev[Peer(n)], Entry(n), att[n]),
         NEW t, TableMoved(tab[n], t), ~chan[n].sealed => t = tab[n], NEW m,
         NEW o \in Take(dev[n], Entry(n), t, att[n], chan[n].req, m)
  PROVE  o.a.dev = att[n].dev /\ Vouchers(dev, n, o.t)
  <1> DEFINE a == att[n]
             e == Entry(n)
             req == chan[n].req
  <1>1. /\ Attempt(a) /\ a.sess \in 0..MaxSession
        /\ a.pc \in Early \cup Encap \cup Late \cup {"KEY_EXCHANGE", "FINISH"}
        /\ a.pc \notin Late => ~chan[n].sealed
    BY ReceiveFacts
  <1>2. Table(t) /\ Vouchers(dev, n, t)
    BY VouchersMoved DEF TableMoved
  <1>3. CASE a.pc \in {"KEY_EXCHANGE", "FINISH"}
    <2>1. t = tab[n]
      BY <1>1, <1>3 DEF Late
    <2> QED
      BY <1>3, <2>1, KeyExchangeVouched, FinishTakenVouched
  <1>4. CASE a.pc \in Early \cup Late \cup Encap
    <2>1. \E P : Turn(t, a, o, P)
      <3> HIDE DEF e, req
      <3>1. o \in Take(dev[n], e, t, a, req, m)
        BY DEF e, req
      <3> HIDE DEF a
      <3>2. CASE a.pc \in Early
        BY <1>1, <3>1, <3>2, EarlyTaken
      <3>3. CASE a.pc \in Late
        BY <1>1, <3>1, <3>3, LateTaken
      <3>4. CASE a.pc \in Encap
        <4>1. o = TakeEncapAck(t, a, req, m)
          BY <3>1, <3>4 DEF Take, Encap
        <4> QED
          BY <1>1, <4>1, EncapTurn
      <3> QED
        BY <1>4, <3>2, <3>3, <3>4
    <2> QED
      BY <1>1, <1>2, <2>1, TurnVouched
  <1> QED
    BY <1>1, <1>3, <1>4

-----------------------------------------------------------------------------
(* The steps keep what the attesters know.                                  *)

\* What the invariants say of a node with an attestation under way.
LEMMA PassFacts ==
  ASSUME AgreeInv, PassInv, NEW n \in Nodes
  PROVE  /\ Offers(rctx[n], dev[n]) /\ dev[n] \in Devices
         /\ Attester(n) => /\ NodeSound(dev, n, tab[n], att[n], chan[n], thread[n])
                           /\ Vouchers(dev, n, tab[n])
         /\ att[n].pc # "IDLE" =>
              /\ Attester(n) /\ att[n].dev \in DOMAIN dev[n].afm /\ Entry(n) \in AfmEntries
              /\ Peer(n) \in Nodes /\ dev[Peer(n)] \in Devices
              /\ Knows(dev[Peer(n)], Entry(n), att[n])
              /\ Heard(dev[Peer(n)], att[n], chan[n])
              /\ Pass(att[n]) /\ thread[n].at = "DEVICES" => Passed(dev[Peer(n)], Entry(n))
              /\ att[n].pc = "KEEP_ALIVE" => thread[n].at = "HEARTBEATS"
              /\ thread[n].at # "WAIT"
  <1>1. dev \in [Nodes -> Devices]
    BY DEF AgreeInv, TypesInv, DevInv
  <1>2. Offers(rctx[n], dev[n]) /\ (Attester(n) => NodeSound(dev, n, tab[n], att[n], chan[n], thread[n]))
    BY DEF PassInv
  <1>3. ASSUME att[n].pc # "IDLE"
        PROVE  /\ Attester(n) /\ att[n].dev \in DOMAIN dev[n].afm /\ Entry(n) \in AfmEntries
               /\ Peer(n) \in Nodes
    <2>1. att[n].dev \in DOMAIN dev[n].afm /\ Attester(n)
      BY <1>3, AttesterFacts DEF AttesterOK
    <2>2. Entry(n) \in AfmEntries
      BY <2>1, AfmOf DEF Entry, Afm
    <2> QED
      BY <1>3, <2>1, <2>2, PeerOf
  <1> QED
    BY <1>1, <1>2, <1>3 DEF NodeSound, Entry, Peer, Afm

\* Every device is the one it was but for its firmware, and every attester
\* knows of the devices as they were.
LEMMA PassKept ==
  ASSUME AgreeInv, AgreeInv', PassInv,
         \A q \in Nodes : Offers(rctx'[q], dev[q]),
         \A q \in Nodes : Later(dev[q], dev'[q]) /\ dev'[q].afm = dev[q].afm,
         \A q \in Nodes : Attester(q) =>
            NodeSound(dev, q, tab'[q], att'[q], chan'[q], thread'[q])
  PROVE  PassInv'
  <1>1. \A q \in Nodes : Attester(q)' <=> Attester(q)
    BY DEF Attester, Afm
  <1>2. \A q \in Nodes : Offers(rctx'[q], dev'[q])
    BY DEF Later, Offers
  <1>3. \A q \in Nodes : \A k, l \in DOMAIN Afm(q)' : Afm(q)'[k].index = Afm(q)'[l].index => k = l
    BY DEF PassInv, Afm
  <1>4. ASSUME NEW q \in Nodes, Attester(q)
        PROVE  NodeSound(dev', q, tab'[q], att'[q], chan'[q], thread'[q])
    <2>1. \A k \in DOMAIN dev[q].afm : dev[q].afm[k].peer \in Nodes
      <3> TAKE k \in DOMAIN dev[q].afm
      <3>1. dev[q].afm \in Seq(AfmEntries)
        BY AfmOf
      <3>2. dev[q].afm[k] \in AfmEntries
        BY <3>1
      <3> QED
        BY <3>2 DEF AfmEntries
    <2>2. \A k \in DOMAIN dev[q].afm : Later(dev[dev[q].afm[k].peer], dev'[dev[q].afm[k].peer])
      BY <2>1
    <2>3. att'[q].pc # "IDLE" => att'[q].dev \in DOMAIN dev[q].afm
      <3>1. AttesterOK(dev'[q], tab'[q], att'[q], chan'[q])
        BY DEF AgreeInv, TypesInv, AttesterInv
      <3> QED
        BY <3>1 DEF AttesterOK
    <2>4. NodeSound(dev, q, tab'[q], att'[q], chan'[q], thread'[q]) /\ dev'[q].afm = dev[q].afm
      BY <1>4
    <2> QED
      BY <2>2, <2>3, <2>4, LaterSound
  <1>5. \A q \in Nodes : Attester(q)' => NodeSound(dev', q, tab'[q], att'[q], chan'[q], thread'[q])
    BY <1>1, <1>4
  <1> QED
    BY <1>2, <1>3, <1>5 DEF PassInv, Afm

\* A node that stands by: its sessions move at most, or its message is lost.
LEMMA SoundKept ==
  ASSUME NEW D, NEW n, NEW t, NEW a, NEW ch, NEW th, NodeSound(D, n, t, a, ch, th),
         NEW u, TableMoved(t, u), NEW c, c = ch \/ (c.st = "LOST" /\ c.req = ch.req /\ ch.st # "IDLE")
  PROVE  NodeSound(D, n, u, a, c, th)
  <1>1. Vouchers(D, n, u)
    BY VouchersMoved DEF NodeSound
  <1>2. \A d : Heard(d, a, ch) => Heard(d, a, c)
    BY DEF Heard
  <1> QED
    BY <1>1, <1>2 DEF NodeSound

\* One attester goes on.
LEMMA AttesterStepPasses ==
  ASSUME AgreeInv, AgreeInv', PassInv, NEW n \in Nodes, NEW t, NEW a, NEW ch,
         AttesterStep(n, t, a, ch), \A q \in Nodes \ {n} : thread'[q] = thread[q],
         NodeSound(dev, n, t, a, ch, thread'[n])
  PROVE  PassInv'
  <1>1. /\ dev' = dev /\ rctx' = rctx
        /\ \A q \in Nodes : IF q = n THEN tab'[q] = t /\ att'[q] = a /\ chan'[q] = ch
                            ELSE tab'[q] = tab[q] /\ att'[q] = att[q] /\ chan'[q] = chan[q]
    BY DEF AttesterStep
  <1>2. \A q \in Nodes : Offers(rctx'[q], dev[q])
    BY <1>1 DEF PassInv
  <1>3. \A q \in Nodes : Later(dev[q], dev'[q]) /\ dev'[q].afm = dev[q].afm
    BY <1>1, LaterSame
  <1>4. ASSUME NEW q \in Nodes, Attester(q)
        PROVE  NodeSound(dev, q, tab'[q], att'[q], chan'[q], thread'[q])
    <2>1. CASE q = n
      BY <1>1, <2>1
    <2>2. CASE q # n
      <3>1. NodeSound(dev, q, tab[q], att[q], chan[q], thread[q])
        BY <1>4 DEF PassInv
      <3> QED
        BY <1>1, <2>2, <3>1
    <2> QED
      BY <2>1, <2>2
  <1> QED
    BY <1>2, <1>3, <1>4, PassKept

\* An attestation starts knowing nothing, or what its session vouches for.
LEMMA StartLearned ==
  ASSUME NEW d, NEW own, NEW e, NEW t, Table(t), Settled(t),
         \A i \in 1..MaxSession : t[i].valid /\ t[i].state = "ESTABLISHED" /\ t[i].afm = e.index
            => Vouched(d, t[i])
  PROVE  LET o == StartAttestation(own, e, t)
         IN  Knows(d, e, o.a) /\ o.a.pc # "KEEP_ALIVE" /\ ~Pass(o.a)
  <1> DEFINE g == SpdmSessionGetByIdx(t, e.index)
             s == g.t[g.i]
             fresh == SpdmContextCreate(own.caps)
             a == [Idle EXCEPT !.c = fresh, !.sess = g.i]
             o == StartAttestation(own, e, t)
             c == [a.c EXCEPT !.selected = s.ver, !.local = s.flags[1], !.remote = s.flags[2],
                       !.cert[0].leaf = s.leaf, !.msgA = s.msgA, !.l1l2 = s.msgA]
             b == [a EXCEPT !.c = c]
  <1>1. g.i \in 0..MaxSession /\ (g.i # 0 => g.t = t /\ t[g.i].valid /\ t[g.i].afm = e.index)
    BY GetByIdxMoved
  <1>2. /\ Context(fresh) /\ \A x \in Slots : fresh.cert[x] = NoCert
    BY IdleAttempt DEF SpdmContextCreate
  <1>3. Attempt(a) /\ a.c = fresh /\ a.slot = 0 /\ a.meas = 0 /\ a.afm = 0
    <2> HIDE DEF fresh, g
    <2>1. Idle.slot = 0 /\ Idle.meas = 0 /\ Idle.afm = 0
      BY DEF Idle
    <2> QED
      BY <1>2, <2>1, IdleAttempt DEF Attempt, AttFields
  <1>4. CASE g.i = 0
    <2> DEFINE x == Go(g.t, a, "GET_VERSION")
    <2>1. o = x
      BY <1>4 DEF StartAttestation
    <2> HIDE DEF o, a, g, fresh
    <2>2. /\ x.a.pc = "GET_VERSION" /\ x.a.c = fresh /\ x.a.slot = 0 /\ x.a.meas = 0 /\ x.a.afm = 0
      BY <1>3, GoFields
    <2> HIDE DEF x
    <2>3. Certified(d, x.a.c) /\ Unproven(x.a.c) /\ x.a.slot \in Slots
      BY <1>2, <2>2, SpdmConstants DEF Certified, Unproven, NoCert
    <2>4. /\ x.a.pc \notin {"NEGOTIATE_ALGORITHMS", "GET_DIGESTS", "GET_CERTIFICATE", "CHALLENGE",
                            "TOTAL", "SESSION_TOTAL"} \cup Counting \cup Keying \cup Comparing
          /\ x.a.pc \notin {"KEEP_ALIVE", "VERDICT"}
      BY <2>2 DEF Counting, Keying, Comparing, Encap
    <2>5. Knows(d, e, x.a)
      BY <2>2, <2>3, <2>4 DEF Knows
    <2> QED
      BY <2>1, <2>4, <2>5 DEF Pass, o
  <1>5. CASE g.i # 0
    <2>1. o = IF s.leaf = 0 THEN Conclude(g.t, a, "MEASUREMENTS") ELSE Go(g.t, b, "SESSION_TOTAL")
      BY <1>5 DEF StartAttestation, WithSession
    <2>2. Session(s) /\ Vouched(d, s)
      <3> HIDE DEF g
      <3>1. g.i \in 1..MaxSession /\ g.t = t /\ t[g.i].valid
        BY <1>1, <1>5, SpdmConstants
      <3> QED
        BY <1>1, <1>5, <3>1 DEF Table, Settled
    <2> HIDE DEF s
    <2>3. /\ Context(c) /\ c.remote = s.flags[2]
          /\ \A x \in Slots : c.cert[x].leaf = IF x = 0 THEN s.leaf ELSE 0
      <3> HIDE DEF fresh, a
      <3>1. Context(a.c) /\ \A x \in Slots : a.c.cert[x].leaf = 0
        BY <1>2, <1>3 DEF NoCert
      <3>2. DOMAIN a.c = ContextFields /\ DOMAIN a.c.cert = Slots /\ 0 \in Slots
        BY <3>1, SpdmConstants DEF Context
      <3>3. c.remote = s.flags[2] /\ c.cert = [a.c.cert EXCEPT ![0].leaf = s.leaf]
        BY <3>2 DEF ContextFields
      <3>4. c.cert[0] = [a.c.cert[0] EXCEPT !.leaf = s.leaf]
        BY <3>2, <3>3
      <3>5. c.cert[0].leaf = s.leaf
        BY <3>1, <3>2, <3>4 DEF Context
      <3>6. \A x \in Slots : c.cert[x].leaf = IF x = 0 THEN s.leaf ELSE 0
        BY <3>1, <3>2, <3>3, <3>5
      <3>7. Context(c)
        BY <2>2, <3>1 DEF Context, ContextFields, Session
      <3> QED
        BY <3>3, <3>6, <3>7
    <2> HIDE DEF c
    <2>4. Attempt(b) /\ b.c = c /\ b.meas = 0 /\ b.afm = 0
      <3> HIDE DEF a
      <3> QED
        BY <1>3, <2>3 DEF Attempt, AttFields
    <2>5. CASE s.leaf = 0
      <3> DEFINE x == Conclude(g.t, a, "MEASUREMENTS")
      <3> HIDE DEF a, g
      <3>1. x.a.pc = "VERDICT" /\ x.a.res = "MEASUREMENTS"
        BY <1>3 DEF Conclude, Outcome, Attempt, AttFields
      <3> HIDE DEF x
      <3>2. Knows(d, e, x.a)
        BY <3>1, NothingKnown
      <3> HIDE DEF o
      <3> QED
        BY <2>1, <2>5, <3>1, <3>2 DEF Pass, x, o
    <2>6. CASE s.leaf # 0
      <3> DEFINE x == Go(g.t, b, "SESSION_TOTAL")
      <3> HIDE DEF b, g
      <3>1. /\ x.a.pc = "SESSION_TOTAL" /\ x.a.c = c /\ x.a.meas = 0 /\ x.a.afm = 0
        BY <2>4, GoFields
      <3> HIDE DEF x
      <3>2. Proven(d, x.a.c) /\ x.a.c.remote = d.caps
        BY <2>2, <2>3, <2>6, <3>1, SpdmConstants DEF Proven, Vouched
      <3>3. /\ x.a.pc \notin Naming \cup {"CHALLENGE"} \cup Comparing \cup Keying
            /\ x.a.pc \notin {"KEEP_ALIVE", "VERDICT", "GET_CERTIFICATE"}
        BY <3>1 DEF Naming, Comparing, Keying, Encap
      <3>4. Knows(d, e, x.a)
        BY <3>1, <3>2, <3>3 DEF Knows
      <3> HIDE DEF o
      <3> QED
        BY <2>1, <2>6, <3>3, <3>4 DEF Pass, x, o
    <2> QED
      BY <2>5, <2>6
  <1> QED
    BY <1>4, <1>5

LEMMA ThreadStepPasses ==
  ASSUME AgreeInv, AgreeInv', PassInv, NEW n \in Nodes,
         RunAttester(n) \/ StopAttester(n) \/ Tick(n) \/ I3cAttestation(n) \/ Wake(n)
  PROVE  PassInv'
  <1>1. UNCHANGED <<dev, rctx, tab, att, chan>>
    BY DEF RunAttester, StopAttester, Tick, I3cAttestation, Wake
  <1>2. ASSUME NEW q \in Nodes
        PROVE  thread'[q] = thread[q] \/ (thread[q].at = "WAIT" /\ thread'[q].at # "WAIT")
    <2>1. CASE RunAttester(n) \/ StopAttester(n) \/ Tick(n) \/ I3cAttestation(n)
      BY <2>1 DEF RunAttester, StopAttester, Tick, I3cAttestation
    <2>2. CASE Wake(n)
      <3>1. DOMAIN thread = Nodes /\ DOMAIN thread[n] = {"at", "k", "count"}
        BY DEF AgreeInv, TypesInv, ThreadInv
      <3>2. thread' = [thread EXCEPT ![n] =
              IF @.count < Period THEN [@ EXCEPT !.at = "HEARTBEATS", !.k = 1]
              ELSE [at |-> "DEVICES", k |-> 1, count |-> 0]]
        BY <2>2 DEF Wake
      <3>3. q # n => thread'[q] = thread[q]
        BY <3>1, <3>2
      <3>4. thread'[n].at \in {"HEARTBEATS", "DEVICES"} /\ thread[n].at = "WAIT"
        BY <2>2, <3>1, <3>2 DEF Wake
      <3> QED
        BY <3>3, <3>4
    <2> QED
      BY <2>1, <2>2
  <1>3. ASSUME NEW q \in Nodes, Attester(q)
        PROVE  NodeSound(dev, q, tab'[q], att'[q], chan'[q], thread'[q])
    <2>1. NodeSound(dev, q, tab[q], att[q], chan[q], thread[q])
      BY <1>3 DEF PassInv
    <2>2. CASE thread'[q] = thread[q]
      BY <1>1, <2>1, <2>2
    <2>3. CASE thread[q].at = "WAIT" /\ thread'[q].at # "WAIT"
      BY <1>1, <2>1, <2>3 DEF NodeSound
    <2> QED
      BY <1>2, <2>2, <2>3
  <1>4. /\ \A q \in Nodes : Offers(rctx'[q], dev[q])
        /\ \A q \in Nodes : Later(dev[q], dev'[q]) /\ dev'[q].afm = dev[q].afm
    BY <1>1, LaterSame DEF PassInv
  <1> QED
    BY <1>3, <1>4, PassKept

LEMMA KeepAlivePasses ==
  ASSUME AgreeInv, AgreeInv', PassInv, NEW n \in Nodes, KeepAlive(n)
  PROVE  PassInv'
  <1> DEFINE i == First({j \in thread[n].k..MaxSession :
                           tab[n][j].valid /\ tab[n][j].type = "REQ" /\ tab[n][j].hb})
             entry == CHOOSE j \in DOMAIN Afm(n) : Afm(n)[j].index = tab[n][i].dst
             b == [SpdmContextCreate(dev[n].caps) EXCEPT !.selected = tab[n][i].ver]
             a == [Idle EXCEPT !.pc = "KEEP_ALIVE", !.sess = i, !.dev = entry, !.c = b]
  <1>1. a.pc = "KEEP_ALIVE"
    <2> HIDE DEF i, entry, b
    <2> QED
      BY IdleAttempt DEF Attempt, AttFields
  <1>2. /\ UNCHANGED <<dev, rctx, tab, chan>> /\ att[n].pc = "IDLE" /\ thread[n].at = "HEARTBEATS"
        /\ \/ UNCHANGED att /\ thread' = [thread EXCEPT ![n] = Waiting(@.count + 1)]
           \/ thread' = [thread EXCEPT ![n].k = i + 1] /\ att' = [att EXCEPT ![n] = a]
    <2> HIDE DEF a
    <2> QED
      BY Zenon DEF KeepAlive, a, b
  <1> HIDE DEF a, i
  <1>3. DOMAIN thread = Nodes /\ DOMAIN att = Nodes /\ DOMAIN thread[n] = {"at", "k", "count"}
    BY DEF AgreeInv, TypesInv, ThreadInv, AttesterInv
  <1>4. /\ \A q \in Nodes \ {n} : thread'[q] = thread[q] /\ att'[q] = att[q]
        /\ \/ att'[n] = att[n]
           \/ att'[n] = a /\ thread'[n].at = "HEARTBEATS"
    BY <1>2, <1>3
  <1>5. ASSUME NEW q \in Nodes, Attester(q)
        PROVE  NodeSound(dev, q, tab'[q], att'[q], chan'[q], thread'[q])
    <2>1. NodeSound(dev, q, tab[q], att[q], chan[q], thread[q])
      BY <1>5 DEF PassInv
    <2>2. CASE q # n
      BY <1>2, <1>4, <2>1, <2>2
    <2>3. CASE q = n /\ att'[n] = att[n]
      BY <1>2, <2>1, <2>3 DEF NodeSound
    <2>4. CASE q = n /\ att'[n] = a /\ thread'[n].at = "HEARTBEATS"
      <3>1. chan[n].st = "IDLE"
        BY <1>2, <1>5, <2>4, IdleFacts
      <3>2. \A d, e : Knows(d, e, a) /\ Heard(d, a, chan[n])
        BY <1>1, <3>1, NothingKnown DEF Heard
      <3>3. ~Pass(a)
        BY <1>1 DEF Pass
      <3> QED
        BY <1>1, <1>2, <2>1, <2>4, <3>2, <3>3 DEF NodeSound
    <2> QED
      BY <1>4, <2>2, <2>3, <2>4
  <1>6. /\ \A q \in Nodes : Offers(rctx'[q], dev[q])
        /\ \A q \in Nodes : Later(dev[q], dev'[q]) /\ dev'[q].afm = dev[q].afm
    BY <1>2, LaterSame DEF PassInv
  <1> QED
    BY <1>5, <1>6, PassKept

LEMMA VerdictPasses ==
  ASSUME AgreeInv, AgreeInv', PassInv, NEW n \in Nodes, Verdict(n)
  PROVE  PassInv'
  <1>1. /\ att[n].pc = "VERDICT" /\ att' = [att EXCEPT ![n] = Idle]
        /\ UNCHANGED <<dev, rctx, tab, thread, chan>>
    BY DEF Verdict
  <1>2. AttesterStep(n, tab[n], Idle, chan[n])
    BY <1>1 DEF AttesterStep, AgreeInv, TypesInv, TableInv, AttesterInv
  <1>3. NodeSound(dev, n, tab[n], Idle, chan[n], thread'[n])
    <2>1. Vouchers(dev, n, tab[n])
      BY <1>1, PassFacts
    <2>2. Idle.pc = "IDLE"
      BY DEF Idle
    <2> QED
      BY <2>1, <2>2 DEF NodeSound
  <1> QED
    BY <1>1, <1>2, <1>3, AttesterStepPasses

LEMMA NextDevicePasses ==
  ASSUME AgreeInv, AgreeInv', PassInv, NEW n \in Nodes, NextDevice(n)
  PROVE  PassInv'
  <1> DEFINE k == thread[n].k
             e == Afm(n)[k]
             d == dev[e.peer]
             o == StartAttestation(dev[n], e, tab[n])
             a == [o.a EXCEPT !.dev = k]
  <1>1. /\ UNCHANGED <<dev, rctx, chan>> /\ att[n].pc = "IDLE" /\ thread[n].at = "DEVICES"
    BY DEF NextDevice
  <1>2. \/ UNCHANGED <<tab, att>> /\ thread' = [thread EXCEPT ![n] = Waiting(@.count)]
        \/ UNCHANGED <<tab, att>> /\ thread' = [thread EXCEPT ![n].k = @ + 1]
        \/ /\ k <= Len(Afm(n)) /\ thread' = [thread EXCEPT ![n].k = @ + 1]
           /\ tab' = [tab EXCEPT ![n] = o.t] /\ att' = [att EXCEPT ![n] = a]
    <2> HIDE DEF o
    <2> QED
      BY DEF NextDevice, o
  <1>3. /\ DOMAIN thread = Nodes /\ DOMAIN thread[n] = {"at", "k", "count"} /\ k \in Nat \ {0}
        /\ DOMAIN tab = Nodes /\ DOMAIN att = Nodes /\ DOMAIN chan = Nodes
    BY DEF AgreeInv, TypesInv, ThreadInv, AttesterInv, TableInv
  <1>4. \A q \in Nodes \ {n} : thread'[q] = thread[q]
    <2> HIDE DEF o
    <2> QED
      BY <1>2, <1>3
  <1>5. CASE UNCHANGED <<tab, att>>
    <2>1. AttesterStep(n, tab[n], att[n], chan[n])
      BY <1>1, <1>3, <1>5 DEF AttesterStep
    <2>2. ASSUME Attester(n) PROVE NodeSound(dev, n, tab[n], att[n], chan[n], thread'[n])
      <3>1. Vouchers(dev, n, tab[n])
        BY <2>2, PassFacts
      <3> QED
        BY <1>1, <3>1 DEF NodeSound
    <2>3. ASSUME NEW q \in Nodes, Attester(q)
          PROVE  NodeSound(dev, q, tab'[q], att'[q], chan'[q], thread'[q])
      BY <1>1, <1>4, <1>5, <2>2, <2>3 DEF PassInv
    <2>4. /\ \A q \in Nodes : Offers(rctx'[q], dev[q])
          /\ \A q \in Nodes : Later(dev[q], dev'[q]) /\ dev'[q].afm = dev[q].afm
      BY <1>1, LaterSame DEF PassInv
    <2> QED
      BY <2>3, <2>4, PassKept
  <1>6. CASE /\ k <= Len(Afm(n)) /\ thread' = [thread EXCEPT ![n].k = @ + 1]
             /\ tab' = [tab EXCEPT ![n] = o.t] /\ att' = [att EXCEPT ![n] = a]
    <2>1. k \in DOMAIN dev[n].afm /\ Attester(n) /\ e = dev[n].afm[k]
      BY <1>3, <1>6, AfmOf DEF Attester
    <2>2. Settled(tab[n]) /\ chan[n].st = "IDLE" /\ Table(tab[n]) /\ Vouchers(dev, n, tab[n])
      BY <1>1, <2>1, IdleFacts, AttesterFacts, PassFacts
    <2>3. /\ TableMoved(tab[n], o.t) /\ Attempt(o.a)
      BY <2>2, AttestationStarted DEF Settled
    <2>4. ASSUME NEW i \in 1..MaxSession, tab[n][i].valid, tab[n][i].state = "ESTABLISHED",
                 tab[n][i].afm = e.index
          PROVE  Vouched(d, tab[n][i])
      <3>1. PICK l \in DOMAIN dev[n].afm : /\ tab[n][i].afm = dev[n].afm[l].index
                                           /\ Vouched(dev[dev[n].afm[l].peer], tab[n][i])
        BY <2>2, <2>4 DEF Vouchers
      <3>2. l = k
        BY <2>1, <2>4, <3>1 DEF PassInv, Afm
      <3> QED
        BY <2>1, <3>1, <3>2
    <2>5. Knows(d, e, o.a) /\ o.a.pc # "KEEP_ALIVE" /\ ~Pass(o.a)
      <3> HIDE DEF d, e
      <3> QED
        BY <2>2, <2>4, StartLearned
    <2> HIDE DEF o, e, k
    <2>6. /\ a.dev = k /\ a.pc = o.a.pc /\ a.c = o.a.c /\ a.slot = o.a.slot /\ a.meas = o.a.meas
          /\ a.afm = o.a.afm /\ a.res = o.a.res
      BY <2>3 DEF Attempt, AttFields
    <2>7. AttesterStep(n, o.t, a, chan[n])
      BY <1>1, <1>3, <1>6 DEF AttesterStep
    <2> HIDE DEF a
    <2>8. Knows(d, e, a) /\ ~Pass(a) /\ a.pc # "KEEP_ALIVE" /\ Heard(d, a, chan[n])
      BY <2>2, <2>5, <2>6, Zenon DEF Knows, Pass, Heard
    <2>9. thread'[n].at = "DEVICES"
      BY <1>1, <1>3, <1>6
    <2>10. Vouchers(dev, n, o.t)
      BY <2>2, <2>3, VouchersMoved
    <2>11. NodeSound(dev, n, o.t, a, chan[n], thread'[n])
      BY <2>1, <2>6, <2>8, <2>9, <2>10 DEF NodeSound
    <2> QED
      BY <1>4, <2>7, <2>11, AttesterStepPasses
  <1> QED
    BY <1>2, <1>5, <1>6

\* What an attestation is, its sessions aside.
Knowing(a, b) ==
  /\ b.pc = a.pc /\ b.c = a.c /\ b.slot = a.slot /\ b.meas = a.meas /\ b.afm = a.afm
  /\ b.dev = a.dev

\* A request goes out: it asks what the attestation is at.
LEMMA IssueAsked ==
  ASSUME NEW d, NEW t, NEW a, Attempt(a), a.pc \in Pcs \ {"IDLE", "VERDICT"}
  PROVE  LET x == Issue(d, t, a)
         IN  Knowing(a, x.a) /\ Asked(x.a, x.m) /\ (~x.ok => x.a = a)
  <1> DEFINE x == Issue(d, t, a)
             m == Request(d, a)
  <1>1. CASE a.pc = "KEY_EXCHANGE"
    <2>1. x = IssueKeyExchange(d, t, a)
      BY <1>1 DEF Issue, InSession
    <2>2. x.a = a \/ (x.ok /\ \E i : x.a = [a EXCEPT !.sess = i])
      <3>1. PICK i, u, y : x \in {NotSent(t, a), Sent(u, [a EXCEPT !.sess = i], y)}
        BY <2>1, Zenon DEF IssueKeyExchange
      <3> DEFINE b == [a EXCEPT !.sess = i]
      <3>2. x.a = a \/ (x.ok /\ x.a = b)
        <4> HIDE DEF x, b
        <4>1. x = NotSent(t, a) => x.a = a
          BY DEF NotSent
        <4>2. x = Sent(u, b, y) => x.ok /\ x.a = b
          BY DEF Sent
        <4>3. x = NotSent(t, a) \/ x = Sent(u, b, y)
          BY <3>1 DEF b
        <4> QED
          BY <4>1, <4>2, <4>3
      <3> HIDE DEF x
      <3> QED
        BY <3>2, Zenon
    <2> HIDE DEF x
    <2>3. Knowing(a, x.a)
      BY <2>2 DEF Knowing, Attempt, AttFields
    <2> QED
      BY <1>1, <2>2, <2>3 DEF Asked, Comparing, Knowing, x
  <1>2. CASE a.pc = "FINISH"
    <2>1. x = IssueFinish(d, t, a)
      BY <1>2 DEF Issue, InSession
    <2>2. x.a = a \/ (x.ok /\ \E i : x.a = [a EXCEPT !.fin = i])
      <3>1. PICK i, u, y : x \in {NotSent(t, a), Sent(u, [a EXCEPT !.fin = i], y)}
        BY <2>1, Zenon DEF IssueFinish
      <3> DEFINE b == [a EXCEPT !.fin = i]
      <3>2. x.a = a \/ (x.ok /\ x.a = b)
        <4> HIDE DEF x, b
        <4>1. x = NotSent(t, a) => x.a = a
          BY DEF NotSent
        <4>2. x = Sent(u, b, y) => x.ok /\ x.a = b
          BY DEF Sent
        <4>3. x = NotSent(t, a) \/ x = Sent(u, b, y)
          BY <3>1 DEF b
        <4> QED
          BY <4>1, <4>2, <4>3
      <3> HIDE DEF x
      <3> QED
        BY <3>2, Zenon
    <2> HIDE DEF x
    <2>3. Knowing(a, x.a)
      BY <2>2 DEF Knowing, Attempt, AttFields
    <2> QED
      BY <1>2, <2>2, <2>3 DEF Asked, Comparing, Knowing, x
  <1>3. CASE a.pc \notin {"KEY_EXCHANGE", "FINISH"}
    <2>1. x.a = a /\ x.m = m
      BY <1>3, Zenon DEF Issue, IssueSealed, Sent
    <2>2. a.pc = "GET_CERTIFICATE" => m.p1 = a.slot
      BY DEF Request, Msg
    <2>3. a.pc \in Comparing => m.p1 = MeasAttr(a.c) /\ m.p2 = a.meas
      BY DEF Request, Msg, Comparing
    <2> HIDE DEF x, m
    <2> QED
      BY <2>1, <2>2, <2>3 DEF Knowing, Asked, x
  <1> QED
    BY <1>1, <1>2, <1>3

\* What goes out leaves the sessions that vouch for a device.
LEMMA IssueVouched ==
  ASSUME AgreeInv, NEW n \in Nodes, Send(n), Vouchers(dev, n, tab[n])
  PROVE  LET x == Issue(dev[n], tab[n], att[n])
         IN  /\ Vouchers(dev, n, x.t)
             /\ ~x.ok => Table(x.t)
  <1> DEFINE a == att[n]
             t == tab[n]
             x == Issue(dev[n], t, a)
             i == x.a.sess
  <1>1. /\ AttesterOK(dev[n], t, a, chan[n]) /\ ClientTable(dev[n], t) /\ Table(t)
        /\ a.pc \in Early \cup Encap \cup Late \cup {"KEY_EXCHANGE", "FINISH"} /\ Attempt(a)
    <2>1. Attester(n) /\ a.pc \notin {"IDLE", "VERDICT"}
      BY SentStep
    <2> QED
      BY <2>1, AttesterFacts DEF AttesterOK, Pcs
  <1>2. CASE a.pc \in Early \cup Encap
    <2>1. x.t = t
      BY <1>2, EarlyIssued
    <2> QED
      BY <1>1, <2>1
  <1>3. CASE a.pc \in Late
    <2>1. TableMoved(t, x.t)
      BY <1>1, <1>3, LateIssued
    <2> HIDE DEF x
    <2> QED
      BY <2>1, VouchersMoved DEF TableMoved, x
  <1>4. CASE a.pc = "KEY_EXCHANGE"
    <2>1. x = IssueKeyExchange(dev[n], t, a)
      BY <1>4 DEF Issue, InSession
    <2>2. /\ ~x.ok => x.t = t
          /\ x.ok => /\ i \in 1..MaxSession /\ x.t[i].state = "CHALLENGED"
                     /\ \A j \in 1..MaxSession \ {i} : x.t[j] = t[j]
      <3> HIDE DEF a, t
      <3> QED
        BY <1>1, <2>1, KeyExchangeIssued
    <2> HIDE DEF x
    <2>3. x.ok => Vouchers(dev, n, x.t)
      <3> HIDE DEF i
      <3> QED
        BY <2>2, VouchersPending
    <2> QED
      BY <1>1, <2>2, <2>3 DEF x
  <1>5. CASE a.pc = "FINISH"
    <2>1. x = IssueFinish(dev[n], t, a)
      BY <1>5 DEF Issue, InSession
    <2>2. /\ a.sess \in 1..MaxSession /\ t[a.sess].valid /\ t[a.sess].state # "ESTABLISHED"
          /\ \A j \in 1..MaxSession : t[j].valid /\ t[j].state # "ESTABLISHED" => j = a.sess
      BY <1>1, <1>5 DEF AttesterOK, Shaking
    <2>3. /\ ~x.ok => x.t = t
          /\ x.ok => /\ \A j \in 1..MaxSession \ {a.sess} : x.t[j] = t[j]
                     /\ x.t[a.sess].state = t[a.sess].state
      <3>1. ClientTable(dev[n], t) /\ Attempt(a)
        BY <1>1
      <3> DEFINE y == IssueFinish(dev[n], t, a)
      <3>2. LET z == IssueFinish(dev[n], t, a)
                i0 == a.sess
            IN  /\ ~z.ok => z.t = t /\ z.a = a
                /\ z.ok => /\ t[i0].state = "KEY_EXCHANGED" /\ ClientTable(dev[n], z.t)
                           /\ \A j \in 1..MaxSession \ {i0} : z.t[j] = t[j]
                           /\ \A f \in SessionFields \ {"reqMac"} : z.t[i0][f] = t[i0][f]
                           /\ Attempt(z.a) /\ z.a.c = a.c /\ z.a.fin = i0
                           /\ z.a.sess = a.sess /\ z.a.pc = a.pc /\ z.a.dev = a.dev
                           /\ z.m.code = "FINISH" /\ z.m.p1 = 1
                           /\ z.m.sig.over = a.c.th2 \o <<CertHash(dev[n].slots[0]), FinishHeader(z.m.ver, 1)>>
                           /\ z.m.mac.key = <<HandshakeKey(t[i0].id, t[i0].rspMac.over, "REQ")>>
                           /\ z.seal = NoSeal
        <4> HIDE DEF a, t
        <4> QED
          BY <2>2, <3>1, FinishIssued
      <3> HIDE DEF x, y
      <3> QED
        BY <2>1, <3>2 DEF SessionFields, y
    <2> HIDE DEF x
    <2>4. x.ok => Vouchers(dev, n, x.t)
      <3> HIDE DEF a
      <3> QED
        BY <2>2, <2>3, VouchersPending
    <2> QED
      BY <1>1, <2>3, <2>4 DEF x
  <1> QED
    BY <1>1, <1>2, <1>3, <1>4, <1>5

LEMMA SendPasses ==
  ASSUME AgreeInv, AgreeInv', PassInv, NEW n \in Nodes, Send(n)
  PROVE  PassInv'
  <1> DEFINE a == att[n]
             t == tab[n]
             x == Issue(dev[n], t, a)
             f == IssueFailed(x.t, x.a)
             e == Entry(n)
             d == dev[Peer(n)]
  <1>1. /\ a.pc \notin {"IDLE", "VERDICT"} /\ chan[n].st = "IDLE" /\ Attester(n)
        /\ x.ok => AttesterStep(n, x.t, x.a, SentChan(x))
        /\ ~x.ok => AttesterStep(n, f.t, f.a, chan[n])
    BY SentStep
  <1>2. /\ Attempt(a) /\ a.pc \in Pcs \ {"IDLE", "VERDICT"} /\ a.sess \in 0..MaxSession
    BY <1>1, AttesterFacts, SessionOf DEF AttesterOK
  <1>3. /\ Knows(d, e, a) /\ Vouchers(dev, n, t)
        /\ a.pc = "KEEP_ALIVE" => thread[n].at = "HEARTBEATS"
        /\ thread[n].at # "WAIT"
    BY <1>1, PassFacts
  <1>4. thread' = thread
    BY DEF Send
  <1>5. Vouchers(dev, n, x.t) /\ (~x.ok => Table(x.t))
    BY <1>3, IssueVouched
  <1>6. Knowing(a, x.a) /\ Asked(x.a, x.m) /\ (~x.ok => x.a = a)
    <2> HIDE DEF a, t
    <2> QED
      BY <1>2, IssueAsked
  <1> HIDE DEF x
  <1>8. Knows(d, e, x.a) /\ Heard(d, x.a, SentChan(x)) /\ ~Pass(x.a)
    <2>1. Knows(d, e, x.a)
      BY <1>3, <1>6, Zenon DEF Knows, Knowing
    <2>2. Heard(d, x.a, SentChan(x)) /\ ~Pass(x.a)
      BY <1>1, <1>6 DEF Heard, SentChan, Pass, Knowing
    <2> QED
      BY <2>1, <2>2
  <1>9. /\ d = dev[dev[n].afm[a.dev].peer] /\ e = dev[n].afm[a.dev]
    BY DEF Entry, Peer, Afm
  <1>10. CASE x.ok
    <2>1. NodeSound(dev, n, x.t, x.a, SentChan(x), thread'[n])
      BY <1>1, <1>3, <1>4, <1>5, <1>6, <1>8, <1>9 DEF NodeSound, Knowing
    <2> QED
      BY <1>1, <1>4, <1>10, <2>1, AttesterStepPasses
  <1>11. CASE ~x.ok
    <2>1. f.a.pc = "VERDICT" /\ f.a.res # "SUCCEEDED" /\ f.t = Release(x.t, a.sess)
      <3>1. x.a = a
        BY <1>6, <1>11
      <3> HIDE DEF a
      <3> QED
        BY <1>2, <3>1 DEF IssueFailed, Conclude, Outcome, Attempt, AttFields
    <2> HIDE DEF f
    <2>2. TableMoved(x.t, f.t)
      BY <1>2, <1>5, <1>11, <2>1, ReleaseMoved
    <2>3. Vouchers(dev, n, f.t)
      BY <1>5, <2>2, VouchersMoved
    <2>4. \A y, z : Knows(y, z, f.a) /\ Heard(y, f.a, chan[n])
      BY <1>1, <2>1, NothingKnown DEF Heard
    <2>5. NodeSound(dev, n, f.t, f.a, chan[n], thread'[n])
      BY <1>3, <1>4, <2>1, <2>3, <2>4 DEF NodeSound, Pass
    <2> QED
      BY <1>1, <1>4, <1>11, <2>5, AttesterStepPasses
  <1> QED
    BY <1>10, <1>11

LEMMA ReceivePasses ==
  ASSUME AgreeInv, AgreeInv', PassInv, NEW n \in Nodes, Receive(n)
  PROVE  PassInv'
  <1> DEFINE a == att[n]
             e == Entry(n)
             d == dev[Peer(n)]
             req == chan[n].req
  <1>1. PICK t, m, o :
           /\ TableMoved(tab[n], t) /\ (~chan[n].sealed => t = tab[n])
           /\ o \in Take(dev[n], e, t, a, req, m)
           /\ m \in {NoAnswer, Unset, BadSeal} \/ (chan[n].st = "RESPONSE" /\ m = chan[n].m)
           /\ AttesterStep(n, o.t, o.a, IdleChan)
    BY Received
  <1>2. /\ Attester(n) /\ Attempt(a) /\ a.pc \in Pcs \ {"IDLE", "VERDICT"} /\ chan[n].st # "IDLE"
    <2>1. a.pc \in Early \cup Encap \cup Late \cup {"KEY_EXCHANGE", "FINISH"}
      BY ReceiveFacts
    <2> QED
      BY <2>1, ReceiveFacts DEF Pcs, Early, Encap, Late
  <1>3. /\ e \in AfmEntries /\ Knows(d, e, a) /\ Heard(d, a, chan[n]) /\ Vouchers(dev, n, tab[n])
        /\ a.pc = "KEEP_ALIVE" => thread[n].at = "HEARTBEATS"
        /\ thread[n].at # "WAIT"
    BY <1>2, PassFacts
  <1>4. thread' = thread
    BY DEF Receive
  <1>5. Asked(a, req) /\ Told(d, req, m)
    BY <1>1, <1>2, <1>3, NothingTold DEF Heard
  <1>6. Learned(d, e, a, o)
    <2> HIDE DEF a, e, d, req
    <2> QED
      BY <1>1, <1>2, <1>3, <1>5, TakeLearned
  <1>7. o.a.dev = a.dev /\ Vouchers(dev, n, o.t)
    BY <1>1, <1>3, ReceiveVouched
  <1>8. e = dev[n].afm[o.a.dev] /\ d = dev[dev[n].afm[o.a.dev].peer]
    BY <1>7 DEF Entry, Peer, Afm
  <1> HIDE DEF a, e, d, req
  <1>9. Heard(d, o.a, IdleChan)
    BY DEF Heard, IdleChan
  <1>10. NodeSound(dev, n, o.t, o.a, IdleChan, thread'[n])
    BY <1>3, <1>4, <1>6, <1>7, <1>8, <1>9 DEF NodeSound, Learned
  <1> QED
    BY <1>1, <1>4, <1>10, AttesterStepPasses

\* A responder answers: it says what its device is.
LEMMA RespondPasses ==
  ASSUME AgreeInv, AgreeInv', PassInv, NEW n \in Nodes, Respond(n)
  PROVE  PassInv'
  <1> DEFINE p == Peer(n)
             y == Answer(p, chan[n].m, chan[n].seal)
  <1>1. /\ p \in Nodes /\ ~Attester(p) /\ Attester(n) /\ ResponderStep(p, y.t, y.c)
        /\ \A q \in Nodes \ {n} : chan'[q] = chan[q]
        /\ chan[n].st = "REQUEST" /\ chan'[n].st = y.st /\ chan'[n].m = y.m
        /\ chan'[n].req = chan[n].m /\ att[n].pc \notin {"IDLE", "VERDICT"}
    BY RespondStepOf
  <1>2. /\ chan[n].m = chan[n].req /\ thread' = thread
    BY <1>1, AttesterFacts DEF ChannelOK, Respond
  <1>3. Offers(y.c, dev[p]) /\ (y.st = "RESPONSE" => Told(dev[p], chan[n].m, y.m))
    <2>1. dev[p] \in Devices /\ Offers(rctx[p], dev[p])
      BY <1>1, PassFacts
    <2> QED
      BY <2>1, AnswerTold
  <1> HIDE DEF y
  <1>4. /\ dev' = dev /\ att' = att
        /\ \A q \in Nodes : Offers(rctx'[q], dev[q])
        /\ \A q \in Nodes : Attester(q) => tab'[q] = tab[q]
    BY <1>1, <1>3 DEF ResponderStep, PassInv
  <1>5. Heard(dev[p], att[n], chan'[n])
    <2>1. Heard(dev[p], att[n], chan[n])
      BY <1>1, PassFacts
    <2> HIDE DEF p
    <2> QED
      BY <1>1, <1>2, <1>3, <2>1 DEF Heard
  <1>6. ASSUME NEW q \in Nodes, Attester(q)
        PROVE  NodeSound(dev, q, tab'[q], att'[q], chan'[q], thread'[q])
    <2>1. NodeSound(dev, q, tab[q], att[q], chan[q], thread[q])
      BY <1>6 DEF PassInv
    <2>2. q # n => chan'[q] = chan[q]
      BY <1>1
    <2>3. q = n => Heard(dev[dev[q].afm[att[q].dev].peer], att[q], chan'[q])
      BY <1>5 DEF Peer, Entry, Afm
    <2> QED
      BY <1>2, <1>4, <1>6, <2>1, <2>2, <2>3 DEF NodeSound
  <1>7. \A q \in Nodes : Later(dev[q], dev'[q]) /\ dev'[q].afm = dev[q].afm
    BY <1>4, LaterSame
  <1> QED
    BY <1>4, <1>6, <1>7, PassKept

LEMMA ForeignPasses ==
  ASSUME AgreeInv, AgreeInv', PassInv, NEW n \in Nodes, ForeignRequest(n)
  PROVE  PassInv'
  <1>1. UNCHANGED <<dev, att, chan>> /\ thread' = thread
    BY ForeignStepOf DEF ForeignRequest
  <1>2. PICK m \in ForeignMessages : \E seal :
              /\ m.code \in {"GET_VERSION", "PSK_EXCHANGE"} => ~seal.on
              /\ Attester(n) => m.code \in {"GET_VERSION", "PSK_EXCHANGE"}
              /\ ResponderStep(n, Answer(n, m, seal).t, Answer(n, m, seal).c)
    BY ForeignStepOf
  <1>3. PICK seal :
              /\ m.code \in {"GET_VERSION", "PSK_EXCHANGE"} => ~seal.on
              /\ Attester(n) => m.code \in {"GET_VERSION", "PSK_EXCHANGE"}
              /\ ResponderStep(n, Answer(n, m, seal).t, Answer(n, m, seal).c)
    BY <1>2
  <1> DEFINE y == Answer(n, m, seal)
  <1>4. Offers(y.c, dev[n])
    <2>1. dev[n] \in Devices /\ Offers(rctx[n], dev[n])
      BY PassFacts
    <2> QED
      BY <2>1, AnswerTold
  <1>5. Attester(n) => y.t = tab[n]
    <2>1. Context(rctx[n]) /\ (Attester(n) => rctx[n].state \in {"NOT_READY", "GOT_VERSION"})
      BY DEF AgreeInv, TypesInv, ResponderInv
    <2> QED
      BY <1>3, <2>1, AnswerIdle
  <1>6. ResponderStep(n, y.t, y.c)
    BY <1>3
  <1> HIDE DEF y
  <1>7. /\ \A q \in Nodes : Offers(rctx'[q], dev[q])
        /\ \A q \in Nodes : Attester(q) => tab'[q] = tab[q]
    BY <1>4, <1>5, <1>6 DEF ResponderStep, PassInv
  <1>8. \A q \in Nodes : Attester(q) => NodeSound(dev, q, tab'[q], att'[q], chan'[q], thread'[q])
    BY <1>1, <1>7 DEF PassInv
  <1>9. \A q \in Nodes : Later(dev[q], dev'[q]) /\ dev'[q].afm = dev[q].afm
    BY <1>1, LaterSame
  <1> QED
    BY <1>7, <1>8, <1>9, PassKept

\* Faults, time and other firmware.
LEMMA LosePasses ==
  ASSUME AgreeInv, AgreeInv', PassInv, NEW n \in Nodes, Lose(n)
  PROVE  PassInv'
  <1>1. /\ UNCHANGED <<dev, rctx, tab, att, thread>>
        /\ chan' = [chan EXCEPT ![n].st = "LOST"] /\ chan[n].st # "IDLE"
    BY DEF Lose
  <1>2. DOMAIN chan = Nodes /\ \A q \in Nodes : DOMAIN chan[q] = ChanFields
    BY AttesterFacts DEF AgreeInv, TypesInv, AttesterInv, ChannelOK
  <1>3. ASSUME NEW q \in Nodes
        PROVE  \/ chan'[q] = chan[q]
               \/ chan'[q].st = "LOST" /\ chan'[q].req = chan[q].req /\ chan[q].st # "IDLE"
    BY <1>1, <1>2 DEF ChanFields
  <1>4. ASSUME NEW q \in Nodes, Attester(q)
        PROVE  NodeSound(dev, q, tab'[q], att'[q], chan'[q], thread'[q])
    <2>1. NodeSound(dev, q, tab[q], att[q], chan[q], thread[q]) /\ TableMoved(tab[q], tab[q])
      BY <1>4, AttesterFacts, MovedReflexive DEF PassInv
    <2>2. NodeSound(dev, q, tab[q], att[q], chan'[q], thread[q])
      BY <1>3, <2>1, SoundKept
    <2> QED
      BY <1>1, <2>2
  <1>5. /\ \A q \in Nodes : Offers(rctx'[q], dev[q])
        /\ \A q \in Nodes : Later(dev[q], dev'[q]) /\ dev'[q].afm = dev[q].afm
    BY <1>1, LaterSame DEF PassInv
  <1> QED
    BY <1>4, <1>5, PassKept

LEMMA ExpirePasses ==
  ASSUME AgreeInv, AgreeInv', PassInv, NEW n \in Nodes, NEW i \in 1..MaxSession, Expire(n, i)
  PROVE  PassInv'
  <1>1. /\ UNCHANGED <<dev, rctx, att, chan, thread>>
        /\ tab' = [tab EXCEPT ![n][i].old = TRUE]
    BY DEF Expire
  <1>2. DOMAIN tab = Nodes
    BY DEF AgreeInv, TypesInv, TableInv
  <1>3. ASSUME NEW q \in Nodes PROVE TableMoved(tab[q], tab'[q])
    <2>1. CASE q # n
      BY <1>1, <1>2, <2>1, AttesterFacts, MovedReflexive
    <2>2. CASE q = n
      <3> DEFINE s == [tab[n][i] EXCEPT !.old = TRUE]
      <3>1. tab'[n] = [tab[n] EXCEPT ![i] = s]
        BY <1>1, <1>2
      <3>2. Table(tab[n])
        BY AttesterFacts
      <3>3. tab[n][i].valid
        BY DEF Expire
      <3>4. Moved(tab[n][i], s)
        BY <3>2, <3>3, OldMoved DEF Table
      <3> HIDE DEF s
      <3> QED
        BY <2>2, <3>1, <3>2, <3>3, <3>4, SlotMoved
    <2> QED
      BY <2>1, <2>2
  <1>4. ASSUME NEW q \in Nodes, Attester(q)
        PROVE  NodeSound(dev, q, tab'[q], att'[q], chan'[q], thread'[q])
    <2>1. NodeSound(dev, q, tab[q], att[q], chan[q], thread[q])
      BY <1>4 DEF PassInv
    <2>2. NodeSound(dev, q, tab'[q], att[q], chan[q], thread[q])
      BY <1>3, <2>1, SoundKept
    <2> QED
      BY <1>1, <2>2
  <1>5. /\ \A q \in Nodes : Offers(rctx'[q], dev[q])
        /\ \A q \in Nodes : Later(dev[q], dev'[q]) /\ dev'[q].afm = dev[q].afm
    BY <1>1, LaterSame DEF PassInv
  <1> QED
    BY <1>4, <1>5, PassKept

LEMMA ChangeFirmwarePasses ==
  ASSUME AgreeInv, AgreeInv', PassInv, NEW n \in Nodes, ChangeFirmware(n)
  PROVE  PassInv'
  <1>1. PICK b \in DOMAIN dev[n].meas : dev' = [dev EXCEPT ![n].meas[b] = 0]
    BY DEF ChangeFirmware
  <1>2. UNCHANGED <<rctx, tab, att, chan, thread>>
    BY DEF ChangeFirmware
  <1>3. dev \in [Nodes -> Devices]
    BY DEF AgreeInv, TypesInv, DevInv
  <1> DEFINE m == [dev[n].meas EXCEPT ![b] = 0]
             d == [dev[n] EXCEPT !.meas = m]
  <1>4. DOMAIN m = DOMAIN dev[n].meas /\ m[b] = 0
    OBVIOUS
  <1>5. dev' = [dev EXCEPT ![n] = d]
    BY <1>1, <1>3
  <1> HIDE DEF m
  <1>6. Later(dev[n], d) /\ d.afm = dev[n].afm
    <2>1. /\ d.caps = dev[n].caps /\ d.key = dev[n].key /\ d.slots = dev[n].slots
          /\ d.served = dev[n].served /\ d.afm = dev[n].afm /\ d.meas = m
      BY <1>3 DEF Devices
    <2> HIDE DEF d
    <2> QED
      BY <1>1, <1>4, <2>1 DEF Later, Altered
  <1> HIDE DEF d
  <1>7. \A q \in Nodes : Later(dev[q], dev'[q]) /\ dev'[q].afm = dev[q].afm
    BY <1>3, <1>5, <1>6, LaterSame
  <1>8. /\ \A q \in Nodes : Offers(rctx'[q], dev[q])
        /\ \A q \in Nodes : Attester(q) =>
             NodeSound(dev, q, tab'[q], att'[q], chan'[q], thread'[q])
    BY <1>2 DEF PassInv
  <1> QED
    BY <1>7, <1>8, PassKept

\* A node that starts knows nothing and offers what its device can do.
LEMMA BootOffers ==
  \A d : Offers(SpdmContextCreate(d.caps), d)
  BY DEF Offers, SpdmContextCreate

LEMMA BootSound ==
  ASSUME NEW D, NEW n, NEW ch, NEW th, th.at = "WAIT"
  PROVE  NodeSound(D, n, InitSessionTable, Idle, ch, th)
  <1>1. Vouchers(D, n, InitSessionTable)
    BY DEF Vouchers, InitSessionTable, EmptySession
  <1>2. Idle.pc = "IDLE"
    BY DEF Idle
  <1> QED
    BY <1>1, <1>2 DEF NodeSound

LEMMA RebootPasses ==
  ASSUME AgreeInv, AgreeInv', PassInv, NEW n \in Nodes, Reboot(n)
  PROVE  PassInv'
  <1> DEFINE c == SpdmContextCreate(dev[n].caps)
  <1>1. /\ rctx' = [rctx EXCEPT ![n] = c] /\ tab' = [tab EXCEPT ![n] = InitSessionTable]
        /\ att' = [att EXCEPT ![n] = Idle] /\ dev' = dev
        /\ thread' = [thread EXCEPT ![n] = Boot.thread]
    BY DEF Reboot
  <1>2. chan' = [q \in Nodes |->
       IF q = n THEN IdleChan
       ELSE IF chan[q].st = "REQUEST" /\ Peer(q) = n THEN [chan[q] EXCEPT !.st = "LOST"]
       ELSE chan[q]]
    BY Zenon DEF Reboot
  <1>3. /\ DOMAIN tab = Nodes /\ DOMAIN att = Nodes /\ DOMAIN rctx = Nodes /\ DOMAIN thread = Nodes
        /\ \A q \in Nodes : DOMAIN chan[q] = ChanFields
    BY AttesterFacts DEF AgreeInv, TypesInv, TableInv, AttesterInv, ResponderInv, ThreadInv, ChannelOK
  <1>4. Offers(c, dev[n])
    BY BootOffers
  <1> HIDE DEF c
  <1>5. \A q \in Nodes : Offers(rctx'[q], dev[q])
    BY <1>1, <1>3, <1>4 DEF PassInv
  <1>6. ASSUME NEW q \in Nodes, Attester(q)
        PROVE  NodeSound(dev, q, tab'[q], att'[q], chan'[q], thread'[q])
    <2>1. CASE q = n
      <3>1. Boot.thread.at = "WAIT"
        BY DEF Boot, Waiting
      <3>2. NodeSound(dev, n, InitSessionTable, Idle, IdleChan, Boot.thread)
        BY <3>1, BootSound
      <3>3. /\ tab'[n] = InitSessionTable /\ att'[n] = Idle /\ chan'[n] = IdleChan
            /\ thread'[n] = Boot.thread
        BY <1>1, <1>2, <1>3
      <3> QED
        BY <2>1, <3>2, <3>3
    <2>2. CASE q # n
      <3>1. tab'[q] = tab[q] /\ att'[q] = att[q] /\ thread'[q] = thread[q]
        BY <1>1, <1>3, <2>2
      <3>2. \/ chan'[q] = chan[q]
            \/ chan'[q].st = "LOST" /\ chan'[q].req = chan[q].req /\ chan[q].st # "IDLE"
        BY <1>2, <1>3, <2>2 DEF ChanFields
      <3>3. NodeSound(dev, q, tab[q], att[q], chan[q], thread[q]) /\ TableMoved(tab[q], tab[q])
        BY <1>6, AttesterFacts, MovedReflexive DEF PassInv
      <3>4. NodeSound(dev, q, tab[q], att[q], chan'[q], thread[q])
        BY <3>2, <3>3, SoundKept
      <3> QED
        BY <3>1, <3>4
    <2> QED
      BY <2>1, <2>2
  <1>7. \A q \in Nodes : Later(dev[q], dev'[q]) /\ dev'[q].afm = dev[q].afm
    BY <1>1, LaterSame
  <1> QED
    BY <1>5, <1>6, <1>7, PassKept

LEMMA InitPasses ==
  ASSUME Init, OwnIndices
  PROVE  PassInv
  <1>1. /\ rctx = [n \in Nodes |-> SpdmContextCreate(dev[n].caps)]
        /\ tab = [n \in Nodes |-> InitSessionTable] /\ att = [n \in Nodes |-> Idle]
        /\ thread = [n \in Nodes |-> Boot.thread]
    BY Zenon DEF Init
  <1>2. \A n \in Nodes : Offers(rctx[n], dev[n])
    BY <1>1, BootOffers
  <1>3. \A n \in Nodes : \A k, l \in DOMAIN Afm(n) : Afm(n)[k].index = Afm(n)[l].index => k = l
    <2>1. PICK x \in Scenarios : dev = x.dev
      BY DEF Init
    <2> QED
      BY <2>1 DEF OwnIndices, Afm
  <1>4. Boot.thread.at = "WAIT"
    BY DEF Boot, Waiting
  <1>5. \A n \in Nodes : NodeSound(dev, n, tab[n], att[n], chan[n], thread[n])
    BY <1>1, <1>4, BootSound
  <1> QED
    BY <1>2, <1>3, <1>5 DEF PassInv

LEMMA NextPasses ==
  ASSUME AgreeInv, AgreeInv', PassInv, [Next]_vars
  PROVE  PassInv'
  <1>1. CASE Next
    <2>1. PICK n \in Nodes :
            \/ RunAttester(n) \/ StopAttester(n) \/ Tick(n) \/ I3cAttestation(n)
            \/ Thread(n) \/ Respond(n) \/ ForeignRequest(n) \/ Lose(n)
            \/ (\E i \in 1..MaxSession : Expire(n, i))
            \/ ChangeFirmware(n) \/ Reboot(n)
      BY <1>1, Zenon DEF Next
    <2>2. CASE RunAttester(n) \/ StopAttester(n) \/ Tick(n) \/ I3cAttestation(n)
      BY <2>2, ThreadStepPasses
    <2>3. CASE Thread(n)
      BY <2>3, ThreadStepPasses, KeepAlivePasses, NextDevicePasses, VerdictPasses, SendPasses,
         ReceivePasses DEF Thread
    <2>4. CASE Respond(n)
      BY <2>4, RespondPasses
    <2>5. CASE ForeignRequest(n)
      BY <2>5, ForeignPasses
    <2>6. CASE Lose(n)
      BY <2>6, LosePasses
    <2>7. CASE \E i \in 1..MaxSession : Expire(n, i)
      BY <2>7, ExpirePasses
    <2>8. CASE ChangeFirmware(n)
      BY <2>8, ChangeFirmwarePasses
    <2>9. CASE Reboot(n)
      BY <2>9, RebootPasses
    <2> QED
      BY <2>1, <2>2, <2>3, <2>4, <2>5, <2>6, <2>7, <2>8, <2>9
  <1>2. CASE UNCHANGED vars
    <2>1. UNCHANGED <<dev, rctx, tab, att, chan, thread>>
      BY <1>2 DEF vars
    <2>2. /\ \A q \in Nodes : Offers(rctx'[q], dev[q])
          /\ \A q \in Nodes : Attester(q) =>
               NodeSound(dev, q, tab'[q], att'[q], chan'[q], thread'[q])
      BY <2>1 DEF PassInv
    <2>3. \A q \in Nodes : Later(dev[q], dev'[q]) /\ dev'[q].afm = dev[q].afm
      BY <2>1, LaterSame
    <2> QED
      BY <2>2, <2>3, PassKept
  <1> QED
    BY <1>1, <1>2

\* No device passes that can be measured and is not what the AFM describes:
\* spdm_attest_device and spdm_attestation_with_session succeed only for a key
\* that a certified chain vouches for and, its firmware being what it was, the
\* listed measurements in their order, whatever is lost, stopped or rebooted.
THEOREM OnlyGenuinePass ==
  ASSUME OneWay, FreshSecrets, OwnIndices
  PROVE  Spec => []NoFalsePass
  <1>1. Init => PassInv
    BY InitPasses
  <1>2. AgreeInv /\ AgreeInv' /\ PassInv /\ [Next]_vars => PassInv'
    BY NextPasses
  <1>3. AgreeInv /\ PassInv => NoFalsePass
    <2> SUFFICES ASSUME AgreeInv, PassInv, NEW n \in Nodes, Judged(n), att[n].res = "SUCCEEDED"
                 PROVE  Passed(dev[Peer(n)], Entry(n))
      BY DEF NoFalsePass, Passed, Changed, Altered
    <2>1. att[n].pc # "IDLE" /\ Pass(att[n]) /\ thread[n].at = "DEVICES"
      BY DEF Judged, Pass
    <2> QED
      BY <2>1, PassFacts
  <1>4. Spec => []AgreeInv
    BY AgreeInvariant
  <1> QED
    BY <1>1, <1>2, <1>3, <1>4, PTL DEF Spec
=============================================================================
