------------------------------ MODULE SpdmSafety -----------------------------
(***************************************************************************)
(* What SPDM attestation promises.                                         *)
(***************************************************************************)
EXTENDS SpdmAttestation

(* What the theorems ask of the nodes (SpdmProofs); the runs' nodes are so.  *)

\* Who attests is not attested.  Requester and responder share the session
\* table: a FINISH for one releases the pending session of the other.
OneWay ==
  \A x \in Scenarios, n \in Nodes : \A k \in DOMAIN x.dev[n].afm :
    x.dev[x.dev[n].afm[k].peer].afm = <<>>

\* Session identifiers stand for the randomness of a key exchange.
FreshSecrets ==
  \A x \in Scenarios : \A n, q \in Nodes, i, j \in 1..MaxSession :
    /\ x.dev[n].base + i = x.dev[q].base + j => n = q
    /\ x.dev[n].base + i # ForeignId

\* An index is the position of the device in the AFM.
OwnIndices ==
  \A x \in Scenarios, n \in Nodes : \A k, l \in DOMAIN x.dev[n].afm :
    x.dev[n].afm[k].index = x.dev[n].afm[l].index => k = l

----------------------------------------------------------------------------
Results == {"NONE", "SUCCEEDED", "VCA", "DIGEST", "CERTIFICATE", "CHALLENGE_AUTH",
            "MEASUREMENTS", "KEY_EXCHANGE", "MUTUAL_AUTH", "FINISH", "HEARTBEAT"}

\* Type invariant: every table slot is empty or names a session, attestations
\* have a known result, and an idle thread has no request outstanding.
SpdmTypeOK ==
  \A n \in Nodes :
    /\ att[n].res \in Results
    /\ att[n].pc \in {"IDLE", "VERDICT"} => chan[n].st = "IDLE"
    /\ \A i \in 1..MaxSession :
         tab[n][i].valid \/ tab[n][i] = EmptySession
    /\ evt[n] \subseteq {"T0", "TICK", "T0_I3C", "ATTESTED_CPU"}

----------------------------------------------------------------------------
(* Verdicts.                                                               *)

Judged(n) == att[n].pc = "VERDICT" /\ thread[n].at = "DEVICES"

\* A device that can prove who it is and what it runs.
Measurable(d) == {"CERT", "MEAS_SIG"} \subseteq d.caps
Identified(d, s) == d.slots[s] \in RootedChain /\ d.served[s] = d.slots[s]
                    /\ ChainOwner[d.slots[s]] = d.key
\* The expected values, in order, among the measurement blocks.
Measured(d, e) ==
  \E f \in [DOMAIN e.expect -> DOMAIN d.meas] :
    /\ \A i \in DOMAIN e.expect : d.meas[f[i]] \in e.expect[i]
    /\ \A i, j \in DOMAIN e.expect : i < j => f[i] < f[j]

\* Block value 0: firmware that changed while the platform ran.
Changed(n) == \E b \in DOMAIN dev[n].meas : dev[n].meas[b] = 0

\* No device passes that can be measured and is not what the AFM describes:
\* spdm_attest_device and spdm_attestation_with_session succeed only for a
\* certified key and the listed measurements.  Firmware changed during the
\* attestation is caught by the next one.
NoFalsePass ==
  \A n \in Nodes :
    Judged(n) /\ att[n].res = "SUCCEEDED" /\ Measurable(dev[Peer(n)])
      => /\ \E s \in Slots : Identified(dev[Peer(n)], s)
         /\ (Measured(dev[Peer(n)], Entry(n)) \/ Changed(Peer(n)))

\* While nothing is lost or stopped, a genuine device is not failed: no order
\* of handshakes, heartbeats and session expiries makes the two ends of an
\* attestation disagree.  The device proves itself with slot 0, offers at most
\* two versions, and in a session speaks SPDM 1.2.
Provable(d, e) ==
  /\ Measurable(d) /\ Identified(d, 0) /\ Len(d.versions) < 3
  /\ e.i3c => \E i \in DOMAIN d.versions : d.versions[i] = 12
NoFalseFail ==
  \A n \in Nodes :
    Judged(n) /\ quiet /\ Provable(dev[Peer(n)], Entry(n)) /\ Measured(dev[Peer(n)], Entry(n))
      => att[n].res = "SUCCEEDED"

----------------------------------------------------------------------------
(* Sessions.                                                               *)

\* The two ends of an established session derived the same traffic keys,
\* whatever was lost on the way: neither is established on another transcript
\* than its peer.
Ends(n, i, q, j) ==
  /\ n # q /\ tab[n][i].valid /\ tab[q][j].valid
  /\ tab[n][i].type = "REQ" /\ tab[q][j].type = "RSP"
  /\ tab[n][i].state = "ESTABLISHED" /\ tab[q][j].state = "ESTABLISHED"
  /\ tab[n][i].id = tab[q][j].id
SessionKeysAgree ==
  \A n, q \in Nodes : \A i, j \in 1..MaxSession :
    Ends(n, i, q, j) => \A d \in {"REQ", "RSP"} :
      /\ tab[n][i].key[d].secret = tab[q][j].key[d].secret
      /\ tab[n][i].key[d].over = tab[q][j].key[d].over

\* A key seals a message under one sequence number only: what is sent now is
\* never sealed with the key and the number of a message still outstanding or
\* of the message before it in the session.
SealsAdvance ==
  [][\A n \in Nodes :
       chan'[n].seal.on /\ chan'[n].seal # chan[n].seal
         => \A q \in Nodes, i \in 1..MaxSession, d \in {"REQ", "RSP"} :
              tab'[q][i].valid /\ tab'[q][i].type = d
                => \/ tab'[q][i].key[d] # chan'[n].seal.key
                   \/ tab'[q][i].seq[d] > chan'[n].seal.seq]_vars

----------------------------------------------------------------------------
(* Liveness.                                                               *)

\* After the last loss, stop and reboot a genuine device is attested again
\* and again: an orphaned session, a pending one or a desynchronised one does
\* not keep the attester out for good.
Attested(n, p) == Judged(n) /\ Peer(n) = p /\ att[n].res = "SUCCEEDED"
Deserving(n, p) ==
  \E k \in DOMAIN Afm(n) : Afm(n)[k].peer = p /\ Provable(dev[p], Afm(n)[k])
    /\ Measured(dev[p], Afm(n)[k])
AttestationRecovers ==
  \A n, p \in Nodes : []Deserving(n, p) => []<>Attested(n, p)

\* Changed firmware is reported to the state machine, in a session or without.
Wanting(n, p) ==
  \E k \in DOMAIN Afm(n) :
    Afm(n)[k].peer = p /\ Measurable(dev[p]) /\ ~Measured(dev[p], Afm(n)[k])
Reported(n, p) == \E r \in raised[n] : Afm(n)[r[1]].peer = p
ChangeDetected ==
  \A n, p \in Nodes : Wanting(n, p) ~> Reported(n, p)
=============================================================================
