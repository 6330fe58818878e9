---------------------------- MODULE SignatureProofs ----------------------------
(***************************************************************************)
(* Proofs about PfrAuthentication: a document is accepted exactly when it  *)
(* is genuine, for every catalog of images, key id and order of            *)
(* certificates; no certificate takes a PFM that is in use; what an update *)
(* installs and what boots is genuine.                                     *)
(***************************************************************************)
EXTENDS SignatureSafety, SequenceTheorems, WellFoundedInduction, TLAPS

Policies == {"CPLD", "PCH_PFM", "PCH_CAPSULE", "BMC_PFM", "BMC_CAPSULE"}

\* The flash holds documents as their issuers make them, and a staging region
\* what can be staged.
Holdings(f) ==
  /\ DOMAIN f = Hosts
  /\ \A h \in Hosts :
       /\ DOMAIN f[h] = Regions /\ Composed(f[h]["staging"])
       /\ \A region \in Regions : WellMade(f[h][region])

\* The policy words have a cleared bit for every key that was cancelled, and
\* for no other.
Bit(p, id) == <<p, id \div 32, 31 - (id % 32)>>
Tied ==
  /\ DOMAIN ufm = {"root", "cleared", "svn"}
  /\ cancelled \subseteq Policies \X (0..127)
  /\ \A p \in Policies, id \in 0..127 : Bit(p, id) \in ufm.cleared <=> <<p, id>> \in cancelled

\* A set of natural numbers that is not empty has a least element, and Min is it.
LEMMA LeastElement ==
  ASSUME NEW T, T \subseteq Nat, T # {}
  PROVE  Min(T) \in T /\ \A y \in T : Min(T) <= y
  <1> DEFINE less == OpToRel(<, Nat)
  <1>1. IsWellFoundedOn(less, Nat)
    BY NatLessThanWellFounded
  <1>2. \A x, y \in Nat : <<y, x>> \in less <=> y < x
    BY DEF OpToRel
  <1> HIDE DEF less
  <1>3. PICK x \in T : \A y \in T : ~(<<y, x>> \in less)
    BY <1>1, WFMin
  <1>4. ASSUME NEW y \in T PROVE x <= y
    <2>1. x \in Nat /\ y \in Nat /\ ~(y < x)
      BY <1>2, <1>3
    <2> QED
      BY <2>1
  <1> QED
    BY <1>4 DEF Min

-----------------------------------------------------------------------------
(* One document.                                                           *)

\* Every certificate and every document but a seamless capsule has a policy.
LEMMA PolicyFacts ==
  ASSUME NEW type
  PROVE  /\ PolicyOf(type) # "none" => PolicyOf(type) \in Policies
         /\ type \in Certificates => PolicyOf(type) \in Policies
         /\ type = "PCH_SEAMLESS" => PolicyOf(type) = "none"
         /\ \A h \in Hosts : PolicyOf(Pfm[h]) = Pfm[h]
  <1>1. /\ PolicyOf(type) # "none" => PolicyOf(type) \in Policies
        /\ type \in Certificates => PolicyOf(type) \in Policies
        /\ type = "PCH_SEAMLESS" => PolicyOf(type) = "none"
    BY Zenon DEF PolicyOf, Policies, Certificates
  <1>2. \A h \in Hosts : PolicyOf(Pfm[h]) = Pfm[h]
    BY DEF PolicyOf, Hosts, Pfm
  <1> QED
    BY <1>1, <1>2

\* verify_csk_key_id: two ids up to KEY_CANCELLATION_MAX_KEY_ID share no bit.
LEMMA BitsApart ==
  ASSUME NEW i \in 0..127, NEW j \in 0..127, NEW p, NEW q, Bit(p, i) = Bit(q, j)
  PROVE  i = j /\ p = q
  BY DEF Bit

\* verify_csk_key_id: a key is allowed unless it has been cancelled.
LEMMA AllowedIff ==
  ASSUME Tied, NEW type, type # "PCH_SEAMLESS", PolicyOf(type) # "none", NEW id \in 0..127
  PROVE  KeyAllowed(ufm, type, id) <=> <<PolicyOf(type), id>> \notin cancelled
  <1>1. KeyId(id) = id /\ id <= MaxKeyId
    BY DEF KeyId, MaxKeyId
  <1>2. PolicyOf(type) \in Policies
    BY PolicyFacts
  <1>3. PolicyBit(type, id) = Bit(PolicyOf(type), id)
    BY DEF PolicyBit, Bit
  <1>4. Bit(PolicyOf(type), id) \in ufm.cleared <=> <<PolicyOf(type), id>> \in cancelled
    BY <1>2 DEF Tied
  <1> QED
    BY <1>1, <1>2, <1>3, <1>4 DEF KeyAllowed

\* What intel_pfr_manifest_verify says of a document.
Accepted(d, curve) == ValidateKc(ufm, d, curve) /\ Block1(ufm, d) /\ Block0(d)

\* A certificate, which has no CSK.
LEMMA CertificateIff ==
  ASSUME NEW d, NEW curve, Issued(d), d.type \in Certificates
  PROVE  Accepted(d, curve) <=> Genuine(d) /\ Sig(curve) = Sig(d.curve)
  <1>1. d.type # "DECOMMISSION"
    BY DEF Certificates
  <1>2. Accepted(d, curve)
          <=> /\ Sig(curve) = Sig(d.curve) /\ d.flaw # "reserved"
              /\ d.flaw # "block1" /\ d.flaw # "root" /\ d.root = ufm.root
              /\ d.flaw # "entry" /\ d.by = d.root
              /\ d.flaw \notin {"block0", "content"}
    BY Zenon DEF Accepted, ValidateKc, Block1, Block0, RootEntry, Block0Entry
  <1>3. Genuine(d) <=> d.flaw = "none" /\ d.root = ufm.root /\ d.by = d.root
    BY <1>1, Zenon DEF Genuine
  <1>4. d.flaw = "block1" \/ d.flaw \in {"none", "root", "entry", "block0", "content", "reserved"}
    BY DEF Issued
  <1> QED
    BY <1>2, <1>3, <1>4

\* Every other document, signed by a CSK.
LEMMA DocumentIff ==
  ASSUME Tied, NEW d, NEW curve, Issued(d), d.type \notin Certificates
  PROVE  Accepted(d, curve) <=> Genuine(d)
  <1> DEFINE signed == /\ d.root = ufm.root /\ SignBit(d.type) \in d.csk.perm
                       /\ d.csk.by = d.root /\ d.by = d.csk.key
  <1>1. Accepted(d, curve)
          <=> /\ KeyAllowed(ufm, d.type, d.csk.id) /\ signed
              /\ d.flaw \notin {"block1", "root", "csk", "entry", "block0", "content"}
    BY Zenon DEF Accepted, ValidateKc, Block1, Block0, RootEntry, CskEntry, Block0Entry
  <1>2. Genuine(d)
          <=> /\ d.flaw = "none" \/ (d.type = "DECOMMISSION" /\ d.flaw = "reserved")
              /\ signed /\ <<PolicyOf(d.type), d.csk.id>> \notin cancelled
    BY Zenon DEF Genuine
  <1> HIDE DEF signed
  <1>3. CASE d.flaw = "block1"
    BY <1>1, <1>2, <1>3
  <1>4. CASE d.flaw # "block1"
    <2>1. /\ d.csk.id \in 0..127 /\ "none" \notin d.csk.perm
          /\ d.flaw = "reserved" => d.type = "DECOMMISSION"
          /\ d.flaw \in {"none", "root", "csk", "entry", "block0", "content", "reserved"}
      BY <1>4 DEF Issued
    <2>2. signed => KeyAllowed(ufm, d.type, d.csk.id) <=> <<PolicyOf(d.type), d.csk.id>> \notin cancelled
      <3>1. CASE d.type = "PCH_SEAMLESS"
        <4>1. PolicyOf(d.type) = "none"
          BY <3>1, PolicyFacts
        <4>2. <<"none", d.csk.id>> \notin cancelled
          BY DEF Tied, Policies
        <4> QED
          BY <3>1, <4>1, <4>2 DEF KeyAllowed
      <3>2. CASE d.type # "PCH_SEAMLESS" /\ PolicyOf(d.type) # "none"
        BY <2>1, <3>2, AllowedIff
      <3>3. CASE d.type # "PCH_SEAMLESS" /\ PolicyOf(d.type) = "none"
        <4>1. SignBit(d.type) = "none"
          BY <3>3, PolicyFacts DEF SignBit, PolicyOf
        <4> QED
          BY <2>1, <4>1 DEF signed
      <3> QED
        BY <3>1, <3>2, <3>3
    <2> QED
      BY <1>1, <1>2, <2>1, <2>2
  <1> QED
    BY <1>3, <1>4

\* intel_pfr_manifest_verify on any document an issuer made.
LEMMA AcceptedIff ==
  ASSUME Tied, NEW d, NEW curve, Issued(d)
  PROVE  Accepted(d, curve)
           <=> Genuine(d) /\ (d.type \in Certificates => Sig(curve) = Sig(d.curve))
  BY CertificateIff, DocumentIff

\* Verify at an address says what Accepted says of the document there.
LEMMA VerifyIs ==
  ASSUME NEW f, NEW dev, NEW a, NEW curve
  PROVE  Verify(f, ufm, dev, a, curve).ok = Accepted(At(f, dev, a), curve)
  BY Zenon DEF Verify, Accepted

\* Where nothing is written, or what nobody issued, there is nothing genuine.
LEMMA JunkRefused == Issued(Junk) /\ ~Genuine(Junk)
  BY DEF Issued, Junk, Genuine

-----------------------------------------------------------------------------
(* What is in the flash.                                                   *)

\* pfr_spi_read: what is read is a document, or nothing.
LEMMA ReadIssued ==
  ASSUME NEW f, Holdings(f), NEW dev \in Hosts, NEW a
  PROVE  Issued(At(f, dev, a))
  BY JunkRefused DEF At, Holdings, WellMade

\* A region written with documents still holds documents.
LEMMA PutHoldings ==
  ASSUME NEW f, Holdings(f), NEW h \in Hosts, NEW region \in Regions,
         NEW image, WellMade(image), region = "staging" => Composed(image)
  PROVE  Holdings([f EXCEPT ![h][region] = image])
  <1> DEFINE g == [f EXCEPT ![h][region] = image]
  <1>1. DOMAIN g = Hosts /\ \A k \in Hosts : DOMAIN g[k] = Regions
    BY DEF Holdings
  <1>2. \A k \in Hosts, r \in Regions :
          g[k][r] = IF k = h /\ r = region THEN image ELSE f[k][r]
    BY DEF Holdings
  <1> HIDE DEF g
  <1>3. \A k \in Hosts, r \in Regions : WellMade(g[k][r])
    BY <1>2 DEF Holdings
  <1>4. "staging" \in Regions
    BY DEF Regions
  <1>5. \A k \in Hosts : Composed(g[k]["staging"])
    BY <1>2, <1>4 DEF Holdings
  <1>6. Holdings(g)
    BY <1>1, <1>3, <1>5 DEF Holdings
  <1> QED
    BY <1>6 DEF g

\* update_active_pfm: an installed image is made of the capsule's documents.
LEMMA InstalledMade ==
  ASSUME NEW image, WellMade(image), NEW curve
  PROVE  /\ WellMade(Installed(image, curve))
         /\ \A o \in DOMAIN Installed(image, curve) :
              \E i \in DOMAIN image : Installed(image, curve)[o] = image[i]
  <1>1. Sig(curve) \in Int
    BY DEF Sig
  <1> DEFINE g == Installed(image, curve)
  <1>2. DOMAIN g = {o - Sig(curve) : o \in DOMAIN image \ {0}}
    BY DEF Installed
  <1>3. ASSUME NEW o \in DOMAIN g
        PROVE  o \in Int /\ o + Sig(curve) \in DOMAIN image /\ g[o] = image[o + Sig(curve)]
    <2>1. PICK i \in DOMAIN image \ {0} : o = i - Sig(curve)
      BY <1>2, <1>3
    <2>2. i \in Int
      BY DEF WellMade
    <2>3. o \in Int /\ o + Sig(curve) = i
      BY <1>1, <2>1, <2>2
    <2>4. g[o] = image[o + Sig(curve)]
      BY <1>3, <1>2 DEF Installed
    <2> QED
      BY <2>1, <2>3, <2>4
  <1> HIDE DEF g
  <1>4. WellMade(g) /\ \A o \in DOMAIN g : \E i \in DOMAIN image : g[o] = image[i]
    BY <1>3 DEF WellMade
  <1> QED
    BY <1>4 DEF g

\* Regions and hosts by their names.
LEMMA Names == {"active", "recovery", "staging", "rot"} \subseteq Regions /\ {"BMC", "PCH"} \subseteq Hosts
  BY DEF Regions, Hosts

\* pfr_staging_pch_staging: the copy is as good as what the BMC staged.
LEMMA FetchedHoldings ==
  ASSUME NEW f, Holdings(f)
  PROVE  /\ Holdings(Fetched(f))
         /\ \A h \in Hosts, region \in {"active", "recovery"} :
              Fetched(f)[h][region] = f[h][region]
  <1>1. "BMC" \in Hosts /\ "PCH" \in Hosts /\ "staging" \in Regions
        /\ "active" \in Regions /\ "recovery" \in Regions
    BY Names
  <1>2. WellMade(f["BMC"]["staging"]) /\ Composed(f["BMC"]["staging"])
    BY <1>1 DEF Holdings
  <1>3. Holdings(Fetched(f))
    BY <1>1, <1>2, PutHoldings DEF Fetched
  <1>4. \A h \in Hosts, region \in {"active", "recovery"} :
          Fetched(f)[h][region] = f[h][region]
    BY <1>1 DEF Fetched, Holdings
  <1> QED
    BY <1>3, <1>4

-----------------------------------------------------------------------------
(* Several documents.                                                      *)

\* manifest->base->verify: what passes is genuine.
LEMMA VerifiedGenuine ==
  ASSUME Tied, NEW f, Holdings(f), NEW dev \in Hosts, NEW a, NEW curve,
         Verify(f, ufm, dev, a, curve).ok
  PROVE  Genuine(At(f, dev, a))
  BY VerifyIs, ReadIssued, AcceptedIff

\* intel_fvms_verify and its like: when a walk over documents passes, all of
\* them are genuine, whatever curves it went through.
LEMMA WalkGenuine ==
  ASSUME Tied, NEW f, Holdings(f), NEW dev \in Hosts, NEW curve, NEW as,
         VerifyAll(f, ufm, dev, as, curve).ok,
         NEW i \in DOMAIN as
  PROVE  Genuine(At(f, dev, as[i]))
  <1> DEFINE seen == IF i = 1 THEN curve ELSE At(f, dev, as[i - 1]).curve
  <1>1. as # <<>>
    <2>1. << >> \in Seq({})
      OBVIOUS
    <2>2. DOMAIN << >> = {}
      BY <2>1
    <2> QED
      BY <2>2
  <1>2. Verify(f, ufm, dev, as[i], seen).ok
    BY <1>1 DEF VerifyAll
  <1> HIDE DEF seen
  <1> QED
    BY <1>2, VerifiedGenuine

\* The two signatures of a capsule.
LEMMA PairGenuine ==
  ASSUME Tied, NEW f, Holdings(f), NEW dev \in Hosts, NEW curve,
         NEW a, NEW b,
         VerifyAll(f, ufm, dev, <<a, b>>, curve).ok
  PROVE  /\ Genuine(At(f, dev, a)) /\ Genuine(At(f, dev, b))
         /\ VerifyAll(f, ufm, dev, <<a, b>>, curve).curve = At(f, dev, b).curve
  <1> DEFINE as == <<a, b>>
  <1>1. DOMAIN as = {1, 2} /\ as[1] = a /\ as[2] = b /\ Len(as) = 2 /\ as # <<>>
    OBVIOUS
  <1>2. VerifyAll(f, ufm, dev, as, curve).ok
    OBVIOUS
  <1> HIDE DEF as
  <1>3. Genuine(At(f, dev, a)) /\ Genuine(At(f, dev, b))
    BY <1>1, <1>2, WalkGenuine
  <1>4. /\ Verify(f, ufm, dev, b, At(f, dev, a).curve).ok
        /\ VerifyAll(f, ufm, dev, as, curve).curve
             = Verify(f, ufm, dev, b, At(f, dev, a).curve).curve
    <2> DEFINE Result(n) == Verify(f, ufm, dev, as[n],
                              IF n = 1 THEN curve ELSE At(f, dev, as[n - 1]).curve)
               bad == {n \in DOMAIN as : ~Result(n).ok}
    <2>1. bad = {} /\ VerifyAll(f, ufm, dev, as, curve)
                        = [ok |-> bad = {}, curve |-> Result(2).curve, addr |-> as[2]]
      BY <1>1, <1>2 DEF VerifyAll
    <2>2. Result(2) = Verify(f, ufm, dev, b, At(f, dev, a).curve)
      <3>1. 2 - 1 = 1 /\ 2 # 1
        OBVIOUS
      <3> QED
        BY <1>1, <3>1, Zenon
    <2>3. Result(2).ok
      BY <1>1, <2>1
    <2> HIDE DEF Result, bad
    <2> QED
      BY <2>1, <2>2, <2>3
  <1>5. VerifyAll(f, ufm, dev, as, curve).curve = At(f, dev, b).curve
    <2>1. ValidateKc(ufm, At(f, dev, b), At(f, dev, a).curve) /\ At(f, dev, b).flaw # "block1"
      BY <1>4 DEF Verify, Block1
    <2> QED
      BY <1>4, <2>1 DEF Verify
  <1> QED
    BY <1>3, <1>5 DEF as

\* What is read at an address of a region.
LEMMA ReadAt ==
  ASSUME NEW f, Holdings(f), NEW dev \in Hosts, NEW region \in Regions, NEW o
  PROVE  /\ o \in DOMAIN f[dev][region] => At(f, dev, Address(dev, region, o)) = f[dev][region][o]
         /\ o \notin DOMAIN f[dev][region] => At(f, dev, Address(dev, region, o)) = Junk
  BY DEF At, Address, Holdings

LEMMA ReadOn ==
  ASSUME NEW dev, NEW region, NEW o, NEW n
  PROVE  Plus(Address(dev, region, o), n) = Address(dev, region, o + n)
  BY DEF Plus, Address

\* pfr_staging_verify: what a capsule that passes consists of.
LEMMA StagingPasses ==
  ASSUME Tied, NEW f, Holdings(f), NEW dev \in Hosts, NEW curve, NEW state, NEW intents,
         StagingVerify(f, ufm, dev, curve, state, intents).ok
  PROVE  LET a     == Address(dev, "staging", 0)
             outer == At(f, dev, a)
             inner == At(f, dev, Address(dev, "staging", Sig(outer.curve)))
             pfm   == Address(dev, "staging", Sig(inner.curve))
             s     == StagingVerify(f, ufm, dev, curve, state, intents)
         IN /\ Genuine(outer) /\ Genuine(inner)
            /\ state # "RECOVERY" => ValidatePcType(dev, outer.type, intents)
            /\ dev = "PCH" /\ state # "SEAMLESS" =>
                 \A i \in DOMAIN At(f, dev, pfm).fvms :
                   Genuine(At(f, dev, Address(dev, "staging",
                                     Sig(inner.curve) + At(f, dev, pfm).fvms[i].off)))
            /\ dev = "PCH" /\ state = "SEAMLESS" =>
                 /\ s.curve = inner.curve /\ ~Lms(inner.curve)
                 /\ At(f, dev, Address(dev, "staging", 1)).fv # "none"
  <1> DEFINE a     == Address(dev, "staging", 0)
             outer == At(f, dev, a)
             b     == Address(dev, "staging", Sig(outer.curve))
             inner == At(f, dev, b)
             pfm   == Address(dev, "staging", Sig(inner.curve))
             s     == StagingVerify(f, ufm, dev, curve, state, intents)
             r     == VerifyAll(f, ufm, dev, <<a, b>>, curve)
             v     == [ok |-> r.ok, addr |-> r.addr, curve |-> r.curve, state |-> state, off |-> 0]
  <1>1. Sig(outer.curve) \in Int /\ Sig(inner.curve) \in Int
    BY DEF Sig
  <1>2. Inner(f, dev, a) = b
    BY <1>1, ReadOn DEF Inner
  <1>3. /\ state # "RECOVERY" => ValidatePcType(dev, outer.type, intents)
        /\ s = StagingRest(f, ufm, dev, v)
    BY <1>2 DEF StagingVerify
  <1>4. StagingRest(f, ufm, dev, v).ok => r.ok
    BY DEF StagingRest
  <1>6. Genuine(outer) /\ Genuine(inner) /\ r.curve = inner.curve
    BY <1>3, <1>4, PairGenuine
  <1>7. Plus(a, Sig(v.curve)) = pfm
    BY <1>1, <1>6, ReadOn
  <1>8. ASSUME dev = "PCH", state # "SEAMLESS", NEW i \in DOMAIN At(f, dev, pfm).fvms
        PROVE  Genuine(At(f, dev, Address(dev, "staging",
                                     Sig(inner.curve) + At(f, dev, pfm).fvms[i].off)))
    <2>1. StagingFvms(f, ufm, dev, state, pfm, v).ok
      BY <1>3, <1>4, <1>7, <1>8 DEF StagingRest
    <2> DEFINE as == FvmsOf(At(f, dev, pfm), pfm)
    <2>2. VerifyAll(f, ufm, dev, as, v.curve).ok
      BY <2>1 DEF StagingFvms
    <2>3. \A n \in DOMAIN At(f, dev, pfm).fvms :
            as[n] = Address(dev, "staging", Sig(inner.curve) + At(f, dev, pfm).fvms[n].off)
      BY ReadOn DEF FvmsOf
    <2>4. DOMAIN as = DOMAIN At(f, dev, pfm).fvms
      BY DEF FvmsOf
    <2> HIDE DEF as, v, pfm, inner
    <2>6. Genuine(At(f, dev, as[i]))
      BY <1>8, <2>2, <2>4, WalkGenuine
    <2> QED
      BY <1>8, <2>3, <2>6
  <1>9. ASSUME dev = "PCH", state = "SEAMLESS"
        PROVE  /\ s.curve = inner.curve /\ ~Lms(inner.curve)
               /\ At(f, dev, Address(dev, "staging", 1)).fv # "none"
    <2> DEFINE fvm == FvmVerify(f, dev, a, v.curve)
    <2>1. s = [v EXCEPT !.addr = a, !.ok = fvm.ok, !.off = fvm.off]
      BY <1>3, <1>4, <1>9 DEF StagingRest
    <2>2. fvm.ok /\ s.curve = v.curve
      BY <2>1
    <2>3. Plus(a, 1) = Address(dev, "staging", 1)
      BY ReadOn
    <2>4. ~Lms(v.curve) /\ At(f, dev, Plus(a, 1)).fv # "none"
      BY <2>2 DEF FvmVerify
    <2> QED
      BY <1>6, <2>2, <2>3, <2>4
  <1> HIDE DEF v, r
  <1> QED
    BY <1>3, <1>6, <1>8, <1>9

\* update_firmware_image: every document of a capsule that passes is genuine,
\* the FVMs of a capsule for the PCH included.
LEMMA CapsuleGenuine ==
  ASSUME Tied, NEW f, Holdings(f), NEW dev \in Hosts, NEW curve,
         NEW intents, intents \subseteq {dev, "ROT"},
         StagingVerify(f, ufm, dev, curve, "UPDATE", intents).ok
  PROVE  \A o \in DOMAIN f[dev]["staging"] : Genuine(f[dev]["staging"][o])
  <1> DEFINE image == f[dev]["staging"]
             outer == At(f, dev, Address(dev, "staging", 0))
             inner == At(f, dev, Address(dev, "staging", Sig(outer.curve)))
             pfm   == At(f, dev, Address(dev, "staging", Sig(inner.curve)))
  <1>1. /\ Genuine(outer) /\ Genuine(inner) /\ ValidatePcType(dev, outer.type, intents)
        /\ dev = "PCH" => \A i \in DOMAIN pfm.fvms :
             Genuine(At(f, dev, Address(dev, "staging", Sig(inner.curve) + pfm.fvms[i].off)))
    BY StagingPasses
  <1>2. Composed(image)
    BY DEF Holdings
  <1>3. 0 \in DOMAIN image /\ outer = image[0]
    BY <1>1, ReadAt, Names, JunkRefused
  <1> SUFFICES ASSUME NEW o \in DOMAIN image PROVE Genuine(image[o])
    OBVIOUS
  <1> DEFINE at == Sig(outer.curve)
  <1>4. /\ \A n \in DOMAIN image : Sig(image[n].curve) = at
        /\ \/ o \in {0, at}
           \/ /\ outer.type = "PCH_CAPSULE" /\ at \in DOMAIN image
              /\ \E i \in DOMAIN image[at].fvms : o = at + image[at].fvms[i].off
    BY <1>2, <1>3 DEF Composed
  <1>5. CASE o = 0
    BY <1>1, <1>3, <1>5
  <1>6. CASE o = at
    BY <1>1, <1>6, ReadAt, Names
  <1>7. CASE /\ outer.type = "PCH_CAPSULE" /\ at \in DOMAIN image
             /\ \E i \in DOMAIN image[at].fvms : o = at + image[at].fvms[i].off
    <2>1. dev = "PCH"
      <3>1. outer.type = "PCH_CAPSULE" /\ ValidatePcType(dev, outer.type, intents)
        BY <1>1, <1>7
      <3>2. Cap[dev] = "PCH_CAPSULE"
        BY <3>1, Zenon DEF ValidatePcType
      <3> QED
        BY <1>1, <3>2 DEF Cap, Hosts
    <2>2. inner = image[at]
      BY <1>7, ReadAt, Names
    <2>3. Sig(inner.curve) = at
      BY <1>4, <1>7, <2>2
    <2>4. pfm = image[at]
      BY <2>2, <2>3
    <2> HIDE DEF inner, pfm, at, outer, image
    <2>5. PICK i \in DOMAIN pfm.fvms : o = at + pfm.fvms[i].off
      BY <1>7, <2>4
    <2>6. Genuine(At(f, dev, Address(dev, "staging", o)))
      BY <1>1, <2>1, <2>3, <2>5
    <2> QED
      BY <2>6, ReadAt, Names DEF image
  <1> QED
    BY <1>4, <1>5, <1>6, <1>7

\* perform_seamless_update: the FVM it writes is the genuine one behind the
\* capsule's signature.
LEMMA SeamlessGenuine ==
  ASSUME Tied, NEW f, Holdings(f), NEW curve,
         StagingVerify(f, ufm, "PCH", curve, "SEAMLESS", {"SEAMLESS"}).ok
  PROVE  LET s == StagingVerify(f, ufm, "PCH", curve, "SEAMLESS", {"SEAMLESS"})
         IN Genuine(At(f, "PCH", Address("PCH", "staging", Sig(s.curve))))
  <1> DEFINE image == f["PCH"]["staging"]
             outer == At(f, "PCH", Address("PCH", "staging", 0))
             at    == Sig(outer.curve)
             inner == At(f, "PCH", Address("PCH", "staging", at))
             s     == StagingVerify(f, ufm, "PCH", curve, "SEAMLESS", {"SEAMLESS"})
  <1>1. "PCH" \in Hosts
    BY DEF Hosts
  <1>2. /\ Genuine(outer) /\ Genuine(inner) /\ ValidatePcType("PCH", outer.type, {"SEAMLESS"})
        /\ s.curve = inner.curve /\ ~Lms(inner.curve)
        /\ At(f, "PCH", Address("PCH", "staging", 1)).fv # "none"
    BY <1>1, StagingPasses
  <1>3. outer.type # "PCH_CAPSULE"
    BY <1>2 DEF ValidatePcType, Cap
  <1>4. 0 \in DOMAIN image /\ outer = image[0]
    BY <1>1, <1>2, ReadAt, Names, JunkRefused
  <1>5. 1 \in DOMAIN image
    BY <1>1, <1>2, ReadAt, Names DEF Junk
  <1>6. at = 1
    BY <1>1, <1>3, <1>4, <1>5 DEF Holdings, Composed
  <1>7. Sig(s.curve) = 1
    BY <1>2 DEF Sig
  <1> QED
    BY <1>2, <1>6, <1>7

-----------------------------------------------------------------------------
(* The handlers keep the flash made of documents and the policy words tied  *)
(* to what was cancelled.                                                   *)

\* What a handler may do to flash and UFM.
Sane == Holdings(flash') /\ Tied'

\* Neither policy words nor history changed.
LEMMA SamePolicy ==
  ASSUME Tied, UNCHANGED cancelled, ufm'.cleared = ufm.cleared, DOMAIN ufm' = DOMAIN ufm
  PROVE  Tied'
  BY DEF Tied

\* cancel_csk_key_id: one more cleared bit, and it is that of the key.
LEMMA CancelTied ==
  ASSUME Tied, NEW type \in Certificates, NEW cancels \in Nat, Cancel(type, KeyId(cancels))
  PROVE  Tied'
  <1> DEFINE id == KeyId(cancels)
             p  == PolicyOf(type)
  <1>1. CASE UNCHANGED <<ufm, cancelled>>
    BY <1>1, SamePolicy
  <1>2. CASE /\ id <= MaxKeyId
             /\ ufm' = [ufm EXCEPT !.cleared = @ \cup {PolicyBit(type, id)}]
             /\ cancelled' = cancelled \cup {<<p, id>>}
    <2>1. id \in 0..127 /\ p \in Policies
      <3>1. id \in 0..255
        BY DEF KeyId
      <3> HIDE DEF id
      <3> QED
        BY <1>2, <3>1, PolicyFacts DEF MaxKeyId
    <2>2. PolicyBit(type, id) = Bit(p, id)
      BY DEF PolicyBit, Bit
    <2> HIDE DEF id, p
    <2>3. DOMAIN ufm' = {"root", "cleared", "svn"} /\ ufm'.cleared = ufm.cleared \cup {Bit(p, id)}
      BY <1>2, <2>2 DEF Tied
    <2>4. cancelled' \subseteq Policies \X (0..127)
      <3>1. <<p, id>> \in Policies \X (0..127)
        BY <2>1
      <3>2. cancelled \subseteq Policies \X (0..127)
        BY DEF Tied
      <3> QED
        BY <1>2, <3>1, <3>2, Zenon
    <2>5. ASSUME NEW q \in Policies, NEW i \in 0..127
          PROVE  Bit(q, i) \in ufm'.cleared <=> <<q, i>> \in cancelled'
      <3>1. Bit(q, i) \in ufm.cleared <=> <<q, i>> \in cancelled
        BY DEF Tied
      <3>2. Bit(q, i) = Bit(p, id) <=> q = p /\ i = id
        BY <2>1, BitsApart
      <3> QED
        BY <1>2, <2>3, <3>1, <3>2
    <2> QED
      BY <2>3, <2>4, <2>5 DEF Tied
  <1> QED
    BY <1>1, <1>2 DEF Cancel

\* ast1060_update for whatever document it is given.
LEMMA RotCapsuleSane ==
  ASSUME Holdings(flash), Tied, NEW dev \in Hosts, NEW a, NEW sel, RotCapsule(dev, a, sel)
  PROVE  Sane /\ UNCHANGED <<flash, ao>>
  <1>1. Holdings(flash') /\ UNCHANGED <<flash, ao>>
    BY DEF RotCapsule
  <1> DEFINE d == At(flash, dev, a)
             v == Verify(flash, ufm, dev, a, manifest.curve)
  <1>2. CASE v.ok /\ d.type = "DECOMMISSION"
    <2>1. Decommission(d)
      BY <1>2 DEF RotCapsule, Certificates
    <2>2. CASE UNCHANGED <<ufm, cancelled>>
      BY <1>1, <2>2, SamePolicy DEF Sane
    <2>3. CASE ufm' = [ufm EXCEPT !.root = "none", !.cleared = {}] /\ cancelled' = {}
      BY <1>1, <2>3 DEF Tied, Sane
    <2> QED
      BY <2>1, <2>2, <2>3 DEF Decommission
  <1>3. CASE v.ok /\ d.type \in Certificates
    <2>1. Cancel(d.type, KeyId(d.cancels))
      BY <1>3 DEF RotCapsule, Certificates
    <2>2. d.cancels \in Nat
      <3>1. Issued(d) /\ d.flaw # "block1"
        BY <1>3, ReadIssued DEF Verify, Block1
      <3> QED
        BY <1>3, <3>1 DEF Issued
    <2> QED
      BY <1>1, <1>3, <2>1, <2>2, CancelTied DEF Sane
  <1>4. CASE ~(v.ok /\ d.type = "DECOMMISSION") /\ ~(v.ok /\ d.type \in Certificates)
    <2>1. \/ UNCHANGED <<ufm, cancelled>>
          \/ ufm' = [ufm EXCEPT !.svn["ROT"] = d.svn] /\ UNCHANGED cancelled
      BY <1>4 DEF RotCapsule
    <2>2. UNCHANGED cancelled /\ ufm'.cleared = ufm.cleared /\ DOMAIN ufm' = DOMAIN ufm
      BY <2>1 DEF Tied
    <2> QED
      BY <1>1, <2>2, SamePolicy DEF Sane
  <1> QED
    BY <1>2, <1>3, <1>4

\* update_firmware_image, installation: a capsule's documents, or none.
LEMMA InstallSane ==
  ASSUME Tied, NEW f, Holdings(f), NEW h \in Hosts, NEW sel, NEW intents, NEW curve,
         Install(f, h, sel, intents, curve)
  PROVE  Sane /\ UNCHANGED <<ao, cancelled>>
  <1> DEFINE s == StagingVerify(f, ufm, h, curve, "UPDATE", intents)
             pfm == At(f, h, Address(h, "staging", Sig(s.curve)))
  <1>1. /\ \/ flash' = [f EXCEPT ![h]["active"] = Installed(f[h]["staging"], s.curve)]
           \/ flash' = [f EXCEPT ![h]["recovery"] = f[h]["staging"]]
           \/ flash' = f
        /\ UNCHANGED ufm \/ ufm' = [ufm EXCEPT !.svn[h] = pfm.svn]
        /\ UNCHANGED <<ao, cancelled>>
    BY DEF Install
  <1>2. ufm'.cleared = ufm.cleared /\ DOMAIN ufm' = DOMAIN ufm
    BY <1>1 DEF Tied
  <1>3. WellMade(f[h]["staging"]) /\ WellMade(Installed(f[h]["staging"], s.curve))
    BY InstalledMade, Names DEF Holdings
  <1> HIDE DEF s, pfm
  <1>4. Holdings(flash')
    BY <1>1, <1>3, PutHoldings, Names
  <1> QED
    BY <1>1, <1>2, <1>4, SamePolicy DEF Sane

\* pfr_staging_pch_staging leaves the flash as it was or with the copy.
LEMMA FetchSane ==
  ASSUME NEW f, Holdings(f), NEW curve, NEW state
  PROVE  LET r == Fetch(f, ufm, curve, state)
         IN /\ Holdings(r.flash)
            /\ \A h \in Hosts, region \in {"active", "recovery"} : r.flash[h][region] = f[h][region]
  BY FetchedHoldings DEF Fetch

\* update_firmware_image.
LEMMA UpdateHostSane ==
  ASSUME Holdings(flash), Tied, NEW h \in Hosts, NEW from \in Hosts, NEW sel, NEW intents,
         UpdateHost(h, from, sel, intents)
  PROVE  Sane
  <1>1. CASE UpdateCancel(from, sel)
    BY <1>1, RotCapsuleSane DEF UpdateCancel
  <1>2. CASE Install(flash, h, sel, intents, manifest.curve)
    BY <1>2, InstallSane
  <1>3. CASE \E r \in {Fetch(flash, ufm, manifest.curve, "UPDATE")} :
               \/ r.ok /\ Install(r.flash, h, sel, intents, r.curve)
               \/ /\ ~r.ok /\ flash' = r.flash /\ Left(r)
                  /\ UNCHANGED <<ufm, ao, recovered, cancelled, staged, lost>>
    <2> DEFINE r == Fetch(flash, ufm, manifest.curve, "UPDATE")
    <2>1. Holdings(r.flash)
      BY FetchSane
    <2>2. \/ Install(r.flash, h, sel, intents, r.curve)
          \/ flash' = r.flash /\ UNCHANGED <<ufm, cancelled>>
      BY <1>3
    <2> HIDE DEF r
    <2>3. CASE Install(r.flash, h, sel, intents, r.curve)
      BY <2>1, <2>3, InstallSane
    <2>4. CASE flash' = r.flash /\ UNCHANGED <<ufm, cancelled>>
      BY <2>1, <2>4, SamePolicy DEF Sane
    <2> QED
      BY <2>2, <2>3, <2>4
  <1> QED
    BY <1>1, <1>2, <1>3 DEF UpdateHost

\* find_fvm_addr: the FVM that is replaced lies at an offset the active PFM has.
LEMMA FvmOffset ==
  ASSUME NEW f, Holdings(f), NEW a, NEW curve
  PROVE  FvmVerify(f, "PCH", a, curve).off \in Int
  <1> DEFINE new  == At(f, "PCH", Plus(a, 1))
             act  == Address("PCH", "active", 0)
             fvms == At(f, "PCH", act).fvms
             hits == {i \in DOMAIN fvms : fvms[i].fv = new.fv}
             off  == fvms[Min(hits)].off
  <1>1. Issued(At(f, "PCH", act))
    BY ReadIssued, Names
  <1>2. DOMAIN fvms \subseteq Nat /\ \A i \in DOMAIN fvms : fvms[i].off \in Nat
    <2>1. fvms \in Seq([off : Nat, fv : STRING])
      BY <1>1 DEF Issued
    <2> DEFINE Entry == [off : Nat, fv : STRING]
    <2> HIDE DEF fvms
    <2>2. fvms \in [1..Len(fvms) -> Entry] /\ Len(fvms) \in Nat
      BY <2>1, LenProperties
    <2>3. \A e \in Entry : e.off \in Nat
      OBVIOUS
    <2> HIDE DEF Entry
    <2> QED
      BY <2>2, <2>3
  <1>3. FvmVerify(f, "PCH", a, curve).off = IF Lms(curve) \/ new.fv = "none" \/ hits = {} THEN 0 ELSE off
    BY DEF FvmVerify
  <1>4. hits # {} => off \in Nat
    <2> HIDE DEF fvms
    <2>1. hits \subseteq Nat
      BY <1>2
    <2>2. hits # {} => Min(hits) \in hits
      BY <2>1, LeastElement
    <2> QED
      BY <1>2, <2>2
  <1> HIDE DEF hits, off, new
  <1> QED
    BY <1>3, <1>4

\* perform_seamless_update, after the copy.
LEMMA SeamlessInstallSane ==
  ASSUME Tied, NEW f, Holdings(f), NEW curve,
         SeamlessInstall([flash |-> f, curve |-> curve])
  PROVE  /\ Holdings(flash')
         /\ \/ flash' = f
            \/ \E off \in Int : \E d :
                 /\ Genuine(d) /\ Issued(d)
                 /\ flash' = [f EXCEPT !["PCH"]["active"] = Overlay(@, off, d)]
  <1> DEFINE a   == Address("PCH", "staging", 0)
             s   == StagingVerify(f, ufm, "PCH", curve, "SEAMLESS", {"SEAMLESS"})
             fvm == At(f, "PCH", Address("PCH", "staging", Sig(s.curve)))
  <1>1. flash' = IF s.ok THEN [f EXCEPT !["PCH"]["active"] = Overlay(@, s.off, fvm)] ELSE f
    BY DEF SeamlessInstall
  <1>2. s.ok => s.off \in Int
    <2> DEFINE r == VerifyAll(f, ufm, "PCH", <<a, Inner(f, "PCH", a)>>, curve)
               v == [ok |-> r.ok, addr |-> r.addr, curve |-> r.curve, state |-> "SEAMLESS", off |-> 0]
    <2>1. s.ok => s = StagingRest(f, ufm, "PCH", v)
      BY DEF StagingVerify
    <2>2. StagingRest(f, ufm, "PCH", v).ok =>
            StagingRest(f, ufm, "PCH", v).off = FvmVerify(f, "PCH", a, v.curve).off
      BY DEF StagingRest
    <2> HIDE DEF s, v
    <2> QED
      BY <2>1, <2>2, FvmOffset
  <1>3. s.ok => Genuine(fvm)
    BY SeamlessGenuine
  <1>4. Issued(fvm)
    BY ReadIssued, Names
  <1> HIDE DEF s, fvm
  <1>5. CASE ~s.ok
    BY <1>1, <1>5
  <1>6. CASE s.ok
    <2>1. WellMade(Overlay(f["PCH"]["active"], s.off, fvm))
      <3>1. WellMade(f["PCH"]["active"])
        BY Names DEF Holdings
      <3> QED
        BY <1>2, <1>4, <1>6, <3>1 DEF Overlay, WellMade
    <2>2. flash' = [f EXCEPT !["PCH"]["active"] = Overlay(f["PCH"]["active"], s.off, fvm)]
      BY <1>1, <1>6, Names DEF Holdings
    <2>3. Holdings(flash')
      BY <2>1, <2>2, PutHoldings, Names
    <2> QED
      BY <1>1, <1>2, <1>3, <1>4, <1>6, <2>3
  <1> QED
    BY <1>5, <1>6

\* perform_seamless_update.
LEMMA SeamlessSane ==
  ASSUME Holdings(flash), Tied, NEW from \in Hosts, Seamless(from)
  PROVE  Sane
  <1> DEFINE a == IF from = "BMC" THEN Address("BMC", "staging", 0) ELSE manifest.addr
             r == Fetch(flash, ufm, manifest.curve, "SEAMLESS")
  <1>1. CASE RotCapsule(from, a, "active")
    BY <1>1, RotCapsuleSane
  <1>2. CASE ~RotCapsule(from, a, "active")
    <2>1. /\ UNCHANGED <<ufm, cancelled>>
          /\ \/ SeamlessInstall([flash |-> flash, curve |-> manifest.curve])
             \/ SeamlessInstall(r)
             \/ flash' = r.flash
      BY <1>2, Zenon DEF Seamless
    <2>2. Holdings(r.flash)
      BY FetchSane
    <2>3. CASE SeamlessInstall(r)
      <3>1. SeamlessInstall([flash |-> r.flash, curve |-> r.curve])
        BY <2>3 DEF SeamlessInstall
      <3> HIDE DEF r
      <3> QED
        BY <2>1, <2>2, <3>1, SeamlessInstallSane, SamePolicy DEF Sane
    <2>4. CASE SeamlessInstall([flash |-> flash, curve |-> manifest.curve])
      BY <2>1, <2>4, SeamlessInstallSane, SamePolicy DEF Sane
    <2>5. CASE flash' = r.flash
      BY <2>1, <2>2, <2>5, SamePolicy DEF Sane
    <2> QED
      BY <2>1, <2>3, <2>4, <2>5
  <1> QED
    BY <1>1, <1>2

\* recover_image: regions are copied or installed, and no key is cancelled.
LEMMA RecoverSane ==
  ASSUME Holdings(flash), Tied, Recover
  PROVE  Sane
  <1>1. UNCHANGED <<ufm, cancelled>>
    BY DEF Recover
  <1> DEFINE h == Order[step][1]
  <1>2. h \in Hosts
    <2>1. step \in 1..4
      BY DEF Recover, Order
    <2> QED
      BY <2>1 DEF Order, Hosts
  <1>3. ASSUME NEW f, Holdings(f)
        PROVE  Holdings([f EXCEPT ![h]["recovery"] = f[h]["staging"]])
    BY <1>2, <1>3, PutHoldings, Names DEF Holdings
  <1>4. ASSUME NEW v, RecoverRecovery(h, v)
        PROVE  Holdings(flash')
    <2> DEFINE r == Fetch(flash, ufm, v.curve, v.state)
    <2>1. \/ flash' = [flash EXCEPT ![h]["recovery"] = flash[h]["staging"]]
          \/ flash' = [r.flash EXCEPT ![h]["recovery"] = r.flash[h]["staging"]]
          \/ flash' = r.flash
          \/ flash' = flash
      BY <1>4, Zenon DEF RecoverRecovery
    <2>2. Holdings(r.flash)
      BY FetchSane
    <2> HIDE DEF r, h
    <2> QED
      BY <1>3, <2>1, <2>2
  <1>5. ASSUME RecoverActive(h)
        PROVE  Holdings(flash')
    <2>1. \/ flash' = [flash EXCEPT ![h]["active"] = Installed(flash[h]["recovery"], manifest.curve)]
          \/ flash' = flash
      BY <1>5 DEF RecoverActive
    <2>2. WellMade(Installed(flash[h]["recovery"], manifest.curve))
      BY <1>2, InstalledMade, Names DEF Holdings
    <2> HIDE DEF h
    <2> QED
      BY <1>2, <2>1, <2>2, PutHoldings, Names
  <1>6. \/ UNCHANGED flash
        \/ RecoverActive(h)
        \/ \E v \in {StagingVerify(flash, ufm, h, manifest.curve, "RECOVERY", {})} : RecoverRecovery(h, v)
    BY Zenon DEF Recover
  <1>7. Holdings(flash')
    BY <1>4, <1>5, <1>6
  <1> QED
    BY <1>1, <1>7, SamePolicy DEF Sane

\* The steps that change what is in the flash or the UFM.
Writing ==
  \/ Stage \/ Lose \/ UpdateRot \/ Recover
  \/ \E h \in Hosts, from \in Hosts, sel \in {"active", "recovery"} :
       \E intents \in {{h}, {h, "ROT"}} : UpdateHost(h, from, sel, intents)
  \/ \E from \in Hosts : Seamless(from)

LEMMA StagedSane ==
  ASSUME Holdings(flash), Tied, Stage \/ Lose
  PROVE  Sane
  <1>1. UNCHANGED <<ufm, cancelled>>
    BY DEF Stage, Lose
  <1>2. CASE Stage
    <2>1. PICK where \in DOMAIN Images : \E image \in Images[where] :
            flash' = [flash EXCEPT ![where[1]][where[2]] = image]
      BY <1>2 DEF Stage
    <2>2. PICK image \in Images[where] : flash' = [flash EXCEPT ![where[1]][where[2]] = image]
      BY <2>1
    <2>3. /\ where[1] \in Hosts /\ where[2] \in Regions
          /\ WellMade(image) /\ Composed(image)
      BY ImagesAssumption DEF Regions
    <2> QED
      BY <1>1, <2>2, <2>3, PutHoldings, SamePolicy DEF Sane
  <1>3. CASE Lose
    <2>1. PICK h \in Hosts, region \in {"active", "recovery"}, image \in LeftBehind :
            flash' = [flash EXCEPT ![h][region] = image]
      BY <1>3 DEF Lose
    <2>2. WellMade(image) /\ region \in Regions /\ region # "staging"
      BY ImagesAssumption DEF Regions
    <2> QED
      BY <1>1, <2>1, <2>2, PutHoldings, SamePolicy DEF Sane
  <1> QED
    BY <1>2, <1>3

\* A verification writes nothing but SVN floors.
LEMMA AuthenticateSame ==
  ASSUME Tied, Authenticate
  PROVE  /\ UNCHANGED <<flash, cancelled, phase>> /\ ufm'.cleared = ufm.cleared
         /\ ufm'.root = ufm.root /\ DOMAIN ufm' = DOMAIN ufm
  <1>1. UNCHANGED <<flash, cancelled, phase>>
    BY DEF Authenticate
  <1>2. UNCHANGED ufm \/ \E h, x : ufm' = [ufm EXCEPT !.svn[h] = x]
    BY DEF Authenticate
  <1> QED
    BY <1>1, <1>2 DEF Tied

LEMMA SaneStep ==
  ASSUME Holdings(flash), Tied, [Next]_vars
  PROVE  Sane
  <1>1. CASE Authenticate
    BY <1>1, AuthenticateSame, SamePolicy DEF Sane
  <1>2. CASE Judge \/ Reset \/ Recovered \/ UNCHANGED vars
    <2>1. UNCHANGED <<flash, ufm, cancelled>>
      BY <1>2 DEF Judge, Reset, Recovered, vars
    <2> QED
      BY <2>1, SamePolicy DEF Sane
  <1>3. CASE UpdateRot
    BY <1>3, RotCapsuleSane, Names DEF UpdateRot
  <1>4. CASE Stage \/ Lose
    BY <1>4, StagedSane
  <1>5. CASE Recover
    BY <1>5, RecoverSane
  <1>6. ASSUME NEW h \in Hosts, NEW from \in Hosts, NEW sel, NEW intents,
               UpdateHost(h, from, sel, intents)
        PROVE  Sane
    BY <1>6, UpdateHostSane
  <1>7. ASSUME NEW from \in Hosts, Seamless(from) PROVE Sane
    BY <1>7, SeamlessSane
  <1> QED
    BY <1>1, <1>2, <1>3, <1>4, <1>5, <1>6, <1>7 DEF Next

LEMMA SaneInit ==
  ASSUME Init
  PROVE  Holdings(flash) /\ Tied
  BY ImagesAssumption, UfmAssumption DEF Init, Holdings, Tied

-----------------------------------------------------------------------------
(* Keys are cancelled by certificates only.                                *)

\* A step that clears a policy bit obeys a certificate or decommissions.
LEMMA ClearedByCapsule ==
  ASSUME Holdings(flash), Tied, [Next]_vars, ufm'.cleared # ufm.cleared
  PROVE  ufm.root # "none" /\ \E dev \in Hosts : \E a, sel : RotCapsule(dev, a, sel)
  <1>1. CASE Authenticate
    BY <1>1, AuthenticateSame
  <1>2. CASE Stage \/ Lose \/ Judge \/ Reset \/ Recover \/ Recovered \/ UNCHANGED vars
    BY <1>2 DEF Stage, Lose, Judge, Reset, Recover, Recovered, vars
  <1>3. CASE UpdateRot
    BY <1>3, Names DEF UpdateRot, Idle
  <1>4. ASSUME NEW f, NEW h \in Hosts, NEW sel, NEW intents, NEW curve,
               Install(f, h, sel, intents, curve)
        PROVE  FALSE
    <2> DEFINE s == StagingVerify(f, ufm, h, curve, "UPDATE", intents)
               pfm == At(f, h, Address(h, "staging", Sig(s.curve)))
    <2>1. UNCHANGED ufm \/ ufm' = [ufm EXCEPT !.svn[h] = pfm.svn]
      BY <1>4 DEF Install
    <2> HIDE DEF s, pfm
    <2> QED
      BY <2>1 DEF Tied
  <1>5. ASSUME NEW h \in Hosts, NEW from \in Hosts, NEW sel, NEW intents,
               UpdateHost(h, from, sel, intents)
        PROVE  ufm.root # "none" /\ RotCapsule(from, Address(from, "staging", 0), sel)
    <2>1. UpdateCancel(from, sel)
      BY <1>4, <1>5 DEF UpdateHost
    <2> QED
      BY <1>5, <2>1 DEF UpdateHost, UpdateCancel, Idle
  <1>6. ASSUME NEW from \in Hosts, Seamless(from)
        PROVE  ufm.root # "none" /\ \E a, sel : RotCapsule(from, a, sel)
    BY <1>6, Zenon DEF Seamless, Idle
  <1> QED
    BY <1>1, <1>2, <1>3, <1>5, <1>6 DEF Next

\* cancel_csk_key_id: such a step changes no region, and the key it cancels is
\* not that of a PFM in a region of its host.
LEMMA CancelledUnused ==
  ASSUME Holdings(flash), Tied, NEW dev \in Hosts, NEW a, NEW sel, RotCapsule(dev, a, sel),
         ufm.root # "none", ufm'.root = ufm.root, ufm'.cleared # ufm.cleared
  PROVE  \E type \in Certificates, id \in 0..127 :
           CskUnused(type, id) /\ cancelled' = cancelled \cup {<<PolicyOf(type), id>>}
  <1> DEFINE d == At(flash, dev, a)
             v == Verify(flash, ufm, dev, a, manifest.curve)
  <1>1. ~(v.ok /\ d.type = "DECOMMISSION")
    <2> SUFFICES ASSUME v.ok, d.type = "DECOMMISSION" PROVE FALSE
      OBVIOUS
    <2>1. Decommission(d)
      BY DEF RotCapsule, Certificates
    <2> QED
      BY <2>1 DEF Decommission, Tied
  <1>2. v.ok /\ d.type \in Certificates
    <2> SUFFICES ASSUME ~(v.ok /\ d.type \in Certificates) PROVE FALSE
      OBVIOUS
    <2>1. UNCHANGED ufm \/ ufm' = [ufm EXCEPT !.svn["ROT"] = d.svn]
      BY <1>1 DEF RotCapsule
    <2> QED
      BY <2>1 DEF Tied
  <1>3. Cancel(d.type, KeyId(d.cancels))
    BY <1>2 DEF RotCapsule, Certificates
  <1>4. d.cancels \in Nat
    <2>1. Issued(d) /\ d.flaw # "block1"
      BY <1>2, ReadIssued DEF Verify, Block1
    <2> QED
      BY <1>2, <2>1 DEF Issued
  <1> DEFINE type == d.type
             id == KeyId(d.cancels)
  <1>5. id \in 0..255
    BY <1>4 DEF KeyId
  <1> HIDE DEF d, v, id, type
  <1>6. /\ id <= MaxKeyId /\ CskUnused(type, id)
        /\ cancelled' = cancelled \cup {<<PolicyOf(type), id>>}
    BY <1>3 DEF Cancel, type, id
  <1>7. id \in 0..127 /\ type \in Certificates
    BY <1>2, <1>5, <1>6 DEF MaxKeyId, type
  <1> QED
    BY <1>6, <1>7

\* The PFM a host uses stays genuine when a key it is not signed with goes.
LEMMA PfmSpared ==
  ASSUME Holdings(flash), NEW type \in Certificates, NEW id \in 0..127, CskUnused(type, id),
         cancelled' = cancelled \cup {<<PolicyOf(type), id>>},
         UNCHANGED flash, ufm'.root = ufm.root,
         NEW h \in Hosts, NEW region \in {"active", "recovery"},
         NEW off, off = IF region = "recovery" THEN 1 ELSE 0,
         InUse(h, region, off)
  PROVE  InUse(h, region, off)'
  <1> DEFINE d == At(flash, h, Address(h, region, off))
  <1>1. d.type = Pfm[h] /\ Genuine(d)
    BY DEF InUse, GenuinePfm
  <1>2. d.type \notin Certificates /\ d.type # "DECOMMISSION"
    BY <1>1 DEF Pfm, Hosts, Certificates
  <1>3. <<PolicyOf(d.type), d.csk.id>> \notin cancelled'
    <2>1. <<PolicyOf(d.type), d.csk.id>> \notin cancelled
      BY <1>1, <1>2 DEF Genuine
    <2>2. PolicyOf(d.type) = Pfm[h]
      BY <1>1, PolicyFacts
    <2>3. PolicyOf(type) = Pfm[h] => d.csk.id % 256 # id
      BY DEF CskUnused, Unused
    <2>4. id % 256 = id
      OBVIOUS
    <2> HIDE DEF d
    <2> QED
      BY <2>1, <2>2, <2>3, <2>4
  <1>4. Genuine(d)'
    <2>1. d' = d
      OBVIOUS
    <2> HIDE DEF d
    <2> QED
      BY <1>1, <1>2, <1>3, <2>1 DEF Genuine
  <1>5. d' = d
    OBVIOUS
  <1> QED
    BY <1>1, <1>4, <1>5 DEF InUse, GenuinePfm

LEMMA SparesPfm ==
  ASSUME Holdings(flash), Tied, [Next]_vars, ufm'.root = ufm.root, ufm'.cleared # ufm.cleared,
         NEW h \in Hosts
  PROVE  /\ InUse(h, "active", 0) => InUse(h, "active", 0)'
         /\ InUse(h, "recovery", 1) => InUse(h, "recovery", 1)'
  <1>1. PICK dev \in Hosts : ufm.root # "none" /\ \E a, sel : RotCapsule(dev, a, sel)
    BY ClearedByCapsule
  <1>2. UNCHANGED flash
    BY <1>1, RotCapsuleSane
  <1>3. PICK type \in Certificates, id \in 0..127 :
          CskUnused(type, id) /\ cancelled' = cancelled \cup {<<PolicyOf(type), id>>}
    BY <1>1, CancelledUnused
  <1> QED
    BY <1>2, <1>3, PfmSpared

-----------------------------------------------------------------------------
(* What is installed.                                                      *)

\* Every document of g's active and recovery regions was there in f, or is
\* genuine.
Fresh(f, g) ==
  \A h \in Hosts, region \in {"active", "recovery"} :
    \A o \in DOMAIN g[h][region] :
      \/ o \in DOMAIN f[h][region] /\ f[h][region][o] = g[h][region][o]
      \/ Genuine(g[h][region][o])

\* Regions that hold what they held.
LEMMA FreshSame ==
  ASSUME NEW f, NEW g,
         \A h \in Hosts, region \in {"active", "recovery"} : g[h][region] = f[h][region]
  PROVE  Fresh(f, g)
  BY DEF Fresh

\* A region of a host written with an image that is genuine or was there.
LEMMA FreshPut ==
  ASSUME NEW f, Holdings(f), NEW h \in Hosts, NEW region \in Regions, NEW image,
         region \in {"active", "recovery"} =>
           \A o \in DOMAIN image :
             \/ o \in DOMAIN f[h][region] /\ f[h][region][o] = image[o]
             \/ Genuine(image[o])
  PROVE  Fresh(f, [f EXCEPT ![h][region] = image])
  <1> DEFINE g == [f EXCEPT ![h][region] = image]
  <1>1. \A k \in Hosts, r \in Regions :
          g[k][r] = IF k = h /\ r = region THEN image ELSE f[k][r]
    BY DEF Holdings
  <1> HIDE DEF g
  <1>2. Fresh(f, g)
    <2> SUFFICES ASSUME NEW k \in Hosts, NEW r \in {"active", "recovery"}, NEW o \in DOMAIN g[k][r]
                 PROVE  \/ o \in DOMAIN f[k][r] /\ f[k][r][o] = g[k][r][o]
                        \/ Genuine(g[k][r][o])
      BY DEF Fresh
    <2>1. r \in Regions
      BY Names
    <2>2. CASE k = h /\ r = region
      BY <1>1, <2>1, <2>2
    <2>3. CASE ~(k = h /\ r = region)
      BY <1>1, <2>1, <2>3
    <2> QED
      BY <2>2, <2>3
  <1> QED
    BY <1>2 DEF g

\* update_firmware_image: what it writes has been verified.
LEMMA InstallFresh ==
  ASSUME Tied, NEW f, Holdings(f), NEW h \in Hosts, NEW sel, NEW curve,
         NEW intents, intents \subseteq {h, "ROT"},
         Install(f, h, sel, intents, curve)
  PROVE  Fresh(f, flash')
  <1> DEFINE s == StagingVerify(f, ufm, h, curve, "UPDATE", intents)
             image == f[h]["staging"]
             inst == Installed(image, s.curve)
  <1>1. \/ s.ok /\ flash' = [f EXCEPT ![h]["active"] = inst]
        \/ s.ok /\ flash' = [f EXCEPT ![h]["recovery"] = image]
        \/ flash' = f
    BY DEF Install
  <1>2. s.ok => \A o \in DOMAIN image : Genuine(image[o])
    BY CapsuleGenuine
  <1>3. WellMade(image)
    BY Names DEF Holdings
  <1>4. \A o \in DOMAIN inst : \E i \in DOMAIN image : inst[o] = image[i]
    BY <1>3, InstalledMade
  <1> HIDE DEF s, image, inst
  <1>5. s.ok => \A o \in DOMAIN inst : Genuine(inst[o])
    BY <1>2, <1>4
  <1>6. CASE s.ok /\ flash' = [f EXCEPT ![h]["active"] = inst]
    BY <1>5, <1>6, FreshPut, Names
  <1>7. CASE s.ok /\ flash' = [f EXCEPT ![h]["recovery"] = image]
    BY <1>2, <1>7, FreshPut, Names
  <1>8. CASE flash' = f
    BY <1>8, FreshSame
  <1> QED
    BY <1>1, <1>6, <1>7, <1>8

\* Fetching touches neither region.
LEMMA FreshFetched ==
  ASSUME NEW f, NEW g, NEW k, Fresh(g, k),
         \A h \in Hosts, region \in {"active", "recovery"} : g[h][region] = f[h][region]
  PROVE  Fresh(f, k)
  BY DEF Fresh

LEMMA UpdateHostFresh ==
  ASSUME Holdings(flash), Tied, NEW h \in Hosts, NEW from \in Hosts, NEW sel,
         NEW intents, intents \subseteq {h, "ROT"}, UpdateHost(h, from, sel, intents)
  PROVE  Fresh(flash, flash')
  <1> DEFINE r == Fetch(flash, ufm, manifest.curve, "UPDATE")
  <1>1. Holdings(r.flash) /\ \A k \in Hosts, region \in {"active", "recovery"} :
                                 r.flash[k][region] = flash[k][region]
    BY FetchSane
  <1>2. \/ UpdateCancel(from, sel)
        \/ Install(flash, h, sel, intents, manifest.curve)
        \/ Install(r.flash, h, sel, intents, r.curve)
        \/ flash' = r.flash
    BY DEF UpdateHost
  <1> HIDE DEF r
  <1>3. CASE UpdateCancel(from, sel)
    BY <1>3, RotCapsuleSane, FreshSame DEF UpdateCancel
  <1>4. CASE Install(flash, h, sel, intents, manifest.curve)
    BY <1>4, InstallFresh
  <1>5. CASE Install(r.flash, h, sel, intents, r.curve)
    BY <1>1, <1>5, InstallFresh, FreshFetched
  <1>6. CASE flash' = r.flash
    BY <1>1, <1>6, FreshSame
  <1> QED
    BY <1>2, <1>3, <1>4, <1>5, <1>6

\* perform_seamless_update: one document of the active PCH image is written,
\* and it is a genuine FVM.
LEMMA SeamlessFresh ==
  ASSUME Holdings(flash), Tied, NEW from \in Hosts, Seamless(from)
  PROVE  Fresh(flash, flash')
  <1> DEFINE a == IF from = "BMC" THEN Address("BMC", "staging", 0) ELSE manifest.addr
             r == Fetch(flash, ufm, manifest.curve, "SEAMLESS")
  <1>1. Holdings(r.flash) /\ \A k \in Hosts, region \in {"active", "recovery"} :
                                 r.flash[k][region] = flash[k][region]
    BY FetchSane
  <1>2. ASSUME NEW f, Holdings(f), NEW curve,
               SeamlessInstall([flash |-> f, curve |-> curve])
        PROVE  Fresh(f, flash')
    <2>1. CASE flash' = f
      BY <2>1, FreshSame
    <2>2. ASSUME NEW off \in Int, NEW d, Genuine(d),
                 flash' = [f EXCEPT !["PCH"]["active"] = Overlay(@, off, d)]
          PROVE  Fresh(f, flash')
      <3> DEFINE image == Overlay(f["PCH"]["active"], off, d)
      <3>1. flash' = [f EXCEPT !["PCH"]["active"] = image]
        BY <2>2, Names DEF Holdings
      <3>2. \A o \in DOMAIN image :
              \/ o \in DOMAIN f["PCH"]["active"] /\ f["PCH"]["active"][o] = image[o]
              \/ Genuine(image[o])
        BY <2>2 DEF Overlay
      <3> HIDE DEF image
      <3> QED
        BY <1>2, <3>1, <3>2, FreshPut, Names
    <2> QED
      BY <1>2, <2>1, <2>2, SeamlessInstallSane
  <1>3. \/ RotCapsule(from, a, "active")
        \/ SeamlessInstall([flash |-> flash, curve |-> manifest.curve])
        \/ SeamlessInstall(r)
        \/ flash' = r.flash
    BY Zenon DEF Seamless
  <1>4. CASE RotCapsule(from, a, "active")
    BY <1>4, RotCapsuleSane, FreshSame
  <1>5. CASE SeamlessInstall([flash |-> flash, curve |-> manifest.curve])
    BY <1>2, <1>5
  <1>6. CASE SeamlessInstall(r)
    <2>1. SeamlessInstall([flash |-> r.flash, curve |-> r.curve])
      BY <1>6 DEF SeamlessInstall
    <2> HIDE DEF r
    <2> QED
      BY <1>1, <1>2, <2>1, FreshFetched
  <1>7. CASE flash' = r.flash
    BY <1>1, <1>7, FreshSame
  <1> QED
    BY <1>3, <1>4, <1>5, <1>6, <1>7

\* The hosts stage outside these regions.
LEMMA StageFresh ==
  ASSUME Holdings(flash), Stage
  PROVE  Fresh(flash, flash')
  <1>1. PICK where \in DOMAIN Images : \E image \in Images[where] :
          flash' = [flash EXCEPT ![where[1]][where[2]] = image]
    BY DEF Stage
  <1>2. PICK image \in Images[where] : flash' = [flash EXCEPT ![where[1]][where[2]] = image]
    BY <1>1
  <1>3. where[1] \in Hosts /\ where[2] \in Regions /\ where[2] \notin {"active", "recovery"}
    BY ImagesAssumption DEF Regions
  <1> QED
    BY <1>2, <1>3, FreshPut

\* A platform that runs, and the only step that takes from it what it had.
LEMMA FreshStep ==
  ASSUME Holdings(flash), Tied, lost \in Nat, [Next]_vars, phase = "RUN", lost' = lost
  PROVE  Fresh(flash, flash')
  <1>1. CASE Stage
    BY <1>1, StageFresh
  <1>2. CASE Lose
    BY <1>2 DEF Lose
  <1>3. CASE Authenticate \/ Judge \/ Recover \/ Recovered
    BY <1>3 DEF Authenticate, Judge, Recover, Recovered
  <1>4. CASE Reset \/ UNCHANGED vars
    BY <1>4, FreshSame DEF Reset, vars
  <1>5. CASE UpdateRot
    BY <1>5, RotCapsuleSane, FreshSame, Names DEF UpdateRot
  <1>6. ASSUME NEW h \in Hosts, NEW from \in Hosts, NEW sel, NEW intents \in {{h}, {h, "ROT"}},
               UpdateHost(h, from, sel, intents)
        PROVE  Fresh(flash, flash')
    <2>1. intents \subseteq {h, "ROT"}
      OBVIOUS
    <2> QED
      BY <1>6, <2>1, UpdateHostFresh
  <1>7. ASSUME NEW from \in Hosts, Seamless(from) PROVE Fresh(flash, flash')
    BY <1>7, SeamlessFresh
  <1> QED
    BY <1>1, <1>2, <1>3, <1>4, <1>5, <1>6, <1>7 DEF Next

\* What has been lost is counted.
LEMMA LostStep ==
  ASSUME lost \in Nat, [Next]_vars
  PROVE  lost' \in Nat
  <1>1. CASE Stage \/ Lose \/ Reset \/ Authenticate \/ Judge \/ Recover \/ Recovered \/ UNCHANGED vars
    BY <1>1 DEF vars, Stage, Lose, Reset, Authenticate, Judge, Recover, Recovered
  <1>2. ASSUME NEW dev, NEW a, NEW sel, RotCapsule(dev, a, sel)
        PROVE  lost' = lost
    BY <1>2 DEF RotCapsule
  <1>3. CASE UpdateRot
    BY <1>2, <1>3 DEF UpdateRot
  <1>4. ASSUME NEW f, NEW h, NEW sel, NEW intents, NEW curve, Install(f, h, sel, intents, curve)
        PROVE  lost' = lost
    BY <1>4 DEF Install
  <1>5. ASSUME NEW h \in Hosts, NEW from \in Hosts, NEW sel, NEW intents, UpdateHost(h, from, sel, intents)
        PROVE  lost' = lost
    BY <1>2, <1>4, <1>5, Zenon DEF UpdateHost, UpdateCancel
  <1>6. ASSUME NEW from \in Hosts, Seamless(from)
        PROVE  lost' = lost
    BY <1>2, <1>6, Zenon DEF Seamless
  <1> QED
    BY <1>1, <1>3, <1>5, <1>6 DEF Next

-----------------------------------------------------------------------------
(* What boots.                                                             *)

\* In a verification of the platform, an active image that has been judged good
\* has a genuine PFM.
Checked ==
  /\ DOMAIN ao = Hosts /\ \A h \in Hosts : "active" \in DOMAIN ao[h]
  /\ step \in Nat /\ step > 0
  /\ phase = "CHECK" /\ step > 2 /\ ao["BMC"].active => GenuinePfm("BMC", "active", 0)
  /\ phase = "CHECK" /\ step > 4 /\ ao["PCH"].active => GenuinePfm("PCH", "active", 0)

\* What comes first.
LEMMA FirstOf ==
  ASSUME NEW T, NEW x \in T, NEW q \in Seq(T)
  PROVE  1 \in DOMAIN (<<x>> \o q) /\ (<<x>> \o q)[1] = x
  <1>1. <<x>> \in Seq(T) /\ Len(<<x>>) = 1 /\ <<x>>[1] = x
    OBVIOUS
  <1>2. Len(q) \in Nat
    BY LenProperties
  <1>3. /\ <<x>> \o q \in Seq(T) /\ Len(<<x>> \o q) = 1 + Len(q)
        /\ \A i \in 1..(1 + Len(q)) : (<<x>> \o q)[i] = IF i <= 1 THEN <<x>>[i] ELSE q[i - 1]
    BY <1>1, ConcatProperties
  <1>4. 1 \in 1..(1 + Len(q)) /\ DOMAIN (<<x>> \o q) = 1..(1 + Len(q))
    BY <1>2, <1>3, LenProperties
  <1> QED
    BY <1>1, <1>3, <1>4

\* pfr_active_verify looks at the PFM first.
LEMMA ActiveGenuine ==
  ASSUME Tied, Holdings(flash), NEW h \in Hosts, NEW curve,
         ActiveVerify(flash, ufm, h, curve).ok
  PROVE  GenuinePfm(h, "active", 0)
  <1> DEFINE a  == Address(h, "active", 0)
             d  == At(flash, h, a)
             as == IF IsPfm(d) THEN FvmsOf(d, a) ELSE <<>>
             all == <<a>> \o as
  <1>1. VerifyAll(flash, ufm, h, all, curve).ok
    BY DEF ActiveVerify
  <1> DEFINE T == {FvmsOf(d, a)[i] : i \in DOMAIN FvmsOf(d, a)} \cup {a}
  <1>2. FvmsOf(d, a) \in Seq(T)
    <2>1. Issued(d)
      BY ReadIssued
    <2>2. d.fvms \in Seq([off : Nat, fv : STRING])
      BY <2>1 DEF Issued
    <2>3. DOMAIN d.fvms = 1..Len(d.fvms) /\ Len(d.fvms) \in Nat
      BY <2>2
    <2> DEFINE n == Len(d.fvms)
    <2>4. FvmsOf(d, a) = [i \in 1..n |-> Plus(a, d.fvms[i].off)]
      BY <2>3 DEF FvmsOf
    <2> HIDE DEF d, a
    <2>5. FvmsOf(d, a) \in [1..n -> T]
      BY <2>4
    <2> QED
      BY <2>3, <2>5
  <1>3. as \in Seq(T) /\ a \in T
    <2>1. << >> \in Seq(T)
      OBVIOUS
    <2> HIDE DEF T
    <2> QED
      BY <1>2, <2>1 DEF T
  <1> HIDE DEF as, T, a
  <1>4. 1 \in DOMAIN all /\ all[1] = a
    BY <1>3, FirstOf
  <1> HIDE DEF all
  <1>5. Genuine(At(flash, h, all[1]))
    BY <1>1, <1>4, WalkGenuine
  <1> QED
    BY <1>4, <1>5 DEF GenuinePfm, a

\* A document stays genuine while the root key and the policies stay.
LEMMA GenuineSame ==
  ASSUME NEW h \in Hosts, UNCHANGED <<flash, cancelled>>, ufm'.root = ufm.root,
         GenuinePfm(h, "active", 0)
  PROVE  GenuinePfm(h, "active", 0)'
  <1> DEFINE d == At(flash, h, Address(h, "active", 0))
  <1>1. d' = d
    OBVIOUS
  <1> HIDE DEF d
  <1>2. Genuine(d) => Genuine(d)'
    BY <1>1 DEF Genuine
  <1> QED
    BY <1>2 DEF GenuinePfm, d

\* One step of the verification.
LEMMA AuthenticateChecked ==
  ASSUME Tied, Holdings(flash), Checked, Authenticate
  PROVE  Checked'
  <1> DEFINE h == Order[step][1]
             a == ActiveVerify(flash, ufm, h, manifest.curve)
  <1>1. step \in 1..4 /\ step' = step + 1 /\ phase = "CHECK"
    BY DEF Authenticate, Order
  <1>2. /\ step = 1 => h = "BMC" /\ Order[step][2] = "recovery"
        /\ step = 2 => h = "BMC" /\ Order[step][2] = "active"
        /\ step = 3 => h = "PCH" /\ Order[step][2] = "recovery"
        /\ step = 4 => h = "PCH" /\ Order[step][2] = "active"
    BY DEF Order
  <1>3. h \in Hosts
    BY <1>1, <1>2 DEF Hosts
  <1>4. \/ Order[step][2] = "recovery" /\ \E x : ao' = [ao EXCEPT ![h].recovery = x]
        \/ Order[step][2] = "active" /\ ao' = [ao EXCEPT ![h].active = a.ok]
    BY Zenon DEF Authenticate
  <1> HIDE DEF h, a
  <1>5. /\ DOMAIN ao' = Hosts /\ \A k \in Hosts : "active" \in DOMAIN ao'[k]
        /\ Order[step][2] = "recovery" => \A k \in Hosts : ao'[k].active = ao[k].active
        /\ Order[step][2] = "active" =>
             \A k \in Hosts : ao'[k].active = IF k = h THEN a.ok ELSE ao[k].active
    BY <1>3, <1>4 DEF Checked
  <1>6. a.ok => GenuinePfm(h, "active", 0)
    BY <1>3, ActiveGenuine DEF a
  <1>7. \A k \in Hosts : GenuinePfm(k, "active", 0) => GenuinePfm(k, "active", 0)'
    BY GenuineSame, AuthenticateSame
  <1>8. /\ step' \in Nat /\ step' > 0
        /\ step' > 2 /\ step # 2 => step > 2
        /\ step' > 4 => step = 4
    BY <1>1
  <1>9. step' > 2 /\ ao'["BMC"].active => GenuinePfm("BMC", "active", 0)'
    <2>1. CASE step = 2
      <3>1. ao'["BMC"].active = a.ok
        BY <1>2, <1>3, <1>5, <2>1
      <3> QED
        BY <1>2, <1>3, <1>6, <1>7, <2>1, <3>1
    <2>2. CASE step # 2
      <3>1. ao'["BMC"].active = ao["BMC"].active
        BY <1>1, <1>2, <1>5, <2>2, Names
      <3> QED
        BY <1>1, <1>7, <1>8, <2>2, <3>1, Names DEF Checked
    <2> QED
      BY <2>1, <2>2
  <1>10. step' > 4 /\ ao'["PCH"].active => GenuinePfm("PCH", "active", 0)'
    <2> SUFFICES ASSUME step = 4
                 PROVE  ao'["PCH"].active => GenuinePfm("PCH", "active", 0)'
      BY <1>8
    <2>1. ao'["PCH"].active = a.ok
      BY <1>2, <1>3, <1>5
    <2> QED
      BY <1>2, <1>3, <1>6, <1>7, <2>1
  <1> QED
    BY <1>5, <1>8, <1>9, <1>10 DEF Checked

\* Every other step leaves the verification, starts it anew or is not in it.
LEMMA CheckedStep ==
  ASSUME Tied, Holdings(flash), Checked, [Next]_vars
  PROVE  Checked'
  <1> DEFINE Shape == DOMAIN ao' = Hosts /\ \A h \in Hosts : "active" \in DOMAIN ao'[h]
             Away  == step' \in Nat /\ step' > 0 /\ (phase' # "CHECK" \/ step' = 1)
  <1>1. Shape /\ Away => Checked'
    BY DEF Checked
  <1>2. UNCHANGED ao => Shape
    BY DEF Checked
  <1>3. ASSUME NEW ph, Enter(ph) PROVE Away
    BY <1>3 DEF Enter
  <1>4. phase = "RUN" /\ UNCHANGED <<phase, step>> => Away
    BY DEF Checked
  <1>5. CASE UNCHANGED vars
    <2>1. UNCHANGED <<ao, step, phase, flash, ufm, cancelled>>
      BY <1>5 DEF vars
    <2> QED
      BY <2>1, GenuineSame, Names DEF Checked
  <1>6. CASE Authenticate
    BY <1>6, AuthenticateChecked
  <1> HIDE DEF Shape, Away
  <1>7. CASE Stage \/ Lose
    BY <1>1, <1>2, <1>4, <1>7 DEF Stage, Lose, Idle, flow
  <1>8. CASE Reset \/ Recovered
    BY <1>1, <1>2, <1>3, <1>8 DEF Reset, Recovered
  <1>9. CASE UpdateRot
    BY <1>1, <1>2, <1>3, <1>9, RotCapsuleSane, Names DEF UpdateRot
  <1>10. CASE Judge
    <2>1. Shape
      BY <1>10 DEF Judge, Checked, Shape
    <2>2. Away
      BY <1>3, <1>10 DEF Judge
    <2> QED
      BY <1>1, <2>1, <2>2
  <1>11. CASE Recover
    <2>1. step' \in Nat /\ step' > 0 /\ phase' # "CHECK"
      BY <1>11 DEF Recover, Order
    <2> DEFINE Set(h, x) == \/ ao' = ao
                            \/ ao' = [ao EXCEPT ![h].active = x]
                            \/ ao' = [ao EXCEPT ![h].recovery = x]
                            \/ ao' = [ao EXCEPT ![h].restrict = x]
    <2>2. ASSUME NEW x, NEW h, Set(h, x) PROVE Shape
      BY <2>2 DEF Checked, Shape
    <2>3. \E x, h : Set(h, x)
      <3> DEFINE h == Order[step][1]
      <3>1. \/ UNCHANGED ao
            \/ RecoverActive(h)
            \/ \E v \in {StagingVerify(flash, ufm, h, manifest.curve, "RECOVERY", {})} : RecoverRecovery(h, v)
        BY <1>11, Zenon DEF Recover
      <3>2. RecoverActive(h) => \E x : ao' = [ao EXCEPT ![h].active = x]
        BY Zenon DEF RecoverActive
      <3>3. \A v : RecoverRecovery(h, v) =>
                    \/ UNCHANGED ao
                    \/ ao' = [ao EXCEPT ![h].recovery = TRUE]
                    \/ ao' = [ao EXCEPT ![h].restrict = TRUE]
        BY Zenon DEF RecoverRecovery
      <3> HIDE DEF h
      <3> QED
        BY <3>1, <3>2, <3>3
    <2>4. Shape
      BY <2>2, <2>3
    <2> QED
      BY <1>1, <2>1, <2>4 DEF Away
  <1>12. ASSUME NEW h \in Hosts, NEW from \in Hosts, NEW sel, NEW intents,
                UpdateHost(h, from, sel, intents)
         PROVE  Shape /\ Away
    <2>1. Away
      BY <1>3, <1>12 DEF UpdateHost
    <2>2. UNCHANGED ao
      <3>1. CASE UpdateCancel(from, sel)
        BY <3>1, RotCapsuleSane DEF UpdateCancel
      <3>2. \A f, c : Install(f, h, sel, intents, c) => UNCHANGED ao
        BY DEF Install
      <3> QED
        BY <1>12, <3>1, <3>2, Zenon DEF UpdateHost
    <2> QED
      BY <1>2, <2>1, <2>2
  <1>13. ASSUME NEW from \in Hosts, Seamless(from) PROVE Shape /\ Away
    <2>1. UNCHANGED ao
      <3>1. ASSUME NEW a, RotCapsule(from, a, "active") PROVE UNCHANGED ao
        BY <3>1, RotCapsuleSane
      <3> QED
        BY <1>13, <3>1, Zenon DEF Seamless
    <2>2. phase = "RUN" /\ UNCHANGED <<phase, step>>
      BY <1>13, Zenon DEF Seamless, Idle, flow
    <2> QED
      BY <1>2, <1>4, <2>1, <2>2
  <1> QED
    BY <1>1, <1>5, <1>6, <1>7, <1>8, <1>9, <1>10, <1>11, <1>12, <1>13 DEF Next

\* The step out of the verification into a running platform is Judge's.
LEMMA ReleasedGenuine ==
  ASSUME Checked, [Next]_vars, phase = "CHECK", phase' = "RUN"
  PROVE  /\ GenuinePfm("BMC", "active", 0)
         /\ ao["PCH"].active => GenuinePfm("PCH", "active", 0)
  <1>1. Judge
    BY DEF Next, vars, Stage, Lose, Reset, UpdateRot, Authenticate, Recover, Recovered,
           UpdateHost, Seamless, Idle
  <1>2. step \notin 1..4 /\ step \in Nat /\ step > 0
    BY <1>1 DEF Judge, Checked, Order
  <1>3. step > 2 /\ step > 4
    BY <1>2
  <1>4. ao["BMC"].active
    BY <1>1, Zenon, Names DEF Judge, Enter
  <1> QED
    BY <1>3, <1>4, Zenon DEF Checked

-----------------------------------------------------------------------------
(* Theorems.                                                               *)

\* intel_pfr_manifest_verify: in whatever order documents of whatever issuers
\* are staged, installed, lost, recovered and keys cancelled, a document is
\* accepted exactly when it is genuine.
THEOREM GenuineAccepted == Spec => []VerdictsAreGenuine
  <1>1. Init => Holdings(flash) /\ Tied
    BY SaneInit
  <1>2. Holdings(flash) /\ Tied /\ [Next]_vars => (Holdings(flash) /\ Tied)'
    BY SaneStep DEF Sane, Holdings, Composed, WellMade
  <1>3. Holdings(flash) /\ Tied => VerdictsAreGenuine
    <2> SUFFICES ASSUME Holdings(flash), Tied, NEW h \in Hosts,
                        NEW curve \in {Unset, "secp384", "lms384"},
                        NEW region \in Regions, NEW o \in DOMAIN flash[h][region]
                 PROVE  LET d == flash[h][region][o]
                        IN Verify(flash, ufm, h, Address(h, region, o), curve).ok
                             = (Genuine(d) /\ (d.type \in Certificates => Sig(curve) = Sig(d.curve)))
      BY DEF VerdictsAreGenuine
    <2> DEFINE d == flash[h][region][o]
    <2>1. At(flash, h, Address(h, region, o)) = d
      BY ReadAt
    <2>2. Issued(d)
      BY DEF Holdings, WellMade
    <2>3. Accepted(d, curve) <=> Genuine(d) /\ (d.type \in Certificates => Sig(curve) = Sig(d.curve))
      BY <2>2, AcceptedIff
    <2>4. Verify(flash, ufm, h, Address(h, region, o), curve).ok = Accepted(d, curve)
      BY <2>1, VerifyIs
    <2> DEFINE X == Genuine(d) /\ (d.type \in Certificates => Sig(curve) = Sig(d.curve))
    <2>5. Accepted(d, curve) \in BOOLEAN /\ X \in BOOLEAN
      BY Zenon DEF Accepted
    <2>6. Accepted(d, curve) = X
      <3>1. Accepted(d, curve) <=> X
        BY <2>3
      <3> HIDE DEF X
      <3> QED
        BY <2>5, <3>1
    <2> QED
      BY <2>4, <2>6
  <1> QED
    BY <1>1, <1>2, <1>3, PTL DEF Spec

\* cancel_csk_key_id, is_csk_unused: no certificate, however it got in and
\* whatever is installed where, takes a PFM that is in use.
THEOREM PfmSparedAlways == Spec => CancellationSparesPfm
  <1>1. Init => Holdings(flash) /\ Tied
    BY SaneInit
  <1>2. Holdings(flash) /\ Tied /\ [Next]_vars => (Holdings(flash) /\ Tied)'
    BY SaneStep DEF Sane, Holdings, Composed, WellMade
  <1> DEFINE A == ufm'.root = ufm.root /\ ufm'.cleared # ufm.cleared =>
                    \A h \in Hosts :
                      /\ InUse(h, "active", 0) => InUse(h, "active", 0)'
                      /\ InUse(h, "recovery", 1) => InUse(h, "recovery", 1)'
  <1>3. Holdings(flash) /\ Tied /\ [Next]_vars => A
    BY SparesPfm
  <1> QED
    BY <1>1, <1>2, <1>3, PTL DEF Spec, CancellationSparesPfm

\* update_firmware_image and perform_seamless_update install nothing that is
\* not genuine down to its last document, in whatever state they find the
\* manifest.
THEOREM InstalledGenuine == Spec => InstalledWasGenuine
  <1> DEFINE I == Holdings(flash) /\ Tied /\ lost \in Nat
             A == phase = "RUN" /\ lost' = lost =>
                    \A h \in Hosts, region \in {"active", "recovery"} :
                      \A o \in DOMAIN flash'[h][region] :
                        \/ o \in DOMAIN flash[h][region] /\ flash[h][region][o] = flash'[h][region][o]
                        \/ Genuine(flash'[h][region][o])
  <1>1. Init => I
    <2>1. Init => lost \in Nat
      BY DEF Init
    <2> QED
      BY <2>1, SaneInit
  <1>2. I /\ [Next]_vars => I'
    BY SaneStep, LostStep DEF Sane, Holdings, Composed, WellMade
  <1>3. I /\ [Next]_vars => A
    BY FreshStep DEF Fresh
  <1> HIDE DEF I
  <1> QED
    BY <1>1, <1>2, <1>3, PTL DEF Spec, InstalledWasGenuine

\* handle_image_verification: a platform that is released runs on genuine
\* PFMs, whatever was lost, staged or cancelled before; the exception is a PCH
\* that is known to have failed.
THEOREM ReleasedOnGenuine == Spec => RunsGenuine
  <1> DEFINE I == Holdings(flash) /\ Tied /\ Checked
             A == phase = "CHECK" /\ phase' = "RUN" =>
                    /\ GenuinePfm("BMC", "active", 0)
                    /\ ao["PCH"].active => GenuinePfm("PCH", "active", 0)
  <1>1. Init => I
    <2>1. Init => Checked
      BY DEF Init, Checked
    <2> QED
      BY <2>1, SaneInit
  <1>2. I /\ [Next]_vars => I'
    BY SaneStep, CheckedStep DEF Sane, Holdings, Composed, WellMade
  <1>3. I /\ [Next]_vars => A
    BY ReleasedGenuine
  <1> HIDE DEF I
  <1> QED
    BY <1>1, <1>2, <1>3, PTL DEF Spec, RunsGenuine
=============================================================================
