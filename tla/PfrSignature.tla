----------------------------- MODULE PfrSignature -----------------------------
(***************************************************************************)
(* Signed documents and the chain that authenticates one: root key, code   *)
(* signing key (CSK), block 0, protected content.                          *)
(*                                                                         *)
(* A document is a signature block followed by its protected content.  An  *)
(* image maps offsets, counted in PFM_SIG_BLOCK_SIZE (1024 bytes), to the   *)
(* documents it holds; elsewhere the root of trust reads Junk.  A key is   *)
(* its name, a signature the name of the key that made it ("by"), and a     *)
(* document whose bytes are wrong says in "flaw" where.                     *)
(***************************************************************************)
EXTENDS Integers, FiniteSets, SequencesExt

Hosts   == {"BMC", "PCH"}
Regions == {"active", "recovery", "staging", "rot"}
Curves == {"secp256", "secp384", "lms256", "lms384"}

\* hash_curve before any root entry has been read
Unset  == "unset"

Lms(curve) == curve \in {"lms256", "lms384"}

\* PFM_SIG_BLOCK_SIZE and LMS_PFM_SIG_BLOCK_SIZE
Sig(curve) == IF Lms(curve) THEN 5 ELSE 1

Pfm  == [BMC |-> "BMC_PFM", PCH |-> "PCH_PFM"]
Cap  == [BMC |-> "BMC_CAPSULE", PCH |-> "PCH_CAPSULE"]
Certificates == {"CPLD_CANCELLATION", "PCH_PFM_CANCELLATION", "PCH_CAPSULE_CANCELLATION",
                 "BMC_PFM_CANCELLATION", "BMC_CAPSULE_CANCELLATION"}

\* The cancellation policy that rules the keys signing a type, and that a
\* certificate changes.
PolicyOf(type) ==
  CASE type \in {"CPLD_CANCELLATION", "CPLD", "DECOMMISSION"}    -> "CPLD"
    [] type \in {"PCH_PFM_CANCELLATION", "PCH_PFM"}              -> "PCH_PFM"
    [] type \in {"PCH_CAPSULE_CANCELLATION", "PCH_CAPSULE"}      -> "PCH_CAPSULE"
    [] type \in {"BMC_PFM_CANCELLATION", "BMC_PFM"}              -> "BMC_PFM"
    [] type \in {"BMC_CAPSULE_CANCELLATION", "BMC_CAPSULE"}      -> "BMC_CAPSULE"
    [] OTHER                                                     -> "none"

\* The permission a CSK needs to sign a type; no key has permission "none".
SignBit(type) ==
  CASE type \in {"PCH_CAPSULE", "PCH_SEAMLESS"} -> "PCH_CAPSULE"
    [] type \in Certificates                    -> "none"
    [] OTHER                                    -> PolicyOf(type)

NoCsk == [id |-> 255, key |-> "none", perm |-> {}, by |-> "none"]
Junk  == [type |-> "none", curve |-> Unset, root |-> "none", csk |-> NoCsk, by |-> "none",
          flaw |-> "block1", svn |-> 0, fvms |-> <<>>, fv |-> "none", cancels |-> 255, rev |-> 0]

\* What a region of flash holds at an address, [of, region, off].
At(flash, dev, a) ==
  IF a.of = dev /\ a.region \in DOMAIN flash[dev] /\ a.off \in DOMAIN flash[dev][a.region]
  THEN flash[dev][a.region][a.off] ELSE Junk
Address(dev, region, off) == [of |-> dev, region |-> region, off |-> off]
Plus(a, n) == [a EXCEPT !.off = @ + n]

\* A document as its issuer makes it, whatever has been done to it since: its
\* key has an id the policies know and a permission for something; of reserved
\* bytes and of a CSK entry it has what its type has.
Issued(d) ==
  /\ d.fvms \in Seq([off : Nat, fv : STRING])
  /\ \/ d.flaw = "block1"
     \/ /\ d.flaw \in {"none", "root", "csk", "entry", "block0", "content", "reserved"}
        /\ d.type \in Certificates => d.flaw # "csk" /\ d.cancels \in Nat
        /\ d.type \notin Certificates =>
             /\ d.csk.id \in 0..127 /\ "none" \notin d.csk.perm
             /\ d.flaw = "reserved" => d.type = "DECOMMISSION"
WellMade(image) == DOMAIN image \subseteq Int /\ \A o \in DOMAIN image : Issued(image[o])

\* What is staged is signed with keys of one kind: a document, the one behind
\* it and, in a capsule for the PCH, the FVMs that one lists.
Composed(image) ==
  \/ DOMAIN image = {}
  \/ LET at == Sig(image[0].curve)
     IN /\ 0 \in DOMAIN image
        /\ \A o \in DOMAIN image :
             /\ Sig(image[o].curve) = at
             /\ \/ o \in {0, at}
                \/ /\ image[0].type = "PCH_CAPSULE" /\ at \in DOMAIN image
                   /\ \E i \in DOMAIN image[at].fvms : o = at + image[at].fvms[i].off

IsPfm(d) == d.type \in {Pfm[h] : h \in Hosts} /\ d.fv = "none"

-----------------------------------------------------------------------------
(* Key cancellation.  A policy is four words of 32 bits, a cleared bit a    *)
(* cancelled key; "cleared" holds <<policy, word, bit>>.                    *)

MaxKeyId == 127                       \* KEY_CANCELLATION_MAX_KEY_ID
KeyId(id) == id % 256                 \* the callbacks take a uint8_t

\* Mutant: the key's word is left out of account.
PolicyBit_OneWord(type, id) == <<PolicyOf(type), 0, 31 - (id % 32)>>

PolicyBit(type, id) == <<PolicyOf(type), id \div 32, 31 - (id % 32)>>

\* verify_csk_key_id.  Seamless capsules have no policy.
KeyAllowed(ufm, type, id) ==
  \/ type = "PCH_SEAMLESS"
  \/ /\ PolicyOf(type) # "none"
     /\ KeyId(id) <= MaxKeyId
     /\ PolicyBit(type, KeyId(id)) \notin ufm.cleared

\* validate_key_cancellation_flag.  The reserved bytes of a certificate are
\* read behind a signature block of the curve seen last: behind a block of the
\* other size they are not zero.
ValidateKc(ufm, d, curve) ==
  IF d.type \in Certificates
  THEN Sig(curve) = Sig(d.curve) /\ d.flaw # "reserved"
  ELSE KeyAllowed(ufm, d.type, d.csk.id)

-----------------------------------------------------------------------------
(* Blocks 1 and 0.                                                         *)

\* verify_root_key_entry once the curve is taken: permission, id and hash.
RootEntry(ufm, d) == d.flaw # "root" /\ d.root = ufm.root

\* intel_block1_block0_entry_verify
Block0Entry(d, key) == d.flaw # "entry" /\ d.by = key

\* intel_block1_csk_block0_entry_verify
CskEntry(d, key) ==
  /\ d.flaw # "csk" /\ SignBit(d.type) \in d.csk.perm
  /\ d.csk.by = key
  /\ Block0Entry(d, d.csk.key)

\* intel_block1_verify: a certificate has no CSK.
Block1(ufm, d) ==
  /\ d.flaw # "block1" /\ RootEntry(ufm, d)
  /\ IF d.type \in Certificates THEN Block0Entry(d, d.root) ELSE CskEntry(d, d.root)

\* intel_block0_verify: lengths, reserved fields and digest.
Block0(d) == d.flaw \notin {"block0", "content"}

\* intel_pfr_manifest_verify.  A root entry changes the curve as soon as its
\* tag is recognised, before its key has been checked.
Verify(flash, ufm, dev, a, curve) ==
  LET d        == At(flash, dev, a)
      admitted == ValidateKc(ufm, d, curve)
  IN [ok    |-> admitted /\ Block1(ufm, d) /\ Block0(d),
      curve |-> IF admitted /\ d.flaw # "block1" THEN d.curve ELSE curve]

-----------------------------------------------------------------------------
(* Several documents of one image.                                         *)

\* The documents at the addresses, one after the other, until one fails.  Each
\* is read with the curve of the one before it, which was good.
VerifyAll(flash, ufm, dev, as, curve) ==
  LET Seen(i)   == IF i = 1 THEN curve ELSE At(flash, dev, as[i - 1]).curve
      Result(i) == Verify(flash, ufm, dev, as[i], Seen(i))
      bad  == {i \in DOMAIN as : ~Result(i).ok}
      last == IF bad = {} THEN Len(as) ELSE Min(bad)
  IN IF as = <<>> THEN [ok |-> TRUE, curve |-> curve, addr |-> <<>>]
     ELSE [ok |-> bad = {}, curve |-> Result(last).curve, addr |-> as[last]]

\* Where the PFM of the capsule at a is, the signature of the capsule known to
\* be good.
Inner(flash, dev, a) == Plus(a, Sig(At(flash, dev, a).curve))

\* Mutant: FVMs are not looked at, as without seamless update.
FvmsOf_None(pfm, a) == <<>>

\* The addresses of the FVMs a PFM lists, the PFM at a.
FvmsOf(pfm, a) == [i \in DOMAIN pfm.fvms |-> Plus(a, pfm.fvms[i].off)]

\* A PFM and its FVMs moved from behind a capsule's signature to an address of
\* their own: what decompress_capsule leaves in the active region.
Installed(image, curve) ==
  [off \in {o - Sig(curve) : o \in DOMAIN image \ {0}} |-> image[off + Sig(curve)]]

\* An FVM written over the one of its place.
Overlay(image, off, fvm) == [o \in DOMAIN image \cup {off} |-> IF o = off THEN fvm ELSE image[o]]

\* validate_pc_type
ValidatePcType(dev, type, intents) ==
  \/ type = "CPLD_CANCELLATION"
  \/ type \in {"DECOMMISSION", "CPLD"} /\ "ROT" \in intents
  \/ type = Cap[dev] /\ dev \in intents
  \/ type = "PCH_SEAMLESS" /\ "SEAMLESS" \in intents

\* pfr_active_verify: the PFM, its tag, then every FVM it lists.  (The content
\* of the SPI regions is the subject of PfrCapsule.)
ActiveVerify(flash, ufm, dev, curve) ==
  LET a == Address(dev, "active", 0)
      d == At(flash, dev, a)
      r == VerifyAll(flash, ufm, dev, <<a>> \o (IF IsPfm(d) THEN FvmsOf(d, a) ELSE <<>>), curve)
  IN [addr |-> a, ok |-> r.ok /\ IsPfm(d), curve |-> r.curve]

\* pfr_recovery_verify: capsule and PFM.
RecoveryVerify(flash, ufm, dev, curve) ==
  LET a == Address(dev, "recovery", 0)
  IN VerifyAll(flash, ufm, dev, <<a, Inner(flash, dev, a)>>, curve)

\* get_recover_pfm_version_details: the tag of the PFM; its SVN, when larger
\* than the floor, must fit the UFM and is recorded there.
RecoveredSvn(ufm, dev, pfm, svnMax) ==
  IF IsPfm(pfm) /\ pfm.svn \in ufm.svn[dev]..svnMax THEN pfm.svn ELSE ufm.svn[dev]
RecoveredPfm(ufm, dev, pfm, svnMax) ==
  IsPfm(pfm) /\ (pfm.svn > ufm.svn[dev] => pfm.svn <= svnMax)

\* intel_fvm_verify, find_fvm_addr: a seamless capsule's FVM replaces one the
\* active PFM lists, of the same SVN.  Its header is looked for behind two
\* signature blocks of an elliptic curve: with LMS never found.
FvmVerify(flash, dev, a, curve) ==
  LET new  == At(flash, dev, Plus(a, 1))
      act  == Address(dev, "active", 0)
      fvms == At(flash, dev, act).fvms
      hits == {i \in DOMAIN fvms : fvms[i].fv = new.fv}
      off  == fvms[Min(hits)].off
  IN IF Lms(curve) \/ new.fv = "none" \/ hits = {}
     THEN [ok |-> FALSE, off |-> 0]
     ELSE [ok |-> At(flash, dev, Plus(act, off)).svn = new.svn, off |-> off]

\* The FVMs a PFM in the staging region lists.  On a failure "addr" stays where
\* it happened, and the state is the update's when intel_fvms_verify returns.
StagingFvms(flash, ufm, dev, state, pfm, v) ==
  LET a == Address(dev, "staging", 0)
      r == VerifyAll(flash, ufm, dev, FvmsOf(At(flash, dev, pfm), pfm), v.curve)
  IN IF r.ok THEN [v EXCEPT !.addr = a, !.curve = r.curve]
     ELSE [v EXCEPT !.ok = FALSE, !.addr = r.addr, !.curve = r.curve, !.state = "UPDATE"]

\* What follows the PFM of a capsule, v the verdict so far.  The PFM is looked
\* for behind a signature block of its own curve.
StagingRest(flash, ufm, dev, v) ==
  LET a   == Address(dev, "staging", 0)
      pfm == Plus(a, Sig(v.curve))
      fvm == FvmVerify(flash, dev, a, v.curve)
  IN CASE v.ok /\ dev = "PCH" /\ v.state = "SEAMLESS" ->
            [v EXCEPT !.addr = a, !.ok = fvm.ok, !.off = fvm.off]
       [] v.ok /\ dev = "PCH" /\ v.state # "SEAMLESS" ->
            IF IsPfm(At(flash, dev, pfm)) THEN StagingFvms(flash, ufm, dev, v.state, pfm, v)
            ELSE [v EXCEPT !.addr = a, !.ok = FALSE]
       [] OTHER -> IF v.ok THEN [v EXCEPT !.addr = a] ELSE v

\* pfr_staging_verify: the type of the capsule, which is not looked at in
\* recovery, its signature and that of its PFM.
StagingVerify(flash, ufm, dev, curve, state, intents) ==
  LET a == Address(dev, "staging", 0)
      r == VerifyAll(flash, ufm, dev, <<a, Inner(flash, dev, a)>>, curve)
  IN IF state # "RECOVERY" /\ ~ValidatePcType(dev, At(flash, dev, a).type, intents)
     THEN [ok |-> FALSE, addr |-> a, curve |-> curve, state |-> state, off |-> 0]
     ELSE StagingRest(flash, ufm, dev,
            [ok |-> r.ok, addr |-> r.addr, curve |-> r.curve, state |-> state, off |-> 0])
=============================================================================
