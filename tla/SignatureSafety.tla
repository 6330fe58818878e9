---------------------------- MODULE SignatureSafety ----------------------------
(* What the authentication of images promises.                             *)
EXTENDS PfrAuthentication

\* A document is what its issuer made of it: nothing changed, the chain of its
\* keys ends in the provisioned root key, every key had the permission, and the
\* key that signed it has not been cancelled for its type.  (An issuer may sign
\* a decommission capsule with reserved bytes set: it is genuine, not obeyed.)
Genuine(d) ==
  /\ d.flaw = "none" \/ (d.type = "DECOMMISSION" /\ d.flaw = "reserved")
  /\ d.root = ufm.root
  /\ IF d.type \in Certificates THEN d.by = d.root
     ELSE /\ d.csk.by = d.root /\ d.by = d.csk.key
          /\ SignBit(d.type) \in d.csk.perm
          /\ <<PolicyOf(d.type), d.csk.id>> \notin cancelled

\* A host's region holds an image all of whose documents are genuine.
Whole(f, h, region) == f[h][region] # <<>> /\ \A o \in DOMAIN f[h][region] : Genuine(f[h][region][o])

\* The PFM of a region, at its offset there, is genuine.
GenuinePfm(h, region, off) == Genuine(At(flash, h, Address(h, region, off)))

\* intel_pfr_manifest_verify accepts only genuine documents, whatever curve the
\* manifest was left with and whatever has been cancelled, and all of them, but
\* for a certificate, which is refused behind a curve of the other kind.
VerdictsAreGenuine ==
  ufm.root # "none" =>
    \A h \in Hosts, curve \in {Unset, "secp384", "lms384"} :
      \A region \in Regions : \A o \in DOMAIN flash[h][region] :
        LET d == flash[h][region][o]
        IN Verify(flash, ufm, h, Address(h, region, o), curve).ok
             = (Genuine(d) /\ (d.type \in Certificates => Sig(curve) = Sig(d.curve)))

\* The host's own PFM is there, and genuine.
InUse(h, region, off) ==
  /\ At(flash, h, Address(h, region, off)).type = Pfm[h]
  /\ GenuinePfm(h, region, off)

\* cancel_csk_key_id never takes the key of a PFM that is in use: a certificate
\* that is obeyed leaves the PFMs of both regions of both hosts as genuine as
\* they were.
CancellationSparesPfm ==
  [][ufm'.root = ufm.root /\ ufm'.cleared # ufm.cleared =>
       \A h \in Hosts :
         /\ InUse(h, "active", 0) => InUse(h, "active", 0)'
         /\ InUse(h, "recovery", 1) => InUse(h, "recovery", 1)']_vars

\* What an update or a seamless update installs over an image was genuine down
\* to the last document.  (What a recovery installs is verified again before
\* anything boots.)
InstalledWasGenuine ==
  [][phase = "RUN" /\ lost' = lost =>
       \A h \in Hosts, region \in {"active", "recovery"} :
         \A o \in DOMAIN flash'[h][region] :
           \/ o \in DOMAIN flash[h][region] /\ flash[h][region][o] = flash'[h][region][o]
           \/ Genuine(flash'[h][region][o])]_vars

\* A platform that runs after a verification runs on images whose PFM is
\* genuine; of a host that failed, only the PCH, and it is known to have failed.
RunsGenuine ==
  [][phase = "CHECK" /\ phase' = "RUN" =>
       /\ GenuinePfm("BMC", "active", 0)
       /\ ao["PCH"].active => GenuinePfm("PCH", "active", 0)]_vars

\* The recovery matrix of recover_image, "Active 0, Recovery 1": a host with a
\* whole recovery image does not leave the verification with a bad active one,
\* and a BMC with one never leads to lockdown.  A PFM of the other kind of curve
\* in place of the active one is excepted: pfr_recover_active_region takes the
\* size of the recovery image's signature block from the curve of the document
\* looked at last, which need not be genuine.
SameKind(h) == \A o \in DOMAIN flash[h]["active"] :
                 Sig(flash[h]["active"][o].curve) = Sig(Unset)
RecoveryRepairs ==
  [][phase' # phase =>
       /\ phase' = "RUN" =>
            \A h \in Hosts : Whole(flash, h, "recovery") /\ SameKind(h) => ao[h].active
       /\ phase' = "LOCKDOWN" => ~(Whole(flash, "BMC", "recovery") /\ SameKind("BMC"))]_vars
=============================================================================
