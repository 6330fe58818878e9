------------------------------ MODULE MCSignature ------------------------------
(* Small instances of PfrAuthentication: one root key, one CSK per use.    *)
EXTENDS SignatureSafety

Key(id, key, perm) == [id |-> id, key |-> key, perm |-> perm, by |-> "R"]
AllPerm == {"PCH_PFM", "PCH_CAPSULE", "BMC_PFM", "BMC_CAPSULE", "CPLD"}
K2  == Key(2, "k2", AllPerm)
K33 == Key(33, "k33", AllPerm)
K40 == Key(40, "k40", {"CPLD", "BMC_PFM"})

Doc(type, csk) == [Junk EXCEPT !.type = type, !.curve = "secp384", !.root = "R",
                               !.csk = csk, !.by = csk.key, !.flaw = "none"]
Cert(type, id) == [Doc(type, NoCsk) EXCEPT !.by = "R", !.cancels = id]
PfmDoc(type, csk, rev) == [Doc(type, csk) EXCEPT !.svn = rev, !.rev = rev]
Fvm(csk, svn)  == [Doc("PCH_PFM", csk) EXCEPT !.fv = "bios", !.svn = svn]

BmcPfm(csk, rev) == PfmDoc("BMC_PFM", csk, rev)
PchPfm(csk, rev) == [PfmDoc("PCH_PFM", csk, rev) EXCEPT !.fvms = <<[off |-> 2, fv |-> "bios"]>>]
BmcCapsule(csk, rev) == (0 :> Doc("BMC_CAPSULE", csk)) @@ (1 :> BmcPfm(csk, rev))
PchCapsule(csk, rev) ==
  (0 :> Doc("PCH_CAPSULE", csk)) @@ (1 :> PchPfm(csk, rev)) @@ (3 :> Fvm(csk, rev))
Seamless2(csk) == (0 :> Doc("PCH_SEAMLESS", csk)) @@ (1 :> Fvm(csk, 1))
Only(d) == 0 :> d

MCFactory ==
  [BMC |-> [active |-> Installed(BmcCapsule(K2, 1), "secp384"), recovery |-> BmcCapsule(K33, 1),
            staging |-> <<>>, rot |-> <<>>],
   PCH |-> [active |-> Installed(PchCapsule(K2, 1), "secp384"), recovery |-> PchCapsule(K33, 1),
            staging |-> <<>>, rot |-> <<>>]]
MCProvisioned == [root |-> "R", cleared |-> {},
                  svn |-> [BMC |-> 1, PCH |-> 1, ROT |-> 0]]

\* A good update, one per flaw, and certificates.
MCImages ==
  (<<"PCH", "staging">> :>
     {PchCapsule(K2, 2), Seamless2(K2), [PchCapsule(K33, 2) EXCEPT ![1].flaw = "content"],
      [PchCapsule(K33, 2) EXCEPT ![3].by = "k33", ![3].csk.key = "other"],
      [PchCapsule(K33, 2) EXCEPT ![3].by = "R"],
      PchCapsule(K40, 2), Only(Cert("PCH_PFM_CANCELLATION", 2)),
      Only(Cert("PCH_PFM_CANCELLATION", 33)), Only(Cert("PCH_PFM_CANCELLATION", 34)),
      Only([Cert("PCH_PFM_CANCELLATION", 34) EXCEPT !.by = "k2"]),
      Only(Cert("PCH_CAPSULE_CANCELLATION", 130))})
  @@ (<<"BMC", "staging">> :>
     {BmcCapsule(K2, 2), BmcCapsule(K33, 0), PchCapsule(K2, 1),
      [PchCapsule(K2, 2) EXCEPT ![1].root = "other"],
      Only(Cert("BMC_PFM_CANCELLATION", 33)), Only(Cert("BMC_PFM_CANCELLATION", 258))})
  @@ (<<"BMC", "rot">> :>
     {Only([Doc("CPLD", K40) EXCEPT !.svn = 1]), Only(Cert("CPLD_CANCELLATION", 40)),
      Only(Doc("DECOMMISSION", K40)),
      Only([Doc("DECOMMISSION", K40) EXCEPT !.flaw = "reserved"])})

\* An image signed with another root key, of the same kind of curve or not.
ForeignDoc(curve) == [PchPfm(K2, 1) EXCEPT !.root = "other", !.curve = curve]
MCLeftBehind == {<<>>, Only(ForeignDoc("secp256")), Only(ForeignDoc("lms384"))}
=============================================================================
