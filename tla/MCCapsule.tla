------------------------------- MODULE MCCapsule -------------------------------
(* A host with one FVM: boot block, NVRAM, BIOS, a PFM and an FVM of PfmKB    *)
(* each, staging and recovery region; blocks of two pages.                  *)
EXTENDS CapsuleSafety

CONSTANTS PfmKB  \* protected content of a PFM

Spi(start, end, write, hash, levels) ==
  [type |-> "SPI", start |-> start, end |-> end, read |-> TRUE, write |-> write,
   hash |-> hash, levels |-> levels]
Boot(hash)    == Spi(0, 2, FALSE, hash, {1, 2})
Nvram         == Spi(2, 3, TRUE, "none", {1})
NvramLocked   == Spi(2, 3, FALSE, "SHA384", {1, 2})
Bios          == Spi(3, 5, FALSE, "SHA384", {1})
StagingRegion == Spi(StagingAt, StagingAt + 1, TRUE, "none", {1, 2, 3})
Fvm           == [type |-> "FVM", fv |-> "bios"]
Smbus         == [type |-> "SMBUS"]
Cap           == [type |-> "CAP"]

Image(recs, comp) ==
  [recs |-> recs, pc |-> PfmKB, comp |-> comp, active |-> {0, 1, 2, 3, 4, StagingAt}, nbit |-> 8,
   fvms |-> ("bios" :> [off |-> PagesOf(Sig + PfmKB), pc |-> PfmKB, recs |-> <<Bios, Cap>>])]

MCImages ==
     ("v1" :> Image(<<Boot("SHA384"), Nvram, StagingRegion, Fvm, Cap>>, {0, 1, 3, 4}))
  @@ ("v2" :> Image(<<Smbus, NvramLocked, Fvm, Boot("SHA384"), StagingRegion>>, {0, 2, 3}))
  @@ ("odd" :> Image(<<Nvram, Fvm, Boot("SHA256"), StagingRegion>>, {0, 1, 3, 4}))
  @@ ("fv" :> [Image(<<>>, {4}) EXCEPT !.active = {3, 4}])

MCStaged == {"v2", "odd", "fv"}

\* An image as the factory leaves it.
Installed(v) == [p \in 0..RecoveryAt |->
  CASE p \in {0, 1, 3, 4}             -> IF p \in MCImages[v].comp THEN <<"img", v, p>> ELSE Blank
    [] p = 2                          -> Data
    [] p \in PfmAt..StagingAt - 1     -> <<IF p - PfmAt < PagesOf(Sig + PfmKB) THEN "pfm" ELSE "bios",
                                          v, (p - PfmAt) % PagesOf(Sig + PfmKB)>>
    [] p = StagingAt                  -> Blank
    [] p = RecoveryAt                 -> <<"cap", v, 0>>]
MCFactory == Installed("v1")
=============================================================================
