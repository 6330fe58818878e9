----------------------------- MODULE CapsuleSafety -----------------------------
(* What the decompression of capsules promises.                            *)
EXTENDS PfrCapsule

\* Every SPI region of an image, those of its FVMs included.
RegionsOfImage(v) ==
  SpiOf(Images[v].recs) \cup UNION {SpiOf(Images[v].fvms[fv].recs) : fv \in DOMAIN Images[v].fvms}
StridesMatch(v) == \A r \in RegionsOfImage(v) : r.hash \in {None, Digest}

\* The pages update_active_pfm or decompress_fv_capsule is about.
AreaOf(j) ==
  LET fvms == Images[j.image].fvms
  IN IF j.why = "seamless" THEN {PfmAt + j.off}
     ELSE PfmAt..PfmAt + PagesOf(Sig + TotalPfmSize(j.image, Images[j.image].recs)) - 1

\* What a page holds after a decompression in which nothing failed: its page of
\* the PFM, what the capsule has for it if a selected region holds it and the
\* capsule uses it, and otherwise what it held before.
Wanted(j, p) ==
  CASE p \in AreaOf(j) /\ j.why = "seamless" ->
         <<CHOOSE fv \in DOMAIN Images[j.image].fvms : TRUE, j.image, 0>>
    [] p \in AreaOf(j) /\ j.why # "seamless" -> AreaPage(j.image, p - PfmAt)
    [] /\ p \in Images[j.image].active
       /\ \E r \in RegionsOfImage(j.image) : p \in Span(r) /\ Selected(r, j.dynamic, j.level) ->
         Expect(j.image, p)
    [] OTHER -> j.before[p]

\* A decompression in which nothing failed leaves exactly the capsule's image:
\* every used page of every selected region, however erase blocks, runs and
\* bitmap bytes divide it, the whole PFM, and no other page, in particular not
\* the capsule it reads from.
InstalledExactly ==
  [][Finish /\ job.clean /\ job.image # None /\ StridesMatch(job.image) =>
       \A p \in Pages : flash[p] = Wanted(job, p)]_vars

\* A PFM that becomes whole in the active area vouches for what the flash
\* holds: wherever the power was cut, it is not there before every region it,
\* or an FVM that comes with it, has a digest of.
PfmComesLast ==
  [][LET new == DocAt(flash', 0).image
     IN new # None /\ new # DocAt(flash, 0).image /\ job.clean /\ StridesMatch(new)
          => \A r \in RegionsOfImage(new) :
               Selected(r, job.dynamic, job.level) => RegionOk(flash', new, r)]_vars

\* Every region with a digest is written back at the current level.
Recoverable(v, lvl) ==
  StridesMatch(v)
  /\ \A r \in RegionsOfImage(v) : r.hash # None => Selected(r, TRUE, IF Checkpoint THEN lvl ELSE 0)

\* "Active 0, Recovery 1": a host with a good recovery capsule comes up, even if
\* an update or a recovery was cut anywhere, any number of times, before.
RecoveryHeals ==
  [][NotRecovered =>
       \/ CapsuleAt(RecoveryAt) = None
       \/ ~job.clean
       \/ ~Recoverable(CapsuleAt(RecoveryAt), job.level)]_vars

\* What the filters let the host write, nothing verifies: a host that runs on a
\* good image cannot by itself write what makes the next verification fail, not
\* after updates that changed the regions either.
HostCannotBreak == [][HostWrite \/ Stage => (ActiveOk(flash) => ActiveOk(flash'))]_vars
=============================================================================
