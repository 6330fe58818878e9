------------------------------ MODULE PfrCapsule ------------------------------
(***************************************************************************)
(* Decompression of a capsule into a host's flash, one page operation per  *)
(* step, and the three other readers of the same manifest: verification,   *)
(* recovery and the SPI filters.  A power cut or a failing operation may    *)
(* come between any two steps.                                             *)
(*                                                                         *)
(* A page of flash holds <<kind, image, n>>: page n of the compressed       *)
(* content ("img"), of the signed PFM ("pfm") or of an FVM (its firmware    *)
(* volume's name) of an image, or a whole capsule ("cap").  Sizes of        *)
(* documents are in KB, without their signature block.                     *)
(***************************************************************************)
EXTENDS Integers, FiniteSets, SequencesExt

CONSTANTS
  Images,     \* name -> [recs, pc, fvms, comp, active, nbit]; see PfmOf
  Factory,    \* what the flash holds at first
  Staged,     \* the images a host may stage
  PfmAt, StagingAt, RecoveryAt,  \* pages of the provisioned offsets
  Sig,        \* KB of a signature block: 1, or 5 with LMS
  Digest,     \* "SHA256" or "SHA384": the digest hash_curve stands for
  BlockPages, \* pages of an erase block, 1 for a part without block erase
  Checkpoint, \* CONFIG_BMC_CHECKPOINT_RECOVERY or CONFIG_PCH_CHECKPOINT_RECOVERY
  MaxTrouble  \* bound on what comes between

VARIABLES flash,     \* page -> content
          writable,  \* the pages the SPI filter lets the host write
          phase,     \* "RUN", "CHECK", "SEAMLESS" (verification), "WORK", "DOWN"
          job,       \* the decompression in progress or just ended
          ops,       \* its page operations still to come
          level,     \* recovery level: 1 first, 2 second, 3 third, more: reserved
          recovered, \* the CHECK follows a recovery
          trouble    \* how often something came between
vars == <<flash, writable, phase, job, ops, level, recovered, trouble>>

ASSUME LayoutAssumption == Sig \in {1, 5} /\ BlockPages \in Nat \ {0}

Pages == DOMAIN Factory
Blank == <<"blank", "none", 0>>
Junk  == <<"junk", "none", 0>>
Data  == <<"data", "none", 0>>
None  == "none"
Span(r) == r.start..r.end - 1

-----------------------------------------------------------------------------
(* Manifests.  A record of a PFM or FVM is                                  *)
(*   [type "SPI", start, end, read, write, hash, levels], [type "SMBUS"],   *)
(*   [type "CAP"] or [type "FVM", fv].                                      *)

\* The pages of a document of kb KB.
PagesOf(kb) == (kb + 3) \div 4

IsStatic(r)  == r.read /\ ~r.write
IsDynamic(r) == r.read /\ r.write

\* The records the decompression sees: behind a digest of the other size than
\* hash_curve's it reads no record any more.
Walked(recs) ==
  LET odd == {i \in DOMAIN recs : recs[i].type = "SPI" /\ recs[i].hash \notin {None, Digest}}
  IN SubSeq(recs, 1, IF odd = {} THEN Len(recs) ELSE Min(odd))

\* The records the SPI filter sees: FVM_CAP ends its walk of a PFM.
FilterWalk(recs) ==
  LET cap == {i \in DOMAIN recs : recs[i].type = "CAP"}
  IN SubSeq(recs, 1, IF cap = {} THEN Len(recs) ELSE Min(cap) - 1)

\* The FVMs that records list, and the KB of a PFM and its FVMs up to the end
\* of the last one.
FvmsIn(recs) == {recs[i].fv : i \in {j \in DOMAIN recs : recs[j].type = "FVM"}}
LastFvm(v, recs) ==
  CHOOSE fv \in FvmsIn(recs) :
    \A other \in FvmsIn(recs) : Images[v].fvms[other].off <= Images[v].fvms[fv].off
TotalPfmSize(v, recs) ==
  IF FvmsIn(recs) = {} THEN Images[v].pc
  ELSE LET fvm == Images[v].fvms[LastFvm(v, recs)] IN 4 * fvm.off + fvm.pc

\* Page i of the area a PFM and its FVMs take.
AreaPage(v, i) ==
  LET within == {fv \in DOMAIN Images[v].fvms :
                   i - Images[v].fvms[fv].off \in 0..PagesOf(Sig + Images[v].fvms[fv].pc) - 1}
  IN IF within = {} THEN <<"pfm", v, i>>
     ELSE LET fv == CHOOSE fv \in within : TRUE IN <<fv, v, i - Images[v].fvms[fv].off>>

\* The document that starts at page off of the active area is [image, kind]
\* when it is whole, as its signature tells.
DocAt(f, off) ==
  LET c    == f[PfmAt + off]
      size == IF c[1] = "pfm" THEN Images[c[2]].pc ELSE Images[c[2]].fvms[c[1]].pc
  IN IF /\ c[2] # None /\ c[1] \notin {"img", "cap"} /\ c[3] = 0
        /\ \A i \in 0..PagesOf(Sig + size) - 1 : f[PfmAt + off + i] = <<c[1], c[2], i>>
     THEN [image |-> c[2], kind |-> c[1]] ELSE [image |-> None, kind |-> None]

-----------------------------------------------------------------------------
(* pfm_spi_region_verification                                              *)

\* What a page of a region held when its digest was taken.
Expect(v, p) == IF p \in Images[v].comp THEN <<"img", v, p>> ELSE Blank

\* spi_region_hash_verification
RegionOk(f, v, r) == r.hash = None \/ \A p \in Span(r) : f[p] = Expect(v, p)
SpiOf(recs) == {recs[i] : i \in {j \in DOMAIN recs : recs[j].type = "SPI"}}

\* fvm_spi_region_verification: any signed FVM will do.
FvmOk(f, off) ==
  LET d == DocAt(f, off)
  IN /\ d.image # None /\ d.kind # "pfm"
     /\ \A r \in SpiOf(Images[d.image].fvms[d.kind].recs) : RegionOk(f, d.image, r)

\* pfr_active_verify
ActiveOk(f) ==
  LET d == DocAt(f, 0)
  IN /\ d.kind = "pfm"
     /\ \A r \in SpiOf(Images[d.image].recs) : RegionOk(f, d.image, r)
     /\ \A fv \in FvmsIn(Images[d.image].recs) : FvmOk(f, Images[d.image].fvms[fv].off)

-----------------------------------------------------------------------------
(* apply_pfm_protection, apply_fvm_spi_protection: every record overrules   *)
(* the ones before it, and nothing of what was set before is cleared.       *)

\* Mutant: write-protection is left to the default.
Filtered_EnableOnly(w, recs) ==
  FoldLeft(LAMBDA s, r : IF r.type = "SPI" /\ r.write THEN s \cup Span(r) ELSE s, w, recs)

Filtered(w, recs) ==
  FoldLeft(LAMBDA s, r : CASE r.type = "SPI" /\ r.write  -> s \cup Span(r)
                           [] r.type = "SPI" /\ ~r.write -> s \ Span(r)
                           [] OTHER                      -> s, w, recs)

\* A PFM's filters, those of an FVM where its address is listed.
Protection(f, w) ==
  LET v == DocAt(f, 0).image
      Records(r) ==
        IF r.type = "FVM"
        THEN LET d == DocAt(f, Images[v].fvms[r.fv].off) IN Images[d.image].fvms[d.kind].recs
        ELSE <<r>>
  IN Filtered(w, FlattenSeq([i \in DOMAIN FilterWalk(Images[v].recs) |-> Records(Images[v].recs[i])]))

-----------------------------------------------------------------------------
(* Page operations.  "skip" is how many of the following operations are left *)
(* out when one fails.                                                      *)

Erase(pages, skip)   == [op |-> "erase", pages |-> pages, page |-> Min(pages), what |-> Blank, skip |-> skip]
Copy(p, what, skip)  == [op |-> "copy", pages |-> {p}, page |-> p, what |-> what, skip |-> skip]
Abort == 1000  \* the decompression fails

\* Mutant: a block is erased wherever one starts.
Units_NoFit(first, last) ==
  LET Block(p) == p % BlockPages = 0
      Add(u, p) == CASE u # <<>> /\ p \in Last(u) -> u
                     [] Block(p)                  -> Append(u, p..p + BlockPages - 1)
                     [] OTHER                     -> Append(u, {p})
  IN FoldLeft(Add, <<>>, [i \in 1..last - first + 1 |-> first + i - 1])

\* pfr_spi_erase_region: the erase units of pages first..last, blocks where one
\* is aligned and fits.
Units(first, last) ==
  LET Block(p) == p % BlockPages = 0 /\ last - p + 1 >= BlockPages
      Add(u, p) == CASE u # <<>> /\ p \in Last(u) -> u
                     [] Block(p)                  -> Append(u, p..p + BlockPages - 1)
                     [] OTHER                     -> Append(u, {p})
  IN FoldLeft(Add, <<>>, [i \in 1..last - first + 1 |-> first + i - 1])
EraseRegion(first, last, fatal) ==
  LET u == Units(first, last)
  IN [i \in DOMAIN u |-> Erase(u[i], IF fatal THEN Abort ELSE Len(u) - i)]

\* Mutant: the run of used pages still open at the region's end is not erased.
EraseOps_NoTail(v, r) ==
  LET bits   == r.start..Min({r.end, Images[v].nbit}) - 1
      used   == bits \cap Images[v].active
      starts == SetToSortSeq({p \in used : p - 1 \notin used}, <)
      After(p) == {q \in bits : q > p /\ q \notin used}
      run(p) == IF After(p) = {} THEN <<>> ELSE EraseRegion(p, Min(After(p)) - 1, FALSE)
  IN FlattenSeq([i \in DOMAIN starts |-> run(starts[i])])

\* decompression_erase: the runs of pages the active bitmap marks; one that is
\* open at the end of the bitmap is erased to the end of the region.
EraseOps(v, r) ==
  LET bits   == r.start..Min({r.end, Images[v].nbit}) - 1
      used   == bits \cap Images[v].active
      starts == SetToSortSeq({p \in used : p - 1 \notin used}, <)
      After(p) == {q \in bits : q > p /\ q \notin used}
      run(p) == EraseRegion(p, IF After(p) = {} THEN r.end - 1 ELSE Min(After(p)) - 1, FALSE)
  IN FlattenSeq([i \in DOMAIN starts |-> run(starts[i])])

\* decompression_write: the payload has the pages the compression bitmap marks,
\* in order, and is counted from the start of the bitmap.
WriteOps(v, r) ==
  LET payload == SetToSortSeq(Images[v].comp, <)
      dest    == SetToSortSeq({p \in Span(r) : p < Images[v].nbit} \cap Images[v].comp, <)
      Index(p) == Cardinality({q \in Images[v].comp : q < p}) + 1
  IN [i \in DOMAIN dest |-> Copy(dest[i], <<"img", v, payload[Index(dest[i])]>>, Abort)]

\* Which regions are decompressed: static ones, dynamic ones if asked for but
\* never the staging region, and in a recovery only those of its level.
Selected(r, dynamic, lvl) ==
  /\ r.type = "SPI"
  /\ IsStatic(r) \/ (dynamic /\ IsDynamic(r) /\ r.start # StagingAt)
  /\ lvl = 0 \/ lvl \in r.levels

\* The regions of a capsule that are decompressed, in the order of its records,
\* the ones of an FVM (decompress_fvm_spi_region) where it is listed.
RegionsOf(recs, dynamic, lvl) == SelectSeq(Walked(recs), LAMBDA r : Selected(r, dynamic, lvl))
Chosen(v, dynamic, lvl) ==
  FlattenSeq([i \in DOMAIN Walked(Images[v].recs) |->
    LET r == Images[v].recs[i]
    IN IF r.type = "FVM" THEN RegionsOf(Images[v].fvms[r.fv].recs, dynamic, lvl)
       ELSE RegionsOf(<<r>>, dynamic, lvl)])
RegionOps(v, rs) == FlattenSeq([i \in DOMAIN rs |-> EraseOps(v, rs[i]) \o WriteOps(v, rs[i])])

\* update_active_pfm: the pages its size rounds up to.
PfmOps(v) ==
  LET n == PagesOf(TotalPfmSize(v, Walked(Images[v].recs)))
  IN EraseRegion(PfmAt, PfmAt + n - 1, TRUE)
       \o [i \in 1..n |-> Copy(PfmAt + i - 1, AreaPage(v, i - 1), Abort)]

\* Mutant: the new PFM is written before the regions it vouches for.
CapsuleOps_PfmFirst(v, dynamic, lvl) == PfmOps(v) \o RegionOps(v, Chosen(v, dynamic, lvl))

\* decompress_capsule
CapsuleOps(v, dynamic, lvl) == RegionOps(v, Chosen(v, dynamic, lvl)) \o PfmOps(v)

\* get_total_pfm_size, is_pbc_valid: the compressed content is found behind the
\* last FVM the walk has seen.
PbcValid(v) ==
  /\ Images[v].nbit % 8 = 0
  /\ TotalPfmSize(v, Walked(Images[v].recs)) = TotalPfmSize(v, Images[v].recs)

Work(v, dynamic, lvl) ==
  IF v # None /\ PbcValid(v) THEN CapsuleOps(v, dynamic, lvl) ELSE <<>>

\* decompress_fv_capsule: of the FVM's pages all are erased and one is written,
\* whatever becomes of it; then its static regions.
FvOps(v, fv, off) ==
  LET first == PfmAt + off
  IN EraseRegion(first, first + PagesOf(Images[v].fvms[fv].pc) - 1, FALSE)
       \o <<Copy(first, <<fv, v, 0>>, 0)>>
       \o RegionOps(v, RegionsOf(Images[v].fvms[fv].recs, FALSE, 0))

-----------------------------------------------------------------------------
Idle  == [why |-> "none", image |-> None, dynamic |-> FALSE, level |-> 0, off |-> 0, from |-> 0,
          before |-> <<>>, clean |-> TRUE]

\* What host, flash and power do to the root of trust, bounded.
Trouble == trouble < MaxTrouble /\ trouble' = trouble + 1

Init ==
  /\ flash = Factory /\ writable = {} /\ phase = "CHECK" /\ job = Idle /\ ops = <<>>
  /\ level = 1 /\ recovered = FALSE /\ trouble = 0

\* The capsule at a page, None if there is none.
CapsuleAt(p) == IF flash[p][1] = "cap" THEN flash[p][2] ELSE None

Start(why, v, dynamic, lvl, off, from, work) ==
  /\ phase' = "WORK" /\ ops' = work
  /\ job' = [why |-> why, image |-> v, dynamic |-> dynamic, level |-> lvl, off |-> off,
             from |-> from, before |-> flash, clean |-> TRUE]

-----------------------------------------------------------------------------
(* The host, its flash, and the power.                                      *)

HostWrite ==
  /\ phase = "RUN" /\ Trouble
  /\ \E p \in writable \ {StagingAt} : flash' = [flash EXCEPT ![p] = Data]
  /\ UNCHANGED <<writable, phase, job, ops, level, recovered>>

Stage ==
  /\ phase = "RUN" /\ StagingAt \in writable
  /\ \E v \in Staged : flash' = [flash EXCEPT ![StagingAt] = <<"cap", v, 0>>]
  /\ UNCHANGED <<writable, phase, job, ops, level, recovered, trouble>>

Lose ==
  /\ phase = "RUN" /\ Trouble
  /\ \E p \in Pages : flash' = [flash EXCEPT ![p] = Junk]
  /\ UNCHANGED <<writable, phase, job, ops, level, recovered>>

Reset ==
  /\ phase = "RUN" /\ phase' = "CHECK" /\ recovered' = FALSE
  /\ UNCHANGED <<flash, writable, job, ops, level, trouble>>

\* Neither the filters nor the recovery level are kept without power, and the
\* page in work may be left half done.
PowerCut ==
  /\ Trouble
  /\ phase' = "CHECK" /\ ops' = <<>> /\ job' = Idle /\ writable' = {} /\ level' = 1
  /\ recovered' = FALSE
  /\ \/ flash' = flash
     \/ ops # <<>> /\ flash' = [flash EXCEPT ![Head(ops).page] = Junk]

\* The last checkpoint: reset_recovery_level.
Booted ==
  /\ Checkpoint /\ phase = "RUN" /\ level' = 1
  /\ UNCHANGED <<flash, writable, phase, job, ops, recovered, trouble>>

-----------------------------------------------------------------------------
(* Verification.                                                           *)

Serve ==
  /\ phase \in {"CHECK", "SEAMLESS"} /\ ActiveOk(flash)
  /\ writable' = Protection(flash, writable) /\ phase' = "RUN" /\ recovered' = FALSE
  /\ UNCHANGED <<flash, job, ops, level, trouble>>

\* A seamless update that does not verify leaves the host running.
SeamlessFailed ==
  /\ phase = "SEAMLESS" /\ ~ActiveOk(flash) /\ phase' = "RUN"
  /\ UNCHANGED <<flash, writable, job, ops, level, recovered, trouble>>

\* pfr_recover_active_region, after a failed verification or a timeout.  The
\* level counts in builds with checkpoints only.
Recovery(why) ==
  LET v   == CapsuleAt(RecoveryAt)
      lvl == IF Checkpoint THEN level ELSE 0
  IN Start(why, v, TRUE, lvl, 0, RecoveryAt, Work(v, TRUE, lvl))
Recover ==
  /\ phase = "CHECK" /\ ~ActiveOk(flash) /\ ~recovered /\ CapsuleAt(RecoveryAt) # None
  /\ Recovery("recover")
  /\ UNCHANGED <<flash, writable, level, recovered, trouble>>
NotRecovered ==
  /\ phase = "CHECK" /\ ~ActiveOk(flash)
  /\ recovered \/ CapsuleAt(RecoveryAt) = None
  /\ phase' = "DOWN"
  /\ UNCHANGED <<flash, writable, job, ops, level, recovered, trouble>>

\* WDT_TIMEOUT: the active image is taken to be bad.
BootTimeout ==
  /\ Checkpoint /\ phase = "RUN" /\ Trouble
  /\ Recovery("timeout")
  /\ UNCHANGED <<flash, writable, level, recovered>>

-----------------------------------------------------------------------------
(* Updates, and the page operations they consist of.                        *)

\* update_firmware_image, active region.
Update ==
  /\ phase = "RUN"
  /\ \E v \in {CapsuleAt(StagingAt)} \ {None}, dynamic \in BOOLEAN :
       /\ Images[v].recs # <<>>
       /\ Start("update", v, dynamic, 0, 0, StagingAt,
                Work(v, dynamic, 0))
  /\ UNCHANGED <<flash, writable, level, recovered, trouble>>

\* perform_seamless_update: an FVM for a volume the active PFM lists.
Seamless ==
  /\ phase = "RUN" /\ DocAt(flash, 0).kind = "pfm"
  /\ LET v == CapsuleAt(StagingAt)
         a == Images[DocAt(flash, 0).image]
     IN /\ v # None
        /\ \E fv \in DOMAIN Images[v].fvms \cap FvmsIn(a.recs) :
             /\ Images[v].recs = <<>>
             /\ Start("seamless", v, FALSE, 0, a.fvms[fv].off, StagingAt,
                      FvOps(v, fv, a.fvms[fv].off))
  /\ UNCHANGED <<flash, writable, level, recovered, trouble>>

\* A copy reads its page from where the capsule is: nothing good, once the
\* capsule has gone.  Programming a page that is not blank mixes the two.
Source(o) == IF flash[job.from] = <<"cap", job.image, 0>> THEN o.what ELSE Junk
Programmed(o) == IF flash[o.page] \in {Blank, Source(o)} THEN Source(o) ELSE Junk

PageOp ==
  /\ phase = "WORK" /\ ops # <<>> /\ ops' = Tail(ops)
  /\ LET o == Head(ops)
     IN flash' = IF o.op = "erase" THEN [p \in Pages |-> IF p \in o.pages THEN Blank ELSE flash[p]]
                 ELSE [flash EXCEPT ![o.page] = Programmed(o)]
  /\ UNCHANGED <<writable, phase, job, level, recovered, trouble>>

\* An operation fails: the rest of a region to erase is left as it is and the
\* error forgotten, anything else ends the decompression.
PageOpFails ==
  /\ phase = "WORK" /\ ops # <<>> /\ Trouble
  /\ ops' = IF Head(ops).skip = Abort THEN <<>>
            ELSE SubSeq(ops, Head(ops).skip + 2, Len(ops))
  /\ job' = [job EXCEPT !.clean = FALSE]
  /\ flash' \in {flash, [flash EXCEPT ![Head(ops).page] = Junk]}
  /\ UNCHANGED <<writable, phase, level, recovered>>

\* What follows a decompression, good or bad, is a verification.  A timeout
\* raises the level of the next recovery.
Finish ==
  /\ phase = "WORK" /\ ops = <<>>
  /\ phase' = IF job.why = "seamless" THEN "SEAMLESS" ELSE "CHECK"
  /\ recovered' = (job.why \in {"recover", "timeout"})
  /\ level' = IF job.why = "timeout" THEN level + 1 ELSE level
  /\ job' = [job EXCEPT !.before = <<>>]
  /\ UNCHANGED <<flash, writable, ops, trouble>>

Next ==
  \/ HostWrite \/ Stage \/ Lose \/ Reset \/ PowerCut \/ Booted
  \/ Serve \/ SeamlessFailed \/ Recover \/ NotRecovered \/ BootTimeout
  \/ Update \/ Seamless \/ PageOp \/ PageOpFails \/ Finish

Spec == Init /\ [][Next]_vars
=============================================================================
