---------------------------- MODULE CerberusSafety ----------------------------
(***************************************************************************)
(* What the Cerberus flavour promises across cancellations, appended key    *)
(* manifests, updates, failing writes and power cuts.                       *)
(***************************************************************************)
EXTENDS CerberusPfr

Images   == {c \in DOMAIN Capsules : Capsules[c].format = "PCH"}
KeysOf(c) == {Capsules[c].signer} \cup {r.key : r \in Capsules[c].regions}

\* A key cancelled for the host stays out: no image of it boots and none is
\* written to the recovery region, whatever manifests were appended, moved or
\* provisioned again (cerberus_pfr_cancel_csk_keys, verify_csk_key_id).  An
\* interrupted write of the UFM or of a manifest page is excepted: the bits
\* are lost with the sector.
Cancelled(c) == \E k \in KeysOf(c) : <<"PCH", k>> \in dead
CancelledStaysOut ==
  [][~lost' => /\ phase = "VERIFY_ACTIVE" /\ phase' = "RUNTIME" =>
                    ~ \E r \in Capsules[flash.active["pfm"]].regions : <<"PCH", r.key>> \in dead
               /\ flash'.recovery # flash.recovery /\ flash'.recovery \in Images =>
                    ~Cancelled(flash'.recovery)]_vars

\* As the tools make manifests: a key has one id and one digest type in all that
\* list it.  A certificate names a key by its id, a bit is one of a slot and id.
KeysHaveOnePlace ==
  \A m, n \in DOMAIN Manifests :
    \A i \in DOMAIN Manifests[m].keys, j \in DOMAIN Manifests[n].keys :
      Manifests[m].keys[i] = Manifests[n].keys[j] => i = j /\ Manifests[m].hash = Manifests[n].hash

\* As platforms are delivered: no key is cancelled, and key manifests are there
\* only if the platform is provisioned.
FreshPlatforms ==
  \A s \in Scenarios :
    s.ufm.cancelled = {} /\ (s.ufm.parts = {} => \A t \in Slot : s.keym[t] = Blank)

\* As the tools make images: the PFM and the regions whose digest it vouches for
\* are among the sections and not RW regions that a recovery erases or keeps.
Vouched(c) == {"pfm"} \cup {r.sec : r \in {x \in Capsules[c].regions : x.must}}
ImagesComplete ==
  \A c \in Images : \A s \in Vouched(c) :
    /\ \E i \in DOMAIN Capsules[c].secs : Capsules[c].secs[i] = s
    /\ \A i \in DOMAIN Capsules[c].rw : Capsules[c].rw[i].sec = s => Capsules[c].rw[i].mode = "RESTORE"

\* A host image with nothing wrong: its keys are in manifests the RoT was
\* given and none is cancelled.
Sound(c) ==
  /\ c \in Images /\ ~Cancelled(c)
  /\ \E m \in known : \E i \in DOMAIN Manifests[m].keys : Manifests[m].keys[i] = Capsules[c].signer
  /\ \A r \in Capsules[c].regions :
       \E m \in known : r.id + 1 \in DOMAIN Manifests[m].keys /\ Manifests[m].keys[r.id + 1] = r.key

\* The platform is locked down, or the host held, only if a write to the key
\* manifests or the UFM was interrupted, if a write failed in this very
\* recovery, or if neither the recovery nor a staging region has an image that
\* could help (handle_key_manifest_verification, recover_image,
\* cerberus_append_key_manifest).
HostHeals ==
  [][/\ phase' = "LOCKDOWN" => lost
     /\ phase = "VERIFY_ACTIVE" /\ phase' = "HELD" =>
          \/ lost \/ failed
          \/ ~ \E a \in {"recovery", "staging", "bmcStaging"} : Sound(flash[a])]_vars

\* Anti-rollback: a floor never falls and no update writes an image below it
\* (svn_policy_verify, set_ufm_svn, get_recover_pfm_version_details), unless the
\* UFM is erased.  A recovery of a recovery region does not ask the floor.
FloorHolds ==
  [][~lost' /\ ufm'.parts # {} =>
       /\ \A p \in Policies : ufm'.svn[p] >= ufm.svn[p]
       /\ phase = "VERIFY" /\ flash'.active["pfm"] # flash.active["pfm"] /\ flash'.active["pfm"] \in Images =>
            Capsules[flash'.active["pfm"]].svn >= ufm.svn["PCH"]]_vars
=============================================================================
