------------------------------ MODULE CerberusKeys ------------------------------
(***************************************************************************)
(* The key manifests of the Cerberus flavour: signing keys (CSKs) listed    *)
(* in slots of a flash partition of their own, two slots to an erase page,  *)
(* and the cancellation bits in the UFM, one for each policy, slot and id.  *)
(* How keys are found and judged, and what appending a manifest and         *)
(* cancelling keys write.                                                   *)
(***************************************************************************)
EXTENDS Integers, FiniteSets, SequencesExt

CONSTANTS
  Slots,     \* number of slots: KEY_MANIFEST_MAX_COUNT, or what the partition holds
  Manifests  \* name -> [hash, keys]: digest type and the sequence of CSKs listed

ASSUME SlotsAssumption == Slots \in Nat \ {0}
ASSUME ManifestsAssumption ==
  /\ DOMAIN Manifests \cap {"blank", "half", "torn"} = {}
  /\ \A m \in DOMAIN Manifests : Manifests[m].keys \in Seq(STRING) /\ Len(Manifests[m].keys) <= 8

VARIABLES keym,  \* slot -> "blank", "half", "torn" or the name of a manifest
          ufm    \* [parts, cancelled, svn]: the provisioning UFM

Slot == 0..Slots - 1
Blank == "blank"
None  == <<"none">>

\* A slot counts as used for a reader when format or magic number is there, and
\* for the writer when both are: a torn header ("half") is used and free.
Present(s) == keym[s] # Blank
Free(s)    == keym[s] \in {Blank, "half"}
Whole(s)   == keym[s] \in DOMAIN Manifests

\* cerberus_pfr_verify_all_key_manifests, each by cerberus_pfr_verify_key_manifest.
VerifyAll == (\E s \in Slot : Present(s)) /\ \A s \in Slot : Present(s) => Whole(s)

\* The key that a slot lists under an id counted from 0.
Lists(s, id, key) ==
  Whole(s) /\ id \in 0..Len(Manifests[keym[s]].keys) - 1 /\ Manifests[keym[s]].keys[id + 1] = key

\* Mutant: the last match counts.
FindById_Last(key, id) ==
  LET found == {s \in Slot : Lists(s, id, key)} IN IF found = {} THEN None ELSE <<Max(found), id>>

\* cerberus_pfr_find_key_manifest_id: <<slot, id>> of the first match.
FindById(key, id) ==
  LET found == {s \in Slot : Lists(s, id, key)} IN IF found = {} THEN None ELSE <<Min(found), id>>

\* cerberus_pfr_find_key_manifest_id_and_key_id
Find(key) ==
  LET slots == {s \in Slot : \E id \in 0..7 : Lists(s, id, key)}
  IN IF slots = {} THEN None
     ELSE <<Min(slots), Min({id \in 0..7 : Lists(Min(slots), id, key)})>>

\* verify_csk_key_id
Usable(policy, at) == at # None /\ <<policy, at[1], at[2]>> \notin ufm.cancelled

-----------------------------------------------------------------------------
(* What is written.                                                        *)

Erase(slots)     == [op |-> "keym", slots |-> slots, what |-> Blank]
Write(s, m)      == [op |-> "keym", slots |-> {s}, what |-> m]
CancelBit(p, at) == [op |-> "cancel", policy |-> p, at |-> at]
PageOf(s)        == {t \in Slot : t \div 2 = s \div 2}

\* Mutant: what shares the page is not written back.
Append_NoCopy(m) ==
  LET free == {s \in Slot : Free(s)}
      s    == Min(free)
  IN IF free = {} THEN <<>> ELSE <<Erase(PageOf(s)), Write(s, m)>>

\* cerberus_append_key_manifest: the page of the first free slot is erased; its
\* first slot, if that is not the one, is read before and written back.
AppendOps(m) ==
  LET free == {s \in Slot : Free(s)}
      s    == Min(free)
  IN CASE free = {} -> <<>>
       [] free # {} /\ s % 2 = 0 -> <<Erase(PageOf(s)), Write(s, m)>>
       [] OTHER -> <<Erase(PageOf(s)), Write(s - 1, keym[s - 1]), Write(s, m)>>

\* The elements of a set from first to last in the order of a relation.
InOrder(S, before) ==
  [n \in 1..Cardinality(S) |->
     CHOOSE x \in S : Cardinality({y \in S : <<y, x>> \in before}) = n - 1]

\* cerberus_pfr_cancel_csk_keys: entries are <<id, key>>; each is cancelled in
\* the first slot of the certificate's digest type that lists it, slot after
\* slot, and the rest is reported.
CancelOps(policy, cert) ==
  LET Found(i) == {s \in Slot : /\ Lists(s, cert.list[i][1], cert.list[i][2])
                                /\ Manifests[keym[s]].hash = cert.hash}
      At(i)    == Min(Found(i))
      here     == {i \in DOMAIN cert.list : Found(i) # {}}
      before   == {p \in here \X here : At(p[1]) < At(p[2]) \/ (At(p[1]) = At(p[2]) /\ p[1] < p[2])}
      order    == InOrder(here, before)
  IN [n \in DOMAIN order |-> CancelBit(policy, <<At(order[n]), cert.list[order[n]][1]>>)]
=============================================================================
