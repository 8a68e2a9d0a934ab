---------------------------- MODULE ReleaseRecord ----------------------------
(***************************************************************************)
(* The life of one Release Record on disk: the store (RecordStore), its    *)
(* public attestation (RecordAttest), its detached signature               *)
(* (packages/cli/src/record-sign.ts), the portable package built from all  *)
(* three (record-package.ts), and what `verglos record verify` accepts     *)
(* (record-verify.ts).  All commands run at the same time, and each can    *)
(* fail or be killed at any step.  A command is given the manifest by      *)
(* path, so it need not be the one that lies in the store.                 *)
(***************************************************************************)
EXTENDS RecordStore, RecordAttest

CONSTANTS
  Signers,    \* runs of `record sign` with one signature path
  Packagers,  \* runs of `record package` with one output path
  MaxFaults   \* bound of the model: errors and kills, over all commands

ASSUME ReleaseConstants == Attestable = Manifests /\ MaxFaults \in Nat

VARIABLES
  signature,  \* the signature file: absent, being written, or the manifest it signs
  spc,        \* where each signing run is
  signs,      \* the manifest it signs
  package,    \* the output directory of the packagers
  staging,    \* the staging directory of each of them
  ppc,        \* where each of them is
  plan,       \* what it has read and verified, and will write
  faults      \* errors and kills so far

packageVars == <<signature, spc, signs, package, staging, ppc, plan>>
vars == <<storeVars, attestVars, packageVars, faults>>

NoPackage == [manifest |-> NoFile, members |-> {}, signature |-> NoFile,
              bundle |-> Absent, binding |-> Absent]
NoPlan == NoPackage

Plans == [manifest : Complete, members : SUBSET Contents,
          signature : Manifests \cup {NoFile},
          bundle : Attesters \cup {Absent}, binding : Attesters \cup {Absent}]

Payloads(m) == {Digest[m][p] : p \in Included(m)}

ReleaseInit ==
  /\ StoreInit
  /\ AttestInit
  /\ signature = NoFile
  /\ spc = [s \in Signers |-> "idle"]
  /\ signs = [s \in Signers |-> NoFile]
  /\ package = NoPackage
  /\ staging = [k \in Packagers |-> {}]
  /\ ppc = [k \in Packagers |-> "idle"]
  /\ plan = [k \in Packagers |-> NoPlan]
  /\ faults = 0

-----------------------------------------------------------------------------
\* An approved run reads and parses the manifest.
StartSign(s, m) ==
  /\ spc[s] = "idle"
  /\ spc' = [spc EXCEPT ![s] = "signing"]
  /\ signs' = [signs EXCEPT ![s] = m]
  /\ UNCHANGED <<storeVars, attestVars, signature, package, staging, ppc, plan>>

\* The flag "wx" creates an empty file, or fails.
OpenSignature(s) ==
  /\ spc[s] = "signing"
  /\ signature = NoFile
  /\ signature' = Torn
  /\ spc' = [spc EXCEPT ![s] = "writing"]
  /\ UNCHANGED <<storeVars, attestVars, signs, package, staging, ppc, plan>>

WriteSignature(s) ==
  /\ spc[s] = "writing"
  /\ signature' = signs[s]
  /\ spc' = [spc EXCEPT ![s] = "signed"]
  /\ UNCHANGED <<storeVars, attestVars, signs, package, staging, ppc, plan>>

StopSign(s) ==
  /\ spc[s] \in {"signing", "writing"}
  /\ spc' = [spc EXCEPT ![s] = "failed"]
  /\ UNCHANGED <<storeVars, attestVars, signature, signs, package, staging, ppc, plan>>

-----------------------------------------------------------------------------
\* The record of m is whole: read from the store, payload graph included.
Whole(m) == m \in Complete /\ Readable(m)

BeginAttestation(a, m) ==
  /\ Whole(m)
  /\ BeginAttest(a, m)
  /\ UNCHANGED <<storeVars, packageVars>>

(* verifyRecordSigstoreEvidenceBytes: a whole bundle over the statement of *)
(* m, and a binding that names both.                                       *)
EvidenceFor(m, bundle, binding) ==
  /\ bundle \in Attesters
  /\ binding = bundle
  /\ subject[bundle] = m

\* The entries a package of plan r consists of.
Entries(r) ==
  {"manifest", "members", "descriptor"}
    \cup (IF r.signature = NoFile THEN {} ELSE {"signature"})
    \cup (IF r.bundle = Absent THEN {} ELSE {"evidence"})

\* Mutant: the evidence is only checked to be whole.
PackageUnbound(k, m, signed, attested) ==
  /\ ppc[k] = "idle"
  /\ package = NoPackage
  /\ Whole(m)
  /\ signed => signature = m
  /\ attested => dir.bundle \in Attesters /\ dir.binding = dir.bundle
  /\ plan' = [plan EXCEPT ![k] =
       [manifest |-> m, members |-> Payloads(m),
        signature |-> IF signed THEN signature ELSE NoFile,
        bundle |-> IF attested THEN dir.bundle ELSE Absent,
        binding |-> IF attested THEN dir.binding ELSE Absent]]
  /\ ppc' = [ppc EXCEPT ![k] = "staging"]
  /\ UNCHANGED <<storeVars, attestVars, signature, spc, signs, package, staging>>

(* `record package`: the output is absent, the record is whole, and the    *)
(* signature and the evidence that are to be included verify against it.   *)
(* All bytes are in memory from here on.                                   *)
StartPackage(k, m, signed, attested) ==
  /\ ppc[k] = "idle"
  /\ package = NoPackage
  /\ Whole(m)
  /\ signed => signature = m
  /\ attested => EvidenceFor(m, dir.bundle, dir.binding)
  /\ plan' = [plan EXCEPT ![k] =
       [manifest |-> m,
        members |-> Payloads(m),
        signature |-> IF signed THEN signature ELSE NoFile,
        bundle |-> IF attested THEN dir.bundle ELSE Absent,
        binding |-> IF attested THEN dir.binding ELSE Absent]]
  /\ ppc' = [ppc EXCEPT ![k] = "staging"]
  /\ UNCHANGED <<storeVars, attestVars, signature, spc, signs, package, staging>>

StageEntry(k, e) ==
  /\ ppc[k] = "staging"
  /\ e \in Entries(plan[k]) \ staging[k]
  /\ staging' = [staging EXCEPT ![k] = @ \cup {e}]
  /\ UNCHANGED <<storeVars, attestVars, signature, spc, signs, package, ppc, plan>>

\* rename onto a package of another run fails: a directory that is not empty.
RenamePackage(k) ==
  /\ ppc[k] = "staging"
  /\ staging[k] = Entries(plan[k])
  /\ package = NoPackage
  /\ package' = plan[k]
  /\ staging' = [staging EXCEPT ![k] = {}]
  /\ ppc' = [ppc EXCEPT ![k] = "packaged"]
  /\ UNCHANGED <<storeVars, attestVars, signature, spc, signs, plan>>

\* An error removes the staging directory, a kill does not.
StopPackage(k) ==
  /\ ppc[k] = "staging"
  /\ staging' \in {staging, [staging EXCEPT ![k] = {}]}
  /\ ppc' = [ppc EXCEPT ![k] = "failed"]
  /\ UNCHANGED <<storeVars, attestVars, signature, spc, signs, package, plan>>

\* A step of the commands, none of which fails.
Work ==
  \/ StoreNext /\ UNCHANGED <<attestVars, packageVars>>
  \/ AttestNext /\ UNCHANGED <<storeVars, packageVars>>
  \/ \E a \in Attesters, m \in Manifests : BeginAttestation(a, m)
  \/ \E s \in Signers :
       \/ \E m \in Manifests : StartSign(s, m)
       \/ OpenSignature(s)
       \/ WriteSignature(s)
  \/ \E k \in Packagers :
       \/ \E m \in Manifests, signed, attested \in BOOLEAN :
            StartPackage(k, m, signed, attested)
       \/ \E e \in Entries(plan[k]) : StageEntry(k, e)
       \/ RenamePackage(k)

\* An error or a kill of one of them.
Fault ==
  \/ StoreFault /\ UNCHANGED <<attestVars, packageVars>>
  \/ AttestFault /\ UNCHANGED <<storeVars, packageVars>>
  \/ \E s \in Signers : StopSign(s)
  \/ \E k \in Packagers : StopPackage(k)

ReleaseNext ==
  \/ Work /\ UNCHANGED faults
  \/ faults < MaxFaults /\ faults' = faults + 1 /\ Fault

Spec == ReleaseInit /\ [][ReleaseNext]_vars

-----------------------------------------------------------------------------
(* `record verify` of a package: exactly the payloads of its manifest, a   *)
(* signature and evidence that belong to that manifest if the descriptor   *)
(* says they are included.                                                 *)
Verifies(r) ==
  /\ r.manifest \in Complete
  /\ Distinct(r.manifest, Paths)
  /\ Omitted[r.manifest] \cap Required[r.manifest] = {}
  /\ r.members = Payloads(r.manifest)
  /\ r.signature \in {NoFile, r.manifest}
  /\ r.bundle # Absent => EvidenceFor(r.manifest, r.bundle, r.binding)

PackageTypeOK ==
  /\ signature \in Manifests \cup {NoFile, Torn}
  /\ spc \in [Signers -> {"idle", "signing", "writing", "signed", "failed"}]
  /\ signs \in [Signers -> Manifests \cup {NoFile}]
  /\ package \in Plans \cup {NoPackage}
  /\ staging \in [Packagers -> SUBSET {"manifest", "members", "descriptor",
                                         "signature", "evidence"}]
  /\ ppc \in [Packagers -> {"idle", "staging", "packaged", "failed"}]
  /\ plan \in [Packagers -> Plans \cup {NoPlan}]
  /\ faults \in 0..MaxFaults

TypeOK == StoreTypeOK /\ AttestTypeOK /\ PackageTypeOK

(* A package that exists is whole: `record verify` accepts it, signature   *)
(* and attestation included, whatever its sources have become since.       *)
PackageVerifies == package # NoPackage => Verifies(package)

(* Readers of the record, of the attestation and of the package see each   *)
(* of them appear at once, whole, and never change: the abstract           *)
(* specification WriteOnce, for three artefacts written in many steps.     *)
Record == INSTANCE WriteOnce WITH
  Absent <- <<>>,
  Values <- {Digest[m] : m \in Manifests},
  value <- IF manifest \in {NoFile, Torn} THEN <<>>
           ELSE [p \in Paths |-> IF p \in Omitted[manifest] \/ Digest[manifest][p] \in members
                                 THEN Digest[manifest][p] ELSE NoFile]

Evidence == INSTANCE WriteOnce WITH
  Absent <- <<NoFile>>,
  Values <- {<<a, a>> : a \in Attesters},
  value <- IF dir.binding = Absent THEN <<NoFile>> ELSE <<dir.bundle, dir.binding>>

Package == INSTANCE WriteOnce WITH
  Absent <- NoPackage,
  Values <- {r \in Plans : r.members = Payloads(r.manifest)},
  value <- package

PublishedOnce == Record!Spec /\ Evidence!Spec /\ Package!Spec
=============================================================================
