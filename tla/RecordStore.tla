----------------------------- MODULE RecordStore -----------------------------
(***************************************************************************)
(* The local store of one Release Record: `verglos record create`          *)
(* (packages/cli/src/record-create.ts over packages/shared/src/            *)
(* record-store.ts), and readAndVerifyRecord (record-reader.ts), by which  *)
(* every other record command reads it.                                    *)
(*                                                                         *)
(* The store is a directory of payload files, each named by the digest of  *)
(* its bytes, and manifest.json.  A run of the command digests every       *)
(* source file, stores them one by one, and writes the manifest last, only *)
(* if there is none.  The source files belong to the user, who may edit    *)
(* them at any moment, and any number of runs may share one directory.     *)
(*                                                                         *)
(* A payload is its digest (digests are injective); a path is its rank in  *)
(* the order in which members are stored.                                  *)
(***************************************************************************)
EXTENDS Integers, FiniteSets

CONSTANTS
  Creators,   \* runs of `record create` on this directory
  Paths,      \* paths of the members, as ranks
  Contents,   \* payloads
  Manifests,  \* manifests the runs are given
  Digest,     \* the digest each manifest gives for each path
  Omitted,    \* the paths whose payload it omits
  Required,   \* the paths it calls required
  Complete,   \* manifests of records that hold the whole graph of a release
  MaxEdits    \* bound of the model: edits of the source files

NoFile == "none"
Torn == "torn"

ASSUME RecordConstants ==
  /\ Paths \subseteq Nat
  /\ Digest \in [Manifests -> [Paths -> Contents]]
  /\ Omitted \in [Manifests -> SUBSET Paths]
  /\ Required \in [Manifests -> SUBSET Paths]
  /\ Complete \subseteq Manifests
  /\ NoFile \notin Manifests
  /\ Torn \notin Manifests
  /\ MaxEdits \in Nat

VARIABLES
  sources,   \* the user's files
  edits,     \* how often they were edited
  members,   \* payload files of the store
  manifest,  \* manifest.json: absent, being written, or a manifest
  cpc,       \* where each run of record create is
  want,      \* the manifest it materializes
  left       \* member paths its current loop has still to visit

storeVars == <<sources, edits, members, manifest, cpc, want, left>>

Included(m) == Paths \ Omitted[m]

Distinct(m, P) == \A p, q \in P : Digest[m][p] = Digest[m][q] => p = q

StoreInit ==
  /\ sources \in [Paths -> Contents]
  /\ edits = 0
  /\ members = {}
  /\ manifest = NoFile
  /\ cpc = [c \in Creators |-> "idle"]
  /\ want = [c \in Creators |-> NoFile]
  /\ left = [c \in Creators |-> {}]

(* readAndVerifyRecord: every payload is there under its own digest; no    *)
(* two descriptions share a digest, omitted ones included; nothing         *)
(* required is omitted.                                                    *)
Readable(m) ==
  /\ Distinct(m, Paths)
  /\ Omitted[m] \cap Required[m] = {}
  /\ \A p \in Included(m) : Digest[m][p] \in members

EditSource(p, v) ==
  /\ edits < MaxEdits
  /\ v # sources[p]
  /\ sources' = [sources EXCEPT ![p] = v]
  /\ edits' = edits + 1
  /\ UNCHANGED <<members, manifest, cpc, want, left>>

\* There is no manifest yet; --complete refuses some manifests, and nothing else.
StartCreate(c, m) ==
  /\ cpc[c] = "idle"
  /\ manifest = NoFile
  /\ cpc' = [cpc EXCEPT ![c] = "inspecting"]
  /\ want' = [want EXCEPT ![c] = m]
  /\ left' = [left EXCEPT ![c] = Included(m)]
  /\ UNCHANGED <<sources, edits, members, manifest>>

IsFirst(p, S) == p \in S /\ \A q \in S : p <= q

\* Digest one source file; its digest and those before it are distinct.
InspectMember(c, p) ==
  /\ cpc[c] = "inspecting"
  /\ IsFirst(p, left[c])
  /\ sources[p] = Digest[want[c]][p]
  /\ \A q \in Included(want[c]) \ left[c] : Digest[want[c]][q] # Digest[want[c]][p]
  /\ left' = [left EXCEPT ![c] = @ \ {p}]
  /\ UNCHANGED <<sources, edits, members, manifest, cpc, want>>

\* Every input is valid: only now is the directory made.
BeginStoring(c) ==
  /\ cpc[c] = "inspecting"
  /\ left[c] = {}
  /\ cpc' = [cpc EXCEPT ![c] = "storing"]
  /\ left' = [left EXCEPT ![c] = Included(want[c])]
  /\ UNCHANGED <<sources, edits, members, manifest, want>>

\* Mutant: the digest computed while copying is not compared again.
StoreUnchecked(c, p) ==
  /\ cpc[c] = "storing"
  /\ IsFirst(p, left[c])
  /\ members' = members \cup {sources[p]}
  /\ left' = [left EXCEPT ![c] = @ \ {p}]
  /\ UNCHANGED <<sources, edits, manifest, cpc, want>>

(* putRecordMemberFromFile copies the source as it is now to a temporary   *)
(* name, and renames that to the digest of what it copied.                 *)
StoreMember(c, p) ==
  /\ cpc[c] = "storing"
  /\ IsFirst(p, left[c])
  /\ sources[p] = Digest[want[c]][p]
  /\ members' = members \cup {sources[p]}
  /\ left' = [left EXCEPT ![c] = @ \ {p}]
  /\ UNCHANGED <<sources, edits, manifest, cpc, want>>

\* "changed during publication": the stray payload stays in the store.
StoreChanged(c, p) ==
  /\ cpc[c] = "storing"
  /\ IsFirst(p, left[c])
  /\ sources[p] # Digest[want[c]][p]
  /\ members' = members \cup {sources[p]}
  /\ cpc' = [cpc EXCEPT ![c] = "failed"]
  /\ left' = [left EXCEPT ![c] = {}]
  /\ UNCHANGED <<sources, edits, manifest, want>>

\* The flag "wx" creates an empty file, or fails.
OpenManifest(c) ==
  /\ cpc[c] = "storing"
  /\ left[c] = {}
  /\ manifest = NoFile
  /\ manifest' = Torn
  /\ cpc' = [cpc EXCEPT ![c] = "writing"]
  /\ UNCHANGED <<sources, edits, members, want, left>>

WriteManifest(c) ==
  /\ cpc[c] = "writing"
  /\ manifest' = want[c]
  /\ cpc' = [cpc EXCEPT ![c] = "created"]
  /\ UNCHANGED <<sources, edits, members, want, left>>

(* Any error, refusal or crash: what was stored stays, and a manifest that *)
(* was being written stays as it is.                                       *)
StopCreate(c) ==
  /\ cpc[c] \in {"inspecting", "storing", "writing"}
  /\ cpc' = [cpc EXCEPT ![c] = "failed"]
  /\ left' = [left EXCEPT ![c] = {}]
  /\ UNCHANGED <<sources, edits, members, manifest, want>>

StoreNext ==
  \/ \E p \in Paths, v \in Contents : EditSource(p, v)
  \/ \E c \in Creators :
       \/ \E m \in Manifests : StartCreate(c, m)
       \/ \E p \in Paths : InspectMember(c, p) \/ StoreMember(c, p) \/ StoreChanged(c, p)
       \/ BeginStoring(c)
       \/ OpenManifest(c)
       \/ WriteManifest(c)

StoreFault == \E c \in Creators : StopCreate(c)

-----------------------------------------------------------------------------
StoreTypeOK ==
  /\ sources \in [Paths -> Contents]
  /\ edits \in 0..MaxEdits
  /\ members \subseteq Contents
  /\ manifest \in Manifests \cup {NoFile, Torn}
  /\ cpc \in [Creators -> {"idle", "inspecting", "storing", "writing", "created", "failed"}]
  /\ want \in [Creators -> Manifests \cup {NoFile}]
  /\ left \in [Creators -> SUBSET Paths]

(* A record that `record create` reported as created stays the record of   *)
(* the directory, and is readable, whatever other runs, edits and crashes  *)
(* follow.  The reader asks two things the creation does not: distinct     *)
(* digests among the omitted members too, and no required member omitted.  *)
CreatedStaysReadable ==
  \A c \in Creators :
    cpc[c] = "created" =>
      /\ manifest = want[c]
      /\ Distinct(want[c], Paths) /\ Omitted[want[c]] \cap Required[want[c]] = {}
           => Readable(want[c])
=============================================================================
