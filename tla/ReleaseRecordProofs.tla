------------------------- MODULE ReleaseRecordProofs -------------------------
(***************************************************************************)
(* Theorems about ReleaseRecord, for any number of runs of every command,  *)
(* of manifests, members, edits and faults.                                *)
(***************************************************************************)
EXTENDS ReleaseRecord, TLAPS

-----------------------------------------------------------------------------
(* The store.                                                              *)

\* All that manifest m includes has been stored.
Stored(m) == \A p \in Included(m) : Digest[m][p] \in members

\* Where a run of the creation stands determines what it has stored, and
\* that nobody else is writing the manifest.
StoreInv ==
  /\ StoreTypeOK
  /\ \A c \in Creators :
       /\ cpc[c] \notin {"idle", "failed"} => want[c] \in Manifests
       /\ cpc[c] = "storing" =>
            \A p \in Included(want[c]) \ left[c] : Digest[want[c]][p] \in members
       /\ cpc[c] \in {"writing", "created"} => Stored(want[c])
       /\ cpc[c] = "writing" => manifest = Torn
       /\ cpc[c] = "created" => manifest = want[c]
  /\ manifest \in Manifests => Stored(manifest)
  /\ \A c, d \in Creators : cpc[c] = "writing" /\ cpc[d] = "writing" => c = d

LEMMA StoreInitial == StoreInit => StoreInv
<1> SUFFICES ASSUME StoreInit PROVE StoreInv
  OBVIOUS
<1>1. StoreTypeOK
  BY RecordConstants DEF StoreInit, StoreTypeOK
<1>2. manifest \notin Manifests
  BY RecordConstants DEF StoreInit
<1> QED
  BY <1>1, <1>2 DEF StoreInv, StoreInit

LEMMA StoreStutters == StoreInv /\ UNCHANGED storeVars => StoreInv'
BY DEF StoreInv, storeVars, StoreTypeOK, Stored

LEMMA StoreTypes ==
  ASSUME StoreInv, StoreNext \/ StoreFault
  PROVE  StoreTypeOK'
<1> USE RecordConstants DEF StoreTypeOK
<1>0. StoreTypeOK
  BY DEF StoreInv
<1>1. ASSUME NEW p \in Paths, NEW v \in Contents, EditSource(p, v) PROVE StoreTypeOK'
  BY <1>0, <1>1 DEF EditSource
<1>2. ASSUME NEW c \in Creators, NEW m \in Manifests, StartCreate(c, m) PROVE StoreTypeOK'
  BY <1>0, <1>2 DEF StartCreate, Included
<1>3. ASSUME NEW c \in Creators, NEW p \in Paths,
             InspectMember(c, p) \/ StoreMember(c, p) \/ StoreChanged(c, p)
      PROVE  StoreTypeOK'
  <2>1. CASE InspectMember(c, p)
    BY <1>0, <2>1 DEF InspectMember
  <2>2. CASE StoreMember(c, p)
    BY <1>0, <2>2 DEF StoreMember
  <2>3. CASE StoreChanged(c, p)
    BY <1>0, <2>3 DEF StoreChanged
  <2> QED
    BY <1>3, <2>1, <2>2, <2>3
<1>4. ASSUME NEW c \in Creators, BeginStoring(c) PROVE StoreTypeOK'
  BY <1>0, <1>4 DEF BeginStoring, Included
<1>7. ASSUME NEW c \in Creators, OpenManifest(c) PROVE StoreTypeOK'
  BY <1>0, <1>7 DEF OpenManifest
<1>5. ASSUME NEW c \in Creators, WriteManifest(c) PROVE StoreTypeOK'
  <2>1. want[c] \in Manifests
    BY <1>5 DEF WriteManifest, StoreInv
  <2> QED
    BY <1>0, <1>5, <2>1 DEF WriteManifest
<1>6. ASSUME NEW c \in Creators, StopCreate(c) PROVE StoreTypeOK'
  BY <1>0, <1>6 DEF StopCreate
<1> QED
  BY <1>1, <1>2, <1>3, <1>4, <1>5, <1>6, <1>7 DEF StoreNext, StoreFault

LEMMA StorePreserved ==
  ASSUME StoreInv, StoreNext \/ StoreFault
  PROVE  StoreInv'
<1>0. StoreTypeOK /\ StoreTypeOK'
  BY StoreTypes DEF StoreInv
<1> USE <1>0, RecordConstants DEF StoreInv, StoreTypeOK, Stored
<1>1. ASSUME NEW p \in Paths, NEW v \in Contents, EditSource(p, v) PROVE StoreInv'
  BY <1>1 DEF EditSource
<1>2. ASSUME NEW c \in Creators, NEW m \in Manifests, StartCreate(c, m) PROVE StoreInv'
  BY <1>2 DEF StartCreate
<1>3. ASSUME NEW c \in Creators, NEW p \in Paths, InspectMember(c, p) PROVE StoreInv'
  BY <1>3 DEF InspectMember
<1>4. ASSUME NEW c \in Creators, NEW p \in Paths, StoreMember(c, p) PROVE StoreInv'
  BY <1>4 DEF StoreMember
<1>5. ASSUME NEW c \in Creators, NEW p \in Paths, StoreChanged(c, p) PROVE StoreInv'
  BY <1>5 DEF StoreChanged
<1>6. ASSUME NEW c \in Creators, BeginStoring(c) PROVE StoreInv'
  BY <1>6 DEF BeginStoring
<1>7. ASSUME NEW c \in Creators, OpenManifest(c) PROVE StoreInv'
  BY <1>7 DEF OpenManifest, NoFile, Torn
<1>8. ASSUME NEW c \in Creators, WriteManifest(c) PROVE StoreInv'
  BY <1>8 DEF WriteManifest
<1>9. ASSUME NEW c \in Creators, StopCreate(c) PROVE StoreInv'
  BY <1>9 DEF StopCreate
<1> QED
  BY <1>1, <1>2, <1>3, <1>4, <1>5, <1>6, <1>7, <1>8, <1>9 DEF StoreNext, StoreFault

\* What is readable stays readable: payloads are never removed.
LEMMA MembersGrow ==
  ASSUME StoreInv, (StoreNext \/ StoreFault) \/ UNCHANGED storeVars
  PROVE  members \subseteq members'
BY DEF StoreNext, StoreFault, EditSource, StartCreate, InspectMember, StoreMember, StoreChanged,
       BeginStoring, OpenManifest, WriteManifest, StopCreate, storeVars

-----------------------------------------------------------------------------
(* The attestation.                                                        *)

\* A run that may still change the output directory, or has sent something.
Owns(a) == flags[a].claimed /\ (flags[a].attempted \/ apc[a] \notin {"failed", "killed"})

AfterSending == {"uploading", "staging", "staged", "placed", "bound", "closing", "attested",
                 "recording"}
WithBundle == {"staging", "staged", "placed", "bound", "closing", "attested"}

\* The flags of a run and where it stands.
FlagsInv ==
  \A a \in Attesters :
    /\ flags[a].attempted => flags[a].claimed
    /\ flags[a].bundle => a \in rekor
    /\ a \in rekor => flags[a].attempted
    /\ apc[a] \in {"idle", "approving", "claiming"} => ~flags[a].claimed
    /\ apc[a] = "announcing" => flags[a].claimed
    /\ apc[a] \in AfterSending => flags[a].attempted
    /\ apc[a] \in WithBundle => flags[a].bundle

\* The directory has one owner, and is there as long as it has one.
OwnerInv ==
  /\ \A a \in Attesters : Owns(a) => dir.exists
  /\ \A a, b \in Attesters : Owns(a) /\ Owns(b) => a = b

ReceiptsInv ==
  \A a \in Audited :
    /\ apc[a] = "idle" => receipts[a] = {}
    /\ apc[a] = "approving" => receipts[a] \in {{}, {"sign"}}
    /\ apc[a] = "claiming" \/ flags[a].claimed => receipts[a] = {"sign", "network"}

OutcomeInv ==
  \A a \in Attesters :
    /\ outcome[a] # Absent => apc[a] \in {"attested", "failed"}
    /\ outcome[a] = "not-attempted" => ~flags[a].attempted
    /\ outcome[a] = "performed" => flags[a].bundle

\* What the directory holds determines whose it is and where that run stands.
PlacesInv ==
  /\ BindingHasBundle
  /\ \A a \in Attesters :
       /\ apc[a] = "placed" => dir.bundle = a
       /\ apc[a] \in {"bound", "closing"} => dir.binding = a
       /\ dir.binding = a =>
            /\ flags[a].attempted /\ flags[a].bundle
            /\ apc[a] \in {"bound", "closing", "attested", "catching", "recording", "failed",
                           "killed"}
       /\ dir.bundle = a => apc[a] # "idle"

AttestInv == AttestTypeOK /\ FlagsInv /\ OwnerInv /\ ReceiptsInv /\ OutcomeInv /\ PlacesInv

AttestAny ==
  \/ AttestNext \/ AttestFault
  \/ \E a \in Attesters, m \in Manifests : BeginAttest(a, m)

LEMMA AttestInitial == AttestInit => AttestInv
<1> SUFFICES ASSUME AttestInit PROVE AttestInv
  OBVIOUS
<1> USE AttestConstants DEF AttestInit, NoDir, Fresh
<1>1. AttestTypeOK
  BY DEF AttestTypeOK, Working
<1>2. /\ flags = [a \in Attesters |-> Fresh]
      /\ ~Fresh.claimed /\ ~Fresh.attempted /\ ~Fresh.bundle
  BY Zenon
<1>5. FlagsInv
  BY <1>2 DEF FlagsInv, AfterSending, WithBundle
<1>6. ReceiptsInv
  BY <1>2 DEF ReceiptsInv
<1>7. OutcomeInv
  BY <1>2 DEF OutcomeInv, Absent
<1>3. OwnerInv
  BY DEF OwnerInv, Owns
<1>4. PlacesInv
  BY DEF PlacesInv, BindingHasBundle, Absent
<1> QED
  BY <1>1, <1>3, <1>4, <1>5, <1>6, <1>7 DEF AttestInv

LEMMA AttestStutters == AttestInv /\ UNCHANGED attestVars => AttestInv'
BY DEF AttestInv, attestVars, AttestTypeOK, FlagsInv, OwnerInv, Owns, ReceiptsInv, OutcomeInv,
       PlacesInv, BindingHasBundle

Flags == [claimed : BOOLEAN, attempted : BOOLEAN, bundle : BOOLEAN]

LEMMA FlagSet ==
  ASSUME NEW f \in [Attesters -> Flags], NEW a \in Attesters, NEW t \in BOOLEAN
  PROVE  /\ [f EXCEPT ![a].claimed = t] \in [Attesters -> Flags]
         /\ [f EXCEPT ![a].attempted = t] \in [Attesters -> Flags]
         /\ [f EXCEPT ![a].bundle = t] \in [Attesters -> Flags]
BY DEF Flags

Dirs == [exists : BOOLEAN, status : {Absent, Cut, "pending", "incomplete", "verified"},
         bundle : Attesters \cup {Absent, Cut}, binding : Attesters \cup {Absent}]

LEMMA EmptyDirs == NoDir \in Dirs /\ Claimed \in Dirs
<1> DEFINE t == TRUE
           f == FALSE
<1>1. t \in BOOLEAN /\ f \in BOOLEAN
  OBVIOUS
<1> HIDE DEF t, f
<1>2. \A e \in BOOLEAN :
        [exists |-> e, status |-> Absent, bundle |-> Absent, binding |-> Absent] \in Dirs
  BY DEF Dirs
<1>3. NoDir = [exists |-> f, status |-> Absent, bundle |-> Absent, binding |-> Absent]
  BY DEF NoDir, f
<1>4. Claimed = [NoDir EXCEPT !.exists = t]
  BY DEF Claimed, t
<1>5. NoDir \in Dirs
  BY <1>1, <1>2, <1>3
<1> QED
  BY <1>1, <1>4, <1>5 DEF Dirs

LEMMA AttestTypes ==
  ASSUME AttestInv, AttestAny
  PROVE  AttestTypeOK'
<1>0. AttestTypeOK
  BY DEF AttestInv
<1> USE AttestConstants, ReleaseConstants, <1>0 DEF AttestTypeOK, Working, Absent, Cut
<1>1. ASSUME NEW a \in Attesters, NEW m \in Manifests, BeginAttest(a, m) PROVE AttestTypeOK'
  BY <1>1 DEF BeginAttest
<1>2. ASSUME NEW a \in Attesters, PutReceipt(a) PROVE AttestTypeOK'
  BY <1>2 DEF PutReceipt
<1>3. ASSUME NEW a \in Attesters, Claim(a) PROVE AttestTypeOK'
  <2>1. flags' \in [Attesters -> Flags] /\ dir' \in Dirs
    BY <1>3, FlagSet, EmptyDirs DEF Claim, Flags
  <2> QED
    BY <1>3, <2>1 DEF Claim, Flags, Dirs
<1>4. ASSUME NEW a \in Attesters, Announce(a) PROVE AttestTypeOK'
  <2>1. flags' \in [Attesters -> Flags]
    BY <1>4, FlagSet DEF Announce, Flags
  <2> QED
    BY <1>4, <2>1 DEF Announce, Flags
<1>5. ASSUME NEW a \in Attesters, LogEntry(a) PROVE AttestTypeOK'
  BY <1>5 DEF LogEntry
<1>6. ASSUME NEW a \in Attesters, ReceiveBundle(a) PROVE AttestTypeOK'
  <2>1. flags' \in [Attesters -> Flags]
    BY <1>6, FlagSet DEF ReceiveBundle, Flags
  <2> QED
    BY <1>6, <2>1 DEF ReceiveBundle, Flags
<1>7. ASSUME NEW a \in Attesters, Stage(a) PROVE AttestTypeOK'
  BY <1>7 DEF Stage
<1>8. ASSUME NEW a \in Attesters, PlaceBundle(a) PROVE AttestTypeOK'
  BY <1>8 DEF PlaceBundle
<1>9. ASSUME NEW a \in Attesters, PlaceBinding(a) PROVE AttestTypeOK'
  BY <1>9 DEF PlaceBinding
<1>10. ASSUME NEW a \in Attesters, OpenStatus(a) PROVE AttestTypeOK'
  BY <1>10 DEF OpenStatus
<1>11. ASSUME NEW a \in Attesters, WriteVerified(a) PROVE AttestTypeOK'
  BY <1>11 DEF WriteVerified
<1>12. ASSUME NEW a \in Attesters, Refused(a) PROVE AttestTypeOK'
  BY <1>12 DEF Refused
<1>13. ASSUME NEW a \in Attesters, Throw(a) PROVE AttestTypeOK'
  BY <1>13 DEF Throw
<1>14. ASSUME NEW a \in Attesters, Kill(a) PROVE AttestTypeOK'
  BY <1>14 DEF Kill
<1>15. ASSUME NEW a \in Attesters, SkipBundle(a) PROVE AttestTypeOK'
  BY <1>15 DEF SkipBundle
<1>16. ASSUME NEW a \in Attesters, KeepBundle(a) PROVE AttestTypeOK'
  BY <1>16 DEF KeepBundle
<1>17. ASSUME NEW a \in Attesters, RecordIncomplete(a) PROVE AttestTypeOK'
  BY <1>17 DEF RecordIncomplete, Outcome
<1>18. ASSUME NEW a \in Attesters, GiveUp(a) PROVE AttestTypeOK'
  <2>1. dir' \in Dirs
    BY <1>18, EmptyDirs DEF GiveUp, Dirs
  <2> QED
    BY <1>18, <2>1 DEF GiveUp, Outcome, Dirs
<1> QED
  BY <1>1, <1>2, <1>3, <1>4, <1>5, <1>6, <1>7, <1>8, <1>9, <1>10, <1>11, <1>12, <1>13, <1>14, <1>15, <1>16, <1>17, <1>18
     DEF AttestAny, AttestNext, AttestFault
LEMMA FlagsInvPreserved ==
  ASSUME AttestInv, AttestAny
  PROVE  FlagsInv'
<1>0. AttestTypeOK /\ AttestTypeOK'
  BY AttestTypes DEF AttestInv
<1> USE <1>0, AttestConstants DEF AttestTypeOK, AttestInv, FlagsInv, AfterSending, WithBundle
<1>1. ASSUME NEW a \in Attesters, NEW m \in Manifests, BeginAttest(a, m) PROVE FlagsInv'
  BY <1>1 DEF BeginAttest
<1>2. ASSUME NEW a \in Attesters, PutReceipt(a) PROVE FlagsInv'
  BY <1>2 DEF PutReceipt
<1>3. ASSUME NEW a \in Attesters, Claim(a) PROVE FlagsInv'
  BY <1>3 DEF Claim, Claimed, NoDir
<1>4. ASSUME NEW a \in Attesters, Announce(a) PROVE FlagsInv'
  BY <1>4 DEF Announce
<1>5. ASSUME NEW a \in Attesters, LogEntry(a) PROVE FlagsInv'
  BY <1>5 DEF LogEntry
<1>6. ASSUME NEW a \in Attesters, ReceiveBundle(a) PROVE FlagsInv'
  BY <1>6 DEF ReceiveBundle
<1>7. ASSUME NEW a \in Attesters, Stage(a) PROVE FlagsInv'
  BY <1>7 DEF Stage
<1>8. ASSUME NEW a \in Attesters, PlaceBundle(a) PROVE FlagsInv'
  BY <1>8 DEF PlaceBundle
<1>9. ASSUME NEW a \in Attesters, PlaceBinding(a) PROVE FlagsInv'
  BY <1>9 DEF PlaceBinding
<1>10. ASSUME NEW a \in Attesters, OpenStatus(a) PROVE FlagsInv'
  BY <1>10 DEF OpenStatus
<1>11. ASSUME NEW a \in Attesters, WriteVerified(a) PROVE FlagsInv'
  BY <1>11 DEF WriteVerified
<1>12. ASSUME NEW a \in Attesters, Refused(a) PROVE FlagsInv'
  BY <1>12 DEF Refused
<1>13. ASSUME NEW a \in Attesters, Throw(a) PROVE FlagsInv'
  BY <1>13 DEF Throw, Working
<1>14. ASSUME NEW a \in Attesters, Kill(a) PROVE FlagsInv'
  BY <1>14 DEF Kill, Working
<1>15. ASSUME NEW a \in Attesters, SkipBundle(a) PROVE FlagsInv'
  BY <1>15 DEF SkipBundle
<1>16. ASSUME NEW a \in Attesters, KeepBundle(a) PROVE FlagsInv'
  BY <1>16 DEF KeepBundle
<1>17. ASSUME NEW a \in Attesters, RecordIncomplete(a) PROVE FlagsInv'
  BY <1>17 DEF RecordIncomplete, Outcome
<1>18. ASSUME NEW a \in Attesters, GiveUp(a) PROVE FlagsInv'
  BY <1>18 DEF GiveUp, Outcome, NoDir
<1> QED
  BY <1>1, <1>2, <1>3, <1>4, <1>5, <1>6, <1>7, <1>8, <1>9, <1>10, <1>11, <1>12, <1>13, <1>14, <1>15, <1>16, <1>17, <1>18
     DEF AttestAny, AttestNext, AttestFault

LEMMA OwnerInvPreserved ==
  ASSUME AttestInv, AttestAny
  PROVE  OwnerInv'
<1>0. AttestTypeOK /\ AttestTypeOK'
  BY AttestTypes DEF AttestInv
<1> USE <1>0, AttestConstants DEF AttestTypeOK, AttestInv, OwnerInv, Owns, FlagsInv, AfterSending, WithBundle
<1>1. ASSUME NEW a \in Attesters, NEW m \in Manifests, BeginAttest(a, m) PROVE OwnerInv'
  BY <1>1 DEF BeginAttest
<1>2. ASSUME NEW a \in Attesters, PutReceipt(a) PROVE OwnerInv'
  BY <1>2 DEF PutReceipt
<1>3. ASSUME NEW a \in Attesters, Claim(a) PROVE OwnerInv'
  BY <1>3 DEF Claim, Claimed, NoDir
<1>4. ASSUME NEW a \in Attesters, Announce(a) PROVE OwnerInv'
  BY <1>4 DEF Announce
<1>5. ASSUME NEW a \in Attesters, LogEntry(a) PROVE OwnerInv'
  BY <1>5 DEF LogEntry
<1>6. ASSUME NEW a \in Attesters, ReceiveBundle(a) PROVE OwnerInv'
  BY <1>6 DEF ReceiveBundle
<1>7. ASSUME NEW a \in Attesters, Stage(a) PROVE OwnerInv'
  BY <1>7 DEF Stage
<1>8. ASSUME NEW a \in Attesters, PlaceBundle(a) PROVE OwnerInv'
  BY <1>8 DEF PlaceBundle
<1>9. ASSUME NEW a \in Attesters, PlaceBinding(a) PROVE OwnerInv'
  BY <1>9 DEF PlaceBinding
<1>10. ASSUME NEW a \in Attesters, OpenStatus(a) PROVE OwnerInv'
  BY <1>10 DEF OpenStatus
<1>11. ASSUME NEW a \in Attesters, WriteVerified(a) PROVE OwnerInv'
  BY <1>11 DEF WriteVerified
<1>12. ASSUME NEW a \in Attesters, Refused(a) PROVE OwnerInv'
  BY <1>12 DEF Refused
<1>13. ASSUME NEW a \in Attesters, Throw(a) PROVE OwnerInv'
  BY <1>13 DEF Throw, Working
<1>14. ASSUME NEW a \in Attesters, Kill(a) PROVE OwnerInv'
  BY <1>14 DEF Kill, Working
<1>15. ASSUME NEW a \in Attesters, SkipBundle(a) PROVE OwnerInv'
  BY <1>15 DEF SkipBundle
<1>16. ASSUME NEW a \in Attesters, KeepBundle(a) PROVE OwnerInv'
  BY <1>16 DEF KeepBundle
<1>17. ASSUME NEW a \in Attesters, RecordIncomplete(a) PROVE OwnerInv'
  BY <1>17 DEF RecordIncomplete, Outcome
<1>18. ASSUME NEW a \in Attesters, GiveUp(a) PROVE OwnerInv'
  BY <1>18 DEF GiveUp, Outcome, NoDir
<1> QED
  BY <1>1, <1>2, <1>3, <1>4, <1>5, <1>6, <1>7, <1>8, <1>9, <1>10, <1>11, <1>12, <1>13, <1>14, <1>15, <1>16, <1>17, <1>18
     DEF AttestAny, AttestNext, AttestFault

LEMMA ReceiptsInvPreserved ==
  ASSUME AttestInv, AttestAny
  PROVE  ReceiptsInv'
<1>0. AttestTypeOK /\ AttestTypeOK'
  BY AttestTypes DEF AttestInv
<1> USE <1>0, AttestConstants DEF AttestTypeOK, AttestInv, ReceiptsInv, FlagsInv
<1>1. ASSUME NEW a \in Attesters, NEW m \in Manifests, BeginAttest(a, m) PROVE ReceiptsInv'
  BY <1>1 DEF BeginAttest
<1>2. ASSUME NEW a \in Attesters, PutReceipt(a) PROVE ReceiptsInv'
  BY <1>2 DEF PutReceipt
<1>3. ASSUME NEW a \in Attesters, Claim(a) PROVE ReceiptsInv'
  BY <1>3 DEF Claim, Claimed, NoDir
<1>4. ASSUME NEW a \in Attesters, Announce(a) PROVE ReceiptsInv'
  BY <1>4 DEF Announce
<1>5. ASSUME NEW a \in Attesters, LogEntry(a) PROVE ReceiptsInv'
  BY <1>5 DEF LogEntry
<1>6. ASSUME NEW a \in Attesters, ReceiveBundle(a) PROVE ReceiptsInv'
  BY <1>6 DEF ReceiveBundle
<1>7. ASSUME NEW a \in Attesters, Stage(a) PROVE ReceiptsInv'
  BY <1>7 DEF Stage
<1>8. ASSUME NEW a \in Attesters, PlaceBundle(a) PROVE ReceiptsInv'
  BY <1>8 DEF PlaceBundle
<1>9. ASSUME NEW a \in Attesters, PlaceBinding(a) PROVE ReceiptsInv'
  BY <1>9 DEF PlaceBinding
<1>10. ASSUME NEW a \in Attesters, OpenStatus(a) PROVE ReceiptsInv'
  BY <1>10 DEF OpenStatus
<1>11. ASSUME NEW a \in Attesters, WriteVerified(a) PROVE ReceiptsInv'
  BY <1>11 DEF WriteVerified
<1>12. ASSUME NEW a \in Attesters, Refused(a) PROVE ReceiptsInv'
  BY <1>12 DEF Refused
<1>13. ASSUME NEW a \in Attesters, Throw(a) PROVE ReceiptsInv'
  BY <1>13 DEF Throw, Working
<1>14. ASSUME NEW a \in Attesters, Kill(a) PROVE ReceiptsInv'
  BY <1>14 DEF Kill, Working
<1>15. ASSUME NEW a \in Attesters, SkipBundle(a) PROVE ReceiptsInv'
  BY <1>15 DEF SkipBundle
<1>16. ASSUME NEW a \in Attesters, KeepBundle(a) PROVE ReceiptsInv'
  BY <1>16 DEF KeepBundle
<1>17. ASSUME NEW a \in Attesters, RecordIncomplete(a) PROVE ReceiptsInv'
  BY <1>17 DEF RecordIncomplete, Outcome
<1>18. ASSUME NEW a \in Attesters, GiveUp(a) PROVE ReceiptsInv'
  BY <1>18 DEF GiveUp, Outcome, NoDir
<1> QED
  BY <1>1, <1>2, <1>3, <1>4, <1>5, <1>6, <1>7, <1>8, <1>9, <1>10, <1>11, <1>12, <1>13, <1>14, <1>15, <1>16, <1>17, <1>18
     DEF AttestAny, AttestNext, AttestFault

LEMMA OutcomeInvPreserved ==
  ASSUME AttestInv, AttestAny
  PROVE  OutcomeInv'
<1>0. AttestTypeOK /\ AttestTypeOK'
  BY AttestTypes DEF AttestInv
<1> USE <1>0, AttestConstants DEF AttestTypeOK, AttestInv, OutcomeInv, FlagsInv, Absent, AfterSending, WithBundle
<1>1. ASSUME NEW a \in Attesters, NEW m \in Manifests, BeginAttest(a, m) PROVE OutcomeInv'
  BY <1>1 DEF BeginAttest
<1>2. ASSUME NEW a \in Attesters, PutReceipt(a) PROVE OutcomeInv'
  BY <1>2 DEF PutReceipt
<1>3. ASSUME NEW a \in Attesters, Claim(a) PROVE OutcomeInv'
  BY <1>3 DEF Claim, Claimed, NoDir
<1>4. ASSUME NEW a \in Attesters, Announce(a) PROVE OutcomeInv'
  BY <1>4 DEF Announce
<1>5. ASSUME NEW a \in Attesters, LogEntry(a) PROVE OutcomeInv'
  BY <1>5 DEF LogEntry
<1>6. ASSUME NEW a \in Attesters, ReceiveBundle(a) PROVE OutcomeInv'
  BY <1>6 DEF ReceiveBundle
<1>7. ASSUME NEW a \in Attesters, Stage(a) PROVE OutcomeInv'
  BY <1>7 DEF Stage
<1>8. ASSUME NEW a \in Attesters, PlaceBundle(a) PROVE OutcomeInv'
  BY <1>8 DEF PlaceBundle
<1>9. ASSUME NEW a \in Attesters, PlaceBinding(a) PROVE OutcomeInv'
  BY <1>9 DEF PlaceBinding
<1>10. ASSUME NEW a \in Attesters, OpenStatus(a) PROVE OutcomeInv'
  BY <1>10 DEF OpenStatus
<1>11. ASSUME NEW a \in Attesters, WriteVerified(a) PROVE OutcomeInv'
  BY <1>11 DEF WriteVerified
<1>12. ASSUME NEW a \in Attesters, Refused(a) PROVE OutcomeInv'
  BY <1>12 DEF Refused
<1>13. ASSUME NEW a \in Attesters, Throw(a) PROVE OutcomeInv'
  BY <1>13 DEF Throw, Working
<1>14. ASSUME NEW a \in Attesters, Kill(a) PROVE OutcomeInv'
  BY <1>14 DEF Kill, Working
<1>15. ASSUME NEW a \in Attesters, SkipBundle(a) PROVE OutcomeInv'
  BY <1>15 DEF SkipBundle
<1>16. ASSUME NEW a \in Attesters, KeepBundle(a) PROVE OutcomeInv'
  BY <1>16 DEF KeepBundle
<1>17. ASSUME NEW a \in Attesters, RecordIncomplete(a) PROVE OutcomeInv'
  BY <1>17 DEF RecordIncomplete, Outcome
<1>18. ASSUME NEW a \in Attesters, GiveUp(a) PROVE OutcomeInv'
  BY <1>18 DEF GiveUp, Outcome, NoDir
<1> QED
  BY <1>1, <1>2, <1>3, <1>4, <1>5, <1>6, <1>7, <1>8, <1>9, <1>10, <1>11, <1>12, <1>13, <1>14, <1>15, <1>16, <1>17, <1>18
     DEF AttestAny, AttestNext, AttestFault

LEMMA PlacesInvPreserved ==
  ASSUME AttestInv, AttestAny
  PROVE  PlacesInv'
<1>0. AttestTypeOK /\ AttestTypeOK'
  BY AttestTypes DEF AttestInv
<1> USE <1>0, AttestConstants DEF AttestTypeOK, AttestInv, PlacesInv, BindingHasBundle, OwnerInv, Owns, FlagsInv, AfterSending, WithBundle, Absent, Cut
<1>1. ASSUME NEW a \in Attesters, NEW m \in Manifests, BeginAttest(a, m) PROVE PlacesInv'
  BY <1>1 DEF BeginAttest
<1>2. ASSUME NEW a \in Attesters, PutReceipt(a) PROVE PlacesInv'
  BY <1>2 DEF PutReceipt
<1>3. ASSUME NEW a \in Attesters, Claim(a) PROVE PlacesInv'
  BY <1>3 DEF Claim, Claimed, NoDir
<1>4. ASSUME NEW a \in Attesters, Announce(a) PROVE PlacesInv'
  BY <1>4 DEF Announce
<1>5. ASSUME NEW a \in Attesters, LogEntry(a) PROVE PlacesInv'
  BY <1>5 DEF LogEntry
<1>6. ASSUME NEW a \in Attesters, ReceiveBundle(a) PROVE PlacesInv'
  BY <1>6 DEF ReceiveBundle
<1>7. ASSUME NEW a \in Attesters, Stage(a) PROVE PlacesInv'
  BY <1>7 DEF Stage
<1>8. ASSUME NEW a \in Attesters, PlaceBundle(a) PROVE PlacesInv'
  BY <1>8 DEF PlaceBundle
<1>9. ASSUME NEW a \in Attesters, PlaceBinding(a) PROVE PlacesInv'
  BY <1>9 DEF PlaceBinding
<1>10. ASSUME NEW a \in Attesters, OpenStatus(a) PROVE PlacesInv'
  BY <1>10 DEF OpenStatus
<1>11. ASSUME NEW a \in Attesters, WriteVerified(a) PROVE PlacesInv'
  BY <1>11 DEF WriteVerified
<1>12. ASSUME NEW a \in Attesters, Refused(a) PROVE PlacesInv'
  BY <1>12 DEF Refused
<1>13. ASSUME NEW a \in Attesters, Throw(a) PROVE PlacesInv'
  BY <1>13 DEF Throw, Working
<1>14. ASSUME NEW a \in Attesters, Kill(a) PROVE PlacesInv'
  BY <1>14 DEF Kill, Working
<1>15. ASSUME NEW a \in Attesters, SkipBundle(a) PROVE PlacesInv'
  BY <1>15 DEF SkipBundle
<1>16. ASSUME NEW a \in Attesters, KeepBundle(a) PROVE PlacesInv'
  BY <1>16 DEF KeepBundle
<1>17. ASSUME NEW a \in Attesters, RecordIncomplete(a) PROVE PlacesInv'
  BY <1>17 DEF RecordIncomplete, Outcome
<1>18. ASSUME NEW a \in Attesters, GiveUp(a) PROVE PlacesInv'
  BY <1>18 DEF GiveUp, Outcome, NoDir
<1> QED
  BY <1>1, <1>2, <1>3, <1>4, <1>5, <1>6, <1>7, <1>8, <1>9, <1>10, <1>11, <1>12, <1>13, <1>14, <1>15, <1>16, <1>17, <1>18
     DEF AttestAny, AttestNext, AttestFault

LEMMA AttestPreserved ==
  ASSUME AttestInv, AttestAny
  PROVE  AttestInv'
BY AttestTypes, FlagsInvPreserved, OwnerInvPreserved, ReceiptsInvPreserved, OutcomeInvPreserved,
   PlacesInvPreserved DEF AttestInv

\* A run that has begun keeps its subject.
LEMMA SubjectsStay ==
  ASSUME AttestInv, AttestAny \/ UNCHANGED attestVars, NEW a \in Attesters, apc[a] # "idle"
  PROVE  apc'[a] # "idle" /\ subject'[a] = subject[a]
<1> USE DEF AttestInv, AttestTypeOK
<1>1. CASE UNCHANGED attestVars
  BY <1>1 DEF attestVars
<1>2. ASSUME NEW b \in Attesters, NEW m \in Manifests, BeginAttest(b, m)
      PROVE  apc'[a] # "idle" /\ subject'[a] = subject[a]
  BY <1>2 DEF BeginAttest
<1>3. CASE AttestNext
  BY <1>3 DEF AttestNext, PutReceipt, Claim, Announce, LogEntry, ReceiveBundle, Stage,
              PlaceBundle, PlaceBinding, OpenStatus, WriteVerified, Refused, KeepBundle,
              SkipBundle, RecordIncomplete, GiveUp
<1>4. CASE AttestFault
  BY <1>4 DEF AttestFault, Throw, Kill
<1> QED
  BY <1>1, <1>2, <1>3, <1>4 DEF AttestAny

-----------------------------------------------------------------------------
(* Signature and package.                                                  *)

\* A package of r passes `record verify`, and goes on to do so.
Good(r) ==
  /\ r \in Plans
  /\ Verifies(r)
  /\ r.bundle # Absent => apc[r.bundle] # "idle"

PackageInv ==
  /\ PackageTypeOK
  /\ \A s \in Signers : spc[s] \in {"signing", "writing"} => signs[s] \in Manifests
  /\ \A k \in Packagers : ppc[k] = "staging" => Good(plan[k])
  /\ package # NoPackage => Good(package)

ReleaseInv == StoreInv /\ AttestInv /\ PackageInv

PackageSteps ==
  \/ \E s \in Signers :
       \/ \E m \in Manifests : StartSign(s, m)
       \/ OpenSignature(s) \/ WriteSignature(s) \/ StopSign(s)
  \/ \E k \in Packagers :
       \/ \E m \in Manifests, signed, attested \in BOOLEAN :
            StartPackage(k, m, signed, attested)
       \/ \E e \in Entries(plan[k]) : StageEntry(k, e)
       \/ RenamePackage(k)
       \/ StopPackage(k)

Counted == faults' \in {faults} \cup (IF faults < MaxFaults THEN {faults + 1} ELSE {})

\* A step is one of the store, of the attestation, of the rest, or none.
LEMMA StepCases ==
  ASSUME PackageTypeOK, [ReleaseNext]_vars
  PROVE  /\ faults' \in 0..MaxFaults
         /\ \/ (StoreNext \/ StoreFault) /\ UNCHANGED <<attestVars, packageVars>>
            \/ AttestAny /\ UNCHANGED <<storeVars, packageVars>>
            \/ PackageSteps /\ UNCHANGED <<storeVars, attestVars>>
            \/ UNCHANGED <<storeVars, attestVars, packageVars>>
<1>1. faults' \in 0..MaxFaults
  BY ReleaseConstants DEF ReleaseNext, vars, PackageTypeOK
<1>2. CASE Work
  <2>1. ASSUME NEW a \in Attesters, NEW m \in Manifests, BeginAttestation(a, m)
        PROVE  AttestAny /\ UNCHANGED <<storeVars, packageVars>>
    BY <2>1 DEF BeginAttestation, AttestAny
  <2>2. ASSUME NEW s \in Signers,
               (\E m \in Manifests : StartSign(s, m)) \/ OpenSignature(s) \/ WriteSignature(s)
        PROVE  PackageSteps /\ UNCHANGED <<storeVars, attestVars>>
    BY <2>2 DEF PackageSteps, StartSign, OpenSignature, WriteSignature
  <2>3. ASSUME NEW k \in Packagers,
               \/ \E m \in Manifests, signed, attested \in BOOLEAN :
                    StartPackage(k, m, signed, attested)
               \/ \E e \in Entries(plan[k]) : StageEntry(k, e)
               \/ RenamePackage(k)
        PROVE  PackageSteps /\ UNCHANGED <<storeVars, attestVars>>
    BY <2>3 DEF PackageSteps, StartPackage, StageEntry, RenamePackage
  <2> QED
    BY <1>1, <1>2, <2>1, <2>2, <2>3 DEF Work, AttestAny
<1>3. CASE Fault
  BY <1>1, <1>3 DEF Fault, AttestAny, PackageSteps, StopSign, StopPackage
<1> QED
  BY <1>1, <1>2, <1>3 DEF ReleaseNext, vars

LEMMA GoodStays ==
  ASSUME AttestInv, AttestAny \/ UNCHANGED attestVars
  PROVE  \A r : Good(r) => Good(r)'
<1> SUFFICES ASSUME NEW r, Good(r) PROVE Good(r)'
  OBVIOUS
<1>1. CASE r.bundle = Absent
  BY <1>1 DEF Good, Verifies
<1>2. CASE r.bundle # Absent
  <2>1. r.bundle \in Attesters /\ apc[r.bundle] # "idle" /\ subject[r.bundle] = r.manifest
    BY <1>2 DEF Good, Verifies, EvidenceFor
  <2>2. apc'[r.bundle] # "idle" /\ subject'[r.bundle] = subject[r.bundle]
    BY <2>1, SubjectsStay
  <2> QED
    BY <2>1, <2>2 DEF Good, Verifies, EvidenceFor
<1> QED
  BY <1>1, <1>2

\* What a packager has read and verified.
LEMMA PlanIsGood ==
  ASSUME AttestInv, PackageTypeOK,
         NEW k \in Packagers, NEW m \in Manifests, NEW signed \in BOOLEAN,
         NEW attested \in BOOLEAN, StartPackage(k, m, signed, attested)
  PROVE  Good(plan'[k]) /\ plan' \in [Packagers -> Plans \cup {NoPlan}]
<1> DEFINE r == [manifest |-> m,
                 members |-> Payloads(m),
                 signature |-> IF signed THEN signature ELSE NoFile,
                 bundle |-> IF attested THEN dir.bundle ELSE Absent,
                 binding |-> IF attested THEN dir.binding ELSE Absent]
<1>1. plan'[k] = r /\ plan' = [plan EXCEPT ![k] = r]
  BY DEF StartPackage, PackageTypeOK
<1>2. /\ m \in Complete /\ Distinct(m, Paths) /\ Omitted[m] \cap Required[m] = {}
      /\ signed => signature = m
      /\ attested => EvidenceFor(m, dir.bundle, dir.binding)
  BY DEF StartPackage, Whole, Readable
<1>3. Payloads(m) \subseteq Contents
  BY RecordConstants DEF Payloads, Included
<1>4. /\ r.manifest = m /\ r.members = Payloads(m)
      /\ r.signature \in {NoFile, m}
      /\ attested => r.bundle = dir.bundle /\ r.binding = dir.binding
      /\ ~attested => r.bundle = Absent /\ r.binding = Absent
  BY <1>2
<1>5. r \in Plans
  BY <1>2, <1>3, <1>4 DEF Plans, EvidenceFor
<1>6. r.bundle # Absent => EvidenceFor(m, r.bundle, r.binding) /\ apc[r.bundle] # "idle"
  BY <1>2, <1>4 DEF EvidenceFor, AttestInv, PlacesInv
<1> HIDE DEF r
<1>7. Verifies(r)
  BY <1>2, <1>4, <1>6 DEF Verifies
<1>8. Good(r)
  BY <1>5, <1>6, <1>7 DEF Good
<1> QED
  BY <1>1, <1>5, <1>8 DEF PackageTypeOK

LEMMA PackagePreserved ==
  ASSUME AttestInv, PackageInv, PackageSteps, UNCHANGED attestVars, faults' \in 0..MaxFaults
  PROVE  PackageInv'
<1>0. \A r : Good(r) => Good(r)'
  BY GoodStays
<1> USE <1>0, RecordConstants DEF PackageInv, PackageTypeOK
<1>1. ASSUME NEW s \in Signers, NEW m \in Manifests, StartSign(s, m) PROVE PackageInv'
  BY <1>1 DEF StartSign
<1>2. ASSUME NEW s \in Signers, OpenSignature(s) PROVE PackageInv'
  BY <1>2 DEF OpenSignature
<1>3. ASSUME NEW s \in Signers, WriteSignature(s) PROVE PackageInv'
  BY <1>3 DEF WriteSignature
<1>4. ASSUME NEW s \in Signers, StopSign(s) PROVE PackageInv'
  BY <1>4 DEF StopSign
<1>5. ASSUME NEW k \in Packagers, NEW m \in Manifests, NEW signed \in BOOLEAN,
             NEW attested \in BOOLEAN, StartPackage(k, m, signed, attested)
      PROVE  PackageInv'
  <2>1. Good(plan'[k]) /\ plan' \in [Packagers -> Plans \cup {NoPlan}]
    BY <1>5, PlanIsGood
  <2>2. Good(plan[k])'
    BY <2>1 DEF Good, Verifies, EvidenceFor
  <2>3. \A j \in Packagers : j # k => plan'[j] = plan[j]
    BY <1>5 DEF StartPackage
  <2>4. \A j \in Packagers : ppc'[j] = "staging" => Good(plan[j])'
    BY <1>5, <2>2, <2>3 DEF StartPackage
  <2> QED
    BY <1>5, <2>1, <2>4 DEF StartPackage
<1>6. ASSUME NEW k \in Packagers, NEW e \in Entries(plan[k]), StageEntry(k, e)
      PROVE  PackageInv'
  BY <1>6 DEF StageEntry, Entries
<1>7. ASSUME NEW k \in Packagers, RenamePackage(k) PROVE PackageInv'
  <2>1. Good(plan[k]) /\ plan[k] \in Plans
    BY <1>7 DEF RenamePackage, Good
  <2> QED
    BY <1>7, <2>1 DEF RenamePackage
<1>8. ASSUME NEW k \in Packagers, StopPackage(k) PROVE PackageInv'
  BY <1>8 DEF StopPackage
<1> QED
  BY <1>1, <1>2, <1>3, <1>4, <1>5, <1>6, <1>7, <1>8 DEF PackageSteps

LEMMA PackageStutters ==
  ASSUME AttestInv, AttestAny \/ UNCHANGED attestVars, PackageInv, UNCHANGED packageVars,
         faults' \in 0..MaxFaults
  PROVE  PackageInv'
BY GoodStays DEF PackageInv, PackageTypeOK, packageVars

LEMMA ReleaseInitial == ReleaseInit => ReleaseInv
<1> SUFFICES ASSUME ReleaseInit PROVE ReleaseInv
  OBVIOUS
<1>1. StoreInv /\ AttestInv
  BY StoreInitial, AttestInitial DEF ReleaseInit
<1>2. PackageTypeOK
  BY ReleaseConstants DEF ReleaseInit, PackageTypeOK
<1>3. PackageInv
  BY <1>2 DEF ReleaseInit, PackageInv
<1> QED
  BY <1>1, <1>3 DEF ReleaseInv

LEMMA ReleasePreserved == ReleaseInv /\ [ReleaseNext]_vars => ReleaseInv'
<1> SUFFICES ASSUME ReleaseInv, [ReleaseNext]_vars PROVE ReleaseInv'
  OBVIOUS
<1>0. StoreInv /\ AttestInv /\ PackageInv
  BY DEF ReleaseInv
<1>1. faults' \in 0..MaxFaults
  BY <1>0, StepCases DEF PackageInv
<1>2. CASE (StoreNext \/ StoreFault) /\ UNCHANGED <<attestVars, packageVars>>
  BY <1>0, <1>1, <1>2, StorePreserved, AttestStutters, PackageStutters DEF ReleaseInv
<1>3. CASE AttestAny /\ UNCHANGED <<storeVars, packageVars>>
  BY <1>0, <1>1, <1>3, StoreStutters, AttestPreserved, PackageStutters DEF ReleaseInv
<1>4. CASE PackageSteps /\ UNCHANGED <<storeVars, attestVars>>
  BY <1>0, <1>1, <1>4, StoreStutters, AttestStutters, PackagePreserved DEF ReleaseInv
<1>5. CASE UNCHANGED <<storeVars, attestVars, packageVars>>
  BY <1>0, <1>1, <1>5, StoreStutters, AttestStutters, PackageStutters DEF ReleaseInv
<1> QED
  BY <1>0, <1>2, <1>3, <1>4, <1>5, StepCases DEF PackageInv

THEOREM ReleaseInvHolds == Spec => []ReleaseInv
BY ReleaseInitial, ReleasePreserved, PTL DEF Spec

(* The variables have their types: the store, the output directory of the  *)
(* attestation, signature and package.                                     *)
THEOREM TypeCorrect == Spec => []TypeOK
<1>1. ReleaseInv => TypeOK
  BY DEF ReleaseInv, StoreInv, AttestInv, PackageInv, TypeOK
<1> QED
  BY <1>1, ReleaseInvHolds, PTL

(* A record reported as created stays the record of its directory, and     *)
(* readable, whatever other runs, edits and crashes follow.                *)
THEOREM CreatedHolds == Spec => []CreatedStaysReadable
<1>1. ReleaseInv => CreatedStaysReadable
  BY DEF ReleaseInv, StoreInv, CreatedStaysReadable, Readable, Stored
<1> QED
  BY <1>1, ReleaseInvHolds, PTL

(* For any number of attesting runs over one directory: at most one public *)
(* entry, and only after both approvals of that run were stored.           *)
THEOREM UploadedOnceHolds == Spec => []UploadedOnce
<1>1. ReleaseInv => UploadedOnce
  <2> SUFFICES ASSUME ReleaseInv PROVE UploadedOnce
    OBVIOUS
  <2>1. \A a \in rekor : a \in Attesters /\ flags[a].attempted /\ flags[a].claimed
    BY DEF ReleaseInv, AttestInv, AttestTypeOK, FlagsInv
  <2>2. \A a, b \in rekor : a = b
    BY <2>1 DEF ReleaseInv, AttestInv, OwnerInv, Owns
  <2>3. \A a \in rekor \cap Audited : receipts[a] = {"sign", "network"}
    BY <2>1 DEF ReleaseInv, AttestInv, ReceiptsInv
  <2> QED
    BY <2>2, <2>3 DEF UploadedOnce
<1> QED
  BY <1>1, ReleaseInvHolds, PTL

(* A binding is never without its bundle, nor "verified" without its entry *)
(* in the log.                                                             *)
THEOREM BindingHolds == Spec => []BindingHasBundle
<1>1. ReleaseInv => BindingHasBundle
  BY DEF ReleaseInv, AttestInv, PlacesInv
<1> QED
  BY <1>1, ReleaseInvHolds, PTL

(* The reported outcome never denies an upload.                            *)
THEOREM OutcomeHolds == Spec => []OutcomeHonest
<1>1. ReleaseInv => OutcomeHonest
  BY DEF ReleaseInv, AttestInv, OutcomeHonest, OutcomeInv, FlagsInv
<1> QED
  BY <1>1, ReleaseInvHolds, PTL

(* A package that exists is accepted by `record verify`, for good.         *)
THEOREM PackageHolds == Spec => []PackageVerifies
<1>1. ReleaseInv => PackageVerifies
  BY DEF ReleaseInv, PackageInv, PackageVerifies, Good
<1> QED
  BY <1>1, ReleaseInvHolds, PTL

-----------------------------------------------------------------------------
(* The refinement: three artefacts that are published once.                *)

RecordValue ==
  IF manifest \in {NoFile, Torn} THEN <<>>
  ELSE [p \in Paths |-> IF p \in Omitted[manifest] \/ Digest[manifest][p] \in members
                        THEN Digest[manifest][p] ELSE NoFile]

LEMMA RecordIsWhole ==
  StoreInv /\ manifest \notin {NoFile, Torn}
    => manifest \in Manifests /\ RecordValue = Digest[manifest]
<1> SUFFICES ASSUME StoreInv, manifest \notin {NoFile, Torn}
             PROVE  manifest \in Manifests /\ RecordValue = Digest[manifest]
  OBVIOUS
<1>1. manifest \in Manifests /\ Stored(manifest)
  BY DEF StoreInv, StoreTypeOK
<1>2. \A p \in Paths : p \in Omitted[manifest] \/ Digest[manifest][p] \in members
  BY <1>1 DEF Stored, Included
<1>3. RecordValue = [p \in Paths |-> Digest[manifest][p]]
  BY <1>2 DEF RecordValue
<1>4. Digest[manifest] = [p \in Paths |-> Digest[manifest][p]]
  BY <1>1, RecordConstants
<1> QED
  BY <1>1, <1>3, <1>4

\* Only an absent or a torn manifest changes.
LEMMA ManifestStays ==
  ASSUME StoreInv, (StoreNext \/ StoreFault) \/ UNCHANGED storeVars,
         manifest \notin {NoFile, Torn}
  PROVE  manifest' = manifest
BY RecordConstants
   DEF StoreNext, StoreFault, EditSource, StartCreate, InspectMember, StoreMember, StoreChanged,
       BeginStoring, OpenManifest, WriteManifest, StopCreate, storeVars, StoreInv

LEMMA RecordPublished ==
  ASSUME StoreInv, StoreInv', (StoreNext \/ StoreFault) \/ UNCHANGED storeVars
  PROVE  [Record!Publish]_RecordValue
<1>1. CASE manifest \notin {NoFile, Torn}
  <2>1. manifest' = manifest /\ RecordValue = Digest[manifest]
    BY <1>1, ManifestStays, RecordIsWhole
  <2>2. RecordValue' = Digest[manifest]
    <3>0. (manifest \notin {NoFile, Torn})'
      BY <1>1, <2>1
    <3>1. (RecordValue = Digest[manifest])'
      BY <3>0, RecordIsWhole, PTL
    <3> QED
      BY <2>1, <3>1
  <2> QED
    BY <2>1, <2>2
<1>2. CASE manifest \in {NoFile, Torn} /\ manifest' \in {NoFile, Torn}
  BY <1>2 DEF RecordValue
<1>3. CASE manifest \in {NoFile, Torn} /\ manifest' \notin {NoFile, Torn}
  <2>1. RecordValue = <<>>
    BY <1>3 DEF RecordValue
  <2>0. (manifest \notin {NoFile, Torn})'
    BY <1>3
  <2>2. (manifest \in Manifests /\ RecordValue = Digest[manifest])'
    BY <2>0, RecordIsWhole, PTL
  <2>3. RecordValue' \in {Digest[m] : m \in Manifests}
    BY <2>2
  <2> QED
    BY <2>1, <2>3 DEF Record!Publish, RecordValue
<1> QED
  BY <1>1, <1>2, <1>3

EvidenceValue == IF dir.binding = Absent THEN <<NoFile>> ELSE <<dir.bundle, dir.binding>>

\* Only the run whose binding it is could move it, and that run is past it.
LEMMA EvidenceStays ==
  ASSUME AttestInv, AttestAny, dir.binding # Absent
  PROVE  dir'.binding = dir.binding /\ dir'.bundle = dir.bundle
<1> DEFINE o == dir.binding
           Stays == dir'.binding = dir.binding /\ dir'.bundle = dir.bundle
<1>0. dir.bundle = o /\ o \in Attesters
  BY DEF AttestInv, AttestTypeOK, PlacesInv, BindingHasBundle
<1>1. /\ flags[o].attempted
      /\ apc[o] \in {"bound", "closing", "attested", "catching", "recording", "failed", "killed"}
      /\ \A b \in Attesters : Owns(b) => b = o
  BY <1>0 DEF AttestInv, PlacesInv, FlagsInv, OwnerInv, Owns
<1>2. ASSUME NEW b \in Attesters, PlaceBundle(b) \/ PlaceBinding(b) PROVE FALSE
  <2>1. flags[b].attempted /\ flags[b].claimed /\ apc[b] \in {"staged", "placed"}
    BY <1>2 DEF PlaceBundle, PlaceBinding, AttestInv, FlagsInv, AfterSending
  <2> QED
    BY <1>1, <2>1 DEF Owns
<1>3. ASSUME NEW b \in Attesters, GiveUp(b) PROVE Stays
  <2>1. CASE flags[b].claimed
    BY <1>1, <1>3, <2>1 DEF GiveUp, Owns
  <2>2. CASE ~flags[b].claimed
    BY <1>3, <2>2 DEF GiveUp
  <2> QED
    BY <2>1, <2>2
<1>4. ASSUME NEW b \in Attesters, KeepBundle(b) PROVE FALSE
  BY <1>0, <1>4, AttestConstants DEF KeepBundle, Absent
<1>5. ASSUME NEW b \in Attesters, Claim(b) PROVE FALSE
  <2>1. Owns(o)
    BY <1>0, <1>1 DEF AttestInv, FlagsInv, Owns
  <2> QED
    BY <1>0, <1>5, <2>1 DEF Claim, AttestInv, OwnerInv
<1>6. ASSUME NEW b \in Attesters,
             \/ PutReceipt(b) \/ LogEntry(b) \/ ReceiveBundle(b) \/ Stage(b) \/ Refused(b)
             \/ SkipBundle(b) \/ Throw(b) \/ Kill(b)
      PROVE  Stays
  BY <1>6 DEF PutReceipt, LogEntry, ReceiveBundle, Stage, Refused, SkipBundle, Throw, Kill
<1>7. ASSUME NEW b \in Attesters,
             Announce(b) \/ OpenStatus(b) \/ WriteVerified(b) \/ RecordIncomplete(b)
      PROVE  Stays
  BY <1>7 DEF Announce, OpenStatus, WriteVerified, RecordIncomplete, AttestInv, AttestTypeOK
<1>8. ASSUME NEW b \in Attesters, NEW m \in Manifests, BeginAttest(b, m) PROVE Stays
  BY <1>8 DEF BeginAttest
<1> QED
  BY <1>2, <1>3, <1>4, <1>5, <1>6, <1>7, <1>8 DEF AttestAny, AttestNext, AttestFault

LEMMA EvidencePublished ==
  ASSUME AttestInv, AttestInv', AttestAny \/ UNCHANGED attestVars
  PROVE  [Evidence!Publish]_EvidenceValue
<1>1. CASE UNCHANGED attestVars
  BY <1>1 DEF EvidenceValue, attestVars
<1>2. CASE AttestAny /\ dir.binding # Absent
  BY <1>2, EvidenceStays DEF EvidenceValue
<1>3. CASE dir.binding = Absent /\ dir'.binding = Absent
  BY <1>3 DEF EvidenceValue
<1>4. CASE dir.binding = Absent /\ dir'.binding # Absent
  <2>1. dir'.binding \in Attesters /\ dir'.bundle = dir'.binding
    BY <1>4 DEF AttestInv, AttestTypeOK, PlacesInv, BindingHasBundle
  <2>2. EvidenceValue = <<NoFile>> /\ EvidenceValue' \in {<<a, a>> : a \in Attesters}
    BY <1>4, <2>1 DEF EvidenceValue
  <2> QED
    BY <2>2 DEF Evidence!Publish, EvidenceValue
<1> QED
  BY <1>1, <1>2, <1>3, <1>4

LEMMA PackagePublished ==
  ASSUME PackageInv, PackageSteps \/ UNCHANGED packageVars
  PROVE  [Package!Publish]_package
<1>1. ASSUME NEW k \in Packagers, RenamePackage(k) PROVE Package!Publish
  <2>1. Good(plan[k])
    BY <1>1 DEF PackageInv, RenamePackage
  <2> QED
    BY <1>1, <2>1 DEF Package!Publish, RenamePackage, Good, Verifies
<1>2. CASE PackageSteps /\ ~\E k \in Packagers : RenamePackage(k)
  BY <1>2 DEF PackageSteps, StartSign, OpenSignature, WriteSignature, StopSign, StartPackage,
              StageEntry, StopPackage
<1> QED
  BY <1>1, <1>2 DEF PackageSteps, packageVars

(* Record, attestation and package appear at once, whole, and never change *)
(* again: each implements WriteOnce, for any number of runs and faults.    *)
THEOREM PublishedHolds == Spec => PublishedOnce
<1>1. ReleaseInit => Record!Init /\ Evidence!Init /\ Package!Init
  BY DEF ReleaseInit, StoreInit, AttestInit, NoDir, Record!Init, Evidence!Init, Package!Init
<1>2. ReleaseInv /\ ReleaseInv' /\ [ReleaseNext]_vars
        => /\ [Record!Publish]_RecordValue
           /\ [Evidence!Publish]_EvidenceValue
           /\ [Package!Publish]_package
  <2> SUFFICES ASSUME ReleaseInv, ReleaseInv', [ReleaseNext]_vars
               PROVE  /\ [Record!Publish]_RecordValue
                      /\ [Evidence!Publish]_EvidenceValue
                      /\ [Package!Publish]_package
    OBVIOUS
  <2>1. /\ (StoreNext \/ StoreFault) \/ UNCHANGED storeVars
        /\ AttestAny \/ UNCHANGED attestVars
        /\ PackageSteps \/ UNCHANGED packageVars
    BY StepCases DEF ReleaseInv, PackageInv
  <2> QED
    BY <2>1, RecordPublished, EvidencePublished, PackagePublished DEF ReleaseInv
<1> QED
  BY <1>1, <1>2, ReleaseInvHolds, PTL
     DEF Spec, PublishedOnce, Record!Spec, Evidence!Spec, Package!Spec, RecordValue, EvidenceValue
=============================================================================
