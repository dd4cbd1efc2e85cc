------------------------- MODULE GenerationGcProofs -------------------------
(***************************************************************************)
(* Theorems about GenerationGc, for every number of processes, generations *)
(* and contents, whatever crashes: what the collector may never do to the  *)
(* generations that publications, pins and the manifest refer to.          *)
(*                                                                         *)
(* The publication's part of the invariant, Core, does not mention the     *)
(* collector.  Every step of GcNext that publishes, crashes or removes the *)
(* manifest is a step of Next, so what GenerationPublicationProofs shows   *)
(* of those steps holds here; what is new are the collector's own steps.   *)
(***************************************************************************)
EXTENDS GenerationGc, GenerationPublicationProofs

(* The inductive invariant.                                                *)

PlansOK ==
    /\ pc \in [Procs -> Phases \cup GcPhases]
    /\ plan \in [Procs -> [active : GenOrNone, revision : Nat]]
    /\ todo \in [Procs -> [delete : SUBSET Gens, recovery : SUBSET Gens]]
    /\ orphans \in [Procs -> SUBSET Orphans]
    /\ victim \in [Procs -> GenOrNone]

\* The collector changes files under the lock too, on the committed rows.
CollectorLocks ==
    /\ \A p \in Procs : pc[p] \in GcLockedPhases => lock = p /\ txn = cas
    /\ lock = None => txn = cas

\* What the deletion of p has removed by the time it reaches a phase, and that
\* its victim is not the generation readers are sent to.
DeletionAt(p) ==
    /\ pc[p] \in DeletionPhases \cup {"marked"} => victim[p] \in Gens
    /\ pc[p] \in DeletionPhases =>
          /\ cas.status[victim[p]] = "DELETING"
          /\ victim[p] \notin {cas.active, manifest}
    /\ pc[p] = "dbUnlinked" => dbFile[victim[p]] \in {"unlinked", "absent"}
    /\ pc[p] \in {"dbGone", "metadataUnlinked", "gone"} => dbFile[victim[p]] = "absent"
    /\ pc[p] = "metadataUnlinked" => metaFile[victim[p]] \in {"unlinked", "absent"}
    /\ pc[p] = "gone" => metaFile[victim[p]] = "absent"

DeletionProgress == \A p \in Procs : DeletionAt(p)

\* What is left on disk of a generation that is being deleted or is deleted.
RemainsOnDisk ==
    \A g \in Gens, rows \in {cas, txn} :
        /\ rows.status[g] = "DELETING" /\ dbFile[g] # "absent" => metaFile[g] = "durable"
        /\ rows.status[g] = "DELETED" => dbFile[g] = "absent" /\ metaFile[g] = "absent"

Pins == PinsHold(cas) /\ PinsHold(txn)

\* Until the power first fails, what readers and later runs use is there.
ServedSoFar ==
    /\ budget["powerLosses"] <= MaxPowerLosses
    /\ budget["powerLosses"] = MaxPowerLosses =>
          \A g \in Gens : g = manifest \/ cas.status[g] = "ACTIVE" \/ txn.status[g] = "ACTIVE"
                          => OnDiskForGood(g)

GcInv == Core /\ PlansOK /\ CollectorLocks /\ DeletionProgress /\ RemainsOnDisk
         /\ Pins /\ HistoryKept /\ FlagsTellTheTruth /\ ServedSoFar

-----------------------------------------------------------------------------
(* The collector's own steps.                                              *)

Collect(p) == CollectStep(p) \/ OrphanStep(p) \/ FailDeletion(p)

\* A step of the collector moves one process among its own places, never
\* touches a manifest or a run that is not its own, removes no temp or staging
\* file of a run that goes on, and changes rows or files only when nobody else
\* holds the lock, and then works on the committed rows.
CollectorFrame(p) ==
    /\ UNCHANGED <<manifest, onDisk, acked, sinceAck, bytes, content, metaPin>>
    /\ pc' \in [Procs -> Phases \cup GcPhases]
    /\ pc[p] \in GcPhases \cup {"published"} /\ pc'[p] \in GcPhases \cup {"idle"}
    /\ pc'[p] = "idle" => gen'[p] = None /\ target'[p] = None
    /\ pc'[p] # "idle" => gen'[p] = gen[p] /\ target'[p] = target[p]
    /\ \A q \in Procs \ {p} : /\ pc'[q] = pc[q] /\ gen'[q] = gen[q] /\ target'[q] = target[q]
                              /\ expected'[q] = expected[q] /\ mutated'[q] = mutated[q]
                              /\ token'[q] = token[q] /\ victim'[q] = victim[q]
    /\ dbTemp' \subseteq dbTemp /\ metaTemp' \subseteq metaTemp
    /\ \A q \in Procs : gen[q] \in staging => gen[q] \in staging'
    /\ budget'["powerLosses"] = budget["powerLosses"]
    /\ \/ UNCHANGED <<cas, txn, lock, dbFile, metaFile>>
       \/ lock \in {None, p} /\ lock' \in {None, p} /\ txn = cas

LEMMA Framed ==
    ASSUME DataOK, PlansOK, CollectorLocks, NEW p \in Procs, Collect(p)
    PROVE  CollectorFrame(p)
<1> USE DEF DataOK, PlansOK, CollectorLocks, CollectorFrame, GcPhases,
            GcLockedPhases, DeletionPhases, GenOrNone, Goto,
            rowVars, manifestVars, fileVars, tempVars, runVars, gcVars
<1>1. CASE PlanReadManifest(p)  BY <1>1, SMTT(30) DEF PlanReadManifest
<1>2. CASE PlanReadCas(p)  BY <1>2, SMTT(30) DEF PlanReadCas
<1>3. CASE ApplyGc(p)
  <2>1. PICK next \in GcPhases : pc' = [pc EXCEPT ![p] = next]  BY <1>3 DEF ApplyGc
  <2>2. pc[p] \in GcPhases  BY <1>3 DEF ApplyGc
  <2>3. UNCHANGED <<rowVars, manifestVars, fileVars, tempVars, runVars, budget, victim>>
        BY <1>3 DEF ApplyGc
  <2>4. pc' \in [Procs -> Phases \cup GcPhases] /\ pc'[p] \in GcPhases
        /\ \A q \in Procs \ {p} : pc'[q] = pc[q]
        BY <2>1
  <2>5. pc'[p] # "idle"  BY <2>4
  <2>. QED  BY <2>2, <2>3, <2>4, <2>5
<1>4. CASE SkipEntry(p)  BY <1>4, SMTT(30) DEF SkipEntry
<1>5. CASE RefuseUnlink(p)  BY <1>5, SMTT(30) DEF RefuseUnlink
<1>6. CASE MarkDeleting(p)  BY <1>6, SMTT(30) DEF MarkDeleting
<1>7. CASE BeginUnlink(p)  BY <1>7, SMTT(30) DEF BeginUnlink
<1>8. CASE UnlinkDb(p)  BY <1>8, SMTT(30) DEF UnlinkDb
<1>9. CASE SyncDbRemoval(p)  BY <1>9, SMTT(30) DEF SyncDbRemoval
<1>10. CASE UnlinkMetadata(p)  BY <1>10, SMTT(30) DEF UnlinkMetadata
<1>11. CASE SyncMetadataRemoval(p)  BY <1>11, SMTT(30) DEF SyncMetadataRemoval
<1>12. CASE CommitDeleted(p)  BY <1>12, SMTT(30) DEF CommitDeleted
<1>13. CASE SweepTmp(p)  BY <1>13, SMTT(30) DEF SweepTmp
<1>14. CASE FailDeletion(p)  BY <1>14, SMTT(30) DEF FailDeletion, Spend, Faults
<1>15. CASE PlanOrphans(p)  BY <1>15, SMTT(30) DEF PlanOrphans
<1>16. CASE ApplyOrphans(p)  BY <1>16, SMTT(30) DEF ApplyOrphans
<1>17. CASE RetainOrphan(p)  BY <1>17, SMTT(30) DEF RetainOrphan
<1>18. CASE RemoveTempOrphan(p)  BY <1>18, SMTT(30) DEF RemoveTempOrphan
<1>19. CASE UnlinkFinalOrphan(p)  BY <1>19, SMTT(30) DEF UnlinkFinalOrphan
<1>20. CASE SyncOrphan(p)  BY <1>20, SMTT(30) DEF SyncOrphan
<1>21. CASE RecoverActive(p)  BY <1>21, SMTT(30) DEF RecoverActive
<1>22. CASE ReturnPublished(p)  BY <1>22, SMTT(30) DEF ReturnPublished, EndRun, ForgetPlan, Phases
<1>. QED  BY <1>1, <1>2, <1>3, <1>4, <1>5, <1>6, <1>7, <1>8, <1>9, <1>10, <1>11,
          <1>12, <1>13, <1>14, <1>15, <1>16, <1>17, <1>18, <1>19, <1>20, <1>21, <1>22
          DEF Collect, CollectStep, OrphanStep

\* What rows the collector may give a status: the manifest's generation becomes
\* ACTIVE, a complete ACTIVE one DELETING, and the victim it has removed DELETED.
CollectorMoves(p) ==
    \A g \in Gens, rows \in {cas', txn'} :
        \/ rows.status[g] = cas.status[g]
        \/ rows.status[g] = txn.status[g]
        \/ rows.status[g] = "ACTIVE" /\ g = manifest
        \/ rows.status[g] = "DELETING" /\ cas.status[g] = "ACTIVE" /\ Complete(g)
        \/ rows.status[g] = "DELETED" /\ pc[p] = "gone" /\ g = victim[p]

\* What the collector writes keeps the rows explained and their pins, and gives
\* a row to no generation but the manifest's.
LEMMA CollectorRows ==
    ASSUME DataOK, PlansOK, DeletionProgress, HistoryKept, Pins,
           NEW p \in Procs, Collect(p)
    PROVE  /\ cas' \in CasRows /\ txn' \in CasRows
           /\ HistoryKept' /\ Pins'
           /\ CollectorMoves(p)
           /\ \A g \in Gens \ {manifest} :
                 cas.status[g] = "NONE" /\ txn.status[g] = "NONE" =>
                 cas'.status[g] = "NONE" /\ txn'.status[g] = "NONE"
<1>1. /\ cas \in CasRows /\ txn \in CasRows /\ metaPin \in [Gens -> BOOLEAN]
      /\ cas.status \in [Gens -> Statuses] /\ txn.status \in [Gens -> Statuses]
      BY RowsType DEF DataOK
<1>2. Explained(cas) /\ Explained(txn) /\ PinsHold(cas) /\ PinsHold(txn)
      BY DEF HistoryKept, Pins
<1>3. CASE cas' = cas /\ txn' \in {txn, cas}
      BY <1>1, <1>2, <1>3 DEF HistoryKept, Pins, CollectorMoves
<1>4. CASE MarkDeleting(p) /\ cas' # cas
  <2>1. PICK g \in Gens : /\ Deletable(p, g, "ACTIVE") /\ Complete(g)
                          /\ cas' = AppendHistory(SetStatus(cas, g, "DELETING"),
                                                  "MARK_DELETING", g)
        BY <1>4 DEF MarkDeleting
  <2>2. ~cas.pinned[g] /\ cas.status[g] = "ACTIVE"  BY <2>1 DEF Deletable
  <2>3. /\ cas' \in CasRows /\ Explained(cas') /\ PinsHold(cas')
        /\ cas'.status = [cas.status EXCEPT ![g] = "DELETING"]
        BY <1>1, <1>2, <2>1, <2>2, DeletionRows
  <2>4. txn' = cas'  BY <1>4 DEF MarkDeleting
  <2>. QED  BY <1>1, <2>1, <2>2, <2>3, <2>4 DEF HistoryKept, Pins, CollectorMoves
<1>5. CASE CommitDeleted(p)
  <2>1. victim[p] \in Gens  BY <1>5 DEF CommitDeleted, DeletionProgress, DeletionAt, DeletionPhases
  <2>2. txn.status[victim[p]] = "DELETING"  BY <1>5 DEF CommitDeleted, CanSetStatus
  <2>3. ~txn.pinned[victim[p]]  BY <1>2, <2>1, <2>2 DEF PinsHold
  <2>4. cas' = AppendHistory(SetStatus(txn, victim[p], "DELETED"), "DELETE", victim[p])
        /\ txn' = cas'
        BY <1>5 DEF CommitDeleted
  <2>5. /\ cas' \in CasRows /\ Explained(cas') /\ PinsHold(cas')
        /\ cas'.status = [txn.status EXCEPT ![victim[p]] = "DELETED"]
        BY <1>1, <1>2, <2>1, <2>3, <2>4, DeletionRows
  <2>6. pc[p] = "gone"  BY <1>5 DEF CommitDeleted
  <2>. QED  BY <1>1, <2>2, <2>4, <2>5, <2>6 DEF HistoryKept, Pins, CollectorMoves
<1>6. CASE RecoverActive(p)
  <2>1. PICK o \in orphans[p] :
           /\ manifest = o.gen
           /\ cas' = LET known == cas.status[o.gen] # "NONE"
                         rows == IF known THEN cas ELSE UpsertActive(cas, o.gen, metaPin[o.gen])
                     IN  AppendHistory(SetActive(rows, o.gen), "RECOVER", o.gen)
        BY <1>6 DEF RecoverActive
  <2>2. manifest \in Gens
        BY <2>1 DEF PlansOK, Orphans
  <2>3. metaPin[manifest] \in BOOLEAN  BY <1>1, <2>2
  <2>4. /\ cas' \in CasRows /\ Explained(cas') /\ PinsHold(cas')
        /\ \A h \in Gens : cas'.status[h] = cas.status[h]
                           \/ (h = manifest /\ cas'.status[h] = "ACTIVE")
        BY <1>1, <1>2, <2>1, <2>2, <2>3, RecoveryRows
  <2>5. txn' = cas'  BY <1>6 DEF RecoverActive
  <2>. QED  BY <2>4, <2>5 DEF HistoryKept, Pins, CollectorMoves
<1>7. \/ cas' = cas /\ txn' \in {txn, cas}
      \/ MarkDeleting(p) /\ cas' # cas
      \/ CommitDeleted(p) \/ RecoverActive(p)
      BY ZenonT(60) DEF Collect, CollectStep, OrphanStep, PlanReadManifest, PlanReadCas, ApplyGc,
         MarkDeleting, SkipEntry, BeginUnlink, RefuseUnlink, UnlinkDb, SyncDbRemoval,
         UnlinkMetadata, SyncMetadataRemoval, SweepTmp, PlanOrphans, ApplyOrphans,
         RetainOrphan, RemoveTempOrphan, UnlinkFinalOrphan, SyncOrphan, ReturnPublished,
         FailDeletion, rowVars
<1>. QED  BY <1>3, <1>4, <1>5, <1>6, <1>7

\* What the collector does to the files: it puts no entry there, and takes none
\* of a generation that is ACTIVE or that the manifest names.
CollectorFiles(p) ==
    \A g \in Gens :
        /\ dbFile'[g] = "linked" => dbFile[g] = "linked"
        /\ metaFile'[g] = "linked" => metaFile[g] = "linked"
        /\ dbFile[g] = "absent" => dbFile'[g] = "absent"
        /\ metaFile[g] = "absent" => metaFile'[g] = "absent"
        /\ g = manifest \/ cas.status[g] = "ACTIVE" =>
              /\ dbFile[g] = "durable" => dbFile'[g] = "durable"
              /\ metaFile[g] = "durable" => metaFile'[g] = "durable"

LEMMA Spared ==
    ASSUME DataOK, PlansOK, DeletionProgress, NEW p \in Procs, Collect(p)
    PROVE  /\ dbFile' \in [Gens -> FileStates] /\ metaFile' \in [Gens -> FileStates]
           /\ CollectorFiles(p)
<1> USE DEF DataOK, PlansOK, DeletionProgress, DeletionAt, DeletionPhases, CollectorFiles, FileStates,
            Synced, Unlink, Visible, fileVars
<1>1. CASE UNCHANGED <<dbFile, metaFile>>  BY <1>1
<1>2. CASE UnlinkDb(p)  BY <1>2 DEF UnlinkDb
<1>3. CASE UnlinkMetadata(p)  BY <1>3 DEF UnlinkMetadata
<1>4. CASE SyncDbRemoval(p) \/ SyncMetadataRemoval(p) \/ SyncOrphan(p)
      BY <1>4 DEF SyncDbRemoval, SyncMetadataRemoval, SyncOrphan
<1>5. CASE UnlinkFinalOrphan(p)
  <2>1. PICK o \in orphans[p] :
           /\ o.gen # manifest /\ cas.status[o.gen] \in {"NONE", "DELETED"}
           /\ \/ dbFile' = Unlink(dbFile, o.gen) /\ metaFile' = metaFile
              \/ metaFile' = Unlink(metaFile, o.gen) /\ dbFile' = dbFile
        BY <1>5, Zenon DEF UnlinkFinalOrphan
  <2>2. o.gen \in Gens  BY DEF Orphans
  <2> DEFINE g == o.gen
  <2>3. /\ g \in Gens /\ g # manifest /\ cas.status[g] # "ACTIVE"
        /\ \/ dbFile' = Unlink(dbFile, g) /\ metaFile' = metaFile
           \/ metaFile' = Unlink(metaFile, g) /\ dbFile' = dbFile
        BY <2>1, <2>2
  <2> HIDE DEF g
  <2>4. CASE dbFile' = Unlink(dbFile, g) /\ metaFile' = metaFile  BY <2>3, <2>4
  <2>5. CASE metaFile' = Unlink(metaFile, g) /\ dbFile' = dbFile  BY <2>3, <2>5
  <2>. QED  BY <2>3, <2>4, <2>5
<1>6. \/ UNCHANGED <<dbFile, metaFile>>
      \/ UnlinkDb(p) \/ UnlinkMetadata(p) \/ UnlinkFinalOrphan(p)
      \/ SyncDbRemoval(p) \/ SyncMetadataRemoval(p) \/ SyncOrphan(p)
      BY ZenonT(60) DEF Collect, CollectStep, OrphanStep, PlanReadManifest, PlanReadCas, ApplyGc,
         MarkDeleting, SkipEntry, BeginUnlink, RefuseUnlink, CommitDeleted,
         SweepTmp, PlanOrphans, ApplyOrphans,
         RetainOrphan, RemoveTempOrphan, RecoverActive, ReturnPublished,
         FailDeletion
<1>. QED  BY <1>1, <1>2, <1>3, <1>4, <1>5, <1>6

\* The variables of a publication keep their types while the collector works.
LEMMA CollectorTypes ==
    ASSUME DataOK, PlansOK, NEW p \in Procs, Collect(p), CollectorFrame(p),
           cas' \in CasRows, txn' \in CasRows,
           dbFile' \in [Gens -> FileStates], metaFile' \in [Gens -> FileStates]
    PROVE  DataOK'
<1> USE NoneAssumption
        DEF DataOK, PlansOK, GenOrNone, Flags, Tokens, Faults,
            rowVars, manifestVars, fileVars, tempVars, runVars
<1>1. /\ manifest' = manifest /\ onDisk' = onDisk /\ acked' = acked /\ sinceAck' = sinceAck
      /\ bytes' = bytes /\ content' = content /\ metaPin' = metaPin
      /\ DOMAIN pc' = Procs
      BY DEF CollectorFrame
<1>2. lock' \in {lock, None, p}  BY DEF CollectorFrame
<1>3. /\ staging' \subseteq Gens /\ dbTemp' \subseteq Gens /\ metaTemp' \subseteq Gens
      /\ budget' \in [Faults -> Nat]
  <2>1. CASE UNCHANGED <<tempVars, budget>>  BY <2>1
  <2>2. CASE SweepTmp(p)  BY <2>2 DEF SweepTmp
  <2>3. CASE RemoveTempOrphan(p)  BY <2>3 DEF RemoveTempOrphan
  <2>4. CASE FailDeletion(p)  BY <2>4 DEF FailDeletion, Spend
  <2>5. \/ UNCHANGED <<tempVars, budget>>
        \/ SweepTmp(p) \/ RemoveTempOrphan(p) \/ FailDeletion(p)
        BY ZenonT(60) DEF Collect, CollectStep, OrphanStep, PlanReadManifest, PlanReadCas,
           ApplyGc, MarkDeleting, SkipEntry, BeginUnlink, RefuseUnlink, UnlinkDb,
           SyncDbRemoval, UnlinkMetadata, SyncMetadataRemoval, CommitDeleted, PlanOrphans,
           ApplyOrphans, RetainOrphan, UnlinkFinalOrphan, SyncOrphan, RecoverActive,
           ReturnPublished
  <2>. QED  BY <2>1, <2>2, <2>3, <2>4, <2>5
<1>4. /\ gen' \in [Procs -> GenOrNone] /\ target' \in [Procs -> GenOrNone]
      /\ expected' \in [Procs -> GenOrNone] /\ pin' \in [Procs -> BOOLEAN]
      /\ mutated' \in [Procs -> SUBSET Flags] /\ token' \in [Procs -> Tokens]
  <2>1. CASE UNCHANGED runVars  BY <2>1
  <2>2. CASE ReturnPublished(p)  BY <2>2 DEF ReturnPublished, EndRun
  <2>3. UNCHANGED runVars \/ ReturnPublished(p)
        BY ZenonT(60) DEF Collect, CollectStep, OrphanStep, PlanReadManifest, PlanReadCas,
           ApplyGc, MarkDeleting, SkipEntry, BeginUnlink, RefuseUnlink, UnlinkDb,
           SyncDbRemoval, UnlinkMetadata, SyncMetadataRemoval, CommitDeleted, SweepTmp,
           PlanOrphans, ApplyOrphans, RetainOrphan, RemoveTempOrphan, UnlinkFinalOrphan,
           SyncOrphan, RecoverActive, FailDeletion
  <2>. QED  BY <2>1, <2>2, <2>3
<1>. QED  BY <1>1, <1>2, <1>3, <1>4

\* The collector keeps what the publication keeps.
LEMMA CollectorCore ==
    ASSUME Core, PlansOK, CollectorLocks, DeletionProgress, HistoryKept, Pins,
           NEW p \in Procs, Collect(p)
    PROVE  Core'
<1>1. DataOK /\ LockHeld /\ IdsOwned /\ UnpublishedIsPrivate /\ PromotionProgress
      /\ NamedIsSettled /\ ManifestKnown /\ AcknowledgedSurvives
      BY DEF Core
<1>2. CollectorFrame(p)  BY <1>1, Framed
<1>3. /\ cas' \in CasRows /\ txn' \in CasRows
      /\ \A g \in Gens \ {manifest} :
            cas.status[g] = "NONE" /\ txn.status[g] = "NONE" =>
            cas'.status[g] = "NONE" /\ txn'.status[g] = "NONE"
      BY <1>1, CollectorRows
<1>4. /\ dbFile' \in [Gens -> FileStates] /\ metaFile' \in [Gens -> FileStates]
      /\ CollectorFiles(p)
      BY <1>1, Spared
<1>5. DataOK'  BY <1>1, <1>2, <1>3, <1>4, CollectorTypes
<1> USE DEF GcPhases, GcLockedPhases, DeletionPhases,
            LockedPhases, UnpublishedPhases, PromotionPhases, ActivationPhases, UnrenamedPhases
<1>6. /\ pc[p] \notin LockedPhases /\ pc'[p] \notin LockedPhases \cup UnpublishedPhases
      /\ \A q \in Procs \ {p} : pc'[q] = pc[q] /\ gen'[q] = gen[q] /\ target'[q] = target[q]
                                               /\ expected'[q] = expected[q]
      BY <1>2 DEF CollectorFrame
<1>7. \/ UNCHANGED <<cas, txn, lock, dbFile, metaFile>>
      \/ \A q \in Procs : pc'[q] \notin LockedPhases
      BY <1>1, <1>2, <1>6, ProcsAssumption DEF CollectorFrame, LockHeld
<1>8. LockHeld'  BY <1>1, <1>6, <1>7 DEF LockHeld
<1>9. IdsOwned'
  <2>1. \A q \in Procs : pc'[q] # "idle" => gen'[q] \in Gens
        BY <1>1, <1>2 DEF IdsOwned, CollectorFrame
  <2>2. \A q \in Procs : gen'[q] = gen[q] \/ gen'[q] = None
        BY <1>2 DEF CollectorFrame
  <2>3. \A q, r \in Procs : q # r /\ gen'[q] = gen'[r] => gen'[q] = None
        BY <1>1, <2>2 DEF IdsOwned
  <2>4. pc'[p] # "published" /\ pc'[p] \notin PromotionPhases \cup ActivationPhases
        BY <1>2 DEF CollectorFrame
  <2>5. \A q \in Procs : pc'[q] \in PromotionPhases => target'[q] = gen'[q]
        BY <1>1, <1>6, <2>4 DEF IdsOwned
  <2>6. \A q \in Procs : pc'[q] \in ActivationPhases \cup {"published"} => target'[q] \in Gens
        BY <1>1, <1>6, <2>4 DEF IdsOwned
  <2>. QED  BY <2>1, <2>3, <2>5, <2>6 DEF IdsOwned
<1>10. manifest \in onDisk /\ manifest' = manifest /\ onDisk' = onDisk
       /\ acked' = acked /\ sinceAck' = sinceAck /\ bytes' = bytes
       BY <1>1, <1>2 DEF CollectorFrame, ManifestKnown
<1>11. UnpublishedIsPrivate'
  <2> SUFFICES ASSUME NEW q \in Procs, pc'[q] \in UnpublishedPhases
               PROVE  /\ gen'[q] \notin onDisk'
                      /\ cas'.status[gen'[q]] = "NONE" /\ txn'.status[gen'[q]] = "NONE"
                      /\ gen'[q] # acked' /\ gen'[q] \notin sinceAck'
                      /\ \A r \in Procs \ {q} : target'[r] # gen'[q]
      BY DEF UnpublishedIsPrivate
  <2>1. q # p /\ pc[q] \in UnpublishedPhases /\ gen'[q] = gen[q] /\ gen[q] \in Gens
        BY <1>1, <1>6 DEF IdsOwned
  <2>2. gen[q] # manifest /\ cas.status[gen[q]] = "NONE" /\ txn.status[gen[q]] = "NONE"
        BY <1>1, <1>10, <2>1 DEF UnpublishedIsPrivate
  <2>3. \A r \in Procs : target'[r] = target[r] \/ target'[r] = None
        BY <1>2 DEF CollectorFrame
  <2>. QED  BY <1>1, <1>3, <1>10, <2>1, <2>2, <2>3, NoneAssumption DEF UnpublishedIsPrivate
<1>12. PromotionProgress'
  <2>1. CASE \A q \in Procs : pc'[q] \notin LockedPhases  BY <2>1 DEF PromotionProgress
  <2>2. CASE UNCHANGED <<cas, txn, lock, dbFile, metaFile>>
        BY <1>1, <1>6, <1>10, <2>2 DEF PromotionProgress, OnDiskForGood, Visible
  <2>. QED  BY <1>7, <2>1, <2>2
<1>13. NamedIsSettled'
       BY <1>1, <1>3, <1>4, <1>10 DEF NamedIsSettled, CollectorFiles
<1>14. ManifestKnown'
       BY <1>1, <1>6, <1>10 DEF ManifestKnown
<1>15. AcknowledgedSurvives'
       BY <1>1, <1>10 DEF AcknowledgedSurvives
<1>. QED  BY <1>5, <1>8, <1>9, <1>11, <1>12, <1>13, <1>14, <1>15 DEF Core

-----------------------------------------------------------------------------
(* What a step of a publication, a crash or a removed manifest leaves of   *)
(* the collector's work.                                                   *)

\* The steps that change files, rows or the lock; all others leave them alone.
LEMMA PublicationMoves ==
    ASSUME [Next]_vars
    PROVE  \/ UNCHANGED <<cas, txn, lock, manifest, dbFile, metaFile, bytes>>
           \/ PowerLoss
           \/ RemoveManifest
           \/ \E p \in Procs :
                 \/ BeginPublish(p) \/ CommitPublish(p) \/ RenameManifest(p)
                 \/ CopyToTemp(p) \/ SyncTemp(p) \/ LinkFinal(p) \/ SyncGenerations(p)
                 \/ LinkMetadata(p) \/ SyncMetadata(p)
                 \/ FailPromotion(p) \/ FailPublish(p) \/ Crash(p)
BY ZenonT(60) DEF Next, Reserve, Step, Prepublish, Backup, Prepare, ReadExpected,
   MismatchPublish, BusyPublish, Promote, UseDedup, DropTempAndStaging, WriteMetadataTemp,
   Activate, SyncManifest, CleanUpFailedRun, FinishRun, Fail, FailBeforePublish,
   vars, rowVars, manifestVars, fileVars

\* A publication leaves the files of every generation that has a row or that a
\* manifest names as the disk has them.
LEMMA PublicationFiles ==
    ASSUME Core, [Next]_vars, NEW g \in Gens,
           g \in onDisk \/ cas.status[g] # "NONE" \/ txn.status[g] # "NONE"
    PROVE  /\ dbFile[g] \in {"absent", "durable"} => dbFile'[g] = dbFile[g]
           /\ metaFile[g] \in {"absent", "durable"} => metaFile'[g] = metaFile[g]
           /\ bytes'[g] = bytes[g]
<1> USE DEF Core, DataOK, LockHeld, IdsOwned, UnpublishedIsPrivate, Synced, FileStates,
            LockedPhases, UnpublishedPhases, PromotionPhases, fileVars
<1>1. CASE UNCHANGED <<dbFile, metaFile, bytes>>  BY <1>1
<1>2. CASE PowerLoss  BY <1>2 DEF PowerLoss, AfterPowerLoss, Volatile
<1>3. ASSUME NEW p \in Procs, CopyToTemp(p) \/ SyncTemp(p) \/ LinkFinal(p) \/ LinkMetadata(p)
      PROVE  /\ dbFile[g] \in {"absent", "durable"} => dbFile'[g] = dbFile[g]
             /\ metaFile[g] \in {"absent", "durable"} => metaFile'[g] = metaFile[g]
             /\ bytes'[g] = bytes[g]
      BY <1>3 DEF CopyToTemp, SyncTemp, LinkFinal, LinkMetadata
<1>4. ASSUME NEW p \in Procs, SyncGenerations(p) \/ SyncMetadata(p)
      PROVE  /\ dbFile[g] \in {"absent", "durable"} => dbFile'[g] = dbFile[g]
             /\ metaFile[g] \in {"absent", "durable"} => metaFile'[g] = metaFile[g]
             /\ bytes'[g] = bytes[g]
      BY <1>4 DEF SyncGenerations, SyncMetadata
<1>5. ASSUME NEW p \in Procs,
             \/ BeginPublish(p) \/ CommitPublish(p) \/ RenameManifest(p)
             \/ FailPromotion(p) \/ FailPublish(p) \/ Crash(p)
      PROVE  UNCHANGED <<dbFile, metaFile, bytes>>
      BY <1>5 DEF BeginPublish, CommitPublish, RenameManifest, FailPromotion, FailPublish, Crash
<1>6. CASE RemoveManifest  BY <1>6 DEF RemoveManifest
<1>. QED  BY <1>1, <1>2, <1>3, <1>4, <1>5, <1>6, PublicationMoves

\* While the collector holds the lock, no other process changes what it works on.
LEMMA Undisturbed ==
    ASSUME DataOK, LockHeld, CollectorLocks, [Next]_vars,
           NEW q \in Procs, pc'[q] \in GcPhases
    PROVE  /\ pc[q] = pc'[q]
           /\ pc[q] \in GcLockedPhases =>
                 UNCHANGED <<cas, txn, lock, manifest, dbFile, metaFile>>
<1> USE NoneAssumption, ProcsAssumption
        DEF DataOK, LockHeld, CollectorLocks, GcPhases, GcLockedPhases, DeletionPhases,
            LockedPhases
<1>1. pc[q] = pc'[q]
  <2>1. ASSUME NEW p \in Procs, Reserve(p) \/ Prepublish(p) PROVE pc[q] = pc'[q]
        BY <2>1 DEF Reserve, Prepublish, Backup, Prepare, ReadExpected, BeginPublish,
             MismatchPublish, BusyPublish, Goto
  <2>2. ASSUME NEW p \in Procs, Promote(p) PROVE pc[q] = pc'[q]
        BY <2>2 DEF Promote, UseDedup, CopyToTemp, SyncTemp, LinkFinal, SyncGenerations,
             DropTempAndStaging, WriteMetadataTemp, LinkMetadata, SyncMetadata, Goto
  <2>3. ASSUME NEW p \in Procs, Activate(p) \/ CleanUpFailedRun(p) \/ FinishRun(p)
        PROVE  pc[q] = pc'[q]
        BY <2>3 DEF Activate, RenameManifest, SyncManifest, CommitPublish, CleanUpFailedRun,
             FinishRun, EndRun, Goto
  <2>4. ASSUME NEW p \in Procs, Fail(p) PROVE pc[q] = pc'[q]
        BY <2>4 DEF Fail, FailBeforePublish, FailPromotion, FailPublish, Crash, Abort, EndRun,
             Goto
  <2>5. CASE PowerLoss \/ RemoveManifest \/ UNCHANGED vars
        BY <2>5 DEF PowerLoss, RemoveManifest, vars
  <2>. QED  BY <2>1, <2>2, <2>3, <2>4, <2>5 DEF Next, Step
<1>2. ASSUME pc[q] \in GcLockedPhases
      PROVE  UNCHANGED <<cas, txn, lock, manifest, dbFile, metaFile>>
  <2>1. /\ lock = q /\ pc'[q] # "idle"
        /\ \A p \in Procs : pc[p] \notin LockedPhases /\ (lock = p => p = q)
        BY <1>1, <1>2
  <2>2. ~PowerLoss /\ ~RemoveManifest  BY <2>1 DEF PowerLoss, RemoveManifest
  <2>3. ASSUME NEW p \in Procs,
               \/ BeginPublish(p) \/ CommitPublish(p) \/ RenameManifest(p)
               \/ CopyToTemp(p) \/ SyncTemp(p) \/ LinkFinal(p) \/ SyncGenerations(p)
               \/ LinkMetadata(p) \/ SyncMetadata(p) \/ FailPromotion(p) \/ FailPublish(p)
        PROVE  FALSE
        BY <2>1, <2>3 DEF BeginPublish, CommitPublish, RenameManifest, CopyToTemp, SyncTemp,
           LinkFinal, SyncGenerations, LinkMetadata, SyncMetadata, FailPromotion, FailPublish
  <2>4. ASSUME NEW p \in Procs, Crash(p)
        PROVE  UNCHANGED <<cas, txn, lock, manifest, dbFile, metaFile>>
    <3>1. p # q  BY <2>1, <2>4 DEF Crash, EndRun, Goto
    <3>. QED  BY <2>1, <2>4, <3>1 DEF Crash, manifestVars, fileVars
  <2>. QED  BY <2>2, <2>3, <2>4, PublicationMoves
<1>. QED  BY <1>1, <1>2

-----------------------------------------------------------------------------
(* Every part of the invariant is kept by every step.                      *)

GcTypes ==
    /\ plan \in [Procs -> [active : GenOrNone, revision : Nat]]
    /\ todo \in [Procs -> [delete : SUBSET Gens, recovery : SUBSET Gens]]
    /\ orphans \in [Procs -> SUBSET Orphans]
    /\ victim \in [Procs -> GenOrNone]

\* A step of the publication, a crash or a removed manifest, seen by the
\* collector: processes it does not stop keep the entry they work on.
PublicationStep ==
    /\ [Next]_vars
    /\ GcTypes => GcTypes'
    /\ \A q \in Procs : pc'[q] # "idle" => victim'[q] = victim[q]

\* A step is one of the collector's or one of the publication.
LEMMA GcSteps ==
    ASSUME DataOK, PlansOK, [GcNext]_allVars
    PROVE  PublicationStep \/ \E p \in Procs : Collect(p)
<1>1. CASE UNCHANGED allVars
      BY <1>1 DEF allVars, gcVars, vars, GcTypes, PublicationStep
<1>2. ASSUME NEW p \in Procs, PublishNext(p) PROVE PublicationStep
      BY <1>2 DEF PublishNext, Next, Fail, gcVars, GcTypes, PublicationStep
<1>3. CASE RemoveManifest /\ UNCHANGED gcVars
      BY <1>3 DEF Next, gcVars, GcTypes, PublicationStep
<1>4. ASSUME NEW p \in Procs, Crash(p), ForgetPlan(p) PROVE PublicationStep
  <2>1. Next  BY <1>4 DEF Next, Fail
  <2>2. pc' = [pc EXCEPT ![p] = "idle"] /\ victim' = [victim EXCEPT ![p] = None]
        BY <1>4 DEF Crash, EndRun, Goto, ForgetPlan
  <2>3. \A q \in Procs : pc'[q] # "idle" => victim'[q] = victim[q]
        BY <2>2 DEF DataOK, PlansOK
  <2>4. GcTypes => GcTypes'
        BY <1>4 DEF ForgetPlan, GcTypes, EmptyPlan, NoTodo, GenOrNone
  <2>. QED  BY <2>1, <2>3, <2>4 DEF PublicationStep
<1>5. CASE PowerLoss /\ plan' = [p \in Procs |-> EmptyPlan] /\ todo' = [p \in Procs |-> NoTodo]
             /\ orphans' = [p \in Procs |-> {}] /\ victim' = [p \in Procs |-> None]
  <2>1. Next  BY <1>5 DEF Next
  <2>2. \A q \in Procs : pc'[q] = "idle"  BY <1>5 DEF PowerLoss
  <2>3. GcTypes => GcTypes'
        BY <1>5 DEF GcTypes, EmptyPlan, NoTodo, GenOrNone
  <2>. QED  BY <2>1, <2>2, <2>3 DEF PublicationStep
<1>. QED  BY <1>1, <1>2, <1>3, <1>4, <1>5 DEF GcNext, Killed, Collect

\* A step keeps the plans in their types.
LEMMA PlansStep ==
    ASSUME DataOK, PlansOK, CollectorLocks, [GcNext]_allVars
    PROVE  PlansOK'
<1>1. CASE PublicationStep
  <2>1. pc' \in [Procs -> Phases \cup GcPhases]
        BY <1>1, PhaseStep DEF PublicationStep, PlansOK
  <2>. QED  BY <1>1, <2>1 DEF PublicationStep, PlansOK, GcTypes
<1>2. ASSUME NEW p \in Procs, Collect(p) PROVE PlansOK'
  <2>1. pc' \in [Procs -> Phases \cup GcPhases]  BY <1>2, Framed DEF CollectorFrame
  <2> USE DEF PlansOK, DataOK, GcTypes, GenOrNone
  <2>2. CASE PlanReadManifest(p)
    <3>1. plan' \in [Procs -> [active : GenOrNone, revision : Nat]]
          BY <2>2 DEF PlanReadManifest
    <3>. QED  BY <2>1, <2>2, <3>1 DEF PlanReadManifest
  <2>3. CASE PlanReadCas(p)
    <3>1. cas.revision \in Nat  BY DEF CasRows
    <3>2. plan' \in [Procs -> [active : GenOrNone, revision : Nat]]
          BY <2>3, <3>1 DEF PlanReadCas
    <3>3. todo' \in [Procs -> [delete : SUBSET Gens, recovery : SUBSET Gens]]
          BY <2>3 DEF PlanReadCas
    <3>. QED  BY <2>1, <2>3, <3>2, <3>3 DEF PlanReadCas
  <2>4. CASE ApplyGc(p)
    <3>1. \/ plan' = [plan EXCEPT ![p].active = manifest] /\ todo' = todo
          \/ plan' = plan /\ todo' = [todo EXCEPT ![p] = NoTodo]
          BY <2>4 DEF ApplyGc
    <3>2. plan' \in [Procs -> [active : GenOrNone, revision : Nat]]
      <4>1. /\ plan[p].active \in GenOrNone /\ plan[p].revision \in Nat
            /\ plan[p] = [active |-> plan[p].active, revision |-> plan[p].revision]
            /\ manifest \in GenOrNone
            OBVIOUS
      <4> DEFINE now == [active |-> manifest, revision |-> plan[p].revision]
      <4>2. now \in [active : GenOrNone, revision : Nat]  BY <4>1
      <4>3. plan' = plan \/ plan' = [plan EXCEPT ![p] = now]  BY <3>1, <4>1
      <4> HIDE DEF now, GenOrNone
      <4>. QED  BY <4>2, <4>3
    <3>3. todo' \in [Procs -> [delete : SUBSET Gens, recovery : SUBSET Gens]]
      <4>1. NoTodo \in [delete : SUBSET Gens, recovery : SUBSET Gens]  BY DEF NoTodo
      <4>. QED  BY <3>1, <4>1
    <3>4. orphans' = orphans /\ victim' = victim  BY <2>4 DEF ApplyGc
    <3>. QED  BY <2>1, <3>2, <3>3, <3>4
  <2>5. CASE MarkDeleting(p)  BY <2>1, <2>5 DEF MarkDeleting
  <2>6. CASE SkipEntry(p) \/ RefuseUnlink(p) \/ CommitDeleted(p) \/ FailDeletion(p)
    <3>1. \A g : Drop(p, g) => todo' \in [Procs -> [delete : SUBSET Gens, recovery : SUBSET Gens]]
          BY DEF Drop
    <3>2. /\ \E g : Drop(p, g)
          /\ victim' \in {victim, [victim EXCEPT ![p] = None]}
          /\ plan' = plan /\ orphans' = orphans
          BY <2>6 DEF SkipEntry, RefuseUnlink, CommitDeleted, FailDeletion
    <3>. QED  BY <2>1, <3>1, <3>2
  <2>7. CASE UNCHANGED gcVars  BY <2>1, <2>7 DEF gcVars
  <2>8. CASE PlanOrphans(p)
    <3>1. cas.revision \in Nat  BY DEF CasRows
    <3>2. plan' \in [Procs -> [active : GenOrNone, revision : Nat]]
          BY <2>8, <3>1 DEF PlanOrphans
    <3>3. PICK all \in SUBSET Orphans : orphans' = [orphans EXCEPT ![p] = all]
      <4>1. \A kind \in OrphanKinds, gens \in SUBSET Gens : OrphansOf(kind, gens) \in SUBSET Orphans
            BY DEF OrphansOf, Orphans
      <4>. QED  BY <2>8, <4>1 DEF PlanOrphans, OrphanKinds
    <3>4. orphans' \in [Procs -> SUBSET Orphans]  BY <3>3
    <3>. QED  BY <2>1, <2>8, <3>2, <3>4 DEF PlanOrphans
  <2>9. CASE ApplyOrphans(p) \/ RetainOrphan(p) \/ RemoveTempOrphan(p)
             \/ UnlinkFinalOrphan(p) \/ RecoverActive(p)
    <3>1. \A o : Forget(p, o) => orphans' \in [Procs -> SUBSET Orphans]  BY DEF Forget
    <3>2. ApplyOrphans(p) => orphans' \in [Procs -> SUBSET Orphans]  BY DEF ApplyOrphans
    <3>3. ApplyOrphans(p) \/ \E o : Forget(p, o)
          BY <2>9 DEF RetainOrphan, RemoveTempOrphan, UnlinkFinalOrphan, RecoverActive
    <3>4. plan' = plan /\ todo' = todo /\ victim' = victim
          BY <2>9 DEF ApplyOrphans, RetainOrphan, RemoveTempOrphan, UnlinkFinalOrphan,
                      RecoverActive
    <3>. QED  BY <2>1, <3>1, <3>2, <3>3, <3>4
  <2>10. CASE ReturnPublished(p)
         BY <2>1, <2>10 DEF ReturnPublished, ForgetPlan, EmptyPlan, NoTodo
  <2>. QED  BY <1>2, <2>2, <2>3, <2>4, <2>5, <2>6, <2>7, <2>8, <2>9, <2>10
            DEF Collect, CollectStep, OrphanStep, BeginUnlink, UnlinkDb, SyncDbRemoval,
                UnlinkMetadata, SyncMetadataRemoval, SweepTmp, SyncOrphan
<1>. QED  BY <1>1, <1>2, GcSteps

\* The collector gives the lock back with the committed rows, and nobody takes
\* it from a process that holds it.
LEMMA LocksStep ==
    ASSUME DataOK, PlansOK, LockHeld, CollectorLocks, [GcNext]_allVars
    PROVE  CollectorLocks'
<1>1. CASE PublicationStep
  <2>1. \A q \in Procs : pc'[q] \in GcLockedPhases => lock' = q /\ txn' = cas'
        BY <1>1, Undisturbed DEF PublicationStep, CollectorLocks, GcPhases
  <2>2. lock' = None => txn' = cas'
    <3> USE DEF CollectorLocks
    <3>1. CASE UNCHANGED <<cas, txn, lock, manifest, dbFile, metaFile, bytes>>  BY <3>1
    <3>2. CASE PowerLoss \/ RemoveManifest  BY <3>2 DEF PowerLoss, RemoveManifest, rowVars
    <3>3. ASSUME NEW p \in Procs,
                 \/ BeginPublish(p) \/ CommitPublish(p) \/ RenameManifest(p)
                 \/ CopyToTemp(p) \/ SyncTemp(p) \/ LinkFinal(p) \/ SyncGenerations(p)
                 \/ LinkMetadata(p) \/ SyncMetadata(p)
                 \/ FailPromotion(p) \/ FailPublish(p) \/ Crash(p)
          PROVE  lock' = None => txn' = cas'
          BY <3>3, ProcsAssumption DEF BeginPublish, CommitPublish, RenameManifest, CopyToTemp,
             SyncTemp, LinkFinal, SyncGenerations, LinkMetadata, SyncMetadata, FailPromotion,
             FailPublish, Abort, Crash, rowVars
    <3>. QED  BY <1>1, <3>1, <3>2, <3>3, PublicationMoves DEF PublicationStep
  <2>. QED  BY <2>1, <2>2 DEF CollectorLocks
<1>2. ASSUME NEW p \in Procs, Collect(p) PROVE CollectorLocks'
  <2> USE ProcsAssumption DEF DataOK, PlansOK, CollectorLocks, GcLockedPhases, DeletionPhases,
          Goto, EndRun, rowVars
  <2>1. CASE PlanReadManifest(p) \/ PlanReadCas(p) \/ ApplyGc(p)
        BY <2>1 DEF PlanReadManifest, PlanReadCas, ApplyGc
  <2>2. CASE MarkDeleting(p) \/ SkipEntry(p) \/ BeginUnlink(p)
        BY <2>2 DEF MarkDeleting, SkipEntry, BeginUnlink
  <2>3. CASE RefuseUnlink(p) \/ SweepTmp(p)
        BY <2>3 DEF RefuseUnlink, SweepTmp
  <2>4. CASE UnlinkDb(p) \/ SyncDbRemoval(p) \/ UnlinkMetadata(p) \/ SyncMetadataRemoval(p)
        BY <2>4 DEF UnlinkDb, SyncDbRemoval, UnlinkMetadata, SyncMetadataRemoval
  <2>5. CASE CommitDeleted(p)  BY <2>5 DEF CommitDeleted
  <2>6. CASE FailDeletion(p)  BY <2>6 DEF FailDeletion
  <2>7. CASE PlanOrphans(p) \/ ApplyOrphans(p) \/ RetainOrphan(p) \/ RemoveTempOrphan(p)
        BY <2>7 DEF PlanOrphans, ApplyOrphans, RetainOrphan, RemoveTempOrphan
  <2>8. CASE UnlinkFinalOrphan(p) \/ SyncOrphan(p) \/ RecoverActive(p)
        BY <2>8 DEF UnlinkFinalOrphan, SyncOrphan, RecoverActive
  <2>9. CASE ReturnPublished(p)  BY <2>9 DEF ReturnPublished
  <2>. QED  BY <1>2, <2>1, <2>2, <2>3, <2>4, <2>5, <2>6, <2>7, <2>8, <2>9
            DEF Collect, CollectStep, OrphanStep
<1>. QED  BY <1>1, <1>2, GcSteps

\* A deletion goes one phase further, on the rows and files it left.
LEMMA DeletionStep ==
    ASSUME DataOK, PlansOK, LockHeld, CollectorLocks, DeletionProgress, [GcNext]_allVars
    PROVE  DeletionProgress'
<1>1. CASE PublicationStep
  <2> SUFFICES ASSUME NEW q \in Procs, pc'[q] \in DeletionPhases \cup {"marked"}
               PROVE  DeletionAt(q)'
      BY DEF DeletionProgress, DeletionAt, DeletionPhases
  <2>1. pc'[q] \in GcPhases /\ pc'[q] # "idle"  BY DEF GcPhases, GcLockedPhases, DeletionPhases
  <2>2. /\ pc'[q] = pc[q] /\ victim'[q] = victim[q]
        /\ pc[q] \in GcLockedPhases => UNCHANGED <<cas, txn, lock, manifest, dbFile, metaFile>>
        BY <1>1, <2>1, Undisturbed DEF PublicationStep
  <2>. QED  BY <2>2 DEF DeletionProgress, DeletionAt, DeletionPhases, GcLockedPhases
<1>2. ASSUME NEW p \in Procs, Collect(p) PROVE DeletionProgress'
  <2>1. CollectorFrame(p)  BY <1>2, Framed
  <2>2. ASSUME NEW q \in Procs \ {p} PROVE DeletionAt(q)'
    <3>1. /\ pc'[q] = pc[q] /\ victim'[q] = victim[q] /\ manifest' = manifest
          /\ pc[q] \in DeletionPhases => UNCHANGED <<cas, dbFile, metaFile>>
          BY <2>1, ProcsAssumption DEF CollectorFrame, CollectorLocks, GcLockedPhases
    <3>2. DeletionAt(q)  BY DEF DeletionProgress
    <3>. QED  BY <3>1, <3>2 DEF DeletionAt, DeletionPhases
  <2>3. DeletionAt(p)'
    <3> USE DEF DeletionPhases, DataOK, PlansOK, DeletionProgress, DeletionAt, Goto, FileStates, Synced,
                Unlink, rowVars, manifestVars, fileVars, gcVars
    <3>1. CASE MarkDeleting(p)  BY <3>1 DEF MarkDeleting
    <3>2. CASE BeginUnlink(p)  BY <3>2 DEF BeginUnlink, Deletable
    <3>3. CASE UnlinkDb(p)  BY <3>3 DEF UnlinkDb
    <3>4. CASE SyncDbRemoval(p)  BY <3>4 DEF SyncDbRemoval
    <3>5. CASE UnlinkMetadata(p)  BY <3>5 DEF UnlinkMetadata
    <3>6. CASE SyncMetadataRemoval(p)  BY <3>6 DEF SyncMetadataRemoval
    <3>7. ASSUME pc'[p] \in DeletionPhases \cup {"marked"}
          PROVE  \/ MarkDeleting(p) \/ BeginUnlink(p) \/ UnlinkDb(p) \/ SyncDbRemoval(p)
                 \/ UnlinkMetadata(p) \/ SyncMetadataRemoval(p)
      <4> USE <3>7
      <4>1. CASE PlanReadManifest(p) \/ PlanReadCas(p) \/ ApplyGc(p)
            BY <4>1 DEF PlanReadManifest, PlanReadCas, ApplyGc
      <4>2. CASE SkipEntry(p) \/ RefuseUnlink(p) \/ CommitDeleted(p) \/ SweepTmp(p)
            BY <4>2 DEF SkipEntry, RefuseUnlink, CommitDeleted, SweepTmp
      <4>3. CASE FailDeletion(p) \/ PlanOrphans(p) \/ ApplyOrphans(p) \/ ReturnPublished(p)
            BY <4>3 DEF FailDeletion, PlanOrphans, ApplyOrphans, ReturnPublished, EndRun
      <4>4. CASE RetainOrphan(p) \/ RemoveTempOrphan(p) \/ RecoverActive(p)
            BY <4>4 DEF RetainOrphan, RemoveTempOrphan, RecoverActive
      <4>5. CASE UnlinkFinalOrphan(p) \/ SyncOrphan(p)
            BY <4>5 DEF UnlinkFinalOrphan, SyncOrphan
      <4>. QED  BY <1>2, <4>1, <4>2, <4>3, <4>4, <4>5 DEF Collect, CollectStep, OrphanStep
    <3>8. CASE pc'[p] \notin DeletionPhases \cup {"marked"}  BY <3>8
    <3>. QED  BY <3>1, <3>2, <3>3, <3>4, <3>5, <3>6, <3>7, <3>8
  <2>. QED  BY <2>2, <2>3 DEF DeletionProgress
<1>. QED  BY <1>1, <1>2, GcSteps

\* The statuses a publication's step may give.
LEMMA PublicationStatuses ==
    ASSUME DataOK, IdsOwned, PromotionProgress, [Next]_vars,
           NEW g \in Gens, NEW rows \in {cas', txn'}
    PROVE  \/ rows.status[g] \in {cas.status[g], txn.status[g]}
           \/ rows.status[g] = "ACTIVE" /\ g = manifest
           \/ rows.status[g] = "ACTIVE" /\ OnDiskForGood(g) /\ UNCHANGED <<dbFile, metaFile, bytes>>
<1>1. CASE cas' = cas /\ txn' \in {txn, cas}  BY <1>1
<1>2. ASSUME NEW p \in Procs, BeginPublish(p)
      PROVE  \/ rows.status[g] \in {cas.status[g], txn.status[g]}
             \/ rows.status[g] = "ACTIVE" /\ g = manifest
  <2>1. ReconciledRows(cas, manifest, txn')  BY <1>2, BeginRows
  <2>2. cas' = cas  BY <1>2 DEF BeginPublish
  <2>. QED  BY <2>1, <2>2 DEF ReconciledRows
<1>3. ASSUME NEW p \in Procs, CommitPublish(p)
      PROVE  \/ rows.status[g] \in {cas.status[g], txn.status[g]}
             \/ rows.status[g] = "ACTIVE" /\ OnDiskForGood(g) /\ UNCHANGED <<dbFile, metaFile, bytes>>
  <2>1. /\ txn' = cas' /\ target[p] \in Gens
        /\ cas'.status = [txn.status EXCEPT ![target[p]] = "ACTIVE"]
        BY <1>3, CommitRows
  <2>2. OnDiskForGood(target[p])  BY <1>3 DEF CommitPublish, PromotionProgress, ActivationPhases
  <2>3. UNCHANGED <<dbFile, metaFile, bytes>>  BY <1>3 DEF CommitPublish, fileVars
  <2>4. txn.status \in [Gens -> Statuses]  BY RowsType DEF DataOK
  <2>. QED  BY <2>1, <2>2, <2>3, <2>4
<1>. QED  BY <1>1, <1>2, <1>3, RowsMove

\* A deletion takes the database before the metadata, and what it took does not
\* come back.
LEMMA RemainsStep ==
    ASSUME Core, PlansOK, CollectorLocks, DeletionProgress, RemainsOnDisk, HistoryKept, Pins,
           [GcNext]_allVars
    PROVE  RemainsOnDisk'
<1>0. DataOK /\ LockHeld /\ IdsOwned /\ PromotionProgress /\ NamedIsSettled  BY DEF Core
<1> SUFFICES ASSUME NEW g \in Gens, NEW rows \in {cas', txn'}
             PROVE  /\ rows.status[g] = "DELETING" /\ dbFile'[g] # "absent"
                          => metaFile'[g] = "durable"
                    /\ rows.status[g] = "DELETED"
                          => dbFile'[g] = "absent" /\ metaFile'[g] = "absent"
    BY DEF RemainsOnDisk
<1>1. CASE PublicationStep
  <2>1. rows.status[g] \in {"DELETING", "DELETED"} =>
           rows.status[g] \in {cas.status[g], txn.status[g]}
        BY <1>0, <1>1, PublicationStatuses DEF PublicationStep
  <2>2. cas.status[g] # "NONE" \/ txn.status[g] # "NONE" =>
           /\ dbFile[g] \in {"absent", "durable"} => dbFile'[g] = dbFile[g]
           /\ metaFile[g] \in {"absent", "durable"} => metaFile'[g] = metaFile[g]
        BY <1>1, PublicationFiles DEF PublicationStep
  <2>. QED  BY <2>1, <2>2 DEF RemainsOnDisk
<1>2. ASSUME NEW p \in Procs, Collect(p)
      PROVE  /\ rows.status[g] = "DELETING" /\ dbFile'[g] # "absent" => metaFile'[g] = "durable"
             /\ rows.status[g] = "DELETED" => dbFile'[g] = "absent" /\ metaFile'[g] = "absent"
  <2>1. CollectorMoves(p)  BY <1>0, <1>2, CollectorRows
  <2>2. CollectorFiles(p)  BY <1>0, <1>2, Spared
  <2>3. \/ rows.status[g] \in {cas.status[g], txn.status[g]}
        \/ rows.status[g] = "ACTIVE"
        \/ rows.status[g] = "DELETING" /\ cas.status[g] = "ACTIVE" /\ Complete(g)
        \/ rows.status[g] = "DELETED" /\ pc[p] = "gone" /\ g = victim[p]
        BY <2>1 DEF CollectorMoves
  <2>4. CASE rows.status[g] = "DELETING" /\ cas.status[g] = "ACTIVE" /\ Complete(g)
    <3>1. metaFile[g] = "durable"  BY <1>0, <2>4 DEF Complete, Visible, NamedIsSettled
    <3>. QED  BY <2>2, <2>4, <3>1 DEF CollectorFiles
  <2>5. CASE rows.status[g] = "DELETED" /\ pc[p] = "gone" /\ g = victim[p]
    <3>1. dbFile[g] = "absent" /\ metaFile[g] = "absent"  BY <2>5 DEF DeletionProgress, DeletionAt
    <3>. QED  BY <2>2, <2>5, <3>1 DEF CollectorFiles
  <2>6. CASE rows.status[g] \in {cas.status[g], txn.status[g]}
    <3>1. rows.status[g] = "DELETED" => dbFile'[g] = "absent" /\ metaFile'[g] = "absent"
          BY <2>2, <2>6 DEF RemainsOnDisk, CollectorFiles
    <3>2. ASSUME rows.status[g] = "DELETING", dbFile'[g] # "absent"
          PROVE  metaFile'[g] = "durable"
      <4>1. dbFile[g] # "absent" /\ metaFile[g] = "durable"
            BY <2>2, <2>6, <3>2 DEF RemainsOnDisk, CollectorFiles
      <4>2. metaFile' = metaFile \/ metaFile'[g] = "durable"
        <5> USE <4>1 DEF Synced, DataOK
        <5>1. CASE SyncDbRemoval(p) \/ SyncMetadataRemoval(p) \/ SyncOrphan(p)
              BY <5>1 DEF SyncDbRemoval, SyncMetadataRemoval, SyncOrphan
        <5>2. CASE UnlinkMetadata(p)
              BY <1>0, <5>2 DEF UnlinkMetadata, DeletionProgress, DeletionAt, DeletionPhases,
                              Unlink
        <5>3. CASE UnlinkFinalOrphan(p)
          <6>1. PICK o \in orphans[p] :
                   /\ cas.status[o.gen] \in {"NONE", "DELETED"}
                   /\ metaFile' \in {metaFile, Unlink(metaFile, o.gen)}
                BY <5>3, Zenon DEF UnlinkFinalOrphan
          <6>2. txn = cas  BY <5>3 DEF UnlinkFinalOrphan, CollectorLocks
          <6>3. g # o.gen  BY <2>6, <3>2, <6>1, <6>2
          <6>. QED  BY <1>0, <6>1, <6>3 DEF Unlink
        <5>4. \/ metaFile' = metaFile
              \/ UnlinkMetadata(p) \/ UnlinkFinalOrphan(p)
              \/ SyncDbRemoval(p) \/ SyncMetadataRemoval(p) \/ SyncOrphan(p)
              BY <1>2, ZenonT(60) DEF Collect, CollectStep, OrphanStep, PlanReadManifest,
                 PlanReadCas, ApplyGc, MarkDeleting, SkipEntry, BeginUnlink, RefuseUnlink,
                 UnlinkDb, CommitDeleted, SweepTmp, PlanOrphans, ApplyOrphans,
                 RetainOrphan, RemoveTempOrphan, RecoverActive, ReturnPublished,
                 FailDeletion, fileVars
        <5>. QED  BY <1>0, <5>1, <5>2, <5>3, <5>4
      <4>. QED  BY <4>1, <4>2
    <3>. QED  BY <3>1, <3>2
  <2>. QED  BY <2>3, <2>4, <2>5, <2>6
<1>. QED  BY <1>0, <1>1, <1>2, GcSteps

\* No row operation takes a pinned generation out of service.
LEMMA PinsStep ==
    ASSUME DataOK, IdsOwned, PlansOK, DeletionProgress, HistoryKept, Pins, [GcNext]_allVars
    PROVE  Pins'
<1>1. CASE PublicationStep
  <2>1. cas \in CasRows /\ txn \in CasRows /\ manifest \in GenOrNone
        /\ metaPin \in [Gens -> BOOLEAN] /\ pin \in [Procs -> BOOLEAN]
        BY DEF DataOK
  <2>2. CASE cas' = cas /\ txn' \in {txn, cas}  BY <2>2 DEF Pins
  <2>3. ASSUME NEW p \in Procs, BeginPublish(p) PROVE Pins'
    <3>1. (manifest # None /\ metaPin[manifest]) \in BOOLEAN  OBVIOUS
    <3>2. PinsHold(Reconciled)  BY <2>1, <3>1, PinsKept DEF Reconciled, Pins
    <3>3. cas' = cas /\ txn' = Reconciled  BY <2>3 DEF BeginPublish
    <3>. QED  BY <3>2, <3>3 DEF Pins
  <2>4. ASSUME NEW p \in Procs, CommitPublish(p) PROVE Pins'
    <3>1. target[p] \in Gens /\ pin[p] \in BOOLEAN  BY <2>1, <2>4, CommitRows
    <3>2. PinsHold(PublishRows(txn, target[p], pin[p]))
          BY <2>1, <3>1, PinsKept DEF Pins, GenOrNone
    <3>3. cas' = PublishRows(txn, target[p], pin[p]) /\ txn' = cas'  BY <2>4 DEF CommitPublish
    <3>. QED  BY <3>2, <3>3 DEF Pins
  <2>. QED  BY <1>1, <2>2, <2>3, <2>4, RowsMove DEF PublicationStep
<1>2. ASSUME NEW p \in Procs, Collect(p) PROVE Pins'  BY <1>2, CollectorRows
<1>. QED  BY <1>1, <1>2, GcSteps

\* No file of a handle that may be used again is collected, and none appears.
LEMMA FlagsKept ==
    ASSUME DataOK, LockHeld, IdsOwned, PlansOK, CollectorLocks, DeletionProgress,
           FlagsTellTheTruth, [GcNext]_allVars
    PROVE  FlagsTellTheTruth'
<1>1. CASE PublicationStep  BY <1>1, FlagsStep DEF PublicationStep
<1>2. ASSUME NEW p \in Procs, Collect(p) PROVE FlagsTellTheTruth'
  <2>1. CollectorFrame(p)  BY <1>2, Framed
  <2>2. CollectorFiles(p)  BY <1>2, Spared
  <2>3. \A q \in Procs : Untouched(q) /\ gen[q] \in Gens /\ gen'[q] = gen[q] => Untouched(q)'
        BY <2>1, <2>2 DEF Untouched, CollectorFrame, CollectorFiles
  <2>4. pc'[p] \in GcPhases \cup {"idle"}  BY <2>1 DEF CollectorFrame
  <2>5. ASSUME NEW q \in Procs \ {p}
        PROVE  /\ pc'[q] = pc[q] /\ gen'[q] = gen[q] /\ mutated'[q] = mutated[q]
               /\ token'[q] = token[q] /\ (pc[q] # "idle" => gen[q] \in Gens)
               /\ gen[q] \in staging \ metaTemp => gen[q] \in staging' \ metaTemp'
        BY <2>1 DEF CollectorFrame, IdsOwned
  <2>6. \A q \in Procs \ {p} : pc[q] # "idle" =>
           /\ dbFile[gen[q]] = "absent" => dbFile'[gen[q]] = "absent"
           /\ metaFile[gen[q]] = "absent" => metaFile'[gen[q]] = "absent"
        BY <2>2, <2>5 DEF CollectorFiles
  <2>7. \A q \in Procs \ {p} : pc[q] # "idle" => (Untouched(q) => Untouched(q)')
        BY <2>3, <2>5
  <2> HIDE <1>2
  <2>. QED  BY <2>4, <2>5, <2>6, <2>7 DEF FlagsTellTheTruth, GcPhases, GcLockedPhases,
            DeletionPhases, ActivationPhases
<1>. QED  BY <1>1, <1>2, GcSteps

\* Power losses are counted.
LEMMA PowerCounted ==
    ASSUME DataOK, [Next]_vars
    PROVE  \/ budget'["powerLosses"] = budget["powerLosses"]
           \/ PowerLoss /\ budget'["powerLosses"] < budget["powerLosses"]
                        /\ budget'["powerLosses"] \in Nat
<1> USE DEF DataOK, Faults, Spend
<1>1. CASE UNCHANGED budget  BY <1>1
<1>2. CASE PowerLoss  BY <1>2 DEF PowerLoss
<1>3. CASE RemoveManifest  BY <1>3 DEF RemoveManifest
<1>4. ASSUME NEW p \in Procs, UseDedup(p) \/ DropTempAndStaging(p) \/ SyncMetadata(p)
      PROVE  budget'["powerLosses"] = budget["powerLosses"]
      BY <1>4 DEF UseDedup, DropTempAndStaging, SyncMetadata
<1>5. ASSUME NEW p \in Procs, CleanUpFailedRun(p) \/ Fail(p)
      PROVE  budget'["powerLosses"] = budget["powerLosses"]
      BY <1>5 DEF CleanUpFailedRun, Fail, FailBeforePublish, FailPromotion, FailPublish, Crash
<1>6. \/ UNCHANGED budget \/ PowerLoss \/ RemoveManifest
      \/ \E p \in Procs : \/ UseDedup(p) \/ DropTempAndStaging(p) \/ SyncMetadata(p)
                          \/ CleanUpFailedRun(p) \/ Fail(p)
      BY ZenonT(60) DEF Next, Reserve, Step, Prepublish, Backup, Prepare, ReadExpected,
         BeginPublish, MismatchPublish, BusyPublish, Promote, CopyToTemp, SyncTemp, LinkFinal,
         SyncGenerations, WriteMetadataTemp, LinkMetadata, Activate, RenameManifest,
         SyncManifest, CommitPublish, FinishRun, vars
<1>. QED  BY <1>1, <1>2, <1>3, <1>4, <1>5, <1>6

\* A manifest is replaced by a target that is on disk for good, or removed.
LEMMA ManifestMoves ==
    ASSUME PromotionProgress, IdsOwned, [Next]_vars
    PROVE  \/ manifest' = manifest
           \/ manifest' = None
           \/ manifest' \in Gens /\ OnDiskForGood(manifest')
              /\ UNCHANGED <<cas, txn, dbFile, metaFile, bytes>>
           \/ PowerLoss
<1>1. ASSUME NEW p \in Procs, RenameManifest(p)
      PROVE  /\ manifest' \in Gens /\ OnDiskForGood(manifest')
             /\ UNCHANGED <<cas, txn, dbFile, metaFile, bytes>>
      BY <1>1 DEF RenameManifest, PromotionProgress, IdsOwned, ActivationPhases, rowVars, fileVars
<1>2. ASSUME NEW p \in Procs,
             \/ BeginPublish(p) \/ CommitPublish(p) \/ CopyToTemp(p) \/ SyncTemp(p)
             \/ LinkFinal(p) \/ SyncGenerations(p) \/ LinkMetadata(p) \/ SyncMetadata(p)
             \/ FailPromotion(p) \/ FailPublish(p) \/ Crash(p)
      PROVE  manifest' = manifest
      BY <1>2 DEF BeginPublish, CommitPublish, CopyToTemp, SyncTemp, LinkFinal,
         SyncGenerations, LinkMetadata, SyncMetadata, FailPromotion, FailPublish, Crash,
         manifestVars
<1>3. RemoveManifest => manifest' = None  BY DEF RemoveManifest
<1>. QED  BY <1>1, <1>2, <1>3, PublicationMoves

\* What the manifest names or the catalog offers keeps the files it has on disk
\* for good: collections and publications look at both under the lock.
LEMMA NamedKept ==
    ASSUME Core, PlansOK, DeletionProgress, CollectorLocks, [GcNext]_allVars, NEW g \in Gens,
           g = manifest \/ cas.status[g] = "ACTIVE", OnDiskForGood(g)
    PROVE  OnDiskForGood(g)'
<1>1. CASE PublicationStep
  <2>1. g \in onDisk \/ cas.status[g] # "NONE"  BY DEF Core, ManifestKnown
  <2>. QED  BY <1>1, <2>1, PublicationFiles DEF PublicationStep, OnDiskForGood
<1>2. ASSUME NEW p \in Procs, Collect(p) PROVE OnDiskForGood(g)'
  <2>1. bytes' = bytes  BY <1>2, Framed DEF Core, CollectorFrame
  <2>2. CollectorFiles(p)  BY <1>2, Spared DEF Core
  <2>. QED  BY <2>1, <2>2 DEF OnDiskForGood, CollectorFiles
<1>. QED  BY <1>1, <1>2, GcSteps DEF Core

\* Until the power first fails, a generation is named only when its files are
\* on disk for good.
LEMMA ServedStep ==
    ASSUME Core, PlansOK, CollectorLocks, DeletionProgress, HistoryKept, Pins, ServedSoFar,
           [GcNext]_allVars
    PROVE  ServedSoFar'
<1> USE BoundsAssumption
<1>0. DataOK /\ LockHeld /\ IdsOwned /\ PromotionProgress /\ manifest \in onDisk
      BY DEF Core, ManifestKnown
<1>n. budget["powerLosses"] \in Nat  BY <1>0 DEF DataOK, Faults
<1>1. CASE PublicationStep
  <2>1. \/ budget'["powerLosses"] = budget["powerLosses"]
        \/ PowerLoss /\ budget'["powerLosses"] < budget["powerLosses"]
                     /\ budget'["powerLosses"] \in Nat
        BY <1>0, <1>1, PowerCounted DEF PublicationStep
  <2>2. budget'["powerLosses"] <= MaxPowerLosses  BY <1>n, <2>1 DEF ServedSoFar
  <2> SUFFICES ASSUME budget'["powerLosses"] = MaxPowerLosses, NEW g \in Gens,
                      \/ g = manifest' \/ cas'.status[g] = "ACTIVE"
                      \/ txn'.status[g] = "ACTIVE"
               PROVE  OnDiskForGood(g)'
      BY <2>2 DEF ServedSoFar
  <2>3. budget["powerLosses"] = MaxPowerLosses /\ ~PowerLoss
    <3>1. budget["powerLosses"] <= MaxPowerLosses  BY DEF ServedSoFar
    <3>2. PowerLoss => budget'["powerLosses"] < budget["powerLosses"]
          BY <1>0 DEF PowerLoss, Spend, DataOK, Faults
    <3>. QED  BY <1>n, <2>1, <3>1, <3>2
  <2>4. \A h \in Gens : h = manifest \/ cas.status[h] = "ACTIVE" \/ txn.status[h] = "ACTIVE" =>
           OnDiskForGood(h) /\ OnDiskForGood(h)'
    <3> SUFFICES ASSUME NEW h \in Gens,
                        h = manifest \/ cas.status[h] = "ACTIVE" \/ txn.status[h] = "ACTIVE"
                 PROVE  OnDiskForGood(h) /\ OnDiskForGood(h)'
        OBVIOUS
    <3>1. OnDiskForGood(h)  BY <2>3 DEF ServedSoFar
    <3>2. h \in onDisk \/ cas.status[h] # "NONE" \/ txn.status[h] # "NONE"  BY <1>0
    <3>. QED  BY <1>1, <3>1, <3>2, PublicationFiles DEF PublicationStep, OnDiskForGood
  <2>5. CASE g = manifest'
    <3>1. \/ manifest' = manifest
          \/ OnDiskForGood(manifest') /\ UNCHANGED <<dbFile, metaFile, bytes>>
          BY <1>0, <1>1, <2>3, <2>5, ManifestMoves, NoneAssumption DEF PublicationStep
    <3>. QED  BY <2>4, <2>5, <3>1 DEF OnDiskForGood
  <2>6. ASSUME NEW rows \in {cas', txn'}, rows.status[g] = "ACTIVE" PROVE OnDiskForGood(g)'
    <3>1. \/ rows.status[g] \in {cas.status[g], txn.status[g]}
          \/ g = manifest
          \/ OnDiskForGood(g) /\ UNCHANGED <<dbFile, metaFile, bytes>>
          BY <1>0, <1>1, PublicationStatuses DEF PublicationStep
    <3>. QED  BY <2>4, <2>6, <3>1 DEF OnDiskForGood
  <2>. QED  BY <2>5, <2>6
<1>2. ASSUME NEW p \in Procs, Collect(p) PROVE ServedSoFar'
  <2>1. CollectorFrame(p)  BY <1>0, <1>2, Framed
  <2>2. CollectorMoves(p)  BY <1>0, <1>2, CollectorRows
  <2>3. budget'["powerLosses"] = budget["powerLosses"] /\ manifest' = manifest
        BY <2>1 DEF CollectorFrame
  <2> SUFFICES ASSUME budget["powerLosses"] = MaxPowerLosses, NEW g \in Gens,
                      \/ g = manifest \/ cas'.status[g] = "ACTIVE"
                      \/ txn'.status[g] = "ACTIVE"
               PROVE  OnDiskForGood(g)'
      BY <2>3 DEF ServedSoFar
  <2>4. g = manifest \/ cas.status[g] = "ACTIVE" \/ txn.status[g] = "ACTIVE"
        BY <2>2 DEF CollectorMoves
  <2>5. OnDiskForGood(g)  BY <2>4 DEF ServedSoFar
  <2>6. UNCHANGED <<dbFile, metaFile, bytes>> \/ txn = cas  BY <2>1 DEF CollectorFrame
  <2>7. txn = cas => OnDiskForGood(g)'
    <3>1. CollectorFiles(p) /\ bytes' = bytes  BY <1>0, <1>2, <2>1, Spared DEF CollectorFrame
    <3>. QED  BY <2>4, <2>5, <3>1 DEF OnDiskForGood, CollectorFiles
  <2>. QED  BY <2>5, <2>6, <2>7 DEF OnDiskForGood
<1>. QED  BY <1>0, <1>1, <1>2, GcSteps

-----------------------------------------------------------------------------

\* The empty store, before any collection, satisfies the invariant.
LEMMA GcInitially == Init /\ GcInit => GcInv
<1> SUFFICES ASSUME Init, GcInit PROVE GcInv  OBVIOUS
<1>1. IInv /\ HistoryKept /\ FlagsTellTheTruth  BY Initially, CatalogInitially
<1>2. Core  BY <1>1 DEF IInv
<1>3. PlansOK
      BY DEF Init, GcInit, PlansOK, Phases, EmptyPlan, NoTodo, GenOrNone
<1>4. CollectorLocks /\ DeletionProgress
      BY DEF Init, CollectorLocks, DeletionProgress, DeletionAt, GcLockedPhases, DeletionPhases
<1>5. EmptyRows.status = [g \in Gens |-> "NONE"]  BY DEF EmptyRows
<1>6. RemainsOnDisk /\ Pins  BY <1>5, EmptyExplained DEF Init, RemainsOnDisk, Pins
<1>7. ServedSoFar
      BY <1>5, NoneAssumption, BoundsAssumption DEF Init, ServedSoFar
<1>. QED  BY <1>1, <1>2, <1>3, <1>4, <1>6, <1>7 DEF GcInv

\* Every step, whoever takes it, keeps the invariant.
LEMMA GcInductive == GcInv /\ [GcNext]_allVars => GcInv'
<1> SUFFICES ASSUME GcInv, [GcNext]_allVars PROVE GcInv'  OBVIOUS
<1>1. /\ Core /\ PlansOK /\ CollectorLocks /\ DeletionProgress /\ RemainsOnDisk
      /\ Pins /\ HistoryKept /\ FlagsTellTheTruth /\ ServedSoFar
      /\ DataOK /\ LockHeld /\ IdsOwned
      BY DEF GcInv, Core
<1>2. PublicationStep \/ \E p \in Procs : Collect(p)  BY <1>1, GcSteps
<1>3. Core'  BY <1>1, <1>2, CoreStep, CollectorCore DEF PublicationStep
<1>4. HistoryKept'  BY <1>1, <1>2, HistoryStep, CollectorRows DEF PublicationStep
<1>5. PlansOK' /\ CollectorLocks' /\ DeletionProgress'
      BY <1>1, PlansStep, LocksStep, DeletionStep
<1>6. RemainsOnDisk' /\ Pins' /\ FlagsTellTheTruth' /\ ServedSoFar'
      BY <1>1, RemainsStep, PinsStep, FlagsKept, ServedStep
<1>. QED  BY <1>3, <1>4, <1>5, <1>6 DEF GcInv

\* The invariant holds in every reachable state of the store with its collector.
THEOREM GcInvariance == GcSpec => []GcInv
BY GcInitially, GcInductive, PTL DEF GcSpec

\* Every variable of the collector keeps its type.
THEOREM GcTypeCorrect == GcSpec => []GcTypeOK
<1>1. GcInv => GcTypeOK  BY DEF GcInv, Core, DataOK, PlansOK, GcTypeOK
<1>. QED  BY <1>1, GcInvariance, PTL

\* A pinned generation is never marked or deleted, not even by a collection
\* planned before the pin was made.
THEOREM PinsAreKept == GcSpec => []PinnedIsKept
<1>1. GcInv => PinnedIsKept  BY DEF GcInv, Pins, PinsHold, PinnedIsKept
<1>. QED  BY <1>1, GcInvariance, PTL

\* Whenever the power fails in a deletion, a database that is still there has
\* its metadata: the unlinks and fsyncs are in the order that makes it so.
THEOREM ProofOutlives == GcSpec => []MetadataOutlivesDatabase
<1>1. GcInv => MetadataOutlivesDatabase  BY DEF GcInv, RemainsOnDisk, MetadataOutlivesDatabase
<1>. QED  BY <1>1, GcInvariance, PTL

\* No crash or power loss brings back a file of a generation recorded as DELETED.
THEOREM DeletedStays == GcSpec => []DeletedIsGone
<1>1. GcInv => DeletedIsGone  BY DEF GcInv, RemainsOnDisk, DeletedIsGone
<1>. QED  BY <1>1, GcInvariance, PTL

\* The collector takes nothing from a handle given back as PREPARED.
THEOREM HandlesSurviveCollection == GcSpec => []PreparedIsUntouched
<1>1. GcInv => PreparedIsUntouched
      BY DEF GcInv, FlagsTellTheTruth, Untouched, PreparedIsUntouched
<1>. QED  BY <1>1, GcInvariance, PTL

\* The collector's history rows leave the publication history an account of the
\* catalog, and it acknowledges nothing away.
THEOREM RecordsSurviveCollection == GcSpec => [](HistoryExplainsActive /\ AcknowledgedSurvives)
<1>1. GcInv => HistoryExplainsActive /\ AcknowledgedSurvives
      BY DEF GcInv, Core, HistoryKept, HistoryExplainsActive
<1>. QED  BY <1>1, GcInvariance, PTL

\* Until the power first fails, the manifest names, and the catalog offers, only
\* generations whose files are all on disk, however many processes collect.
THEOREM ServedUntilPowerFails ==
    GcSpec => [](budget["powerLosses"] = MaxPowerLosses =>
                    \A g \in Gens : g = manifest \/ cas.status[g] = "ACTIVE" => OnDiskForGood(g))
<1>1. GcInv => (budget["powerLosses"] = MaxPowerLosses =>
                  \A g \in Gens : g = manifest \/ cas.status[g] = "ACTIVE" => OnDiskForGood(g))
      BY DEF GcInv, ServedSoFar
<1>. QED  BY <1>1, GcInvariance, PTL

\* No step takes a file that is on disk for good from the generation readers are
\* sent to, or from one the catalog offers.
THEOREM NamedStays == GcSpec => NamedIsKept
<1>1. GcInv /\ [GcNext]_allVars =>
         [\A g \in Gens : (g = manifest \/ cas.status[g] = "ACTIVE") /\ OnDiskForGood(g)
                          => OnDiskForGood(g)']_allVars
      BY NamedKept DEF GcInv
<1>. QED  BY <1>1, GcInvariance, PTL DEF GcSpec, NamedIsKept

\* The optimistic check loses no update among processes that also collect.
THEOREM NothingLostWithCollector == GcSpec => NoLostUpdate
<1>1. ASSUME GcInv, [GcNext]_allVars
      PROVE  [\A p \in Procs : pc[p] = "candidate" /\ pc'[p] = "renamed"
                               => manifest = expected[p]]_vars
  <2> SUFFICES ASSUME NEW p \in Procs, pc[p] = "candidate" PROVE manifest = expected[p]
      OBVIOUS
  <2>. QED  BY <1>1 DEF GcInv, Core, ManifestKnown, UnrenamedPhases, LockedPhases
<1>. QED  BY <1>1, GcInvariance, PTL DEF GcSpec, NoLostUpdate

-----------------------------------------------------------------------------
(* The promise of the store, with the collector at work.                    *)

\* Collections show nothing, persist nothing and acknowledge nothing.
LEMMA CollectedStepByName ==
    ASSUME GcInv, [GcNext]_allVars
    PROVE  [ByName!Next]_ByName!vars
<1>1. CASE PublicationStep
      BY <1>1, StepByName DEF GcInv, PublicationStep
<1>2. ASSUME NEW p \in Procs, Collect(p) PROVE UNCHANGED ByName!vars
  <2>1. UNCHANGED <<manifest, onDisk, acked, sinceAck, content>>
        BY <1>2, Framed DEF GcInv, Core, CollectorFrame
  <2>. QED  BY <2>1 DEF ByName!vars, Name
<1>. QED  BY <1>1, <1>2, GcSteps DEF GcInv, Core

\* By names the promise is kept for good: what a manifest named, what the disk may
\* bring back and what was acknowledged change only as publications change them,
\* whatever is collected, recovered, crashes or loses power meanwhile.
THEOREM CollectedKeepsNames == GcSpec => ByName!Spec
<1>1. Init => ByName!Init  BY DEF Init, ByName!Init, Name
<1>. QED  BY <1>1, CollectedStepByName, GcInvariance, PTL DEF GcSpec, ByName!Spec

\* Until the power first fails a reader also finds the snapshot that is named.
ShownByName == budget["powerLosses"] = MaxPowerLosses => Snapshot(manifest) = Name(manifest)

LEMMA Shown == GcInv => ShownByName
<1> SUFFICES ASSUME GcInv, budget["powerLosses"] = MaxPowerLosses
             PROVE  Snapshot(manifest) = Name(manifest)
    BY DEF ShownByName
<1>1. manifest \in Gens \cup {None}  BY DEF GcInv, Core, DataOK, GenOrNone
<1>2. manifest # None => OnDiskForGood(manifest)  BY <1>1 DEF GcInv, ServedSoFar
<1>. QED  BY <1>2 DEF Snapshot, Name, Complete, Visible, OnDiskForGood

LEMMA PowerStillOn ==
    ASSUME GcInv, [GcNext]_allVars, budget'["powerLosses"] = MaxPowerLosses
    PROVE  budget["powerLosses"] = MaxPowerLosses
<1>1. DataOK /\ PlansOK /\ CollectorLocks /\ budget["powerLosses"] <= MaxPowerLosses
      BY DEF GcInv, Core, ServedSoFar
<1>2. budget["powerLosses"] \in Nat /\ MaxPowerLosses \in Nat
      BY <1>1, BoundsAssumption DEF DataOK, Faults
<1>3. CASE PublicationStep
      BY <1>1, <1>2, <1>3, PowerCounted DEF PublicationStep
<1>4. CASE \E p \in Procs : Collect(p)
      BY <1>1, <1>4, Framed DEF CollectorFrame
<1>. QED  BY <1>1, <1>3, <1>4, GcSteps

\* The collector is not seen: with retention, deletion and orphan recovery running
\* in any number of processes, and any of them killed at any point, readers are
\* shown whole snapshots only, the one published last, until the power fails
\* (PromiseUntilPowerFails).
THEOREM CollectedKeepsPromise == GcSpec => PromiseUntilPowerFails
<1>1. Init => Served!Init  BY DEF Init, Served!Init, Snapshot, Name
<1>2. ASSUME GcInv, ShownByName, ShownByName', [GcNext]_allVars,
             budget'["powerLosses"] = MaxPowerLosses
      PROVE  [Served!Next]_Served!vars
  <2> DEFINE named == Name(manifest)
  <2>1. Snapshot(manifest) = named /\ Snapshot(manifest)' = named'
        BY <1>2, PowerStillOn DEF ShownByName
  <2>2. [ByName!Next]_ByName!vars  BY <1>2, CollectedStepByName
  <2>. QED
       BY <2>1, <2>2 DEF ByName!Next, ByName!vars, ByName!Show, ByName!Persist,
          ByName!Acknowledge, ByName!Revert, ByName!SnapshotOrNothing, Served!Next, Served!vars,
          Served!Show, Served!Persist, Served!Acknowledge, Served!Revert, Served!SnapshotOrNothing
<1>3. GcInv /\ ShownByName /\ ShownByName' /\ [GcNext]_allVars =>
         [budget'["powerLosses"] = MaxPowerLosses => [Served!Next]_Served!vars]_allVars
      BY <1>2
<1>. QED  BY <1>1, <1>3, Shown, GcInvariance, PTL DEF GcSpec, PromiseUntilPowerFails

=============================================================================
