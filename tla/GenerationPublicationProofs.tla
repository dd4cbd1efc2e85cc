-------------------- MODULE GenerationPublicationProofs --------------------
(***************************************************************************)
(* Theorems about GenerationPublication, for every number of processes,    *)
(* generations and contents and without the bounds of the runs: the type   *)
(* invariant, that what the manifest names and what the catalog offers are *)
(* on disk for good, that an acknowledged publication is not taken back,   *)
(* that no publication is overwritten unseen, that the catalog holds every *)
(* content once and is explained by the history, that a handle given back  *)
(* is good for another try, and that it implements SnapshotStore.          *)
(***************************************************************************)
EXTENDS GenerationPublication, CasStoreProofs

(* Where a run is, as far as its generation's files are concerned.         *)

\* The manifest does not name the run's own generation yet, and no row does.
UnpublishedPhases == {"reserved", "populated", "prepared", "expecting", "locked", "copied",
                      "tempSynced", "linked", "promoted", "cleaned", "metaWritten", "metaLinked"}
\* The run's own database is on its way to generations/.
PromotionPhases == {"copied", "tempSynced", "linked", "promoted", "cleaned", "metaWritten",
                    "metaLinked"}
\* The run has a target whose files are all on disk.
ActivationPhases == {"candidate", "renamed", "visible"}
\* The run holds the lock and has not renamed the manifest.
UnrenamedPhases == LockedPhases \ {"renamed", "visible"}

-----------------------------------------------------------------------------
(* The inductive invariant.  ManifestTargetSurvives is not inductive: it   *)
(* needs to know what each run has synced when it renames the manifest,    *)
(* that a run works on files nothing refers to yet, that the lock keeps    *)
(* others from those files, and that a generation taken from the catalog   *)
(* is complete.                                                            *)

\* The process that works inside the transaction is the one that holds it.
LockHeld == \A p \in Procs : pc[p] \in LockedPhases => lock = p

\* A run has an id, no two runs have the same one, and a target when it
\* needs one.
IdsOwned ==
    /\ \A p \in Procs : pc[p] # "idle" => gen[p] \in Gens
    /\ \A p, q \in Procs : p # q /\ gen[p] = gen[q] => gen[p] = None
    /\ \A p \in Procs : pc[p] \in PromotionPhases => target[p] = gen[p]
    /\ \A p \in Procs : pc[p] \in ActivationPhases \cup {"published"} => target[p] \in Gens

\* Nothing refers to the generation of a run that has not published it.
UnpublishedIsPrivate ==
    \A p \in Procs : pc[p] \in UnpublishedPhases =>
        /\ gen[p] \notin onDisk
        /\ cas.status[gen[p]] = "NONE" /\ txn.status[gen[p]] = "NONE"
        /\ gen[p] # acked /\ gen[p] \notin sinceAck
        /\ \A q \in Procs \ {p} : target[q] # gen[p]

\* What a run has put on disk by the time it reaches a phase.
PromotionProgress ==
    \A p \in Procs :
        /\ pc[p] \in PromotionPhases \ {"copied"} => bytes[gen[p]] = "durable"
        /\ pc[p] = "linked" => Visible(dbFile, gen[p])
        /\ pc[p] \in {"promoted", "cleaned", "metaWritten", "metaLinked"}
              => dbFile[gen[p]] = "durable"
        /\ pc[p] = "metaLinked" => Visible(metaFile, gen[p])
        /\ pc[p] \in ActivationPhases => OnDiskForGood(target[p])

\* The files of a generation that a row or a manifest refers to are not on their
\* way to the disk any more: what is there stays there.
NamedIsSettled ==
    \A g \in Gens : cas.status[g] # "NONE" \/ txn.status[g] # "NONE" \/ g \in onDisk
                    => dbFile[g] # "linked" /\ metaFile[g] # "linked" /\ bytes[g] = "durable"

\* As long as nothing is deleted, all of it is there.
NamedIsDurable ==
    \A g \in Gens : cas.status[g] = "ACTIVE" \/ txn.status[g] = "ACTIVE" \/ g \in onDisk
                    => OnDiskForGood(g)

\* The manifest as the lock holder knows it.
ManifestKnown ==
    /\ manifest \in onDisk
    /\ \A p \in Procs : pc[p] \in UnrenamedPhases => manifest = expected[p]
    /\ \A p \in Procs : pc[p] = "visible" => onDisk = {manifest}

\* What a publication keeps true whatever else happens to the store: the
\* collector of GenerationGc keeps it true as well.
Core == DataOK /\ LockHeld /\ IdsOwned /\ UnpublishedIsPrivate /\ PromotionProgress
        /\ NamedIsSettled /\ ManifestKnown /\ AcknowledgedSurvives

IInv == TypeOK /\ Core /\ NamedIsDurable

-----------------------------------------------------------------------------
(* What the two steps that compute rows do to them.                        *)

\* The rows a publisher starts from: a generation's status is the committed
\* one, unless the manifest names it; the manifest is what the caller expected.
LEMMA BeginRows ==
    ASSUME DataOK, NEW p \in Procs, BeginPublish(p)
    PROVE  /\ ReconciledRows(cas, manifest, txn')
           /\ txn' \in CasRows
           /\ \A g \in Gens \ {manifest} : txn'.status[g] = cas.status[g]
           /\ expected[p] = manifest
<1>1. cas \in CasRows /\ manifest \in GenOrNone /\ metaPin \in [Gens -> BOOLEAN]
      BY DEF DataOK
<1>2. (manifest # None /\ metaPin[manifest]) \in BOOLEAN  OBVIOUS
<1>3. ReconciledRows(cas, manifest, Reconciled)
      BY <1>1, <1>2, ReconcileType, ZenonT(60) DEF Reconciled
<1>4. txn' = Reconciled /\ expected[p] = Reconciled.active  BY DEF BeginPublish
<1> HIDE DEF Reconciled
<1>. QED  BY <1>3, <1>4 DEF ReconciledRows

\* The rows a publication commits.
LEMMA CommitRows ==
    ASSUME DataOK, IdsOwned, NEW p \in Procs, CommitPublish(p)
    PROVE  /\ PublishedRows(txn, target[p], pin[p], cas')
           /\ cas' \in CasRows /\ txn' = cas'
           /\ cas'.status = [txn.status EXCEPT ![target[p]] = "ACTIVE"]
           /\ \A g \in Gens \ {target[p]} : cas'.status[g] = txn.status[g]
           /\ target[p] \in Gens
<1>1. txn \in CasRows /\ target[p] \in Gens /\ pin[p] \in BOOLEAN
      BY DEF DataOK, IdsOwned, CommitPublish, ActivationPhases
<1>2. txn.status \in [Gens -> Statuses]  BY <1>1 DEF CasRows
<1>3. PublishedRows(txn, target[p], pin[p], PublishRows(txn, target[p], pin[p]))
      BY <1>1, PublishRowsType
<1>4. cas' = PublishRows(txn, target[p], pin[p]) /\ txn' = cas'  BY DEF CommitPublish
<1>5. PublishedRows(txn, target[p], pin[p], cas')  BY <1>3, <1>4
<1>6. cas' \in CasRows /\ cas'.status = [txn.status EXCEPT ![target[p]] = "ACTIVE"]
      BY <1>5 DEF PublishedRows
<1>. QED  BY <1>1, <1>2, <1>4, <1>5, <1>6

\* Rows only hold ids of generations.
LEMMA RowsType ==
    ASSUME NEW rows \in CasRows
    PROVE  rows.active \in GenOrNone /\ rows.status \in [Gens -> Statuses]
BY DEF CasRows

-----------------------------------------------------------------------------
(* Every part of the invariant is kept by every step.                      *)

\* A step keeps every variable in its type.
LEMMA TypeStep ==
    ASSUME DataOK, IdsOwned,
           [Next]_vars
    PROVE  DataOK'
<1> USE NoneAssumption, ProcsAssumption
        DEF DataOK, IdsOwned, FileStates, Phases, Flags, Tokens, Faults,
            LockedPhases, PromotionPhases, ActivationPhases, GenOrNone,
            rowVars, manifestVars, fileVars, tempVars, runVars
<1>1. ASSUME NEW p \in Procs, Reserve(p) PROVE DataOK'
      BY <1>1 DEF Reserve, Fresh, Goto
<1>2. ASSUME NEW p \in Procs, Prepublish(p) PROVE DataOK'
  <2>1. CASE Backup(p)
        BY <2>1 DEF Backup, Goto
  <2>2. CASE Prepare(p)
        BY <2>2 DEF Prepare, Goto
  <2>3. CASE ReadExpected(p)
        BY <2>3, RowsType DEF ReadExpected, Goto
  <2>4. CASE BeginPublish(p)
    <3>1. txn' \in CasRows  BY <2>4, BeginRows
    <3>2. pin' \in [Procs -> BOOLEAN]  BY <2>4, PinAssumption DEF BeginPublish
    <3>3. token' \in [Procs -> Tokens]  BY <2>4 DEF BeginPublish
    <3>4. DOMAIN pc' = Procs  BY <2>4 DEF BeginPublish, Goto
    <3>5. mutated' \in [Procs -> SUBSET Flags]  BY <2>4 DEF BeginPublish
    <3>. QED  BY <2>4, <3>1, <3>2, <3>3, <3>4, <3>5 DEF BeginPublish
  <2>5. CASE MismatchPublish(p)
        BY <2>5 DEF MismatchPublish, Goto
  <2>6. CASE BusyPublish(p)
        BY <2>6 DEF BusyPublish, Goto
  <2>. QED  BY <1>2, <2>1, <2>2, <2>3, <2>4, <2>5, <2>6 DEF Prepublish
<1>3. ASSUME NEW p \in Procs, Promote(p) PROVE DataOK'
  <2>1. CASE UseDedup(p)
        BY <2>1 DEF UseDedup, DedupCandidates, Goto, Flag, Spend
  <2>5. CASE CopyToTemp(p)
        BY <2>5 DEF CopyToTemp, Goto, Flag
  <2>6. CASE SyncTemp(p)
        BY <2>6 DEF SyncTemp, Goto
  <2>2. CASE LinkFinal(p) \/ SyncGenerations(p)
        BY <2>2 DEF LinkFinal, SyncGenerations, Goto, Flag, Spend, Synced
  <2>3. CASE DropTempAndStaging(p) \/ WriteMetadataTemp(p)
        BY <2>3 DEF DropTempAndStaging, WriteMetadataTemp, Goto, Flag, Spend
  <2>4. CASE LinkMetadata(p)
        BY <2>4 DEF LinkMetadata, Goto
  <2>7. CASE SyncMetadata(p)
        BY <2>7 DEF SyncMetadata, Goto, Flag, Spend, Synced
  <2>. QED  BY <1>3, <2>1, <2>2, <2>3, <2>4, <2>5, <2>6, <2>7 DEF Promote
<1>4. ASSUME NEW p \in Procs, Activate(p) PROVE DataOK'
  <2>1. CASE RenameManifest(p)
        BY <2>1 DEF RenameManifest, Goto
  <2>2. CASE SyncManifest(p)
        BY <2>2 DEF SyncManifest, Goto, Flag
  <2>3. CASE CommitPublish(p)
        BY <2>3, CommitRows DEF CommitPublish, Goto
  <2>. QED  BY <1>4, <2>1, <2>2, <2>3 DEF Activate
<1>5. ASSUME NEW p \in Procs, CleanUpFailedRun(p) \/ FinishRun(p) PROVE DataOK'
  <2>1. CASE CleanUpFailedRun(p)
        BY <2>1 DEF CleanUpFailedRun, EndRun, Goto, Spend
  <2>2. CASE FinishRun(p)
        BY <2>2 DEF FinishRun, EndRun, Goto
  <2>. QED  BY <1>5, <2>1, <2>2
<1>6. ASSUME NEW p \in Procs, Fail(p) PROVE DataOK'
  <2>1. CASE FailBeforePublish(p)
        BY <2>1 DEF FailBeforePublish, Goto, Spend
  <2>2. CASE FailPromotion(p)
        BY <2>2 DEF FailPromotion, Abort, Goto, Spend
  <2>3. CASE FailPublish(p)
        BY <2>3 DEF FailPublish, Abort, Goto, Spend
  <2>4. CASE Crash(p)
        BY <2>4 DEF Crash, EndRun, Goto, Spend
  <2>. QED  BY <1>6, <2>1, <2>2, <2>3, <2>4 DEF Fail
<1>7. CASE PowerLoss  BY <1>7 DEF PowerLoss, Spend, AfterPowerLoss, Volatile
<1>8. CASE RemoveManifest  BY <1>8 DEF RemoveManifest, Spend
<1>9. CASE UNCHANGED vars  BY <1>9 DEF vars
<1>. QED  BY <1>1, <1>2, <1>3, <1>4, <1>5, <1>6, <1>7, <1>8, <1>9 DEF Next, Step

\* A step moves a process to a place of publishGenerationSnapshot.
LEMMA PhaseStep ==
    ASSUME NEW places, Phases \subseteq places, pc \in [Procs -> places], [Next]_vars
    PROVE  pc' \in [Procs -> places]
<1> USE DEF Phases, LockedPhases, Goto, EndRun, Abort
<1>1. ASSUME NEW p \in Procs, Reserve(p) \/ Prepublish(p) PROVE pc' \in [Procs -> places]
      BY <1>1 DEF Reserve, Prepublish, Backup, Prepare, ReadExpected, BeginPublish,
             MismatchPublish, BusyPublish
<1>2. ASSUME NEW p \in Procs, Promote(p) PROVE pc' \in [Procs -> places]
      BY <1>2 DEF Promote, UseDedup, CopyToTemp, SyncTemp, LinkFinal, SyncGenerations,
             DropTempAndStaging, WriteMetadataTemp, LinkMetadata, SyncMetadata
<1>3. ASSUME NEW p \in Procs, Activate(p) PROVE pc' \in [Procs -> places]
      BY <1>3 DEF Activate, RenameManifest, SyncManifest, CommitPublish
<1>4. ASSUME NEW p \in Procs, CleanUpFailedRun(p) \/ FinishRun(p) PROVE pc' \in [Procs -> places]
      BY <1>4 DEF CleanUpFailedRun, FinishRun
<1>5. ASSUME NEW p \in Procs, Fail(p) PROVE pc' \in [Procs -> places]
      BY <1>5 DEF Fail, FailBeforePublish, FailPromotion, FailPublish, Crash
<1>6. CASE PowerLoss \/ RemoveManifest \/ UNCHANGED vars
      BY <1>6 DEF PowerLoss, RemoveManifest, vars
<1>. QED  BY <1>1, <1>2, <1>3, <1>4, <1>5, <1>6 DEF Next, Step

\* A step leaves at most one process inside the transaction: BEGIN IMMEDIATE
\* waits for the lock, and every way out of the transaction gives it back.
LEMMA LockStep ==
    ASSUME DataOK, LockHeld,
           [Next]_vars
    PROVE  LockHeld'
<1> USE NoneAssumption, ProcsAssumption
        DEF DataOK, LockHeld,
            LockedPhases,
            rowVars, manifestVars, fileVars, tempVars, runVars
<1>1. ASSUME NEW p \in Procs, Reserve(p) PROVE LockHeld'
      BY <1>1 DEF Reserve, Fresh, Goto
<1>2. ASSUME NEW p \in Procs, Prepublish(p) PROVE LockHeld'
      BY <1>2 DEF Prepublish, Backup, Prepare, ReadExpected, BeginPublish,
             MismatchPublish, BusyPublish, Goto
<1>3. ASSUME NEW p \in Procs, Promote(p) PROVE LockHeld'
      BY <1>3 DEF Promote, UseDedup, DedupCandidates, CopyToTemp, SyncTemp, LinkFinal,
             SyncGenerations, DropTempAndStaging, WriteMetadataTemp, LinkMetadata, SyncMetadata,
             Goto, Flag, Spend, Synced
<1>4. ASSUME NEW p \in Procs, Activate(p) PROVE LockHeld'
      BY <1>4 DEF Activate, RenameManifest, SyncManifest, CommitPublish, Goto, Flag
<1>5. ASSUME NEW p \in Procs, CleanUpFailedRun(p) \/ FinishRun(p) PROVE LockHeld'
      BY <1>5 DEF CleanUpFailedRun, FinishRun, EndRun, Goto, Spend
<1>6. ASSUME NEW p \in Procs, Fail(p) PROVE LockHeld'
      BY <1>6 DEF Fail, FailBeforePublish, FailPromotion, FailPublish, Crash, Abort, EndRun,
             Goto, Spend
<1>7. CASE PowerLoss  BY <1>7 DEF PowerLoss, Spend, AfterPowerLoss, Volatile
<1>8. CASE RemoveManifest  BY <1>8 DEF RemoveManifest, Spend
<1>9. CASE UNCHANGED vars  BY <1>9 DEF vars
<1>. QED  BY <1>1, <1>2, <1>3, <1>4, <1>5, <1>6, <1>7, <1>8, <1>9 DEF Next, Step

\* A step keeps ids apart: randomUUID returns a fresh one, and a run gives its
\* own up only when it ends.
LEMMA IdsStep ==
    ASSUME DataOK, IdsOwned, LockHeld,
           [Next]_vars
    PROVE  IdsOwned'
<1> USE NoneAssumption, ProcsAssumption
        DEF DataOK, IdsOwned, LockHeld,
            LockedPhases, PromotionPhases, ActivationPhases, GenOrNone,
            rowVars, manifestVars, fileVars, tempVars, runVars
<1>1. ASSUME NEW p \in Procs, Reserve(p) PROVE IdsOwned'
      BY <1>1 DEF Reserve, Fresh, Goto
<1>2. ASSUME NEW p \in Procs, Prepublish(p) PROVE IdsOwned'
      BY <1>2 DEF Prepublish, Backup, Prepare, ReadExpected, BeginPublish,
             MismatchPublish, BusyPublish, Goto
<1>3. ASSUME NEW p \in Procs, Promote(p) PROVE IdsOwned'
      BY <1>3 DEF Promote, UseDedup, DedupCandidates, CopyToTemp, SyncTemp, LinkFinal,
             SyncGenerations, DropTempAndStaging, WriteMetadataTemp, LinkMetadata, SyncMetadata,
             Goto, Flag, Spend, Synced
<1>4. ASSUME NEW p \in Procs, Activate(p) PROVE IdsOwned'
      BY <1>4 DEF Activate, RenameManifest, SyncManifest, CommitPublish, Goto, Flag
<1>5. ASSUME NEW p \in Procs, CleanUpFailedRun(p) \/ FinishRun(p) PROVE IdsOwned'
  <2>1. /\ pc' = [pc EXCEPT ![p] = "idle"] /\ gen' = [gen EXCEPT ![p] = None]
        /\ target' = [target EXCEPT ![p] = None]
        BY ONLY <1>5 DEF CleanUpFailedRun, FinishRun, EndRun, Goto
  <2>2. \A q \in Procs : q # p => pc'[q] = pc[q] /\ gen'[q] = gen[q] /\ target'[q] = target[q]
        BY <2>1
  <2>3. pc'[p] = "idle" /\ gen'[p] = None  BY <2>1
  <2>4. \A q \in Procs : pc'[q] # "idle" => gen'[q] \in Gens
        BY ONLY <2>2, <2>3, IdsOwned DEF IdsOwned
  <2>5. \A q, r \in Procs : q # r /\ gen'[q] = gen'[r] => gen'[q] = None
        BY ONLY <2>2, <2>3, IdsOwned DEF IdsOwned
  <2>6. \A q \in Procs : pc'[q] \in PromotionPhases => target'[q] = gen'[q]
        BY ONLY <2>2, <2>3, IdsOwned DEF IdsOwned, PromotionPhases
  <2>7. \A q \in Procs : pc'[q] \in ActivationPhases \cup {"published"} => target'[q] \in Gens
        BY ONLY <2>2, <2>3, IdsOwned DEF IdsOwned, ActivationPhases
  <2>. QED  BY ONLY <2>4, <2>5, <2>6, <2>7, Zenon DEF IdsOwned
<1>6. ASSUME NEW p \in Procs, Fail(p) PROVE IdsOwned'
      BY <1>6 DEF Fail, FailBeforePublish, FailPromotion, FailPublish, Crash, Abort, EndRun,
             Goto, Spend
<1>7. CASE PowerLoss  BY <1>7 DEF PowerLoss, Spend, AfterPowerLoss, Volatile
<1>8. CASE RemoveManifest  BY <1>8 DEF RemoveManifest, Spend
<1>9. CASE UNCHANGED vars  BY <1>9 DEF vars
<1>. QED  BY <1>1, <1>2, <1>3, <1>4, <1>5, <1>6, <1>7, <1>8, <1>9 DEF Next, Step

\* A step of another run never comes to name the generation a run has not
\* published: it publishes its own, or one the catalog already has.
LEMMA PrivateStep ==
    ASSUME DataOK, LockHeld, IdsOwned, UnpublishedIsPrivate, ManifestKnown,
           [Next]_vars
    PROVE  UnpublishedIsPrivate'
<1> USE NoneAssumption, ProcsAssumption
        DEF DataOK, LockHeld, IdsOwned, UnpublishedIsPrivate, ManifestKnown,
            LockedPhases, UnpublishedPhases, PromotionPhases, ActivationPhases, GenOrNone,
            rowVars, manifestVars, fileVars, tempVars, runVars
<1>1. ASSUME NEW p \in Procs, Reserve(p) PROVE UnpublishedIsPrivate'
      BY <1>1 DEF Reserve, Fresh, Goto
<1>2. ASSUME NEW p \in Procs, Prepublish(p) PROVE UnpublishedIsPrivate'
  <2>1. CASE Backup(p)
        BY <2>1 DEF Backup, Goto
  <2>2. CASE Prepare(p)
        BY <2>2 DEF Prepare, Goto
  <2>3. CASE ReadExpected(p)
        BY <2>3 DEF ReadExpected, Goto
  <2>4. CASE BeginPublish(p)
    <3>1. \A g \in Gens \ {manifest} : txn'.status[g] = cas.status[g]  BY <2>4, BeginRows
    <3> SUFFICES ASSUME NEW q \in Procs, pc'[q] \in UnpublishedPhases
                 PROVE  /\ gen'[q] \notin onDisk'
                        /\ cas'.status[gen'[q]] = "NONE" /\ txn'.status[gen'[q]] = "NONE"
                        /\ gen'[q] # acked' /\ gen'[q] \notin sinceAck'
                        /\ \A r \in Procs \ {q} : target'[r] # gen'[q]
        OBVIOUS
    <3>2. pc[q] \in UnpublishedPhases /\ gen[q] \in Gens  BY <2>4 DEF BeginPublish, Goto
    <3>3. txn'.status[gen[q]] = "NONE"  BY <3>1, <3>2
    <3>. QED  BY <2>4, <3>2, <3>3 DEF BeginPublish
  <2>5. CASE MismatchPublish(p)
        BY <2>5 DEF MismatchPublish, Goto
  <2>6. CASE BusyPublish(p)
        BY <2>6 DEF BusyPublish, Goto
  <2>. QED  BY <1>2, <2>1, <2>2, <2>3, <2>4, <2>5, <2>6 DEF Prepublish
<1>3. ASSUME NEW p \in Procs, Promote(p) PROVE UnpublishedIsPrivate'
      BY <1>3 DEF Promote, UseDedup, DedupCandidates, CopyToTemp, SyncTemp, LinkFinal,
             SyncGenerations, DropTempAndStaging, WriteMetadataTemp, LinkMetadata, SyncMetadata,
             Goto, Flag, Spend, Synced
<1>4. ASSUME NEW p \in Procs, Activate(p) PROVE UnpublishedIsPrivate'
  <2>1. CASE RenameManifest(p)
        BY <2>1 DEF RenameManifest, Goto
  <2>2. CASE SyncManifest(p)
        BY <2>2 DEF SyncManifest, Goto, Flag
  <2>3. CASE CommitPublish(p)
    <3> SUFFICES ASSUME NEW q \in Procs, pc'[q] \in UnpublishedPhases
                 PROVE  /\ gen'[q] \notin onDisk'
                        /\ cas'.status[gen'[q]] = "NONE" /\ txn'.status[gen'[q]] = "NONE"
                        /\ gen'[q] # acked' /\ gen'[q] \notin sinceAck'
                        /\ \A r \in Procs \ {q} : target'[r] # gen'[q]
        OBVIOUS
    <3>1. q # p /\ pc[q] \in UnpublishedPhases /\ gen[q] \in Gens  BY <2>3 DEF CommitPublish, Goto
    <3>2. gen[q] # target[p] /\ txn.status[gen[q]] = "NONE"  BY <3>1
    <3>3. txn' = cas' /\ \A g \in Gens \ {target[p]} : cas'.status[g] = txn.status[g]
          BY <2>3, CommitRows
    <3>4. cas'.status[gen[q]] = "NONE" /\ txn' = cas'  BY <3>1, <3>2, <3>3
    <3>. QED  BY <2>3, <3>1, <3>4 DEF CommitPublish
  <2>. QED  BY <1>4, <2>1, <2>2, <2>3 DEF Activate
<1>5. ASSUME NEW p \in Procs, CleanUpFailedRun(p) \/ FinishRun(p) PROVE UnpublishedIsPrivate'
      BY <1>5 DEF CleanUpFailedRun, FinishRun, EndRun, Goto, Spend
<1>6. ASSUME NEW p \in Procs, Fail(p) PROVE UnpublishedIsPrivate'
      BY <1>6 DEF Fail, FailBeforePublish, FailPromotion, FailPublish, Crash, Abort, EndRun,
             Goto, Spend
<1>7. CASE PowerLoss  BY <1>7 DEF PowerLoss, Spend, AfterPowerLoss, Volatile
<1>8. CASE RemoveManifest  BY <1>8 DEF RemoveManifest, Spend
<1>9. CASE UNCHANGED vars  BY <1>9 DEF vars
<1>. QED  BY <1>1, <1>2, <1>3, <1>4, <1>5, <1>6, <1>7, <1>8, <1>9 DEF Next, Step

\* A step of a run moves its files one phase further; no step of another takes
\* them back, because the files are changed under the lock only.
LEMMA ProgressStep ==
    ASSUME DataOK, LockHeld, IdsOwned, UnpublishedIsPrivate, ManifestKnown,
           NamedIsSettled, PromotionProgress,
           [Next]_vars
    PROVE  PromotionProgress'
<1> USE NoneAssumption, ProcsAssumption
        DEF DataOK, LockHeld, IdsOwned, UnpublishedIsPrivate, ManifestKnown,
            NamedIsSettled, PromotionProgress, OnDiskForGood, Complete, Synced, Visible,
            LockedPhases, UnpublishedPhases, PromotionPhases, ActivationPhases, GenOrNone,
            rowVars, manifestVars, fileVars, tempVars, runVars
<1>1. ASSUME NEW p \in Procs, Reserve(p) PROVE PromotionProgress'
      BY <1>1 DEF Reserve, Fresh, Goto
<1>2. ASSUME NEW p \in Procs, Prepublish(p) PROVE PromotionProgress'
      BY <1>2 DEF Prepublish, Backup, Prepare, ReadExpected, BeginPublish,
             MismatchPublish, BusyPublish, Goto
<1>3. ASSUME NEW p \in Procs, Promote(p) PROVE PromotionProgress'
      BY <1>3 DEF Promote, UseDedup, DedupCandidates, CopyToTemp, SyncTemp, LinkFinal,
             SyncGenerations, DropTempAndStaging, WriteMetadataTemp, LinkMetadata, SyncMetadata,
             Goto, Flag, Spend, Synced
<1>4. ASSUME NEW p \in Procs, Activate(p) PROVE PromotionProgress'
      BY <1>4 DEF Activate, RenameManifest, SyncManifest, CommitPublish, Goto, Flag
<1>5. ASSUME NEW p \in Procs, CleanUpFailedRun(p) \/ FinishRun(p) PROVE PromotionProgress'
      BY <1>5 DEF CleanUpFailedRun, FinishRun, EndRun, Goto, Spend
<1>6. ASSUME NEW p \in Procs, Fail(p) PROVE PromotionProgress'
      BY <1>6 DEF Fail, FailBeforePublish, FailPromotion, FailPublish, Crash, Abort, EndRun,
             Goto, Spend
<1>7. CASE PowerLoss  BY <1>7 DEF PowerLoss, Spend, AfterPowerLoss, Volatile
<1>8. CASE RemoveManifest  BY <1>8 DEF RemoveManifest, Spend
<1>9. CASE UNCHANGED vars  BY <1>9 DEF vars
<1>. QED  BY <1>1, <1>2, <1>3, <1>4, <1>5, <1>6, <1>7, <1>8, <1>9 DEF Next, Step

\* What rows and manifests name stays settled: a publisher never touches a file
\* they name, and adds only a target that is complete.
LEMMA SettledStep ==
    ASSUME DataOK, LockHeld, IdsOwned, UnpublishedIsPrivate, ManifestKnown,
           NamedIsSettled, PromotionProgress,
           [Next]_vars
    PROVE  NamedIsSettled'
<1> USE NoneAssumption, ProcsAssumption
        DEF DataOK, LockHeld, IdsOwned, UnpublishedIsPrivate, ManifestKnown,
            NamedIsSettled, PromotionProgress, OnDiskForGood, Synced, Visible,
            LockedPhases, UnpublishedPhases, PromotionPhases, ActivationPhases, GenOrNone,
            rowVars, manifestVars, fileVars, tempVars, runVars
<1>1. ASSUME NEW p \in Procs, Reserve(p) PROVE NamedIsSettled'
      BY <1>1 DEF Reserve, Fresh, Goto
<1>2. ASSUME NEW p \in Procs, Prepublish(p) PROVE NamedIsSettled'
  <2>1. CASE Backup(p)
        BY <2>1 DEF Backup, Goto
  <2>2. CASE Prepare(p)
        BY <2>2 DEF Prepare, Goto
  <2>3. CASE ReadExpected(p)
        BY <2>3 DEF ReadExpected, Goto
  <2>4. CASE BeginPublish(p)
    <3>1. \A g \in Gens \ {manifest} : txn'.status[g] = cas.status[g]  BY <2>4, BeginRows
    <3>. QED  BY <2>4, <3>1 DEF BeginPublish
  <2>5. CASE MismatchPublish(p)
        BY <2>5 DEF MismatchPublish, Goto
  <2>6. CASE BusyPublish(p)
        BY <2>6 DEF BusyPublish, Goto
  <2>. QED  BY <1>2, <2>1, <2>2, <2>3, <2>4, <2>5, <2>6 DEF Prepublish
<1>3. ASSUME NEW p \in Procs, Promote(p) PROVE NamedIsSettled'
      BY <1>3 DEF Promote, UseDedup, DedupCandidates, CopyToTemp, SyncTemp, LinkFinal,
             SyncGenerations, DropTempAndStaging, WriteMetadataTemp, LinkMetadata, SyncMetadata,
             Goto, Flag, Spend, Synced
<1>4. ASSUME NEW p \in Procs, Activate(p) PROVE NamedIsSettled'
  <2>1. CASE RenameManifest(p)
        BY <2>1 DEF RenameManifest, Goto
  <2>2. CASE SyncManifest(p)
        BY <2>2 DEF SyncManifest, Goto, Flag
  <2>3. CASE CommitPublish(p)
    <3> SUFFICES ASSUME NEW g \in Gens, cas'.status[g] # "NONE" \/ txn'.status[g] # "NONE" \/ g \in onDisk'
                 PROVE  /\ dbFile'[g] # "linked" /\ metaFile'[g] # "linked"
                        /\ bytes'[g] = "durable"
        OBVIOUS
    <3>1. txn' = cas' /\ \A h \in Gens \ {target[p]} : cas'.status[h] = txn.status[h]
          BY <2>3, CommitRows
    <3>2. OnDiskForGood(target[p])  BY <2>3 DEF CommitPublish
    <3>3. dbFile[g] # "linked" /\ metaFile[g] # "linked" /\ bytes[g] = "durable"
          BY <2>3, <3>1, <3>2 DEF CommitPublish
    <3>. QED  BY <2>3, <3>3 DEF CommitPublish
  <2>. QED  BY <1>4, <2>1, <2>2, <2>3 DEF Activate
<1>5. ASSUME NEW p \in Procs, CleanUpFailedRun(p) \/ FinishRun(p) PROVE NamedIsSettled'
      BY <1>5 DEF CleanUpFailedRun, FinishRun, EndRun, Goto, Spend
<1>6. ASSUME NEW p \in Procs, Fail(p) PROVE NamedIsSettled'
      BY <1>6 DEF Fail, FailBeforePublish, FailPromotion, FailPublish, Crash, Abort, EndRun,
             Goto, Spend
<1>7. CASE PowerLoss  BY <1>7 DEF PowerLoss, Spend, AfterPowerLoss, Volatile
<1>8. CASE RemoveManifest  BY <1>8 DEF RemoveManifest, Spend
<1>9. CASE UNCHANGED vars  BY <1>9 DEF vars
<1>. QED  BY <1>1, <1>2, <1>3, <1>4, <1>5, <1>6, <1>7, <1>8, <1>9 DEF Next, Step

\* What rows and manifests name stays on disk for good: a publisher never
\* touches a file they name, and adds only a target that is complete.
LEMMA DurableStep ==
    ASSUME DataOK, LockHeld, IdsOwned, UnpublishedIsPrivate, ManifestKnown,
           NamedIsDurable, PromotionProgress,
           [Next]_vars
    PROVE  NamedIsDurable'
<1> USE NoneAssumption, ProcsAssumption
        DEF DataOK, LockHeld, IdsOwned, UnpublishedIsPrivate, ManifestKnown,
            NamedIsDurable, PromotionProgress, OnDiskForGood, Synced, Visible,
            LockedPhases, UnpublishedPhases, PromotionPhases, ActivationPhases, GenOrNone,
            rowVars, manifestVars, fileVars, tempVars, runVars
<1>1. ASSUME NEW p \in Procs, Reserve(p) PROVE NamedIsDurable'
      BY <1>1 DEF Reserve, Fresh, Goto
<1>2. ASSUME NEW p \in Procs, Prepublish(p) PROVE NamedIsDurable'
  <2>1. CASE Backup(p)
        BY <2>1 DEF Backup, Goto
  <2>2. CASE Prepare(p)
        BY <2>2 DEF Prepare, Goto
  <2>3. CASE ReadExpected(p)
        BY <2>3 DEF ReadExpected, Goto
  <2>4. CASE BeginPublish(p)
    <3>1. \A g \in Gens \ {manifest} : txn'.status[g] = cas.status[g]  BY <2>4, BeginRows
    <3>. QED  BY <2>4, <3>1 DEF BeginPublish
  <2>5. CASE MismatchPublish(p)
        BY <2>5 DEF MismatchPublish, Goto
  <2>6. CASE BusyPublish(p)
        BY <2>6 DEF BusyPublish, Goto
  <2>. QED  BY <1>2, <2>1, <2>2, <2>3, <2>4, <2>5, <2>6 DEF Prepublish
<1>3. ASSUME NEW p \in Procs, Promote(p) PROVE NamedIsDurable'
      BY <1>3 DEF Promote, UseDedup, DedupCandidates, CopyToTemp, SyncTemp, LinkFinal,
             SyncGenerations, DropTempAndStaging, WriteMetadataTemp, LinkMetadata, SyncMetadata,
             Goto, Flag, Spend, Synced
<1>4. ASSUME NEW p \in Procs, Activate(p) PROVE NamedIsDurable'
  <2>1. CASE RenameManifest(p)
        BY <2>1 DEF RenameManifest, Goto
  <2>2. CASE SyncManifest(p)
        BY <2>2 DEF SyncManifest, Goto, Flag
  <2>3. CASE CommitPublish(p)
    <3> SUFFICES ASSUME NEW g \in Gens, cas'.status[g] = "ACTIVE" \/ txn'.status[g] = "ACTIVE" \/ g \in onDisk'
                 PROVE  OnDiskForGood(g)'
        OBVIOUS
    <3>1. txn' = cas' /\ \A h \in Gens \ {target[p]} : cas'.status[h] = txn.status[h]
          BY <2>3, CommitRows
    <3>2. OnDiskForGood(target[p])  BY <2>3 DEF CommitPublish
    <3>3. OnDiskForGood(g)  BY <2>3, <3>1, <3>2 DEF CommitPublish
    <3>. QED  BY <2>3, <3>3 DEF CommitPublish
  <2>. QED  BY <1>4, <2>1, <2>2, <2>3 DEF Activate
<1>5. ASSUME NEW p \in Procs, CleanUpFailedRun(p) \/ FinishRun(p) PROVE NamedIsDurable'
      BY <1>5 DEF CleanUpFailedRun, FinishRun, EndRun, Goto, Spend
<1>6. ASSUME NEW p \in Procs, Fail(p) PROVE NamedIsDurable'
      BY <1>6 DEF Fail, FailBeforePublish, FailPromotion, FailPublish, Crash, Abort, EndRun,
             Goto, Spend
<1>7. CASE PowerLoss  BY <1>7 DEF PowerLoss, Spend, AfterPowerLoss, Volatile
<1>8. CASE RemoveManifest  BY <1>8 DEF RemoveManifest, Spend
<1>9. CASE UNCHANGED vars  BY <1>9 DEF vars
<1>. QED  BY <1>1, <1>2, <1>3, <1>4, <1>5, <1>6, <1>7, <1>8, <1>9 DEF Next, Step

\* The manifest stays what the lock holder was told to expect until it renames
\* its own over it, and is alone on disk once the directory is fsynced.
LEMMA ManifestStep ==
    ASSUME DataOK, LockHeld, ManifestKnown,
           [Next]_vars
    PROVE  ManifestKnown'
<1> USE NoneAssumption, ProcsAssumption
        DEF DataOK, LockHeld, ManifestKnown,
            LockedPhases, UnrenamedPhases,
            rowVars, manifestVars, fileVars, tempVars, runVars
<1>1. ASSUME NEW p \in Procs, Reserve(p) PROVE ManifestKnown'
      BY <1>1 DEF Reserve, Fresh, Goto
<1>2. ASSUME NEW p \in Procs, Prepublish(p) PROVE ManifestKnown'
      BY <1>2, BeginRows DEF Prepublish, Backup, Prepare, ReadExpected, BeginPublish,
             MismatchPublish, BusyPublish, Goto
<1>3. ASSUME NEW p \in Procs, Promote(p) PROVE ManifestKnown'
      BY <1>3 DEF Promote, UseDedup, DedupCandidates, CopyToTemp, SyncTemp, LinkFinal,
             SyncGenerations, DropTempAndStaging, WriteMetadataTemp, LinkMetadata, SyncMetadata,
             Goto, Flag, Spend, Synced
<1>4. ASSUME NEW p \in Procs, Activate(p) PROVE ManifestKnown'
      BY <1>4 DEF Activate, RenameManifest, SyncManifest, CommitPublish, Goto, Flag
<1>5. ASSUME NEW p \in Procs, CleanUpFailedRun(p) \/ FinishRun(p) PROVE ManifestKnown'
      BY <1>5 DEF CleanUpFailedRun, FinishRun, EndRun, Goto, Spend
<1>6. ASSUME NEW p \in Procs, Fail(p) PROVE ManifestKnown'
      BY <1>6 DEF Fail, FailBeforePublish, FailPromotion, FailPublish, Crash, Abort, EndRun,
             Goto, Spend
<1>7. CASE PowerLoss  BY <1>7 DEF PowerLoss, Spend, AfterPowerLoss, Volatile
<1>8. CASE RemoveManifest  BY <1>8 DEF RemoveManifest, Spend
<1>9. CASE UNCHANGED vars  BY <1>9 DEF vars
<1>. QED  BY <1>1, <1>2, <1>3, <1>4, <1>5, <1>6, <1>7, <1>8, <1>9 DEF Next, Step

\* A step leaves no manifest on disk older than the acknowledged one.
LEMMA AckStep ==
    ASSUME ManifestKnown, AcknowledgedSurvives,
           [Next]_vars
    PROVE  AcknowledgedSurvives'
<1> USE NoneAssumption, ProcsAssumption
        DEF ManifestKnown, AcknowledgedSurvives,
            UnrenamedPhases,
            rowVars, manifestVars, fileVars, tempVars, runVars
<1>1. ASSUME NEW p \in Procs, Reserve(p) PROVE AcknowledgedSurvives'
      BY <1>1 DEF Reserve, Fresh, Goto
<1>2. ASSUME NEW p \in Procs, Prepublish(p) PROVE AcknowledgedSurvives'
      BY <1>2 DEF Prepublish, Backup, Prepare, ReadExpected, BeginPublish,
             MismatchPublish, BusyPublish, Goto
<1>3. ASSUME NEW p \in Procs, Promote(p) PROVE AcknowledgedSurvives'
      BY <1>3 DEF Promote, UseDedup, DedupCandidates, CopyToTemp, SyncTemp, LinkFinal,
             SyncGenerations, DropTempAndStaging, WriteMetadataTemp, LinkMetadata, SyncMetadata,
             Goto, Flag, Spend, Synced
<1>4. ASSUME NEW p \in Procs, Activate(p) PROVE AcknowledgedSurvives'
      BY <1>4 DEF Activate, RenameManifest, SyncManifest, CommitPublish, Goto, Flag
<1>5. ASSUME NEW p \in Procs, CleanUpFailedRun(p) \/ FinishRun(p) PROVE AcknowledgedSurvives'
      BY <1>5 DEF CleanUpFailedRun, FinishRun, EndRun, Goto, Spend
<1>6. ASSUME NEW p \in Procs, Fail(p) PROVE AcknowledgedSurvives'
      BY <1>6 DEF Fail, FailBeforePublish, FailPromotion, FailPublish, Crash, Abort, EndRun,
             Goto, Spend
<1>7. CASE PowerLoss  BY <1>7 DEF PowerLoss, Spend, AfterPowerLoss, Volatile
<1>8. CASE RemoveManifest  BY <1>8 DEF RemoveManifest, Spend
<1>9. CASE UNCHANGED vars  BY <1>9 DEF vars
<1>. QED  BY <1>1, <1>2, <1>3, <1>4, <1>5, <1>6, <1>7, <1>8, <1>9 DEF Next, Step

-----------------------------------------------------------------------------

\* The empty store satisfies the invariant.
LEMMA Initially == Init => IInv
<1>1. EmptyRows.status = [g \in Gens |-> "NONE"]  BY DEF EmptyRows
<1>2. Init => TypeOK
      BY BoundsAssumption, EmptyRowsType
      DEF Init, TypeOK, DataOK, GenOrNone, FileStates, Phases, Tokens, Flags, Faults
<1>3. Init => LockHeld /\ IdsOwned /\ UnpublishedIsPrivate /\ PromotionProgress
      BY DEF Init, LockHeld, IdsOwned, UnpublishedIsPrivate, PromotionProgress, LockedPhases,
             PromotionPhases, ActivationPhases, UnpublishedPhases
<1>4. Init => NamedIsSettled /\ NamedIsDurable /\ ManifestKnown /\ AcknowledgedSurvives
      BY <1>1, NoneAssumption DEF Init, NamedIsSettled, NamedIsDurable, ManifestKnown,
             AcknowledgedSurvives, LockedPhases, UnrenamedPhases
<1>. QED  BY <1>2, <1>3, <1>4 DEF IInv, Core, TypeOK

\* Every step of a publication keeps its part of the invariant.
LEMMA CoreStep == Core /\ [Next]_vars => Core'
BY TypeStep, LockStep, IdsStep, PrivateStep, ProgressStep, SettledStep, ManifestStep, AckStep
   DEF Core

\* Every step of the store keeps all of it.
LEMMA Inductive == IInv /\ [Next]_vars => IInv'
<1> SUFFICES ASSUME IInv, [Next]_vars PROVE IInv'  OBVIOUS
<1>1. Core'  BY CoreStep DEF IInv
<1>2. TypeOK'  BY <1>1, PhaseStep DEF IInv, Core, TypeOK
<1>3. NamedIsDurable'  BY DurableStep DEF IInv, Core
<1>. QED  BY <1>1, <1>2, <1>3 DEF IInv

\* The inductive invariant holds in every reachable state.
THEOREM Invariance == Spec => []IInv
BY Initially, Inductive, PTL DEF Spec

\* Every variable keeps its type.
THEOREM TypeCorrect == Spec => []TypeOK
<1>1. IInv => TypeOK  BY DEF IInv
<1>. QED  BY <1>1, Invariance, PTL

\* Whatever manifest a power loss may leave names a generation whose files are on
\* disk with their bytes: the order of the fsyncs of the publisher is enough.
THEOREM TargetsSurvive == Spec => []ManifestTargetSurvives
<1>1. IInv => ManifestTargetSurvives
      BY DEF IInv, TypeOK, DataOK, GenOrNone, NamedIsDurable, ManifestTargetSurvives
<1>. QED  BY <1>1, Invariance, PTL

\* Every ACTIVE catalog row names a generation on disk for good, so
\* findDedupCandidate never offers one that a crash left half-written.
THEOREM CatalogComplete == Spec => []CatalogTargetsComplete
<1>1. IInv => CatalogTargetsComplete  BY DEF IInv, NamedIsDurable, CatalogTargetsComplete
<1>. QED  BY <1>1, Invariance, PTL

\* PUBLISHED, once returned, is not taken back by a power loss.
THEOREM AcknowledgedStays == Spec => []AcknowledgedSurvives
<1>1. IInv => AcknowledgedSurvives  BY DEF IInv, Core
<1>. QED  BY <1>1, Invariance, PTL

\* The manifest a run renames over is the one its caller expected.
LEMMA RenameSeen ==
    ASSUME IInv, [Next]_vars, NEW p \in Procs, pc[p] = "candidate", pc'[p] = "renamed"
    PROVE  manifest = expected[p]
BY DEF IInv, Core, ManifestKnown, UnrenamedPhases, LockedPhases

\* The optimistic check of publishPreparedGeneration loses no update: no run
\* replaces a manifest its caller had not seen.
THEOREM NothingLost == Spec => NoLostUpdate
<1>1. IInv /\ [Next]_vars => [\A p \in Procs : pc[p] = "candidate" /\ pc'[p] = "renamed"
                                         => manifest = expected[p]]_vars
      BY RenameSeen
<1>. QED  BY <1>1, Invariance, PTL DEF Spec, NoLostUpdate

-----------------------------------------------------------------------------
(* The catalog: what is recorded, and what a handle given back may be used *)
(* for.  These invariants are inductive once IInv is known.                *)

ActiveOf(rows) == {g \in Gens : rows.status[g] = "ACTIVE"}
Apart(gens) == \A g, h \in gens : content[g] = content[h] => g = h

\* No two generations that are ACTIVE, or are about to be, have one content: a
\* manifest a power loss may leave is recovered, and the lock holder compared
\* its content with every ACTIVE row of the transaction.
ContentsApart ==
    /\ Apart(ActiveOf(cas))
    /\ \A g \in onDisk \ {None} : Apart(ActiveOf(cas) \cup {g})
    /\ \A p \in Procs : pc[p] \in LockedPhases =>
          Apart(ActiveOf(txn)) /\ ActiveOf(cas) \subseteq ActiveOf(txn)
    /\ \A p \in Procs : pc[p] \in PromotionPhases => Apart(ActiveOf(txn) \cup {gen[p]})
    /\ \A p \in Procs : pc[p] \in ActivationPhases => Apart(ActiveOf(txn) \cup {target[p]})

\* The committed rows and those of the transaction are explained by their history.
HistoryKept == Explained(cas) /\ Explained(txn)

\* The generation p reserved has its staging file and nothing else.
Untouched(p) ==
    /\ gen[p] \in staging
    /\ gen[p] \notin dbTemp \cup metaTemp
    /\ dbFile[gen[p]] = "absent" /\ metaFile[gen[p]] = "absent"

\* The mutation flags tell what a run has left in generations/.
FlagsTellTheTruth ==
    \A p \in Procs :
        /\ pc[p] \in {"reserved", "populated", "prepared", "expecting"} => Untouched(p)
        /\ pc[p] = "failed" /\ token[p] = "PREPARED" => Untouched(p)
        /\ pc[p] = "locked" => mutated[p] = {} /\ Untouched(p)
        /\ pc[p] \in {"copied", "tempSynced"} =>
              /\ mutated[p] = {"finalDb"}
              /\ gen[p] \in staging \ metaTemp
              /\ dbFile[gen[p]] = "absent" /\ metaFile[gen[p]] = "absent"
        /\ pc[p] \in {"linked", "promoted", "cleaned", "metaWritten", "metaLinked"} =>
              "finalDb" \in mutated[p]
        /\ pc[p] \in ActivationPhases /\ mutated[p] = {} => Untouched(p)

\* The rows change when a publisher takes the lock, gives it back, or commits.
LEMMA RowsMove ==
    ASSUME [Next]_vars
    PROVE  \/ cas' = cas /\ txn' \in {txn, cas}
           \/ \E p \in Procs : BeginPublish(p)
           \/ \E p \in Procs : CommitPublish(p)
BY ZenonT(60) DEF Next, Reserve, Step, Prepublish, Backup, Prepare, ReadExpected,
   MismatchPublish, BusyPublish, Promote, UseDedup, CopyToTemp, SyncTemp, LinkFinal,
   SyncGenerations, DropTempAndStaging, WriteMetadataTemp, LinkMetadata, SyncMetadata,
   Activate, RenameManifest, SyncManifest, CleanUpFailedRun, FinishRun, Fail,
   FailBeforePublish, FailPromotion, FailPublish, Abort, Crash, PowerLoss,
   RemoveManifest, vars, rowVars

\* A step keeps the history an account of the rows, committed or not.
LEMMA HistoryStep ==
    ASSUME DataOK, IdsOwned, HistoryKept, [Next]_vars
    PROVE  HistoryKept'
<1>1. cas \in CasRows /\ txn \in CasRows /\ manifest \in GenOrNone
      /\ metaPin \in [Gens -> BOOLEAN] /\ pin \in [Procs -> BOOLEAN]
      BY DEF DataOK
<1>2. CASE cas' = cas /\ txn' \in {txn, cas}  BY <1>2 DEF HistoryKept
<1>3. ASSUME NEW p \in Procs, BeginPublish(p) PROVE HistoryKept'
  <2>1. (manifest # None /\ metaPin[manifest]) \in BOOLEAN  OBVIOUS
  <2>2. Explained(Reconciled)  BY <1>1, <2>1, ReconcileExplained DEF Reconciled, HistoryKept
  <2>3. cas' = cas /\ txn' = Reconciled  BY <1>3 DEF BeginPublish
  <2>. QED  BY <2>2, <2>3 DEF HistoryKept
<1>4. ASSUME NEW p \in Procs, CommitPublish(p) PROVE HistoryKept'
  <2>1. target[p] \in Gens /\ pin[p] \in BOOLEAN  BY <1>1, <1>4, CommitRows
  <2>2. Explained(PublishRows(txn, target[p], pin[p]))
        BY <1>1, <2>1, PublishExplained DEF HistoryKept
  <2>3. cas' = PublishRows(txn, target[p], pin[p]) /\ txn' = cas'
        BY <1>4 DEF CommitPublish
  <2>. QED  BY <2>2, <2>3 DEF HistoryKept
<1>. QED  BY <1>2, <1>3, <1>4, RowsMove

\* A step of a run clears a flag only if it is certain that what the flag stands
\* for is gone, and no step of another run touches its generation.
LEMMA FlagsStep ==
    ASSUME DataOK, LockHeld, IdsOwned, FlagsTellTheTruth,
           [Next]_vars
    PROVE  FlagsTellTheTruth'
<1> USE NoneAssumption, ProcsAssumption
        DEF DataOK, LockHeld, IdsOwned, FlagsTellTheTruth, Untouched, Synced,
            LockedPhases, PromotionPhases, ActivationPhases, GenOrNone,
            rowVars, manifestVars, fileVars, tempVars, runVars
<1>1. ASSUME NEW p \in Procs, Reserve(p) PROVE FlagsTellTheTruth'
      BY <1>1 DEF Reserve, Fresh, Goto
<1>2. ASSUME NEW p \in Procs, Prepublish(p) PROVE FlagsTellTheTruth'
      BY <1>2 DEF Prepublish, Backup, Prepare, ReadExpected, BeginPublish,
             MismatchPublish, BusyPublish, Goto
<1>3. ASSUME NEW p \in Procs, Promote(p) PROVE FlagsTellTheTruth'
  <2>1. CASE UseDedup(p)
    <3>1. \/ staging' = staging \ {gen[p]} /\ Flag(p, "staging")
          \/ staging' = staging /\ mutated' = mutated
          BY <2>1 DEF UseDedup
    <3>2. /\ pc[p] = "locked" /\ Goto(p, "candidate")
          /\ UNCHANGED <<gen, token, dbTemp, metaTemp, dbFile, metaFile>>
          BY <2>1 DEF UseDedup
    <3>3. CASE staging' = staging \ {gen[p]} /\ Flag(p, "staging")
      <4>1. pc' = [pc EXCEPT ![p] = "candidate"]
            /\ mutated' = [mutated EXCEPT ![p] = @ \cup {"staging"}]
            BY <3>2, <3>3 DEF Goto, Flag
      <4>2. pc'[p] = "candidate" /\ mutated'[p] # {}  BY <4>1
      <4>3. ASSUME NEW q \in Procs \ {p}
            PROVE  /\ pc'[q] = pc[q] /\ mutated'[q] = mutated[q]
                   /\ pc[q] # "idle" /\ gen[q] \in staging => gen[q] \in staging'
            BY <3>2, <3>3, <4>1
      <4>. QED  BY <3>2, <4>2, <4>3
    <3>4. CASE staging' = staging /\ mutated' = mutated
          BY <3>2, <3>4 DEF Goto
    <3>. QED  BY <3>1, <3>3, <3>4
  <2>2. CASE CopyToTemp(p)
        BY <2>2 DEF CopyToTemp, Goto, Flag
  <2>3. CASE SyncTemp(p) \/ LinkFinal(p) \/ SyncGenerations(p)
        BY <2>3 DEF SyncTemp, LinkFinal, SyncGenerations, Goto
  <2>4. CASE DropTempAndStaging(p)
        BY <2>4 DEF DropTempAndStaging, Goto, Flag, Spend
  <2>5. CASE WriteMetadataTemp(p) \/ LinkMetadata(p)
        BY <2>5 DEF WriteMetadataTemp, LinkMetadata, Goto
  <2>6. CASE SyncMetadata(p)
        BY <2>6 DEF SyncMetadata, Goto, Flag, Spend
  <2>. QED  BY <1>3, <2>1, <2>2, <2>3, <2>4, <2>5, <2>6 DEF Promote
<1>4. ASSUME NEW p \in Procs, Activate(p) PROVE FlagsTellTheTruth'
      BY <1>4 DEF Activate, RenameManifest, SyncManifest, CommitPublish, Goto, Flag
<1>5. ASSUME NEW p \in Procs, CleanUpFailedRun(p) \/ FinishRun(p) PROVE FlagsTellTheTruth'
      BY <1>5 DEF CleanUpFailedRun, FinishRun, EndRun, Goto, Spend
<1>6. ASSUME NEW p \in Procs, Fail(p) PROVE FlagsTellTheTruth'
  <2>1. CASE FailBeforePublish(p)
        BY <2>1 DEF FailBeforePublish, Goto, Spend
  <2>2. CASE FailPromotion(p)
    <3>1. /\ pc[p] \in {"copied", "tempSynced"}
          /\ \/ dbTemp' = dbTemp \ {gen[p]} /\ Abort(p, mutated[p] \ {"finalDb"})
             \/ dbTemp' \in {dbTemp, dbTemp \ {gen[p]}} /\ Abort(p, mutated[p])
          /\ UNCHANGED <<gen, staging, metaTemp, dbFile, metaFile>>
          BY <2>2 DEF FailPromotion
    <3>2. mutated[p] = {"finalDb"}  BY <3>1
    <3>3. CASE dbTemp' = dbTemp \ {gen[p]} /\ Abort(p, mutated[p] \ {"finalDb"})
          BY <3>1, <3>2, <3>3 DEF Abort, Goto
    <3>4. CASE dbTemp' \in {dbTemp, dbTemp \ {gen[p]}} /\ Abort(p, mutated[p])
      <4>1. pc' = [pc EXCEPT ![p] = "failed"] /\ token' = [token EXCEPT ![p] = "CONSUMED"]
            BY <3>2, <3>4 DEF Abort, Goto
      <4>2. mutated' = [mutated EXCEPT ![p] = mutated[p]]  BY <3>4 DEF Abort
      <4>. QED  BY <3>1, <3>4, <4>1, <4>2
    <3>. QED  BY <3>1, <3>3, <3>4
  <2>3. CASE FailPublish(p)
        BY <2>3 DEF FailPublish, Abort, Goto, Spend
  <2>4. CASE Crash(p)
        BY <2>4 DEF Crash, EndRun, Goto, Spend
  <2>. QED  BY <1>6, <2>1, <2>2, <2>3, <2>4 DEF Fail
<1>7. CASE PowerLoss  BY <1>7 DEF PowerLoss, Spend, AfterPowerLoss, Volatile
<1>8. CASE RemoveManifest  BY <1>8 DEF RemoveManifest, Spend
<1>9. CASE UNCHANGED vars  BY <1>9 DEF vars
<1>. QED  BY <1>1, <1>2, <1>3, <1>4, <1>5, <1>6, <1>7, <1>8, <1>9 DEF Next, Step

\* A step makes no second ACTIVE generation of one content: a backup writes a
\* generation nothing names, and a publication adds what it compared before.
LEMMA ApartStep ==
    ASSUME Core, ContentsApart, [Next]_vars
    PROVE  ContentsApart'
<1> USE NoneAssumption, ProcsAssumption
        DEF Core, DataOK, LockHeld, IdsOwned, UnpublishedIsPrivate, ManifestKnown,
            ContentsApart, Apart, ActiveOf,
            LockedPhases, UnpublishedPhases, PromotionPhases, ActivationPhases, GenOrNone,
            rowVars, manifestVars, fileVars, tempVars, runVars
<1>1. ASSUME NEW p \in Procs, Reserve(p) PROVE ContentsApart'
      BY <1>1 DEF Reserve, Goto
<1>2. ASSUME NEW p \in Procs, Prepublish(p) PROVE ContentsApart'
  <2>1. CASE Backup(p)
        BY <2>1 DEF Backup, Goto
  <2>2. CASE Prepare(p) \/ ReadExpected(p) \/ MismatchPublish(p) \/ BusyPublish(p)
        BY <2>2 DEF Prepare, ReadExpected, MismatchPublish, BusyPublish, Goto
  <2>3. CASE BeginPublish(p)
    <3>1. /\ txn' \in CasRows
          /\ ReconciledRows(cas, manifest, txn')
          BY <2>3, BeginRows
    <3>2. /\ \A g \in Gens \ {manifest} : txn'.status[g] = cas.status[g]
          /\ manifest \in Gens => txn'.status[manifest] \in {cas.status[manifest], "ACTIVE"}
          BY <3>1 DEF ReconciledRows
    <3>3. /\ ActiveOf(cas) \subseteq ActiveOf(txn')
          /\ ActiveOf(txn') \subseteq ActiveOf(cas) \cup ({manifest} \ {None})
          BY <3>1, <3>2 DEF ReconciledRows
    <3>4. Apart(ActiveOf(txn'))  BY <3>3
    <3>5. /\ cas' = cas /\ content' = content /\ onDisk' = onDisk
          /\ pc' = [pc EXCEPT ![p] = "locked"] /\ gen' = gen /\ target' = target /\ lock = None
          BY <2>3 DEF BeginPublish, Goto
    <3> HIDE DEF Apart, ActiveOf
    <3>6. \A q \in Procs : pc'[q] \in LockedPhases => q = p /\ pc'[q] = "locked"
          BY <3>5
    <3>. QED  BY <3>3, <3>4, <3>5, <3>6 DEF Apart, ActiveOf
  <2>. QED  BY <1>2, <2>1, <2>2, <2>3 DEF Prepublish
<1>3. ASSUME NEW p \in Procs, Promote(p) PROVE ContentsApart'
  <2>1. CASE UseDedup(p)
        BY <2>1 DEF UseDedup, DedupCandidates, Goto
  <2>2. CASE CopyToTemp(p)
        BY <2>2 DEF CopyToTemp, DedupCandidates, Goto
  <2>3. CASE SyncTemp(p) \/ LinkFinal(p) \/ SyncGenerations(p) \/ DropTempAndStaging(p)
        BY <2>3 DEF SyncTemp, LinkFinal, SyncGenerations, DropTempAndStaging, Goto
  <2>4. CASE WriteMetadataTemp(p) \/ LinkMetadata(p) \/ SyncMetadata(p)
        BY <2>4 DEF WriteMetadataTemp, LinkMetadata, SyncMetadata, Goto
  <2>. QED  BY <1>3, <2>1, <2>2, <2>3, <2>4 DEF Promote
<1>4. ASSUME NEW p \in Procs, Activate(p) PROVE ContentsApart'
  <2>1. CASE RenameManifest(p)
        BY <2>1 DEF RenameManifest, Goto
  <2>2. CASE SyncManifest(p)
        BY <2>2 DEF SyncManifest, Goto
  <2>3. CASE CommitPublish(p)
    <3>1. /\ txn' = cas' /\ cas'.status = [txn.status EXCEPT ![target[p]] = "ACTIVE"]
          /\ target[p] \in Gens
          BY <2>3, CommitRows
    <3>2. txn.status \in [Gens -> Statuses]  BY RowsType
    <3>3. ActiveOf(cas') = ActiveOf(txn) \cup {target[p]}  BY <3>1, <3>2
    <3>4. Apart(ActiveOf(txn) \cup {target[p]})  BY <2>3 DEF CommitPublish
    <3>5. onDisk' = {target[p]} /\ content' = content  BY <2>3 DEF CommitPublish
    <3>6. \A q \in Procs : pc'[q] \notin LockedPhases  BY <2>3 DEF CommitPublish, Goto
    <3> HIDE DEF Apart, ActiveOf
    <3>7. Apart(ActiveOf(cas')) /\ Apart(ActiveOf(cas') \cup {target[p]})
      <4>1. ActiveOf(cas') \cup {target[p]} = ActiveOf(cas')  BY <3>3
      <4>. QED  BY <3>3, <3>4, <4>1
    <3>. QED  BY <3>5, <3>6, <3>7 DEF Apart, ActiveOf
  <2>. QED  BY <1>4, <2>1, <2>2, <2>3 DEF Activate
<1>5. ASSUME NEW p \in Procs, CleanUpFailedRun(p) \/ FinishRun(p) PROVE ContentsApart'
      BY <1>5 DEF CleanUpFailedRun, FinishRun, EndRun, Goto
<1>6. ASSUME NEW p \in Procs, Fail(p) PROVE ContentsApart'
      BY <1>6 DEF Fail, FailBeforePublish, FailPromotion, FailPublish, Crash, Abort, EndRun,
             Goto
<1>7. CASE PowerLoss  BY <1>7 DEF PowerLoss
<1>8. CASE RemoveManifest  BY <1>8 DEF RemoveManifest
<1>9. CASE UNCHANGED vars  BY <1>9 DEF vars
<1>. QED  BY <1>1, <1>2, <1>3, <1>4, <1>5, <1>6, <1>7, <1>8, <1>9 DEF Next, Step

\* In the empty store there is nothing to tell apart, to explain or to touch.
LEMMA CatalogInitially == Init => ContentsApart /\ HistoryKept /\ FlagsTellTheTruth
<1>1. EmptyRows.status = [g \in Gens |-> "NONE"]  BY DEF EmptyRows
<1>2. Init => ContentsApart
      BY <1>1 DEF Init, ContentsApart, Apart, ActiveOf, LockedPhases, PromotionPhases,
                  ActivationPhases
<1>3. Init => HistoryKept  BY EmptyExplained DEF Init, HistoryKept
<1>4. Init => FlagsTellTheTruth  BY DEF Init, FlagsTellTheTruth, ActivationPhases
<1>. QED  BY <1>2, <1>3, <1>4

\* The three invariants hold in every reachable state.
LEMMA CatalogInvariance == Spec => [](ContentsApart /\ HistoryKept /\ FlagsTellTheTruth)
<1> DEFINE Catalog == ContentsApart /\ HistoryKept /\ FlagsTellTheTruth
<1>1. IInv /\ Catalog /\ [Next]_vars => Catalog'
      BY ApartStep, HistoryStep, FlagsStep DEF IInv, Core
<1>. QED  BY <1>1, CatalogInitially, Invariance, PTL DEF Spec

\* Deduplication keeps one ACTIVE generation of every content, whatever crashed
\* runs, recoveries and power losses left in the catalog.
THEOREM ContentsKeptOnce == Spec => []OneActivePerContent
<1>1. ContentsApart => OneActivePerContent
      BY DEF ContentsApart, Apart, ActiveOf, OneActivePerContent
<1>. QED  BY <1>1, CatalogInvariance, PTL

\* The publication history accounts for the active generation and the catalog.
THEOREM HistoryExplains == Spec => []HistoryExplainsActive
<1>1. HistoryKept => HistoryExplainsActive  BY DEF HistoryKept, HistoryExplainsActive
<1>. QED  BY <1>1, CatalogInvariance, PTL

\* A handle given back as PREPARED has its staging file and nothing in generations/.
THEOREM HandlesReusable == Spec => []PreparedIsUntouched
<1>1. FlagsTellTheTruth => PreparedIsUntouched
      BY DEF FlagsTellTheTruth, Untouched, PreparedIsUntouched
<1>. QED  BY <1>1, CatalogInvariance, PTL

-----------------------------------------------------------------------------
(* GenerationPublication implements SnapshotStore: the rename of the        *)
(* manifest shows a snapshot, the fsync of its directory persists it,       *)
(* COMMIT acknowledges it, a power loss may take back what was not          *)
(* persisted, and every other step leaves what readers see as it was.       *)

\* What readers see, now and after a power loss, goes by the names of generations.
SeenByName ==
    /\ Snapshot(manifest) = Name(manifest)
    /\ {DurableSnapshot(g) : g \in onDisk} = {Name(g) : g \in onDisk}

\* In a reachable state they always do: nothing a manifest names is broken.
LEMMA Seen == IInv => SeenByName
<1> SUFFICES ASSUME IInv PROVE SeenByName  OBVIOUS
<1>1. manifest \in onDisk /\ onDisk \subseteq Gens \cup {None}
      BY DEF IInv, Core, DataOK, ManifestKnown, GenOrNone
<1>2. \A g \in onDisk \ {None} : OnDiskForGood(g)  BY <1>1 DEF IInv, NamedIsDurable
<1>3. Snapshot(manifest) = Name(manifest)
      BY <1>1, <1>2 DEF Snapshot, Name, Complete, Visible, OnDiskForGood
<1>4. \A g \in onDisk : DurableSnapshot(g) = Name(g)  BY <1>2 DEF DurableSnapshot, Name
<1>. QED  BY <1>3, <1>4 DEF SeenByName

\* The content of a generation that was ever visible never changes: a backup
\* writes the staging file of a generation nothing names.
LEMMA ContentKept ==
    ASSUME Core, [Next]_vars, NEW g \in onDisk \cup sinceAck \cup {acked}
    PROVE  Name(g)' = Name(g)
<1>1. g \in Gens \cup {None}  BY DEF Core, DataOK, GenOrNone
<1>2. CASE \E p \in Procs : Backup(p)
  <2> PICK p \in Procs : Backup(p)  BY <1>2
  <2>1. gen[p] # g  BY DEF Core, UnpublishedIsPrivate, UnpublishedPhases, Backup
  <2>2. gen[p] \in Gens /\ content \in [Gens -> Contents]
        BY DEF Core, IdsOwned, DataOK, Backup
  <2>. QED  BY <1>1, <2>1, <2>2 DEF Backup, Name
<1>3. CASE ~\E p \in Procs : Backup(p)
  <2>1. content' = content
        BY <1>3, ZenonT(60) DEF Next, Reserve, Step, Prepublish, Prepare, ReadExpected, BeginPublish,
           MismatchPublish, BusyPublish, Promote, UseDedup, CopyToTemp, SyncTemp, LinkFinal,
           SyncGenerations, DropTempAndStaging, WriteMetadataTemp, LinkMetadata, SyncMetadata,
           Activate, RenameManifest, SyncManifest, CommitPublish, CleanUpFailedRun, FinishRun,
           Fail, FailBeforePublish, FailPromotion, FailPublish, Crash, PowerLoss,
           RemoveManifest, vars, fileVars
  <2>. QED  BY <2>1 DEF Name
<1>. QED  BY <1>2, <1>3

\* The promise by the names of generations, whatever became of their files.
ByName == INSTANCE SnapshotStore WITH
    Snapshots <- Contents, Nothing <- None,
    shown <- Name(manifest),
    recoverable <- {Name(g) : g \in onDisk},
    acknowledged <- Name(acked),
    newer <- {Name(g) : g \in sinceAck}

\* Every step of a publication, every failure and every power loss is a step of
\* the promise or changes nothing it speaks of.
LEMMA StepByName ==
    ASSUME Core, [Next]_vars
    PROVE  [ByName!Next]_ByName!vars
<1> DEFINE shown == Name(manifest)
           recoverable == {Name(g) : g \in onDisk}
           acknowledged == Name(acked)
           newer == {Name(g) : g \in sinceAck}
<1>1. /\ shown = Name(manifest) /\ shown' = Name(manifest)'
      /\ recoverable = {Name(g) : g \in onDisk} /\ recoverable' = {Name(g) : g \in onDisk}'
      OBVIOUS
<1> HIDE DEF shown, recoverable
<1>2. manifest \in onDisk  BY DEF Core, ManifestKnown
<1>3. \A g \in onDisk \cup sinceAck \cup {acked} : Name(g)' = Name(g)  BY ContentKept
<1>4. CASE UNCHANGED manifestVars
  <2>1. shown' = shown /\ recoverable' = recoverable /\ newer' = newer
                       /\ acknowledged' = acknowledged
        BY <1>1, <1>2, <1>3, <1>4 DEF manifestVars
  <2>. QED  BY <2>1 DEF ByName!vars, shown, recoverable
<1>5. ASSUME NEW p \in Procs, RenameManifest(p)
      PROVE  ByName!Next
  <2> PICK t \in Gens : t = target[p]
      BY <1>5 DEF RenameManifest, Core, IdsOwned, ActivationPhases
  <2>1. Name(t) \in Contents /\ Name(t)' = Name(t)
        BY <1>5, NoneAssumption DEF RenameManifest, fileVars, Core, DataOK, Name
  <2>2. manifest' = t /\ onDisk' = onDisk \cup {t} /\ sinceAck' = sinceAck \cup {t}
                      /\ acked' = acked
        BY <1>5 DEF RenameManifest
  <2>3. shown' = Name(t) /\ acknowledged' = acknowledged
        BY <1>1, <1>3, <2>1, <2>2
  <2>4. recoverable' = recoverable \cup {Name(t)}  BY <1>1, <1>3, <2>1, <2>2
  <2>5. newer' = newer \cup {Name(t)}  BY <1>3, <2>1, <2>2
  <2>. QED  BY <2>1, <2>3, <2>4, <2>5
            DEF ByName!Next, ByName!Show, ByName!SnapshotOrNothing, shown, recoverable
<1>6. ASSUME RemoveManifest
      PROVE  ByName!Next
  <2>1. /\ manifest' = None /\ onDisk' = onDisk \cup {None}
        /\ sinceAck' = sinceAck \cup {None} /\ acked' = acked
        BY <1>6 DEF RemoveManifest
  <2>2. Name(None) = None /\ Name(None)' = None  BY DEF Name
  <2>3. shown' = None /\ acknowledged' = acknowledged  BY <1>1, <1>3, <2>1, <2>2
  <2>4. recoverable' = recoverable \cup {None}  BY <1>1, <1>3, <2>1, <2>2
  <2>5. newer' = newer \cup {None}  BY <1>3, <2>1, <2>2
  <2>. QED  BY <2>3, <2>4, <2>5
            DEF ByName!Next, ByName!Show, ByName!SnapshotOrNothing, shown, recoverable
<1>7. ASSUME NEW p \in Procs, SyncManifest(p)
      PROVE  ByName!Next
  <2>1. manifest' = manifest /\ onDisk' = {manifest} /\ acked' = acked /\ sinceAck' = sinceAck
        BY <1>7 DEF SyncManifest
  <2>2. shown' = shown /\ acknowledged' = acknowledged /\ newer' = newer
        BY <1>1, <1>2, <1>3, <2>1
  <2>3. recoverable' = {shown}  BY <1>1, <1>2, <1>3, <2>1
  <2>. QED  BY <2>2, <2>3 DEF ByName!Next, ByName!Persist, shown, recoverable
<1>8. ASSUME NEW p \in Procs, CommitPublish(p)
      PROVE  ByName!Next
  <2>1. /\ manifest' = manifest /\ onDisk' = onDisk /\ onDisk = {manifest}
        /\ acked' = manifest /\ sinceAck' = {}
        BY <1>8 DEF CommitPublish, fileVars, Core, ManifestKnown
  <2>2. shown' = shown /\ acknowledged' = shown /\ newer' = {}  BY <1>1, <1>2, <1>3, <2>1
  <2>3. recoverable = {shown} /\ recoverable' = recoverable  BY <1>1, <1>2, <1>3, <2>1
  <2>. QED  BY <2>2, <2>3 DEF ByName!Next, ByName!Acknowledge, shown, recoverable
<1>9. ASSUME PowerLoss
      PROVE  ByName!Next
  <2>1. /\ manifest' \in onDisk /\ onDisk' = {manifest'}
        /\ acked' = acked /\ sinceAck' = sinceAck
        BY <1>9 DEF PowerLoss
  <2>2. acknowledged' = acknowledged /\ newer' = newer  BY <1>3, <2>1
  <2>3. shown' \in recoverable /\ recoverable' = {shown'}  BY <1>1, <1>3, <2>1
  <2>. QED  BY <2>2, <2>3 DEF ByName!Next, ByName!Revert, shown, recoverable
<1>10. \/ UNCHANGED manifestVars \/ PowerLoss \/ RemoveManifest
       \/ \E p \in Procs : RenameManifest(p) \/ SyncManifest(p) \/ CommitPublish(p)
       BY ZenonT(60) DEF Next, Reserve, Step, Prepublish, Backup, Prepare, ReadExpected, BeginPublish,
          MismatchPublish, BusyPublish, Promote, UseDedup, CopyToTemp, SyncTemp, LinkFinal,
          SyncGenerations, DropTempAndStaging, WriteMetadataTemp, LinkMetadata, SyncMetadata,
          Activate, CleanUpFailedRun, FinishRun,
          Fail, FailBeforePublish, FailPromotion, FailPublish, Crash, vars
<1>. QED  BY <1>4, <1>5, <1>6, <1>7, <1>8, <1>9, <1>10

\* In states where readers see by name, a step by name is a step of the promise.
LEMMA StepKeepsPromise ==
    ASSUME SeenByName, SeenByName', [ByName!Next]_ByName!vars
    PROVE  [Promise!Next]_Promise!vars
<1> DEFINE seen == Name(manifest)
           kept == {Name(g) : g \in onDisk}
<1>1. /\ Snapshot(manifest) = seen /\ Snapshot(manifest)' = seen'
      /\ {DurableSnapshot(g) : g \in onDisk} = kept /\ {DurableSnapshot(g) : g \in onDisk}' = kept'
      BY DEF SeenByName
<1>. QED
     BY <1>1 DEF ByName!Next, ByName!vars, ByName!Show, ByName!Persist, ByName!Acknowledge,
        ByName!Revert, ByName!SnapshotOrNothing, Promise!Next, Promise!vars, Promise!Show,
        Promise!Persist, Promise!Acknowledge, Promise!Revert, Promise!SnapshotOrNothing

\* The publisher's store is a SnapshotStore: readers see whole snapshots only, and
\* an acknowledged one is superseded only by what was shown after it.
THEOREM PromiseKept == Spec => StoreKeepsPromise
<1>1. Init => Promise!Init
      BY DEF Init, Promise!Init, Snapshot, DurableSnapshot, Name
<1>2. IInv /\ SeenByName /\ SeenByName' /\ [Next]_vars => [Promise!Next]_Promise!vars
      BY StepByName, StepKeepsPromise DEF IInv
<1>. QED  BY <1>1, <1>2, Seen, Invariance, PTL DEF Spec, StoreKeepsPromise, Promise!Spec
=============================================================================
