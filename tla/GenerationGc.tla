---------------------------- MODULE GenerationGc ----------------------------
(***************************************************************************)
(* Retention, deletion and orphan recovery over the store                  *)
(* (v2/src/storage/generation-gc.ts), run by each process between the end  *)
(* of its publication and its return, as publishGenerationSnapshot does.   *)
(* Plans are made without the publication lock and applied entry by entry  *)
(* under it, so other processes publish between any two of these steps.    *)
(*                                                                         *)
(* A generation is deleted in two transactions: the first commits the      *)
(* intent (DELETING), the second removes the files and commits DELETED.    *)
(* Ages are not modelled: an orphan that its grace period protects is one  *)
(* RetainOrphan leaves alone.                                              *)
(***************************************************************************)
EXTENDS GenerationPublication

CONSTANT RetainCount     \* retainCount: how many previous generations are kept

ASSUME RetainAssumption == RetainCount \in Nat

VARIABLES
    plan,        \* the plan a process works from
    todo,        \* its generations still to delete, as plan.delete and plan.recovery
    orphans,     \* its orphans still to look at
    victim       \* the generation or orphan it is deleting

gcVars == <<plan, todo, orphans, victim>>
allVars == <<vars, gcVars>>

OrphanKinds == {"PROMOTION_TEMP", "METADATA_TEMP", "NOT_IN_CATALOG", "DB_ONLY",
                "METADATA_ONLY", "ACTIVE_NOT_IN_CATALOG"}
Orphans == [kind : OrphanKinds, gen : Gens]
EmptyPlan == [active |-> None, revision |-> 0]
NoTodo == [delete |-> {}, recovery |-> {}]

DeletionPhases == {"unlinking", "dbUnlinked", "dbGone", "metadataUnlinked", "gone"}
GcLockedPhases == DeletionPhases \cup {"orphanUnlinked"}
GcPhases == GcLockedPhases \cup
    {"gcManifest", "gcPlanned", "gcNext", "marked", "swept", "orphanPlanned", "orphanNext"}

GcInit ==
    /\ plan = [p \in Procs |-> EmptyPlan] /\ todo = [p \in Procs |-> NoTodo]
    /\ orphans = [p \in Procs |-> {}] /\ victim = [p \in Procs |-> None]

ForgetPlan(p) ==
    /\ plan' = [plan EXCEPT ![p] = EmptyPlan] /\ todo' = [todo EXCEPT ![p] = NoTodo]
    /\ orphans' = [orphans EXCEPT ![p] = {}] /\ victim' = [victim EXCEPT ![p] = None]

-----------------------------------------------------------------------------
(* planGenerationGc and the checks of applyGenerationGcPlan.               *)

\* When g was last published, as a position in the history; 0 for never.
LastPublished(history, g) ==
    LET at == {i \in DOMAIN history : history[i] = [action |-> "PUBLISH", gen |-> g]}
    IN  IF at = {} THEN 0 ELSE CHOOSE i \in at : \A j \in at : j <= i

\* The n generations other than active that were published last.
RecentPrevious(history, active, n) ==
    LET previous == {g \in Gens \ {active} : LastPublished(history, g) > 0}
    IN  {g \in previous :
            Cardinality({h \in previous : LastPublished(history, h) > LastPublished(history, g)}) < n}

Retained(rows, active) ==
    {active} \cup RecentPrevious(rows.history, active, RetainCount)
             \cup {g \in Gens : rows.status[g] = "ACTIVE" /\ rows.pinned[g]}

\* The manifest is read first ...
PlanReadManifest(p) ==
    /\ pc[p] = "published"
    /\ plan' = [plan EXCEPT ![p] = [active |-> manifest, revision |-> 0]]
    /\ Goto(p, "gcManifest")
    /\ UNCHANGED <<rowVars, manifestVars, fileVars, tempVars, runVars, budget,
                   todo, orphans, victim>>

\* A bug: interrupted deletions are not planned again.
PlanWithoutRecovery(p) ==
    /\ pc[p] = "gcManifest"
    /\ plan' = [plan EXCEPT ![p].revision = cas.revision]
    /\ todo' = [todo EXCEPT ![p] =
          [delete |-> {g \in Gens : cas.status[g] = "ACTIVE"} \ Retained(cas, plan[p].active),
           recovery |-> {}]]
    /\ Goto(p, "gcPlanned")
    /\ UNCHANGED <<rowVars, manifestVars, fileVars, tempVars, runVars, budget, orphans, victim>>

\* ... and the rows after it.
PlanReadCas(p) ==
    /\ pc[p] = "gcManifest"
    /\ plan' = [plan EXCEPT ![p].revision = cas.revision]
    /\ todo' = [todo EXCEPT ![p] =
          [delete |-> {g \in Gens : cas.status[g] = "ACTIVE"} \ Retained(cas, plan[p].active),
           recovery |-> {g \in Gens : cas.status[g] = "DELETING"}]]
    /\ Goto(p, "gcPlanned")
    /\ UNCHANGED <<rowVars, manifestVars, fileVars, tempVars, runVars, budget, orphans, victim>>

\* The plan is applied only at the revision it was made at; the check is
\* made once, without the lock.
ApplyGc(p) ==
    /\ pc[p] = "gcPlanned"
    /\ IF cas.revision = plan[p].revision
       THEN /\ plan' = [plan EXCEPT ![p].active = manifest]
            /\ Goto(p, "gcNext") /\ UNCHANGED todo
       ELSE /\ todo' = [todo EXCEPT ![p] = NoTodo]
            /\ Goto(p, "swept") /\ UNCHANGED plan
    /\ UNCHANGED <<rowVars, manifestVars, fileVars, tempVars, runVars, budget, orphans, victim>>

-----------------------------------------------------------------------------
(* deleteGenerationUnderCasLock.                                           *)

Pick(p, g) == g \in todo[p].recovery \/ (todo[p].recovery = {} /\ g \in todo[p].delete)

Drop(p, g) == todo' = [todo EXCEPT ![p] = [delete |-> @.delete \ {g},
                                           recovery |-> @.recovery \ {g}]]

\* A bug: the manifest is not read again under the lock.
DeletableByRows(p, g, status) ==
    /\ g # cas.active
    /\ cas.status[g] = status /\ ~cas.pinned[g]

\* A bug: the pin is taken from the plan.
DeletableIgnoringPin(p, g, status) ==
    /\ g \notin {cas.active, manifest, plan[p].active}
    /\ cas.status[g] = status

\* g may be deleted, as far as the rows and the manifest now say.
Deletable(p, g, status) ==
    /\ g \notin {cas.active, manifest, plan[p].active}
    /\ cas.status[g] = status /\ ~cas.pinned[g]

\* First transaction: the intent to delete g is committed.  For the entries
\* of plan.recovery it is there already.
MarkDeleting(p) ==
    /\ pc[p] = "gcNext" /\ lock = None
    /\ \E g \in Gens :
          /\ Pick(p, g)
          /\ victim' = [victim EXCEPT ![p] = g]
          /\ IF g \in todo[p].recovery
             THEN Deletable(p, g, "DELETING") /\ UNCHANGED cas
             ELSE /\ Deletable(p, g, "ACTIVE") /\ Complete(g)
                  /\ cas' = AppendHistory(SetStatus(cas, g, "DELETING"), "MARK_DELETING", g)
    /\ txn' = cas'
    /\ Goto(p, "marked")
    /\ UNCHANGED <<lock, manifestVars, fileVars, tempVars, runVars, budget, plan, todo, orphans>>

\* The entry is refused under the lock, or its files are not as the catalog
\* says, or the lock is not to be had: it is left for a later collection.
SkipEntry(p) ==
    /\ pc[p] = "gcNext"
    /\ \E g \in Gens :
          /\ Pick(p, g)
          /\ \/ lock # None
             \/ g \in todo[p].recovery /\ ~Deletable(p, g, "DELETING")
             \/ g \notin todo[p].recovery /\ ~(Deletable(p, g, "ACTIVE") /\ Complete(g))
          /\ Drop(p, g)
    /\ UNCHANGED <<rowVars, manifestVars, fileVars, tempVars, pc, runVars, budget,
                   plan, orphans, victim>>

\* Second transaction: everything is checked again before the first unlink.
BeginUnlink(p) ==
    /\ pc[p] = "marked" /\ lock = None
    /\ Deletable(p, victim[p], "DELETING")
    /\ victim[p] \in todo[p].recovery \/ Complete(victim[p])
    /\ lock' = p /\ txn' = cas
    /\ Goto(p, "unlinking")
    /\ UNCHANGED <<cas, manifestVars, fileVars, tempVars, runVars, budget, gcVars>>

RefuseUnlink(p) ==
    /\ pc[p] = "marked"
    /\ \/ lock # None
       \/ ~Deletable(p, victim[p], "DELETING")
       \/ victim[p] \notin todo[p].recovery /\ ~Complete(victim[p])
    /\ Drop(p, victim[p]) /\ victim' = [victim EXCEPT ![p] = None]
    /\ Goto(p, "gcNext")
    /\ UNCHANGED <<rowVars, manifestVars, fileVars, tempVars, runVars, budget, plan, orphans>>

Unlink(file, g) == [file EXCEPT ![g] = IF @ \in {"linked", "durable"} THEN "unlinked" ELSE @]

UnlinkDb(p) ==
    /\ pc[p] = "unlinking"
    /\ dbFile' = Unlink(dbFile, victim[p])
    /\ Goto(p, "dbUnlinked")
    /\ UNCHANGED <<rowVars, manifestVars, metaFile, bytes, content, metaPin, tempVars, runVars,
                   budget, gcVars>>

\* A bug: one fsync for both unlinks.
SkipDbRemovalSync(p) ==
    /\ pc[p] = "dbUnlinked"
    /\ Goto(p, "dbGone")
    /\ UNCHANGED <<rowVars, manifestVars, fileVars, tempVars, runVars, budget, gcVars>>

\* fsync of generations/ between the two unlinks.
SyncDbRemoval(p) ==
    /\ pc[p] = "dbUnlinked"
    /\ dbFile' = Synced(dbFile) /\ metaFile' = Synced(metaFile)
    /\ Goto(p, "dbGone")
    /\ UNCHANGED <<rowVars, manifestVars, bytes, content, metaPin, tempVars, runVars,
                   budget, gcVars>>

\* The metadata is the proof a recovery needs: it goes after the database.
UnlinkMetadata(p) ==
    /\ pc[p] = "dbGone"
    /\ metaFile' = Unlink(metaFile, victim[p])
    /\ Goto(p, "metadataUnlinked")
    /\ UNCHANGED <<rowVars, manifestVars, dbFile, bytes, content, metaPin, tempVars, runVars,
                   budget, gcVars>>

SyncMetadataRemoval(p) ==
    /\ pc[p] = "metadataUnlinked"
    /\ dbFile' = Synced(dbFile) /\ metaFile' = Synced(metaFile)
    /\ Goto(p, "gone")
    /\ UNCHANGED <<rowVars, manifestVars, bytes, content, metaPin, tempVars, runVars,
                   budget, gcVars>>

\* Both files are confirmed absent; DELETED is committed.
CommitDeleted(p) ==
    /\ pc[p] = "gone"
    /\ ~Visible(dbFile, victim[p]) /\ ~Visible(metaFile, victim[p])
    /\ CanSetStatus(txn, victim[p], "DELETED")
    /\ cas' = AppendHistory(SetStatus(txn, victim[p], "DELETED"), "DELETE", victim[p])
    /\ txn' = cas' /\ lock' = None
    /\ Drop(p, victim[p]) /\ victim' = [victim EXCEPT ![p] = None]
    /\ Goto(p, "gcNext")
    /\ UNCHANGED <<manifestVars, fileVars, tempVars, runVars, budget, plan, orphans>>

\* A call of the second transaction fails: it is rolled back, the generation
\* stays DELETING with what is left of its files, and the next entry follows.
FailDeletion(p) ==
    /\ pc[p] \in DeletionPhases
    /\ Spend("faults")
    /\ lock' = None /\ txn' = cas
    /\ Drop(p, victim[p]) /\ victim' = [victim EXCEPT ![p] = None]
    /\ Goto(p, "gcNext")
    /\ UNCHANGED <<cas, manifestVars, fileVars, tempVars, runVars, plan, orphans>>

\* plan.sweepTmp: staging files past their age, taken here to be those no
\* running process reserved.
SweepTmp(p) ==
    /\ pc[p] = "gcNext" /\ todo[p] = NoTodo
    /\ staging' = {g \in staging : \E q \in Procs : gen[q] = g}
    /\ Goto(p, "swept")
    /\ UNCHANGED <<rowVars, manifestVars, fileVars, dbTemp, metaTemp, runVars, budget, gcVars>>

-----------------------------------------------------------------------------
(* planGenerationOrphanRecovery and applyGenerationOrphanRecovery.         *)

OrphansOf(kind, gens) == {[kind |-> kind, gen |-> g] : g \in gens}

\* A database no live row or protection names, a named one without metadata,
\* and metadata without a database are orphans.
PlanOrphans(p) ==
    LET cataloged == {g \in Gens : cas.status[g] \in {"ACTIVE", "DELETING"}}
        protected == {manifest} \cup {g \in Gens : cas.status[g] = "ACTIVE" /\ cas.pinned[g]}
        db == {g \in Gens : Visible(dbFile, g)}
        metadata == {g \in Gens : Visible(metaFile, g)}
    IN  /\ pc[p] = "swept"
        /\ plan' = [plan EXCEPT ![p] = [active |-> manifest, revision |-> cas.revision]]
        /\ orphans' = [orphans EXCEPT ![p] =
              OrphansOf("PROMOTION_TEMP", dbTemp) \cup OrphansOf("METADATA_TEMP", metaTemp)
              \cup OrphansOf("NOT_IN_CATALOG", db \ (cataloged \cup protected))
              \cup OrphansOf("DB_ONLY", (db \cap (cataloged \cup protected)) \ metadata)
              \cup OrphansOf("METADATA_ONLY", metadata \ (db \cup protected))
              \cup OrphansOf("ACTIVE_NOT_IN_CATALOG", {manifest} \ (cataloged \cup {None}))]
        /\ Goto(p, "orphanPlanned")
        /\ UNCHANGED <<rowVars, manifestVars, fileVars, tempVars, runVars, budget, todo, victim>>

\* The plan is stale if the revision or the manifest moved.
ApplyOrphans(p) ==
    /\ pc[p] = "orphanPlanned"
    /\ orphans' = IF cas.revision = plan[p].revision /\ manifest = plan[p].active
                  THEN orphans ELSE [orphans EXCEPT ![p] = {}]
    /\ Goto(p, "orphanNext")
    /\ UNCHANGED <<rowVars, manifestVars, fileVars, tempVars, runVars, budget, plan, todo, victim>>

Forget(p, o) == orphans' = [orphans EXCEPT ![p] = @ \ {o}]

\* An orphan is too young, changed since it was listed, or busy.
RetainOrphan(p) ==
    /\ pc[p] = "orphanNext"
    /\ \E o \in orphans[p] : Forget(p, o)
    /\ UNCHANGED <<rowVars, manifestVars, fileVars, tempVars, pc, runVars, budget,
                   plan, todo, victim>>

\* A temp of a publication that died, unlinked under the lock.
RemoveTempOrphan(p) ==
    /\ pc[p] = "orphanNext" /\ lock = None
    /\ \E o \in orphans[p] :
          /\ \/ o.kind = "PROMOTION_TEMP" /\ o.gen \in dbTemp
                /\ dbTemp' = dbTemp \ {o.gen} /\ UNCHANGED metaTemp
             \/ o.kind = "METADATA_TEMP" /\ o.gen \in metaTemp
                /\ metaTemp' = metaTemp \ {o.gen} /\ UNCHANGED dbTemp
          /\ Forget(p, o)
    /\ UNCHANGED <<rowVars, manifestVars, fileVars, staging, pc, runVars, budget,
                   plan, todo, victim>>

\* A final file nothing in the rows or the manifest read under the lock names.
UnlinkFinalOrphan(p) ==
    /\ pc[p] = "orphanNext" /\ lock = None
    /\ \E o \in orphans[p] :
          /\ o.gen \notin {manifest, cas.active} /\ ~cas.pinned[o.gen]
          /\ cas.status[o.gen] \in {"NONE", "DELETED"}
          /\ \/ o.kind \in {"NOT_IN_CATALOG", "DB_ONLY"} /\ Visible(dbFile, o.gen)
                /\ dbFile' = Unlink(dbFile, o.gen) /\ UNCHANGED metaFile
             \/ o.kind = "METADATA_ONLY" /\ Visible(metaFile, o.gen)
                /\ metaFile' = Unlink(metaFile, o.gen) /\ UNCHANGED dbFile
          /\ Forget(p, o)
    /\ lock' = p /\ txn' = cas
    /\ Goto(p, "orphanUnlinked")
    /\ UNCHANGED <<cas, manifestVars, bytes, content, metaPin, tempVars, runVars, budget,
                   plan, todo, victim>>

SyncOrphan(p) ==
    /\ pc[p] = "orphanUnlinked"
    /\ dbFile' = Synced(dbFile) /\ metaFile' = Synced(metaFile)
    /\ lock' = None
    /\ Goto(p, "orphanNext")
    /\ UNCHANGED <<cas, txn, manifestVars, bytes, content, metaPin, tempVars, runVars, budget,
                   gcVars>>

\* The active generation has no row: its files are verified and a row made,
\* in a transaction that reads the manifest again.
RecoverActive(p) ==
    /\ pc[p] = "orphanNext" /\ lock = None
    /\ \E o \in orphans[p] :
          /\ o.kind = "ACTIVE_NOT_IN_CATALOG" /\ manifest = o.gen /\ Complete(o.gen)
          /\ cas' = LET known == cas.status[o.gen] # "NONE"
                        rows == IF known THEN cas ELSE UpsertActive(cas, o.gen, metaPin[o.gen])
                    IN  AppendHistory(SetActive(rows, o.gen), "RECOVER", o.gen)
          /\ txn' = cas'
          /\ Forget(p, o)
    /\ UNCHANGED <<lock, manifestVars, fileVars, tempVars, pc, runVars, budget,
                   plan, todo, victim>>

\* publishGenerationSnapshot returns.
ReturnPublished(p) ==
    /\ pc[p] = "orphanNext" /\ orphans[p] = {}
    /\ EndRun(p) /\ ForgetPlan(p)
    /\ UNCHANGED <<rowVars, manifestVars, fileVars, tempVars, budget>>

-----------------------------------------------------------------------------

PublishNext(p) == (Reserve(p) \/ Step(p) \/ FailBeforePublish(p) \/ FailPromotion(p)
                   \/ FailPublish(p)) /\ UNCHANGED gcVars

CollectStep(p) ==
    \/ PlanReadManifest(p) \/ PlanReadCas(p) \/ ApplyGc(p)
    \/ MarkDeleting(p) \/ SkipEntry(p) \/ BeginUnlink(p) \/ RefuseUnlink(p)
    \/ UnlinkDb(p) \/ SyncDbRemoval(p) \/ UnlinkMetadata(p) \/ SyncMetadataRemoval(p)
    \/ CommitDeleted(p) \/ SweepTmp(p)

OrphanStep(p) ==
    \/ PlanOrphans(p) \/ ApplyOrphans(p) \/ RetainOrphan(p) \/ RemoveTempOrphan(p)
    \/ UnlinkFinalOrphan(p) \/ SyncOrphan(p) \/ RecoverActive(p) \/ ReturnPublished(p)

Killed == \/ \E p \in Procs : Crash(p) /\ ForgetPlan(p)
          \/ PowerLoss /\ plan' = [p \in Procs |-> EmptyPlan] /\ todo' = [p \in Procs |-> NoTodo]
             /\ orphans' = [p \in Procs |-> {}] /\ victim' = [p \in Procs |-> None]

GcNext == \/ \E p \in Procs : PublishNext(p) \/ CollectStep(p) \/ OrphanStep(p) \/ FailDeletion(p)
          \/ Killed
          \/ RemoveManifest /\ UNCHANGED gcVars

GcSpec == Init /\ GcInit /\ [][GcNext]_allVars

\* A process that is not killed runs to the end of what it started, and the
\* project is indexed again (watch, auto-index, the user).
GcFairSpec == GcSpec /\ \A p \in Procs :
    /\ WF_allVars((Step(p) /\ UNCHANGED gcVars) \/ CollectStep(p) \/ OrphanStep(p))
    /\ WF_allVars(Reserve(p) /\ UNCHANGED gcVars)

-----------------------------------------------------------------------------
(* Properties.                                                             *)

GcTypeOK ==
    /\ cas \in CasRows /\ txn \in CasRows /\ lock \in Procs \cup {None}
    /\ pc \in [Procs -> Phases \cup GcPhases]
    /\ dbFile \in [Gens -> FileStates] /\ metaFile \in [Gens -> FileStates]
    /\ plan \in [Procs -> [active : GenOrNone, revision : Nat]]
    /\ todo \in [Procs -> [delete : SUBSET Gens, recovery : SUBSET Gens]]
    /\ orphans \in [Procs -> SUBSET Orphans]
    /\ victim \in [Procs -> GenOrNone]

\* A generation that was deleted stays deleted: no crash or power loss brings
\* back a file of a generation whose row says DELETED.
DeletedIsGone ==
    \A g \in Gens : cas.status[g] = "DELETED" => dbFile[g] = "absent" /\ metaFile[g] = "absent"

\* The metadata of a generation being deleted outlasts its database, whatever
\* the power does: a recovery that finds the database finds its proof.
MetadataOutlivesDatabase ==
    \A g \in Gens : cas.status[g] = "DELETING" /\ dbFile[g] # "absent" => metaFile[g] = "durable"

\* A pin is final: it holds against collections planned before it was made.
PinnedIsKept == \A g \in Gens : cas.pinned[g] => cas.status[g] = "ACTIVE"

\* What readers are sent to, and what a later run may publish again without
\* copying it, is not taken away: no step, of the collector, of a publication
\* or of the power, leaves a generation that the manifest names or that is
\* ACTIVE without the files it had on disk for good.
NamedIsKept ==
    [][\A g \in Gens : (g = manifest \/ cas.status[g] = "ACTIVE") /\ OnDiskForGood(g)
                       => OnDiskForGood(g)']_allVars

\* "Keep the active generation plus the two most recent previous generations"
\* (docs/architecture/ATOMIC_GENERATION_PUBLICATION.md:947): at the time it
\* is marked, a generation is not among the previous ones to keep.
RetentionHonoured ==
    [][\A g \in Gens : cas.status[g] = "ACTIVE" /\ cas'.status[g] = "DELETING"
                       => g \notin RecentPrevious(cas.history, cas.active, RetainCount)]_allVars

\* The generations other than active that were made active last, whether by
\* a publication or by a recovery that found them in the manifest.
RecentlyActive(history, active, n) ==
    RecentPrevious([i \in DOMAIN history |->
                       IF history[i].action = "RECOVER"
                       THEN [action |-> "PUBLISH", gen |-> history[i].gen] ELSE history[i]],
                   active, n)

\* The same retention rule for a generation whose publication was completed
\* by a recovery: it was active, so it is a previous generation too.
RecoveredIsRetained ==
    [][\A g \in Gens : cas.status[g] = "ACTIVE" /\ cas'.status[g] = "DELETING"
                       => g \notin RecentlyActive(cas.history, cas.active, RetainCount)]_allVars

\* "If the CAS revision changed since the plan was made -> GC_PLAN_STALE,
\* zero deletions" (v2/src/storage/generation-gc.ts:37): nothing was published
\* between the plan and a deletion made from it.
StalePlanDeletesNothing ==
    [][\A p \in Procs : pc[p] = "gcNext" /\ pc'[p] = "marked" /\ cas' # cas =>
          \A i \in DOMAIN cas.history :
              i > plan[p].revision => cas.history[i].action # "PUBLISH"]_allVars

\* What readers are shown while processes collect, as the promise of the store.
\* What a power loss may bring back goes by its name: a generation that only a
\* manifest of the past names may be collected.
Served == INSTANCE SnapshotStore WITH
    Snapshots <- Contents, Nothing <- None,
    shown <- Snapshot(manifest),
    recoverable <- {Name(g) : g \in onDisk},
    acknowledged <- Name(acked),
    newer <- {Name(g) : g \in sinceAck}

\* Until the power first fails the store with its collector keeps the promise of
\* the store without one: retention, sweeps and orphan recovery are not seen.
PromiseUntilPowerFails ==
    /\ Served!Init
    /\ [][budget'["powerLosses"] = MaxPowerLosses => [Served!Next]_Served!vars]_allVars

\* A deletion that was begun is completed by this or a later collection.
DeletionCompletes == \A g \in Gens : cas.status[g] = "DELETING" ~> cas.status[g] = "DELETED"

=============================================================================
