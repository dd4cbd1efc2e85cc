----------------------- MODULE GenerationPublication -----------------------
(***************************************************************************)
(* Publishing a project's graph as an immutable generation:                *)
(* publishGenerationSnapshot (v2/src/indexer/generation-publication.ts)    *)
(* and the reserve, prepare, publish and discard operations of             *)
(* v2/src/storage/generation-publisher.ts, run by several processes over   *)
(* one project store, with process crashes, power losses and failing       *)
(* system calls.                                                           *)
(*                                                                         *)
(* Every action is one stretch of code between two points where another    *)
(* process, a crash or a failing call can be seen.  The project store is   *)
(* a set of directory entries, each with the state the disk has of it: an  *)
(* entry is "linked" until an fsync of its directory makes it "durable",   *)
(* and a power loss may drop a linked entry or revive an "unlinked" one.   *)
(* SQLite is taken to keep what it commits (synchronous = FULL) and to     *)
(* roll back what it did not.                                              *)
(***************************************************************************)
EXTENDS CasStore

CONSTANTS
    Procs,           \* processes that index the project
    Contents,        \* graph contents (same sha256, size, fingerprint, versions)
    ExpectedSource,  \* "cas": the indexer's caller; "manifest": a caller that reads the manifest
    PinChoices,      \* values of options.pin; the indexer passes none ({FALSE})
    MaxRevision,     \* bound: no new run once the revision reaches it
    MaxCrashes,      \* bound: process crashes
    MaxPowerLosses,  \* bound: power losses
    MaxFaults,       \* bound: failing system calls
    MaxRemovals      \* bound: manifests deleted by an operator

ASSUME ProcsAssumption == None \notin Procs
ASSUME SourceAssumption == ExpectedSource \in {"cas", "manifest"}
ASSUME PinAssumption == PinChoices \subseteq BOOLEAN /\ PinChoices # {}
ASSUME BoundsAssumption ==
    /\ MaxRevision \in Nat /\ MaxCrashes \in Nat /\ MaxPowerLosses \in Nat
    /\ MaxFaults \in Nat /\ MaxRemovals \in Nat

VARIABLES
    cas,         \* committed rows of publication-cas.sqlite
    txn,         \* rows as the process inside BEGIN IMMEDIATE sees them
    lock,        \* the process inside BEGIN IMMEDIATE, or None
    manifest,    \* active-generation.json: the generation it names, or None
    onDisk,      \* the manifests a power loss now could leave
    dbFile,      \* generations/<g>.db, by generation
    metaFile,    \* generations/<g>.json, by generation
    bytes,       \* are the bytes of g's promoted database on disk?
    content,     \* the graph g was backed up from
    metaPin,     \* the pinned flag written in g's metadata
    staging,     \* generations with a file in tmp/
    dbTemp,      \* generations with a .publish-<g>-*.db in generations/
    metaTemp,    \* generations with a .metadata-<g>-*.tmp in generations/
    pc,          \* where each process is in publishGenerationSnapshot
    gen,         \* the generation id it reserved
    target,      \* the generation it publishes: its own, or one it deduplicates to
    expected,    \* expectedActiveGenerationId
    pin,         \* options.pin
    mutated,     \* the PublicationMutationState flags that are set
    token,       \* state of the reservation, then of the prepared generation
    acked,       \* history variable: last generation a caller was told is PUBLISHED
    sinceAck,    \* history variable: manifests written since
    budget       \* crashes, power losses, faults and removals still allowed

rowVars == <<cas, txn, lock>>
manifestVars == <<manifest, onDisk, acked, sinceAck>>
fileVars == <<dbFile, metaFile, bytes, content, metaPin>>
tempVars == <<staging, dbTemp, metaTemp>>
runVars == <<gen, target, expected, pin, mutated, token>>
vars == <<rowVars, manifestVars, fileVars, tempVars, pc, runVars, budget>>

FileStates == {"absent", "linked", "durable", "unlinked"}
LockedPhases == {"locked", "copied", "tempSynced", "linked", "promoted", "cleaned",
                 "metaWritten", "metaLinked", "candidate", "renamed", "visible"}
Phases == LockedPhases \cup
          {"idle", "reserved", "populated", "prepared", "expecting", "published", "failed"}
Flags == {"staging", "finalDb", "metadata", "manifest"}
Tokens == {"NONE", "RESERVED", "PREPARED", "PUBLISHING", "CONSUMED", "DISCARDED"}
Faults == {"crashes", "powerLosses", "faults", "removals"}

Init ==
    /\ cas = EmptyRows /\ txn = EmptyRows /\ lock = None
    /\ manifest = None /\ onDisk = {None} /\ acked = None /\ sinceAck = {}
    /\ dbFile = [g \in Gens |-> "absent"] /\ metaFile = [g \in Gens |-> "absent"]
    /\ bytes = [g \in Gens |-> "cached"] /\ metaPin = [g \in Gens |-> FALSE]
    /\ \E c \in Contents : content = [g \in Gens |-> c]
    /\ staging = {} /\ dbTemp = {} /\ metaTemp = {}
    /\ pc = [p \in Procs |-> "idle"] /\ gen = [p \in Procs |-> None]
    /\ target = [p \in Procs |-> None] /\ expected = [p \in Procs |-> None]
    /\ pin = [p \in Procs |-> FALSE] /\ mutated = [p \in Procs |-> {}]
    /\ token = [p \in Procs |-> "NONE"]
    /\ budget = [crashes |-> MaxCrashes, powerLosses |-> MaxPowerLosses,
                 faults |-> MaxFaults, removals |-> MaxRemovals]

-----------------------------------------------------------------------------
(* The disk.                                                               *)

Visible(file, g) == file[g] \in {"linked", "durable"}

\* fsync of generations/: its entries are now as durable as they look.
Synced(file) == [g \in Gens |-> CASE file[g] = "linked" -> "durable"
                                  [] file[g] = "unlinked" -> "absent"
                                  [] OTHER -> file[g]]

\* The same entries after a power loss that kept those of the set kept.
AfterPowerLoss(file, kept) ==
    [g \in Gens |-> IF file[g] \in {"linked", "unlinked"}
                    THEN IF g \in kept THEN "durable" ELSE "absent"
                    ELSE file[g]]

Volatile(file) == {g \in Gens : file[g] \in {"linked", "unlinked"}}

\* Both files of g are there: a reader can open it.
Complete(g) == Visible(dbFile, g) /\ Visible(metaFile, g)

\* Both files of g are there whatever the power does.
OnDiskForGood(g) ==
    dbFile[g] = "durable" /\ bytes[g] = "durable" /\ metaFile[g] = "durable"

\* randomUUID: an id nothing in the store or in a process refers to.
Fresh(g) ==
    /\ cas.status[g] = "NONE" /\ txn.status[g] = "NONE"
    /\ dbFile[g] = "absent" /\ metaFile[g] = "absent"
    /\ g \notin staging \cup dbTemp \cup metaTemp \cup onDisk \cup sinceAck
    /\ g # acked /\ \A p \in Procs : g \notin {gen[p], target[p], expected[p]}

Goto(p, phase) == pc' = [pc EXCEPT ![p] = phase]
Spend(fault) == budget[fault] > 0 /\ budget' = [budget EXCEPT ![fault] = @ - 1]
Flag(p, flag) == mutated' = [mutated EXCEPT ![p] = @ \cup {flag}]

\* The variables of p as publishGenerationSnapshot leaves them.
EndRun(p) ==
    /\ Goto(p, "idle")
    /\ gen' = [gen EXCEPT ![p] = None] /\ target' = [target EXCEPT ![p] = None]
    /\ expected' = [expected EXCEPT ![p] = None] /\ pin' = [pin EXCEPT ![p] = FALSE]
    /\ mutated' = [mutated EXCEPT ![p] = {}] /\ token' = [token EXCEPT ![p] = "NONE"]

-----------------------------------------------------------------------------
(* One run of publishGenerationSnapshot, up to the publication lock.       *)

\* Bound: beyond MaxRevision a run starts only where there is something to
\* mend, which a publication (or its collection) does.
RunAllowed ==
    \/ cas.revision < MaxRevision
    \/ lock = None /\ (cas.active # manifest \/ \E g \in Gens : cas.status[g] = "DELETING")

\* reserveGenerationStaging: a fresh id and its empty staging file.
Reserve(p) ==
    /\ pc[p] = "idle"
    /\ RunAllowed
    /\ \E g \in Gens : /\ Fresh(g)
                       /\ gen' = [gen EXCEPT ![p] = g]
                       /\ staging' = staging \cup {g}
    /\ token' = [token EXCEPT ![p] = "RESERVED"]
    /\ Goto(p, "reserved")
    /\ UNCHANGED <<rowVars, manifestVars, fileVars, dbTemp, metaTemp,
                   target, expected, pin, mutated, budget>>

\* db.backup(stagingPath): the graph as it is now.
Backup(p) ==
    /\ pc[p] = "reserved"
    /\ \E c \in Contents : content' = [content EXCEPT ![gen[p]] = c]
    /\ Goto(p, "populated")
    /\ UNCHANGED <<rowVars, manifestVars, dbFile, metaFile, bytes, metaPin, tempVars,
                   runVars, budget>>

\* prepareGenerationForPublication, when every check holds.
Prepare(p) ==
    /\ pc[p] = "populated"
    /\ token' = [token EXCEPT ![p] = "PREPARED"]
    /\ Goto(p, "prepared")
    /\ UNCHANGED <<rowVars, manifestVars, fileVars, tempVars, gen, target, expected, pin,
                   mutated, budget>>

\* The backup or a check of the preparation fails; once SQLite has opened the
\* file the reservation is DISCARDED, before that it is RESERVED again.
FailBeforePublish(p) ==
    /\ pc[p] \in {"reserved", "populated"}
    /\ Spend("faults")
    /\ \E s \in IF pc[p] = "reserved" THEN {"RESERVED"} ELSE {"RESERVED", "DISCARDED"} :
          token' = [token EXCEPT ![p] = s]
    /\ Goto(p, "failed")
    /\ UNCHANGED <<rowVars, manifestVars, fileVars, tempVars, gen, target, expected, pin, mutated>>

\* The caller's expectedActiveGenerationId, read outside any transaction.
ReadExpected(p) ==
    /\ pc[p] = "prepared"
    /\ expected' = [expected EXCEPT ![p] = IF ExpectedSource = "cas" THEN cas.active
                                                                     ELSE manifest]
    /\ Goto(p, "expecting")
    /\ UNCHANGED <<rowVars, manifestVars, fileVars, tempVars, gen, target, pin, mutated,
                   token, budget>>

-----------------------------------------------------------------------------
(* publishPreparedGeneration, inside BEGIN IMMEDIATE.                      *)

\* reconcileFromManifest on the committed rows.
Reconciled == Reconcile(cas, manifest, manifest # None /\ metaPin[manifest])

\* A bug: the expected generation is not compared.
BeginUnguarded(p) ==
    /\ pc[p] = "expecting" /\ lock = None
    /\ lock' = p /\ txn' = Reconciled
    /\ UNCHANGED <<cas, pin>>
    /\ mutated' = [mutated EXCEPT ![p] = {}]
    /\ token' = [token EXCEPT ![p] = "PUBLISHING"]
    /\ Goto(p, "locked")
    /\ UNCHANGED <<manifestVars, fileVars, tempVars, gen, target, expected, budget>>

\* BEGIN IMMEDIATE, reconcile, and the optimistic check passes.
BeginPublish(p) ==
    /\ pc[p] = "expecting" /\ lock = None
    /\ expected[p] = Reconciled.active
    /\ lock' = p /\ txn' = Reconciled
    /\ \E b \in PinChoices : pin' = [pin EXCEPT ![p] = b]
    /\ mutated' = [mutated EXCEPT ![p] = {}]
    /\ token' = [token EXCEPT ![p] = "PUBLISHING"]
    /\ Goto(p, "locked")
    /\ UNCHANGED <<cas, manifestVars, fileVars, tempVars, gen, target, expected, budget>>

\* The optimistic check fails: PUBLICATION_CAS_MISMATCH.  The transaction,
\* with what the reconciliation wrote, is rolled back.
MismatchPublish(p) ==
    /\ pc[p] = "expecting" /\ lock = None
    /\ expected[p] # Reconciled.active
    /\ token' = [token EXCEPT ![p] = "PREPARED"]
    /\ Goto(p, "failed")
    /\ UNCHANGED <<rowVars, manifestVars, fileVars, tempVars, gen, target, expected, pin,
                   mutated, budget>>

\* The busy timeout expires: PUBLICATION_CAS_BUSY.
BusyPublish(p) ==
    /\ pc[p] = "expecting" /\ lock # None
    /\ token' = [token EXCEPT ![p] = "PREPARED"]
    /\ Goto(p, "failed")
    /\ UNCHANGED <<rowVars, manifestVars, fileVars, tempVars, gen, target, expected, pin,
                   mutated, budget>>

\* A bug: only the active generation is compared.
DedupAgainstActive(p) == {d \in Gens : txn.active = d /\ content[d] = content[gen[p]]}

\* findDedupCandidate: the ACTIVE catalog rows with this run's content.
DedupCandidates(p) ==
    {d \in Gens : txn.status[d] = "ACTIVE" /\ content[d] = content[gen[p]]}

\* The candidate's files are verified and its generation is published again;
\* removing the staging file is not required to succeed.
UseDedup(p) ==
    /\ pc[p] = "locked"
    /\ \E d \in DedupCandidates(p) : /\ Complete(d)
                                     /\ target' = [target EXCEPT ![p] = d]
    /\ \/ staging' = staging \ {gen[p]} /\ Flag(p, "staging") /\ UNCHANGED budget
       \/ Spend("faults") /\ UNCHANGED <<staging, mutated>>
    /\ Goto(p, "candidate")
    /\ UNCHANGED <<rowVars, manifestVars, fileVars, dbTemp, metaTemp, gen, expected, pin, token>>

\* The staging file is copied to a temp file in generations/.
CopyToTemp(p) ==
    /\ pc[p] = "locked"
    /\ DedupCandidates(p) = {}
    /\ target' = [target EXCEPT ![p] = gen[p]]
    /\ dbTemp' = dbTemp \cup {gen[p]}
    /\ bytes' = [bytes EXCEPT ![gen[p]] = "cached"]
    /\ Flag(p, "finalDb")
    /\ Goto(p, "copied")
    /\ UNCHANGED <<rowVars, manifestVars, dbFile, metaFile, content, metaPin, staging, metaTemp,
                   gen, expected, pin, token, budget>>

\* A bug: the temp file is not fsynced.
SkipTempSync(p) ==
    /\ pc[p] = "copied"
    /\ Goto(p, "tempSynced")
    /\ UNCHANGED <<rowVars, manifestVars, fileVars, tempVars, runVars, budget>>

\* fsync of the temp file, before anything can name it.
SyncTemp(p) ==
    /\ pc[p] = "copied"
    /\ bytes' = [bytes EXCEPT ![gen[p]] = "durable"]
    /\ Goto(p, "tempSynced")
    /\ UNCHANGED <<rowVars, manifestVars, dbFile, metaFile, content, metaPin, tempVars,
                   runVars, budget>>

\* link(temp, final).
LinkFinal(p) ==
    /\ pc[p] = "tempSynced"
    /\ dbFile' = [dbFile EXCEPT ![gen[p]] = "linked"]
    /\ Goto(p, "linked")
    /\ UNCHANGED <<rowVars, manifestVars, metaFile, bytes, content, metaPin, tempVars,
                   runVars, budget>>

\* fsync of generations/ after the link.
SyncGenerations(p) ==
    /\ pc[p] = "linked"
    /\ dbFile' = Synced(dbFile) /\ metaFile' = Synced(metaFile)
    /\ Goto(p, "promoted")
    /\ UNCHANGED <<rowVars, manifestVars, bytes, content, metaPin, tempVars, runVars, budget>>

\* The temp file and the staging file go; neither has to.
DropTempAndStaging(p) ==
    /\ pc[p] = "promoted"
    /\ \/ /\ dbTemp' = dbTemp \ {gen[p]} /\ staging' = staging \ {gen[p]}
          /\ Flag(p, "staging") /\ UNCHANGED budget
       \/ /\ dbTemp' \in {dbTemp, dbTemp \ {gen[p]}} /\ UNCHANGED staging
          /\ Spend("faults") /\ UNCHANGED mutated
    /\ Goto(p, "cleaned")
    /\ UNCHANGED <<rowVars, manifestVars, fileVars, metaTemp, gen, target, expected, pin, token>>

\* The metadata temp file, written and fsynced.
WriteMetadataTemp(p) ==
    /\ pc[p] = "cleaned"
    /\ metaTemp' = metaTemp \cup {gen[p]}
    /\ metaPin' = [metaPin EXCEPT ![gen[p]] = pin[p]]
    /\ Goto(p, "metaWritten")
    /\ UNCHANGED <<rowVars, manifestVars, dbFile, metaFile, bytes, content, staging, dbTemp,
                   runVars, budget>>

\* link(metadata temp, metadata).
LinkMetadata(p) ==
    /\ pc[p] = "metaWritten"
    /\ metaFile' = [metaFile EXCEPT ![gen[p]] = "linked"]
    /\ Goto(p, "metaLinked")
    /\ UNCHANGED <<rowVars, manifestVars, dbFile, bytes, content, metaPin, tempVars,
                   runVars, budget>>

\* A bug: generations/ is not fsynced after the metadata link.
SkipMetadataSync(p) ==
    /\ pc[p] = "metaLinked"
    /\ metaTemp' = metaTemp \ {gen[p]}
    /\ Flag(p, "metadata")
    /\ Goto(p, "candidate")
    /\ UNCHANGED <<rowVars, manifestVars, fileVars, staging, dbTemp,
                   gen, target, expected, pin, token, budget>>

\* fsync of generations/ after the link; then the temp goes, if it can.
SyncMetadata(p) ==
    /\ pc[p] = "metaLinked"
    /\ dbFile' = Synced(dbFile) /\ metaFile' = Synced(metaFile)
    /\ \/ metaTemp' = metaTemp \ {gen[p]} /\ UNCHANGED budget
       \/ Spend("faults") /\ UNCHANGED metaTemp
    /\ Flag(p, "metadata")
    /\ Goto(p, "candidate")
    /\ UNCHANGED <<rowVars, manifestVars, bytes, content, metaPin, staging, dbTemp,
                   gen, target, expected, pin, token>>

\* The candidate is verified, then rename(temp, active-generation.json).
RenameManifest(p) ==
    /\ pc[p] = "candidate"
    /\ Complete(target[p])
    /\ manifest' = target[p]
    /\ onDisk' = onDisk \cup {target[p]} /\ sinceAck' = sinceAck \cup {target[p]}
    /\ Goto(p, "renamed")
    /\ UNCHANGED <<rowVars, acked, fileVars, tempVars, runVars, budget>>

\* A bug: the directory is not fsynced after the rename.
SkipManifestSync(p) ==
    /\ pc[p] = "renamed"
    /\ Flag(p, "manifest")
    /\ Goto(p, "visible")
    /\ UNCHANGED <<rowVars, manifestVars, fileVars, tempVars,
                   gen, target, expected, pin, token, budget>>

\* fsync of the project's directory.
SyncManifest(p) ==
    /\ pc[p] = "renamed"
    /\ onDisk' = {manifest}
    /\ Flag(p, "manifest")
    /\ Goto(p, "visible")
    /\ UNCHANGED <<rowVars, manifest, acked, sinceAck, fileVars, tempVars,
                   gen, target, expected, pin, token, budget>>

\* The manifest and its files are read again; the rows are written; COMMIT.
CommitPublish(p) ==
    /\ pc[p] = "visible"
    /\ manifest = target[p] /\ Complete(target[p])
    /\ CanUpsertActive(txn, target[p])
    /\ cas' = PublishRows(txn, target[p], pin[p]) /\ txn' = cas' /\ lock' = None
    /\ acked' = target[p] /\ sinceAck' = {}
    /\ token' = [token EXCEPT ![p] = "CONSUMED"]
    /\ Goto(p, "published")
    /\ UNCHANGED <<manifest, onDisk, fileVars, tempVars, gen, target, expected, pin,
                   mutated, budget>>

FinishRun(p) ==
    /\ pc[p] = "published"
    /\ EndRun(p)
    /\ UNCHANGED <<rowVars, manifestVars, fileVars, tempVars, budget>>

-----------------------------------------------------------------------------
(* Failing calls.                                                          *)

\* A bug: every failed handle may be used again.
AbortKeepingHandle(p, flags) ==
    /\ lock' = None /\ txn' = cas
    /\ mutated' = [mutated EXCEPT ![p] = flags]
    /\ token' = [token EXCEPT ![p] = "PREPARED"]
    /\ Goto(p, "failed")

\* The catch of publishPreparedGeneration: ROLLBACK, and the handle may be
\* used again only if no mutation flag is left.
Abort(p, flags) ==
    /\ lock' = None /\ txn' = cas
    /\ mutated' = [mutated EXCEPT ![p] = flags]
    /\ token' = [token EXCEPT ![p] = IF flags = {} THEN "PREPARED" ELSE "CONSUMED"]
    /\ Goto(p, "failed")

\* A failure between the creation of the promotion temp and its link, and
\* cleanupTemp, which clears the flag only if it is certain of the removal.
FailPromotion(p) ==
    /\ pc[p] \in {"copied", "tempSynced"}
    /\ Spend("faults")
    /\ \/ dbTemp' = dbTemp \ {gen[p]} /\ Abort(p, mutated[p] \ {"finalDb"})
       \/ dbTemp' \in {dbTemp, dbTemp \ {gen[p]}} /\ Abort(p, mutated[p])
    /\ UNCHANGED <<cas, manifestVars, fileVars, staging, metaTemp, gen, target, expected, pin>>

\* Any other failure before COMMIT.  The entries a failed call may have
\* synced on its way out stay "linked", which covers both outcomes.
FailPublish(p) ==
    /\ pc[p] \in LockedPhases \ {"copied", "tempSynced", "promoted"}
    /\ Spend("faults")
    /\ dbTemp' \in IF pc[p] = "linked" THEN {dbTemp, dbTemp \ {gen[p]}} ELSE {dbTemp}
    /\ metaTemp' \in IF pc[p] = "metaWritten" THEN {metaTemp, metaTemp \ {gen[p]}}
                                              ELSE {metaTemp}
    /\ Abort(p, mutated[p])
    /\ UNCHANGED <<cas, manifestVars, fileVars, staging, gen, target, expected, pin>>

\* A bug: the error of discarding a CONSUMED handle is not swallowed.
CleanUpUnlessConsumed(p) ==
    /\ pc[p] = "failed"
    /\ token[p] # "CONSUMED"
    /\ staging' = staging \ {gen[p]}
    /\ EndRun(p)
    /\ UNCHANGED <<rowVars, manifestVars, fileVars, dbTemp, metaTemp, budget>>

\* The catch of publishGenerationSnapshot: the handle is discarded; a
\* CONSUMED one cannot be, and its error is swallowed.
CleanUpFailedRun(p) ==
    /\ pc[p] = "failed"
    /\ \/ token[p] = "CONSUMED" /\ UNCHANGED <<staging, budget>>
       \/ token[p] # "CONSUMED" /\ staging' = staging \ {gen[p]} /\ UNCHANGED budget
       \/ token[p] # "CONSUMED" /\ Spend("faults") /\ UNCHANGED staging
    /\ EndRun(p)
    /\ UNCHANGED <<rowVars, manifestVars, fileVars, dbTemp, metaTemp>>

-----------------------------------------------------------------------------
(* Crashes, power, and the operator.                                       *)

\* Process p dies: SQLite rolls back, every file stays as it is.
Crash(p) ==
    /\ pc[p] # "idle"
    /\ Spend("crashes")
    /\ IF lock = p THEN lock' = None /\ txn' = cas ELSE UNCHANGED <<lock, txn>>
    /\ EndRun(p)
    /\ UNCHANGED <<cas, manifestVars, fileVars, tempVars>>

\* The machine stops: an entry not synced may be there or not afterwards.
\* (Temp and staging files are taken to survive; nothing reads them again.)
PowerLoss ==
    /\ Spend("powerLosses")
    /\ manifest' \in onDisk /\ onDisk' = {manifest'}
    /\ \E kept \in SUBSET Volatile(dbFile) : dbFile' = AfterPowerLoss(dbFile, kept)
    /\ \E kept \in SUBSET Volatile(metaFile) : metaFile' = AfterPowerLoss(metaFile, kept)
    /\ lock' = None /\ txn' = cas
    /\ pc' = [p \in Procs |-> "idle"] /\ gen' = [p \in Procs |-> None]
    /\ target' = [p \in Procs |-> None] /\ expected' = [p \in Procs |-> None]
    /\ pin' = [p \in Procs |-> FALSE] /\ mutated' = [p \in Procs |-> {}]
    /\ token' = [p \in Procs |-> "NONE"]
    /\ UNCHANGED <<cas, acked, sinceAck, bytes, content, metaPin, tempVars>>

\* An operator deletes the active manifest while nothing is being published.
RemoveManifest ==
    /\ lock = None /\ manifest # None
    /\ Spend("removals")
    /\ manifest' = None
    /\ onDisk' = onDisk \cup {None} /\ sinceAck' = sinceAck \cup {None}
    /\ UNCHANGED <<rowVars, acked, fileVars, tempVars, pc, runVars>>

-----------------------------------------------------------------------------

Prepublish(p) == Backup(p) \/ Prepare(p) \/ ReadExpected(p) \/ BeginPublish(p)
                 \/ MismatchPublish(p) \/ BusyPublish(p)
Promote(p) == UseDedup(p) \/ CopyToTemp(p) \/ SyncTemp(p) \/ LinkFinal(p)
              \/ SyncGenerations(p) \/ DropTempAndStaging(p) \/ WriteMetadataTemp(p)
              \/ LinkMetadata(p) \/ SyncMetadata(p)
Activate(p) == RenameManifest(p) \/ SyncManifest(p) \/ CommitPublish(p)
Step(p) == Prepublish(p) \/ Promote(p) \/ Activate(p) \/ CleanUpFailedRun(p)
Fail(p) == FailBeforePublish(p) \/ FailPromotion(p) \/ FailPublish(p) \/ Crash(p)

Next == \/ \E p \in Procs : Reserve(p) \/ Step(p) \/ FinishRun(p) \/ Fail(p)
        \/ PowerLoss
        \/ RemoveManifest

Spec == Init /\ [][Next]_vars

-----------------------------------------------------------------------------
(* What a publication promises its readers: see SnapshotStore.             *)

Snapshot(g) == IF g = None THEN None ELSE IF Complete(g) THEN content[g] ELSE "broken"
DurableSnapshot(g) ==
    IF g = None THEN None ELSE IF OnDiskForGood(g) THEN content[g] ELSE "broken"
Name(g) == IF g = None THEN None ELSE content[g]

Promise == INSTANCE SnapshotStore WITH
    Snapshots <- Contents, Nothing <- None,
    shown <- Snapshot(manifest),
    recoverable <- {DurableSnapshot(g) : g \in onDisk},
    acknowledged <- Name(acked),
    newer <- {Name(g) : g \in sinceAck}

\* Every step of the store is a step of the promise: readers see whole
\* snapshots only, also after a power loss, and an acknowledged one is
\* superseded only by what was shown after it.
StoreKeepsPromise == Promise!Spec

-----------------------------------------------------------------------------
(* Properties.                                                             *)

\* The types of all variables; of pc, only that every process has a place.
DataOK ==
    /\ cas \in CasRows /\ txn \in CasRows /\ lock \in Procs \cup {None}
    /\ manifest \in GenOrNone /\ onDisk \subseteq GenOrNone
    /\ acked \in GenOrNone /\ sinceAck \subseteq GenOrNone
    /\ dbFile \in [Gens -> FileStates] /\ metaFile \in [Gens -> FileStates]
    /\ bytes \in [Gens -> {"cached", "durable"}] /\ content \in [Gens -> Contents]
    /\ metaPin \in [Gens -> BOOLEAN]
    /\ staging \subseteq Gens /\ dbTemp \subseteq Gens /\ metaTemp \subseteq Gens
    /\ DOMAIN pc = Procs /\ gen \in [Procs -> GenOrNone]
    /\ target \in [Procs -> GenOrNone] /\ expected \in [Procs -> GenOrNone]
    /\ pin \in [Procs -> BOOLEAN] /\ mutated \in [Procs -> SUBSET Flags]
    /\ token \in [Procs -> Tokens]
    /\ budget \in [Faults -> Nat]

TypeOK == DataOK /\ pc \in [Procs -> Phases]

\* Whatever manifest a power loss may leave names a generation whose database
\* and metadata are on disk with their bytes: temp fsync, link, directory
\* fsync and manifest rename are in the order that makes it so.
ManifestTargetSurvives == \A g \in onDisk \ {None} : OnDiskForGood(g)

\* A generation the catalog offers for deduplication or retention is on disk
\* for good, so a later run may publish it again without copying anything.
CatalogTargetsComplete ==
    \A g \in Gens : cas.status[g] = "ACTIVE" => OnDiskForGood(g)

\* Deduplication: no content is kept twice as an ACTIVE generation, however
\* runs that crashed, were recovered or lost the race left the catalog.
OneActivePerContent ==
    \A g, h \in Gens : /\ cas.status[g] = "ACTIVE" /\ cas.status[h] = "ACTIVE"
                       /\ content[g] = content[h]
                       => g = h

\* Once publishPreparedGeneration has returned PUBLISHED, no power loss can
\* bring back a manifest older than that generation.
AcknowledgedSurvives == onDisk \subseteq {acked} \cup sinceAck

\* The publication history, which retention reads, accounts for the catalog:
\* its last move says which generation is active, and every ACTIVE row was made
\* so by a publication or a recovery that the history has.
HistoryExplainsActive == Explained(cas)

\* A handle given back as PREPARED can be published again or discarded: its
\* staging file is there and nothing of its generation is in generations/.
PreparedIsUntouched ==
    \A p \in Procs : pc[p] = "failed" /\ token[p] = "PREPARED" =>
        /\ gen[p] \in staging
        /\ gen[p] \notin dbTemp \cup metaTemp
        /\ dbFile[gen[p]] = "absent" /\ metaFile[gen[p]] = "absent"

\* Optimistic locking: a run replaces only the manifest its caller saw
\* before taking the lock, so no publication is overwritten unseen.
NoLostUpdate ==
    [][\A p \in Procs : pc[p] = "candidate" /\ pc'[p] = "renamed" => manifest = expected[p]]_vars

\* A run that is not killed comes back to its caller, whether it published,
\* lost the race, found the lock held or met a failing call.
EveryRunFinishes == \A p \in Procs : pc[p] # "idle" ~> pc[p] = "idle"

\* The rows catch up with the manifest: "The next reconcileFromManifest
\* (called by the next publish or GC) will fix the CAS"
\* (v2/tests/storage/r169b-crash-harness.test.ts:558).
StoreHeals == []<>(cas.active = manifest)

\* "Only revert to PREPARED if NO visible mutation happened"
\* (v2/src/storage/generation-publisher.ts:2347).
PreparedOnlyIfManifestUntouched ==
    [][\A p \in Procs : pc[p] = "renamed" /\ pc'[p] = "failed" => token'[p] # "PREPARED"]_vars

=============================================================================
