------------------------------ MODULE CasStore ------------------------------
(***************************************************************************)
(* The rows of publication-cas.sqlite and the statements the publisher and *)
(* the collector run on them inside one BEGIN IMMEDIATE transaction        *)
(* (v2/src/storage/internal/generation-cas-store.ts).                      *)
(*                                                                         *)
(* A row set is a record                                                   *)
(*   active    publication_state.active_generation_id (None for NULL)      *)
(*   revision  publication_state.revision                                  *)
(*   status    generation_catalog.status, "NONE" where there is no row     *)
(*   pinned    generation_catalog.pinned                                   *)
(*   history   publication_history, oldest row first                       *)
(* The immutable content columns of a catalog row (sha256, size, root      *)
(* fingerprint, versions) are one abstract content; they never change, so  *)
(* they are kept with the files, not in the rows.                          *)
(***************************************************************************)
EXTENDS Integers, Sequences, FiniteSets

CONSTANTS
    Gens,        \* generation ids (random UUIDs; an id no trace is left of is fresh)
    None         \* SQL NULL, a missing manifest

ASSUME NoneAssumption == None \notin Gens

GenOrNone == Gens \cup {None}
Statuses == {"NONE", "ACTIVE", "DELETING", "DELETED"}
HistoryActions == {"PUBLISH", "UNPUBLISH", "RECOVER", "PIN", "MARK_DELETING", "DELETE"}
HistoryRow == [action : HistoryActions, gen : Gens]

CasRows == [active : GenOrNone, revision : Nat, status : [Gens -> Statuses],
            pinned : [Gens -> BOOLEAN], history : Seq(HistoryRow)]

\* The schema's initial rows: no active generation, revision 0.
EmptyRows == [active |-> None, revision |-> 0, status |-> [g \in Gens |-> "NONE"],
              pinned |-> [g \in Gens |-> FALSE], history |-> <<>>]

\* appendPublicationHistory: the revision moves with every history row.
AppendHistory(rows, action, g) ==
    [rows EXCEPT !.revision = @ + 1,
                 !.history = Append(@, [action |-> action, gen |-> g])]

\* upsertGenerationCatalog with status ACTIVE: a row past ACTIVE never comes back.
CanUpsertActive(rows, g) == rows.status[g] \in {"NONE", "ACTIVE"}

UpsertActive(rows, g, pin) ==
    [rows EXCEPT !.status[g] = "ACTIVE", !.pinned[g] = @ \/ pin]

SetActive(rows, g) == [rows EXCEPT !.active = g]

\* setCatalogStatus: ACTIVE -> DELETING -> DELETED and nothing else.
CanSetStatus(rows, g, s) ==
    \/ rows.status[g] = "ACTIVE" /\ s = "DELETING"
    \/ rows.status[g] = "DELETING" /\ s = "DELETED"

SetStatus(rows, g, s) == [rows EXCEPT !.status[g] = s]

\* A bug: the reconciliation writes no history row.
ReconcileSilently(rows, m, sidecarPin) ==
    IF m = None \/ rows.status[m] # "NONE" THEN SetActive(rows, m)
    ELSE SetActive(UpsertActive(rows, m, sidecarPin), m)

\* A bug: the rows win over the manifest.
TrustRows(rows, m, sidecarPin) == rows

\* A bug: UNPUBLISH is recorded under the new active generation.
ReconcileUnderNew(rows, m, sidecarPin) ==
    IF rows.active = m THEN rows
    ELSE [AppendHistory(rows, IF m = None THEN "UNPUBLISH" ELSE "RECOVER", m) EXCEPT
            !.active = m,
            !.status = IF m = None \/ @[m] # "NONE" THEN @ ELSE [@ EXCEPT ![m] = "ACTIVE"]]

\* reconcileFromManifest: the manifest wins over the rows.  sidecarPin is
\* what readRecoveredPinnedFlag reads from the generation's metadata file.
Reconcile(rows, m, sidecarPin) ==
    IF rows.active = m THEN rows
    ELSE IF m = None
    THEN [AppendHistory(rows, "UNPUBLISH", rows.active) EXCEPT !.active = None]
    ELSE LET known == rows.status[m] # "NONE" IN
         [AppendHistory(rows, "RECOVER", m) EXCEPT
            !.active = m,
            !.status[m] = IF known THEN @ ELSE "ACTIVE",
            !.pinned[m] = IF known THEN @ ELSE sidecarPin]

\* The rows publishPreparedGeneration commits for generation g.
PublishRows(rows, g, pin) ==
    LET published == AppendHistory(SetActive(UpsertActive(rows, g, pin), g), "PUBLISH", g)
    IN  IF pin THEN AppendHistory(published, "PIN", g) ELSE published

-----------------------------------------------------------------------------
(* What the rows say about each other.                                     *)

\* The history rows that change the active generation.
Moves == {"PUBLISH", "RECOVER", "UNPUBLISH"}

\* The history accounts for the rows: its last move says which generation is
\* active, and every ACTIVE row was made so by a publication or a recovery.
Explained(rows) ==
    LET at == DOMAIN rows.history
        IsMove(i) == rows.history[i].action \in Moves
    IN  /\ \A i \in at : IsMove(i) /\ (\A j \in at : IsMove(j) => j <= i) =>
              rows.active = IF rows.history[i].action = "UNPUBLISH" THEN None
                                                             ELSE rows.history[i].gen
        /\ (\A i \in at : ~IsMove(i)) => rows.active = None
        /\ \A g \in Gens : rows.status[g] = "ACTIVE" =>
              \E i \in at : /\ rows.history[i].gen = g
                            /\ rows.history[i].action \in {"PUBLISH", "RECOVER"}

\* A pinned generation is neither being deleted nor gone.
PinsHold(rows) == \A g \in Gens : rows.pinned[g] => rows.status[g] = "ACTIVE"

=============================================================================
