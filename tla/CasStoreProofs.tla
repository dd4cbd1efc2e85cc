--------------------------- MODULE CasStoreProofs ---------------------------
(***************************************************************************)
(* What the row operations of CasStore return, for every set of ids.       *)
(***************************************************************************)
EXTENDS CasStore, TLAPS

\* appendPublicationHistory moves the revision and adds one row, and touches
\* neither the active generation nor the catalog.
LEMMA AppendHistoryType ==
    ASSUME NEW rows \in CasRows, NEW action \in HistoryActions, NEW g \in Gens
    PROVE  /\ AppendHistory(rows, action, g) \in CasRows
           /\ AppendHistory(rows, action, g).active = rows.active
           /\ AppendHistory(rows, action, g).status = rows.status
           /\ AppendHistory(rows, action, g).pinned = rows.pinned
           /\ AppendHistory(rows, action, g).history =
                  Append(rows.history, [action |-> action, gen |-> g])
<1>1. [action |-> action, gen |-> g] \in HistoryRow  BY DEF HistoryRow
<1>2. Append(rows.history, [action |-> action, gen |-> g]) \in Seq(HistoryRow)
      BY <1>1 DEF CasRows
<1>3. rows.revision + 1 \in Nat  BY DEF CasRows
<1> DEFINE longer == Append(rows.history, [action |-> action, gen |-> g])
<1>4. AppendHistory(rows, action, g) =
        [rows EXCEPT !.revision = rows.revision + 1, !.history = longer]
      BY DEF AppendHistory
<1> HIDE DEF longer
<1>5. longer \in Seq(HistoryRow)  BY <1>2 DEF longer
<1>6. /\ AppendHistory(rows, action, g) \in CasRows
      /\ AppendHistory(rows, action, g).active = rows.active
      /\ AppendHistory(rows, action, g).status = rows.status
      /\ AppendHistory(rows, action, g).pinned = rows.pinned
      /\ AppendHistory(rows, action, g).history = longer
      BY <1>3, <1>4, <1>5 DEF CasRows
<1>. QED  BY <1>6 DEF longer

\* upsertGenerationCatalog and setActiveGenerationId change one row each.
LEMMA UpsertActiveType ==
    ASSUME NEW rows \in CasRows, NEW g \in Gens, NEW b \in BOOLEAN
    PROVE  /\ UpsertActive(rows, g, b) \in CasRows
           /\ UpsertActive(rows, g, b).active = rows.active
           /\ UpsertActive(rows, g, b).status = [rows.status EXCEPT ![g] = "ACTIVE"]
           /\ UpsertActive(rows, g, b).pinned = [rows.pinned EXCEPT ![g] = rows.pinned[g] \/ b]
           /\ UpsertActive(rows, g, b).history = rows.history
<1>1. [rows.status EXCEPT ![g] = "ACTIVE"] \in [Gens -> Statuses]  BY DEF CasRows, Statuses
<1>2. [rows.pinned EXCEPT ![g] = rows.pinned[g] \/ b] \in [Gens -> BOOLEAN]  BY DEF CasRows
<1>. QED  BY <1>1, <1>2 DEF UpsertActive, CasRows

LEMMA SetActiveType ==
    ASSUME NEW rows \in CasRows, NEW g \in GenOrNone
    PROVE  /\ SetActive(rows, g) \in CasRows
           /\ SetActive(rows, g).active = g
           /\ SetActive(rows, g).status = rows.status
           /\ SetActive(rows, g).pinned = rows.pinned
           /\ SetActive(rows, g).history = rows.history
BY DEF SetActive, CasRows

\* setCatalogStatus changes the status of one row.
LEMMA SetStatusType ==
    ASSUME NEW rows \in CasRows, NEW g \in Gens, NEW s \in Statuses
    PROVE  /\ SetStatus(rows, g, s) \in CasRows
           /\ SetStatus(rows, g, s).active = rows.active
           /\ SetStatus(rows, g, s).status = [rows.status EXCEPT ![g] = s]
           /\ SetStatus(rows, g, s).pinned = rows.pinned
           /\ SetStatus(rows, g, s).history = rows.history
<1>1. [rows.status EXCEPT ![g] = s] \in [Gens -> Statuses]  BY DEF CasRows
<1>. QED  BY <1>1 DEF SetStatus, CasRows

\* What a reconciliation with the manifest m may make of the rows.
ReconciledRows(rows, m, next) ==
    /\ next \in CasRows
    /\ next.active = m
    /\ \A g \in Gens \ {m} : next.status[g] = rows.status[g] /\ next.pinned[g] = rows.pinned[g]
    /\ m \in Gens => \/ next.status[m] = rows.status[m] /\ next.pinned[m] = rows.pinned[m]
                     \/ next.status[m] = "ACTIVE" /\ rows.status[m] = "NONE"
    /\ rows.active = m => next = rows
    /\ rows.active # m => next.history =
          Append(rows.history, [action |-> IF m = None THEN "UNPUBLISH" ELSE "RECOVER",
                                gen |-> IF m = None THEN rows.active ELSE m])

\* What the publication of g makes of them.
PublishedRows(rows, g, b, next) ==
    /\ next \in CasRows
    /\ next.active = g
    /\ next.status = [rows.status EXCEPT ![g] = "ACTIVE"]
    /\ next.pinned = [rows.pinned EXCEPT ![g] = rows.pinned[g] \/ b]
    /\ next.history = LET published == Append(rows.history, [action |-> "PUBLISH", gen |-> g])
                      IN  IF b THEN Append(published, [action |-> "PIN", gen |-> g])
                               ELSE published

\* reconcileFromManifest ends with the manifest's generation active, makes a
\* generation ACTIVE in the catalog only if the manifest names it and it has no
\* row, and writes one history row if the active generation changes.
LEMMA ReconcileType ==
    ASSUME NEW rows \in CasRows, NEW m \in GenOrNone, NEW b \in BOOLEAN
    PROVE  ReconciledRows(rows, m, Reconcile(rows, m, b))
<1> USE DEF ReconciledRows
<1>1. CASE rows.active = m  BY <1>1 DEF Reconcile
<1>2. CASE rows.active # m /\ m = None
  <2>1. rows.active \in Gens  BY <1>2 DEF CasRows, GenOrNone
  <2>2. "UNPUBLISH" \in HistoryActions  BY DEF HistoryActions
  <2> DEFINE moved == AppendHistory(rows, "UNPUBLISH", rows.active)
             row == [action |-> "UNPUBLISH", gen |-> rows.active]
  <2>3. /\ moved \in CasRows /\ moved.status = rows.status /\ moved.pinned = rows.pinned
        /\ moved.history = Append(rows.history, row)
        BY <2>1, <2>2, AppendHistoryType
  <2>4. Reconcile(rows, m, b) = [moved EXCEPT !.active = None]  BY <1>2 DEF Reconcile
  <2>5. row = [action |-> IF m = None THEN "UNPUBLISH" ELSE "RECOVER",
               gen |-> IF m = None THEN rows.active ELSE m]
        BY <1>2
  <2> HIDE DEF moved, row
  <2>6. /\ Reconcile(rows, m, b) \in CasRows
        /\ Reconcile(rows, m, b).active = None
        /\ Reconcile(rows, m, b).status = rows.status
        /\ Reconcile(rows, m, b).pinned = rows.pinned
        /\ Reconcile(rows, m, b).history = Append(rows.history, row)
        BY <2>3, <2>4 DEF CasRows, GenOrNone
  <2>. QED  BY <1>2, <2>5, <2>6, NoneAssumption
<1>3. CASE rows.active # m /\ m # None
  <2>1. m \in Gens  BY <1>3 DEF GenOrNone
  <2>2. "RECOVER" \in HistoryActions  BY DEF HistoryActions
  <2> DEFINE moved == AppendHistory(rows, "RECOVER", m)
             known == rows.status[m] # "NONE"
             row == [action |-> "RECOVER", gen |-> m]
             status == [moved.status EXCEPT ![m] = IF known THEN @ ELSE "ACTIVE"]
             pinned == [moved.pinned EXCEPT ![m] = IF known THEN @ ELSE b]
  <2>3. /\ moved \in CasRows /\ moved.status = rows.status /\ moved.pinned = rows.pinned
        /\ moved.history = Append(rows.history, row)
        BY <2>1, <2>2, AppendHistoryType
  <2>4. Reconcile(rows, m, b) =
          [moved EXCEPT !.active = m,
                        !.status[m] = IF known THEN @ ELSE "ACTIVE",
                        !.pinned[m] = IF known THEN @ ELSE b]
        BY <1>3 DEF Reconcile
  <2>5. row = [action |-> IF m = None THEN "UNPUBLISH" ELSE "RECOVER",
               gen |-> IF m = None THEN rows.active ELSE m]
        BY <1>3
  <2> HIDE DEF moved, row
  <2>6. status \in [Gens -> Statuses] /\ pinned \in [Gens -> BOOLEAN]
        BY <2>1, <2>3 DEF CasRows, Statuses
  <2>7. Reconcile(rows, m, b) =
          [moved EXCEPT !.active = m, !.status = status, !.pinned = pinned]
        BY <2>3, <2>4 DEF CasRows
  <2>8. \A g \in Gens \ {m} : status[g] = rows.status[g] /\ pinned[g] = rows.pinned[g]
        BY <2>3 DEF CasRows
  <2>9. \/ status[m] = rows.status[m] /\ pinned[m] = rows.pinned[m]
        \/ status[m] = "ACTIVE" /\ rows.status[m] = "NONE"
        BY <2>1, <2>3 DEF CasRows
  <2> HIDE DEF status, pinned, known
  <2>10. /\ Reconcile(rows, m, b) \in CasRows
         /\ Reconcile(rows, m, b).active = m
         /\ Reconcile(rows, m, b).status = status
         /\ Reconcile(rows, m, b).pinned = pinned
         /\ Reconcile(rows, m, b).history = Append(rows.history, row)
         BY <2>3, <2>6, <2>7 DEF CasRows
  <2>. QED  BY <1>3, <2>5, <2>8, <2>9, <2>10
<1>. QED  BY <1>1, <1>2, <1>3

\* The rows a publication commits: its target is the active generation, no
\* other catalog row has changed, and the history says so.
LEMMA PublishRowsType ==
    ASSUME NEW rows \in CasRows, NEW g \in Gens, NEW b \in BOOLEAN
    PROVE  PublishedRows(rows, g, b, PublishRows(rows, g, b))
<1> DEFINE upserted == UpsertActive(rows, g, b)
           active == SetActive(upserted, g)
           published == AppendHistory(active, "PUBLISH", g)
           status == [rows.status EXCEPT ![g] = "ACTIVE"]
           pinned == [rows.pinned EXCEPT ![g] = rows.pinned[g] \/ b]
           row == [action |-> "PUBLISH", gen |-> g]
           pinRow == [action |-> "PIN", gen |-> g]
<1>1. /\ upserted \in CasRows /\ upserted.status = status
      /\ upserted.pinned = pinned /\ upserted.history = rows.history
      BY UpsertActiveType
<1> HIDE DEF upserted, status, pinned
<1>2. /\ active \in CasRows /\ active.active = g /\ active.status = upserted.status
      /\ active.pinned = upserted.pinned /\ active.history = upserted.history
      BY <1>1, SetActiveType DEF GenOrNone
<1> HIDE DEF active
<1>3. "PUBLISH" \in HistoryActions /\ "PIN" \in HistoryActions  BY DEF HistoryActions
<1>4. /\ published \in CasRows /\ published.active = active.active
      /\ published.status = active.status /\ published.pinned = active.pinned
      /\ published.history = Append(active.history, row)
      BY <1>2, <1>3, AppendHistoryType
<1> HIDE DEF published
<1>5. /\ AppendHistory(published, "PIN", g) \in CasRows
      /\ AppendHistory(published, "PIN", g).active = published.active
      /\ AppendHistory(published, "PIN", g).status = published.status
      /\ AppendHistory(published, "PIN", g).pinned = published.pinned
      /\ AppendHistory(published, "PIN", g).history = Append(published.history, pinRow)
      BY <1>3, <1>4, AppendHistoryType
<1>6. PublishRows(rows, g, b) = IF b THEN AppendHistory(published, "PIN", g) ELSE published
      BY DEF PublishRows, published, active, upserted
<1> HIDE DEF row, pinRow
<1>7. /\ PublishRows(rows, g, b) \in CasRows
      /\ PublishRows(rows, g, b).active = g
      /\ PublishRows(rows, g, b).status = status
      /\ PublishRows(rows, g, b).pinned = pinned
      /\ PublishRows(rows, g, b).history =
            IF b THEN Append(Append(rows.history, row), pinRow) ELSE Append(rows.history, row)
      BY <1>1, <1>2, <1>4, <1>5, <1>6
<1>. QED  BY <1>7 DEF status, pinned, row, pinRow, PublishedRows

-----------------------------------------------------------------------------
(* Which row operations keep the history an account of the rows.           *)

\* A row that records a move explains the generation it makes active.
LEMMA MoveExplained ==
    ASSUME NEW rows \in CasRows, Explained(rows), NEW next \in CasRows,
           NEW action \in Moves, NEW g \in Gens,
           next.history = Append(rows.history, [action |-> action, gen |-> g]),
           next.active = IF action = "UNPUBLISH" THEN None ELSE g,
           \A h \in Gens : next.status[h] = "ACTIVE" =>
               rows.status[h] = "ACTIVE" \/ (h = g /\ action # "UNPUBLISH")
    PROVE  Explained(next)
<1> DEFINE old == rows.history
           new == next.history
           last == Len(old) + 1
<1>1. old \in Seq(HistoryRow) /\ [action |-> action, gen |-> g] \in HistoryRow
      BY DEF CasRows, HistoryRow, Moves, HistoryActions
<1>2. /\ DOMAIN new = 1..last /\ last \in Nat
      /\ new[last] = [action |-> action, gen |-> g]
      /\ \A i \in DOMAIN old : i \in DOMAIN new /\ new[i] = old[i]
      BY <1>1
<1>3. last \in DOMAIN new /\ new[last].action = action /\ new[last].gen = g  BY <1>2
<1>4. \A i \in DOMAIN new :
         new[i].action \in Moves /\ (\A j \in DOMAIN new : new[j].action \in Moves => j <= i)
            => i = last
      BY <1>2, <1>3
<1>5. \A h \in Gens : next.status[h] = "ACTIVE" =>
         \E i \in DOMAIN new : new[i].gen = h /\ new[i].action \in {"PUBLISH", "RECOVER"}
  <2> SUFFICES ASSUME NEW h \in Gens, next.status[h] = "ACTIVE"
               PROVE  \E i \in DOMAIN new :
                         new[i].gen = h /\ new[i].action \in {"PUBLISH", "RECOVER"}
      OBVIOUS
  <2>1. CASE rows.status[h] = "ACTIVE"
    <3>1. PICK i \in DOMAIN old : old[i].gen = h /\ old[i].action \in {"PUBLISH", "RECOVER"}
          BY <2>1 DEF Explained
    <3>. QED  BY <3>1, <1>2
  <2>2. CASE h = g /\ action # "UNPUBLISH"  BY <2>2, <1>3 DEF Moves
  <2>. QED  BY <2>1, <2>2
<1>. QED  BY <1>3, <1>4, <1>5 DEF Explained

\* A row that records no move leaves an explained store explained.
LEMMA OtherExplained ==
    ASSUME NEW rows \in CasRows, Explained(rows), NEW next \in CasRows,
           NEW action \in HistoryActions \ Moves, NEW g \in Gens,
           next.history = Append(rows.history, [action |-> action, gen |-> g]),
           next.active = rows.active,
           \A h \in Gens : next.status[h] = "ACTIVE" => rows.status[h] = "ACTIVE"
    PROVE  Explained(next)
<1> DEFINE old == rows.history
           new == next.history
           last == Len(old) + 1
<1>1. old \in Seq(HistoryRow) /\ [action |-> action, gen |-> g] \in HistoryRow
      BY DEF CasRows, HistoryRow
<1>2. /\ DOMAIN new = DOMAIN old \cup {last}
      /\ new[last] = [action |-> action, gen |-> g]
      /\ \A i \in DOMAIN old : new[i] = old[i]
      BY <1>1
<1>3. new[last].action \notin Moves  BY <1>2
<1>4. \A h \in Gens : next.status[h] = "ACTIVE" =>
         \E i \in DOMAIN new : new[i].gen = h /\ new[i].action \in {"PUBLISH", "RECOVER"}
  <2> SUFFICES ASSUME NEW h \in Gens, next.status[h] = "ACTIVE"
               PROVE  \E i \in DOMAIN new :
                         new[i].gen = h /\ new[i].action \in {"PUBLISH", "RECOVER"}
      OBVIOUS
  <2>1. PICK i \in DOMAIN old : old[i].gen = h /\ old[i].action \in {"PUBLISH", "RECOVER"}
        BY DEF Explained
  <2>. QED  BY <2>1, <1>2
<1> HIDE DEF old, new, last
<1>5. \A i \in DOMAIN new :
         new[i].action \in Moves /\ (\A j \in DOMAIN new : new[j].action \in Moves => j <= i)
            => next.active = IF new[i].action = "UNPUBLISH" THEN None ELSE new[i].gen
  <2> SUFFICES ASSUME NEW i \in DOMAIN new, new[i].action \in Moves,
                      \A j \in DOMAIN new : new[j].action \in Moves => j <= i
               PROVE  next.active = IF new[i].action = "UNPUBLISH" THEN None ELSE new[i].gen
      OBVIOUS
  <2>1. i \in DOMAIN old /\ new[i] = old[i]  BY <1>2, <1>3
  <2>2. \A j \in DOMAIN old : old[j].action \in Moves => j <= i  BY <1>2
  <2>. QED  BY <2>1, <2>2 DEF Explained, old
<1>6. (\A i \in DOMAIN new : new[i].action \notin Moves) => next.active = None
      BY <1>2 DEF Explained, old
<1>. QED  BY <1>4, <1>5, <1>6 DEF Explained, new

\* reconcileFromManifest keeps the history an account of the rows.
LEMMA ReconcileExplained ==
    ASSUME NEW rows \in CasRows, NEW m \in GenOrNone, NEW b \in BOOLEAN, Explained(rows)
    PROVE  Explained(Reconcile(rows, m, b))
<1> DEFINE next == Reconcile(rows, m, b)
<1>1. ReconciledRows(rows, m, next)  BY ReconcileType
<1> HIDE DEF next
<1>2. CASE rows.active = m
  <2>1. Explained(next)  BY <1>1, <1>2 DEF ReconciledRows
  <2>. QED  BY <2>1 DEF next
<1>3. CASE rows.active # m
  <2> DEFINE action == IF m = None THEN "UNPUBLISH" ELSE "RECOVER"
             g == IF m = None THEN rows.active ELSE m
  <2>1. action \in Moves /\ g \in Gens  BY <1>3 DEF Moves, CasRows, GenOrNone
  <2>2. /\ next \in CasRows
        /\ next.history = Append(rows.history, [action |-> action, gen |-> g])
        /\ next.active = IF action = "UNPUBLISH" THEN None ELSE g
        BY <1>1, <1>3 DEF ReconciledRows
  <2>3. \A h \in Gens : next.status[h] = "ACTIVE" => rows.status[h] = "ACTIVE" \/ h = m
        BY <1>1 DEF ReconciledRows
  <2>4. \A h \in Gens : next.status[h] = "ACTIVE" =>
           rows.status[h] = "ACTIVE" \/ (h = g /\ action # "UNPUBLISH")
        BY <2>3, NoneAssumption
  <2> HIDE DEF action, g
  <2>5. Explained(next)  BY <2>1, <2>2, <2>4, MoveExplained
  <2>. QED  BY <2>5 DEF next
<1>. QED  BY <1>2, <1>3 DEF next

\* So does a publication.
LEMMA PublishExplained ==
    ASSUME NEW rows \in CasRows, NEW g \in Gens, NEW b \in BOOLEAN, Explained(rows)
    PROVE  Explained(PublishRows(rows, g, b))
<1> DEFINE plain == PublishRows(rows, g, FALSE)
           next == PublishRows(rows, g, b)
<1>1. PublishedRows(rows, g, FALSE, plain) /\ PublishedRows(rows, g, b, next)
      BY PublishRowsType
<1>2. ~b => next = plain  OBVIOUS
<1> HIDE DEF next, plain
<1>3. Explained(plain)
  <2> DEFINE action == "PUBLISH"
  <2>1. /\ plain \in CasRows
        /\ plain.history = Append(rows.history, [action |-> action, gen |-> g])
        /\ plain.active = IF action = "UNPUBLISH" THEN None ELSE g
        BY <1>1 DEF PublishedRows
  <2>2. \A h \in Gens : plain.status[h] = "ACTIVE" =>
           rows.status[h] = "ACTIVE" \/ (h = g /\ action # "UNPUBLISH")
        BY <1>1 DEF PublishedRows, CasRows
  <2>3. action \in Moves  BY DEF Moves
  <2> HIDE DEF action
  <2>. QED  BY <2>1, <2>2, <2>3, MoveExplained
<1>4. CASE b
  <2> DEFINE action == "PIN"
  <2>1. /\ plain \in CasRows /\ next \in CasRows
        /\ next.active = plain.active /\ next.status = plain.status
        /\ next.history = Append(plain.history, [action |-> action, gen |-> g])
        BY <1>1, <1>4 DEF PublishedRows
  <2>2. action \in HistoryActions \ Moves  BY DEF Moves, HistoryActions
  <2> HIDE DEF action
  <2>. QED  BY <1>3, <2>1, <2>2, OtherExplained DEF next
<1>5. CASE ~b  BY <1>2, <1>3, <1>5 DEF next
<1>. QED  BY <1>4, <1>5

\* Neither operation takes a pinned generation out of service.
LEMMA PinsKept ==
    ASSUME NEW rows \in CasRows, NEW m \in GenOrNone, NEW b \in BOOLEAN, PinsHold(rows)
    PROVE  /\ PinsHold(Reconcile(rows, m, b))
           /\ m \in Gens => PinsHold(PublishRows(rows, m, b))
<1>1. PinsHold(Reconcile(rows, m, b))
  <2> DEFINE next == Reconcile(rows, m, b)
  <2>1. ReconciledRows(rows, m, next)  BY ReconcileType
  <2> HIDE DEF next
  <2>2. PinsHold(next)  BY <2>1 DEF ReconciledRows, PinsHold
  <2>. QED  BY <2>2 DEF next
<1>2. ASSUME m \in Gens PROVE PinsHold(PublishRows(rows, m, b))
  <2> DEFINE next == PublishRows(rows, m, b)
  <2>1. PublishedRows(rows, m, b, next)  BY <1>2, PublishRowsType
  <2> HIDE DEF next
  <2>2. PinsHold(next)  BY <1>2, <2>1 DEF PublishedRows, PinsHold, CasRows
  <2>. QED  BY <2>2 DEF next
<1>. QED  BY <1>1, <1>2

\* A deletion records what it does to one row, and only to an unpinned one.
LEMMA DeletionRows ==
    ASSUME NEW rows \in CasRows, NEW g \in Gens, NEW s \in {"DELETING", "DELETED"},
           NEW action \in {"MARK_DELETING", "DELETE"},
           Explained(rows), PinsHold(rows), ~rows.pinned[g]
    PROVE  LET next == AppendHistory(SetStatus(rows, g, s), action, g)
           IN  /\ next \in CasRows /\ next.active = rows.active
               /\ next.status = [rows.status EXCEPT ![g] = s]
               /\ Explained(next) /\ PinsHold(next)
<1> DEFINE set == SetStatus(rows, g, s)
           next == AppendHistory(set, action, g)
<1>0. s \in Statuses  BY DEF Statuses
<1>1. /\ set \in CasRows /\ set.active = rows.active /\ set.pinned = rows.pinned
      /\ set.status = [rows.status EXCEPT ![g] = s] /\ set.history = rows.history
      BY <1>0, SetStatusType
<1>2. action \in HistoryActions \ Moves  BY DEF HistoryActions, Moves
<1> HIDE DEF set
<1>3. /\ next \in CasRows /\ next.active = set.active /\ next.status = set.status
      /\ next.pinned = set.pinned
      /\ next.history = Append(set.history, [action |-> action, gen |-> g])
      BY <1>1, <1>2, AppendHistoryType
<1> HIDE DEF next
<1>4. /\ next.history = Append(rows.history, [action |-> action, gen |-> g])
      /\ next.active = rows.active
      BY <1>1, <1>3
<1>5. \A h \in Gens : next.status[h] = "ACTIVE" => rows.status[h] = "ACTIVE"
      BY <1>1, <1>3 DEF CasRows
<1>6. Explained(next)  BY <1>2, <1>3, <1>4, <1>5, OtherExplained
<1>7. PinsHold(next)  BY <1>1, <1>3 DEF PinsHold, CasRows
<1>8. /\ next \in CasRows /\ next.active = rows.active
      /\ next.status = [rows.status EXCEPT ![g] = s]
      BY <1>1, <1>3
<1>. QED  BY <1>6, <1>7, <1>8 DEF next, set

\* The recovery of an active generation that has no row.
LEMMA RecoveryRows ==
    ASSUME NEW rows \in CasRows, NEW g \in Gens, NEW b \in BOOLEAN,
           Explained(rows), PinsHold(rows)
    PROVE  LET known == rows.status[g] # "NONE"
               next == AppendHistory(SetActive(IF known THEN rows ELSE UpsertActive(rows, g, b), g),
                                     "RECOVER", g)
           IN  /\ next \in CasRows /\ next.active = g
               /\ \A h \in Gens : \/ next.status[h] = rows.status[h]
                                  \/ h = g /\ next.status[h] = "ACTIVE"
               /\ Explained(next) /\ PinsHold(next)
<1> DEFINE upserted == IF rows.status[g] # "NONE" THEN rows ELSE UpsertActive(rows, g, b)
           set == SetActive(upserted, g)
           action == "RECOVER"
           next == AppendHistory(set, action, g)
<1>1. /\ upserted \in CasRows /\ upserted.history = rows.history
      /\ \/ upserted.status = rows.status /\ upserted.pinned = rows.pinned
         \/ /\ upserted.status = [rows.status EXCEPT ![g] = "ACTIVE"]
            /\ upserted.pinned = [rows.pinned EXCEPT ![g] = rows.pinned[g] \/ b]
      BY UpsertActiveType
<1> HIDE DEF upserted
<1>2. /\ set \in CasRows /\ set.active = g /\ set.status = upserted.status
      /\ set.pinned = upserted.pinned /\ set.history = upserted.history
      BY <1>1, SetActiveType DEF GenOrNone
<1>3. action \in HistoryActions /\ action \in Moves /\ action # "UNPUBLISH"
      BY DEF HistoryActions, Moves
<1> HIDE DEF set, action
<1>4. /\ next \in CasRows /\ next.active = set.active /\ next.status = set.status
      /\ next.pinned = set.pinned
      /\ next.history = Append(set.history, [action |-> action, gen |-> g])
      BY <1>2, <1>3, AppendHistoryType
<1> HIDE DEF next
<1>5. /\ next.history = Append(rows.history, [action |-> action, gen |-> g])
      /\ next.active = g
      BY <1>1, <1>2, <1>4
<1>6. \A h \in Gens : next.status[h] = rows.status[h] \/ (h = g /\ next.status[h] = "ACTIVE")
      BY <1>1, <1>2, <1>4 DEF CasRows
<1>7. Explained(next)
  <2>1. \A h \in Gens : next.status[h] = "ACTIVE" =>
           rows.status[h] = "ACTIVE" \/ (h = g /\ action # "UNPUBLISH")
        BY <1>3, <1>6
  <2>. QED  BY <1>3, <1>4, <1>5, <2>1, MoveExplained
<1>8. PinsHold(next)  BY <1>1, <1>2, <1>4 DEF PinsHold, CasRows
<1>. QED  BY <1>4, <1>5, <1>6, <1>7, <1>8 DEF next, set, upserted, action

\* The schema's first rows are rows.
LEMMA EmptyRowsType == EmptyRows \in CasRows
<1>1. <<>> \in Seq(HistoryRow)  OBVIOUS
<1>. QED  BY <1>1 DEF EmptyRows, CasRows, GenOrNone, Statuses

\* They are explained, and nothing is pinned.
LEMMA EmptyExplained == Explained(EmptyRows) /\ PinsHold(EmptyRows)
BY DEF Explained, PinsHold, EmptyRows

=============================================================================
