----------------------- MODULE ParallelPipelineProofs -----------------------
(***************************************************************************)
(* The work of the parallel run is divided, and what it keeps is bounded:  *)
(* EveryFileIsAccounted and RetainedWithinBudget for any number of workers, *)
(* threads and files, any lengths and budget, whatever the files hold and  *)
(* whenever the run is cancelled.                                          *)
(*                                                                         *)
(* What the property says of the merged run is decided while the workers   *)
(* are at it: every file below the shared counter is held by one of them,  *)
(* cached, or in the lists of one (Divided), and a worker leaves only when *)
(* the counter has passed the last file or the run is cancelled (Exhausted).*)
(* What is in the buffers and the graph plays no part.                     *)
(*                                                                         *)
(* The budget is kept because a worker that will be admitted found room    *)
(* beside all the room taken before it (BudgetInv).  What a sum of lengths *)
(* is follows by induction on the number of files: a set of numbers has a  *)
(* least element (WFMin), so there is no first file where it could fail.   *)
(***************************************************************************)
EXTENDS ParallelPipeline, WellFoundedInduction, TLAPS

IsWorker(r) ==
    r = [pc |-> r.pc, file |-> r.file, prior |-> r.prior, buf |-> r.buf,
         errs |-> r.errs, quiet |-> r.quiet]

Shapes ==
    /\ wk = [w \in Workers |-> wk[w]] /\ \A w \in Workers : IsWorker(wk[w])
    /\ next \in Nat \ {0} /\ threads \in Workers /\ cancelled \in BOOLEAN

Holds(w) == wk[w].pc \in Holding

\* A worker is where the phase can have brought it.
InPhase ==
    \A w \in Workers :
        wk[w].pc \in CASE phase = "extract" -> {"new", "claim", "extract", "admit", "store", "exit"}
                       [] phase = "resolve" -> {"new", "claim", "resolve", "exit"}
                       [] phase = "registry" -> {"new"}
                       [] phase = "failed" -> {"new", "exit"}
                       [] OTHER -> {"exit"}

\* A file that is held has been handed out, and to one worker.
HandedOut ==
    /\ \A w \in Workers : Holds(w) => wk[w].file \in 1 .. N /\ wk[w].file < next
    /\ \A w, x \in Workers : w # x /\ Holds(w) /\ Holds(x) => wk[w].file # wk[x].file

\* Nothing is extracted that has a result, and no result is of a file to come.
FirstTime ==
    /\ \A w \in Workers : wk[w].pc \in {"extract", "admit", "store"} => wk[w].file \notin Cached
    /\ phase = "extract" => \A i \in Cached : i \in 1 .. N /\ i < next

\* A file that is handed out is held, or it has left its trace.
Traced(i) == \/ i \in Cached
             \/ \E w \in Workers : i \in wk[w].quiet \/ \E o \in Outcomes : <<i, o>> \in wk[w].errs

Divided ==
    phase = "extract" /\ ~cancelled =>
        \A i \in 1 .. N : i < next => Traced(i) \/ \E w \in Workers : Holds(w) /\ wk[w].file = i

\* Nobody leaves early.
Exhausted == \A w \in Workers : phase \in {"extract", "resolve"} /\ wk[w].pc = "exit" => next > N \/ cancelled

\* Once the lists are merged.
Listed ==
    phase \in {"registry", "resolve", "dump", "done"} =>
        \A i \in 1 .. N : i \in Cached \cup quiet \/ \E o \in Outcomes : <<i, o>> \in skipped

WorkInv ==
    /\ Shapes /\ InPhase /\ HandedOut /\ FirstTime /\ Divided /\ Exhausted /\ Listed

-----------------------------------------------------------------------------
(* What the steps do to the workers, whatever becomes of the buffers.       *)

Rest == UNCHANGED <<phase, next, threads, cache, skipped, quiet, cancelled>>

LEMMA ExtractMoves ==
    ASSUME NEW w \in Workers, Extract(w)
    PROVE  /\ wk[w].pc = "extract" /\ Rest
           /\ \/ \E o \in Outcomes : Unreadable(w, o)
              \/ \E q, p, b, e : wk' = [wk EXCEPT ![w].pc = q, ![w].prior = p, ![w].buf = b,
                                                    ![w].errs = @ \cup e]
                                 /\ q \in {"admit", "store"}
<1>1. ASSUME NEW o, Extracted(w, o)
      PROVE  \E q, p, b, e : wk' = [wk EXCEPT ![w].pc = q, ![w].prior = p, ![w].buf = b,
                                                ![w].errs = @ \cup e]
                             /\ q \in {"admit", "store"}
  <2>. DEFINE f == Files[wk[w].file]
              b == FoldLeft(LAMBDA x, d : WithDef(f, x, d), SharingIds(wk[w].buf), Source[f].defs)
              q == IF Length(wk[w].file) <= PerFile THEN "admit" ELSE "store"
              e == IF o = "partial" THEN {<<wk[w].file, o>>} ELSE {}
  <2>1. wk' = [wk EXCEPT ![w].pc = q, ![w].prior = retained, ![w].buf = b, ![w].errs = @ \cup e]
    BY <1>1 DEF Extracted
  <2>2. q \in {"admit", "store"}
    OBVIOUS
  <2>. HIDE DEF f, b, q, e
  <2>. QED
    BY <2>1, <2>2
<1>. QED
  BY <1>1 DEF Extract, Rest

LEMMA ResolveMoves ==
    ASSUME NEW w \in Workers, ResolveFile(w)
    PROVE  /\ wk[w].pc = "resolve" /\ Rest
           /\ \E b : wk' = [wk EXCEPT ![w].pc = "claim", ![w].buf = b]
BY DEF ResolveFile, Rest

LEMMA RegistryMoves ==
    ASSUME BuildRegistry
    PROVE  /\ phase = "registry" /\ phase' \in {"failed", "resolve"}
           /\ UNCHANGED <<next, wk, threads, cache, skipped, quiet, cancelled>>
BY DEF BuildRegistry

\* One worker goes from r to a record with these fields.
Becomes(w, r) ==
    /\ \A x \in Workers : IsWorker(wk'[x]) /\ (x # w => wk'[x] = wk[x])
    /\ wk' = [x \in Workers |-> wk'[x]]
    /\ wk'[w] = r

LEMMA OneMoves ==
    ASSUME Shapes, NEW w \in Workers, NEW r, IsWorker(r), wk' = [wk EXCEPT ![w] = r]
    PROVE  Becomes(w, r)
BY DEF Shapes, Becomes

\* A worker that only goes elsewhere, with the file and the lists it has.
Goes(w, label) ==
    /\ \A x \in Workers : IsWorker(wk'[x]) /\ (x # w => wk'[x] = wk[x])
    /\ wk' = [x \in Workers |-> wk'[x]]
    /\ wk'[w].pc = label /\ wk'[w].file = wk[w].file
    /\ wk[w].errs \subseteq wk'[w].errs /\ wk[w].quiet \subseteq wk'[w].quiet

LEMMA GoesTo ==
    ASSUME Shapes, NEW w \in Workers, NEW r, IsWorker(r), wk' = [wk EXCEPT ![w] = r],
           r.file = wk[w].file, wk[w].errs \subseteq r.errs, wk[w].quiet \subseteq r.quiet
    PROVE  Goes(w, r.pc) /\ wk'[w] = r
BY OneMoves DEF Goes, Becomes

LEMMA PoolGoes ==
    ASSUME Shapes, NEW w \in Workers, StartWorker(w)
    PROVE  Goes(w, "claim") /\ Rest /\ wk[w].pc = "new"
<1>. DEFINE r == [wk[w] EXCEPT !.pc = "claim"]
<1>1. /\ wk' = [wk EXCEPT ![w] = r] /\ wk[w].pc = "new"
      /\ UNCHANGED <<phase, next, threads, cache, skipped, quiet, cancelled>>
  BY DEF StartWorker
<1>2. r = [wk[w] EXCEPT !.pc = "claim"] /\ IsWorker(wk[w])
  BY DEF Shapes
<1>. HIDE DEF r
<1>3. IsWorker(r) /\ r.pc = "claim" /\ r.file = wk[w].file /\ r.errs = wk[w].errs /\ r.quiet = wk[w].quiet
  BY <1>2 DEF IsWorker
<1>. QED
  BY <1>1, <1>3, GoesTo DEF Rest

LEMMA StoreGoes ==
    ASSUME Shapes, NEW w \in Workers, NEW kept, Store(w, kept)
    PROVE  /\ Goes(w, "claim") /\ cache' = cache \cup {[file |-> wk[w].file, kept |-> kept]}
           /\ UNCHANGED <<phase, next, threads, skipped, quiet, cancelled>>
<1>. DEFINE r == [wk[w] EXCEPT !.pc = "claim"]
<1>1. /\ wk' = [wk EXCEPT ![w] = r] /\ cache' = cache \cup {[file |-> wk[w].file, kept |-> kept]}
      /\ UNCHANGED <<phase, next, threads, skipped, quiet, cancelled>>
  BY DEF Store
<1>2. r = [wk[w] EXCEPT !.pc = "claim"] /\ IsWorker(wk[w])
  BY DEF Shapes
<1>. HIDE DEF r
<1>3. IsWorker(r) /\ r.pc = "claim" /\ r.file = wk[w].file /\ r.errs = wk[w].errs /\ r.quiet = wk[w].quiet
  BY <1>2 DEF IsWorker
<1>. QED
  BY <1>1, <1>3, GoesTo

LEMMA ResolveGoes ==
    ASSUME Shapes, NEW w \in Workers, ResolveFile(w)
    PROVE  Goes(w, "claim") /\ Rest /\ wk[w].pc = "resolve"
<1>0. wk[w].pc = "resolve" /\ Rest
  BY ResolveMoves
<1>1. PICK b : wk' = [wk EXCEPT ![w].pc = "claim", ![w].buf = b]
  BY ResolveMoves
<1>. DEFINE r == [wk[w] EXCEPT !.pc = "claim", !.buf = b]
<1>2. r = [wk[w] EXCEPT !.pc = "claim", !.buf = b] /\ IsWorker(wk[w]) /\ wk' = [wk EXCEPT ![w] = r]
  BY <1>1 DEF Shapes
<1>. HIDE DEF r
<1>3. IsWorker(r) /\ r.pc = "claim" /\ r.file = wk[w].file /\ r.errs = wk[w].errs /\ r.quiet = wk[w].quiet
  BY <1>2 DEF IsWorker
<1>. QED
  BY <1>0, <1>2, <1>3, GoesTo

\* A file that gives no result leaves its trace in a list.
LEMMA UnreadableGoes ==
    ASSUME Shapes, NEW w \in Workers, NEW o \in Outcomes, Unreadable(w, o)
    PROVE  Goes(w, "claim") /\ (wk[w].file \in wk'[w].quiet \/ <<wk[w].file, o>> \in wk'[w].errs)
<1>. DEFINE e == IF o = "empty" THEN {} ELSE {<<wk[w].file, o>>}
            q == IF o = "empty" THEN {wk[w].file} ELSE {}
            r == [wk[w] EXCEPT !.pc = "claim", !.errs = wk[w].errs \cup e, !.quiet = wk[w].quiet \cup q]
<1>0. wk' = [wk EXCEPT ![w].pc = "claim", ![w].errs = @ \cup e, ![w].quiet = @ \cup q]
  BY DEF Unreadable
<1>2. wk[w].file \in q \/ <<wk[w].file, o>> \in e
  OBVIOUS
<1>3. IsWorker(wk[w])
  BY DEF Shapes
<1>. HIDE DEF e, q
<1>1. wk' = [wk EXCEPT ![w] = r]
  BY <1>0
<1>4. r = [wk[w] EXCEPT !.pc = "claim", !.errs = wk[w].errs \cup e, !.quiet = wk[w].quiet \cup q]
  OBVIOUS
<1>. HIDE DEF r
<1>5. /\ IsWorker(r) /\ r.pc = "claim" /\ r.file = wk[w].file
      /\ r.errs = wk[w].errs \cup e /\ r.quiet = wk[w].quiet \cup q
  BY <1>3, <1>4 DEF IsWorker
<1>. QED
  BY <1>1, <1>2, <1>5, GoesTo

LEMMA ExtractedGoes ==
    ASSUME Shapes, NEW w \in Workers, NEW l, NEW p, NEW b, NEW e,
           wk' = [wk EXCEPT ![w].pc = l, ![w].prior = p, ![w].buf = b, ![w].errs = @ \cup e]
    PROVE  Goes(w, l)
<1>. DEFINE r == [wk[w] EXCEPT !.pc = l, !.prior = p, !.buf = b, !.errs = wk[w].errs \cup e]
<1>0. IsWorker(wk[w])
  BY DEF Shapes
<1>1. wk' = [wk EXCEPT ![w] = r]
  OBVIOUS
<1>2. r = [wk[w] EXCEPT !.pc = l, !.prior = p, !.buf = b, !.errs = wk[w].errs \cup e]
  OBVIOUS
<1>. HIDE DEF r
<1>3. /\ IsWorker(r) /\ r.pc = l /\ r.file = wk[w].file
      /\ r.errs = wk[w].errs \cup e /\ r.quiet = wk[w].quiet
  BY <1>0, <1>2 DEF IsWorker
<1>. QED
  BY <1>1, <1>3, GoesTo

\* The file that a worker had before it is not lost by its going on.
LEMMA TracesStay ==
    ASSUME NEW w \in Workers, NEW label, Goes(w, label), Cached \subseteq Cached', NEW i, Traced(i)
    PROVE  Traced(i)'
BY DEF Goes, Traced

-----------------------------------------------------------------------------
(* The steps keep the work divided.                                         *)

\* What a worker may do that has left the counter alone.
Onward(w, label) ==
    \/ wk[w].pc \in {"new", "resolve"} /\ label = "claim"
    \/ wk[w].pc = "extract" /\ label \in {"admit", "store"}
    \/ wk[w].pc = "extract" /\ label = "claim" /\ Traced(wk[w].file)'

LEMMA GoingKeeps ==
    ASSUME WorkInv, NEW w \in Workers, NEW label, Goes(w, label), Rest,
           phase \in {"extract", "resolve"}, Onward(w, label)
    PROVE  WorkInv'
<1>1. /\ UNCHANGED <<phase, next, threads, cache, skipped, quiet, cancelled>> /\ Cached' = Cached
      /\ wk[w].pc \in {"new", "resolve", "extract"} /\ label \in {"claim", "admit", "store"}
      /\ wk'[w].pc = label /\ wk'[w].file = wk[w].file /\ \A x \in Workers : x # w => wk'[x] = wk[x]
  BY DEF Rest, Onward, Cached, Goes
<1>2. Shapes'
  BY <1>1 DEF WorkInv, Shapes, Goes
<1>3. InPhase'
  BY <1>1 DEF WorkInv, InPhase, Onward
<1>4. HandedOut'
  BY <1>1 DEF WorkInv, HandedOut, Holds, Holding, Onward
<1>5. FirstTime'
  BY <1>1 DEF WorkInv, FirstTime, Onward
<1>6. Divided'
  <2>. SUFFICES ASSUME phase' = "extract", ~cancelled', NEW i \in 1 .. N, i < next'
                PROVE  Traced(i)' \/ \E x \in Workers : Holds(x)' /\ wk'[x].file = i
    BY DEF Divided
  <2>1. CASE Traced(i)
    BY <1>1, <2>1, TracesStay
  <2>2. ASSUME NEW x \in Workers, Holds(x), wk[x].file = i
        PROVE  Traced(i)' \/ \E y \in Workers : Holds(y)' /\ wk'[y].file = i
    <3>1. CASE x # w
      BY <1>1, <2>2, <3>1 DEF Holds
    <3>2. CASE x = w /\ label \in {"admit", "store"}
      BY <1>1, <2>2, <3>2 DEF Holds, Holding
    <3>3. CASE x = w /\ label = "claim" /\ wk[w].pc = "extract"
      BY <1>1, <2>2, <3>3 DEF Onward, Traced
    <3>4. wk[w].pc # "resolve"
      BY <1>1 DEF WorkInv, InPhase
    <3>. QED
      BY <1>1, <2>2, <3>1, <3>2, <3>3, <3>4 DEF Holds, Holding
  <2>. QED
    BY <1>1, <2>1, <2>2 DEF WorkInv, Divided
<1>7. Exhausted' /\ Listed'
  BY <1>1 DEF WorkInv, Exhausted, Listed
<1>. QED
  BY <1>2, <1>3, <1>4, <1>5, <1>6, <1>7 DEF WorkInv

LEMMA PoolKeeps ==
    ASSUME WorkInv, NEW w \in Workers, StartWorker(w)
    PROVE  WorkInv'
<1>1. phase \in {"extract", "resolve"}
  BY DEF StartWorker
<1>. QED
  BY <1>1, PoolGoes, GoingKeeps DEF WorkInv, Onward

LEMMA ExtractKeeps ==
    ASSUME WorkInv, NEW w \in Workers, Extract(w)
    PROVE  WorkInv'
<1>1. wk[w].pc = "extract" /\ Rest /\ Shapes
  BY ExtractMoves DEF WorkInv
<1>2. phase = "extract"
  BY <1>1 DEF WorkInv, InPhase
<1>3. ASSUME NEW o \in Outcomes, Unreadable(w, o)
      PROVE  WorkInv'
  <2>1. Goes(w, "claim") /\ (wk[w].file \in wk'[w].quiet \/ <<wk[w].file, o>> \in wk'[w].errs)
    BY <1>1, <1>3, UnreadableGoes
  <2>2. Traced(wk[w].file)'
    BY <2>1 DEF Traced, Goes
  <2>. QED
    BY <1>1, <1>2, <2>1, <2>2, GoingKeeps DEF Onward
<1>5. CASE \E o \in Outcomes : Unreadable(w, o)
  BY <1>3, <1>5
<1>6. CASE \E q, p, b, e : wk' = [wk EXCEPT ![w].pc = q, ![w].prior = p, ![w].buf = b,
                                            ![w].errs = @ \cup e]
                         /\ q \in {"admit", "store"}
  <2>1. PICK q, p, b, e : wk' = [wk EXCEPT ![w].pc = q, ![w].prior = p, ![w].buf = b,
                                          ![w].errs = @ \cup e]
                          /\ q \in {"admit", "store"}
    BY <1>6
  <2>2. Goes(w, q)
    BY <1>1, <2>1, ExtractedGoes
  <2>. QED
    BY <1>1, <1>2, <2>1, <2>2, GoingKeeps DEF Onward
<1>. QED
  BY <1>5, <1>6, ExtractMoves

LEMMA ResolveKeeps ==
    ASSUME WorkInv, NEW w \in Workers, ResolveFile(w)
    PROVE  WorkInv'
<1>1. Goes(w, "claim") /\ Rest /\ wk[w].pc = "resolve"
  BY ResolveGoes DEF WorkInv
<1>2. phase = "resolve"
  BY <1>1 DEF WorkInv, InPhase
<1>. QED
  BY <1>1, <1>2, GoingKeeps DEF Onward

\* A result takes the place of the worker that had the file.
LEMMA StoreKeeps ==
    ASSUME WorkInv, NEW w \in Workers, Admit(w) \/ Refuse(w) \/ StoreLarge(w)
    PROVE  WorkInv'
<1>1. wk[w].pc \in {"admit", "store"} /\ \E kept \in BOOLEAN : Store(w, kept)
  BY DEF Admit, Refuse, StoreLarge
<1>2. PICK kept \in BOOLEAN : Store(w, kept)
  BY <1>1
<1>3. /\ Goes(w, "claim") /\ cache' = cache \cup {[file |-> wk[w].file, kept |-> kept]}
      /\ UNCHANGED <<phase, next, threads, skipped, quiet, cancelled>>
  BY <1>2, StoreGoes DEF WorkInv
<1>4. /\ phase = "extract" /\ Holds(w)
  BY <1>1 DEF WorkInv, InPhase, Holds, Holding
<1>5. Cached' = Cached \cup {wk[w].file}
  <2>. DEFINE r == [file |-> wk[w].file, kept |-> kept]
  <2>1. r.file = wk[w].file /\ cache' = cache \cup {r}
    BY <1>3
  <2>. HIDE DEF r
  <2>. QED
    BY <2>1 DEF Cached
<1>6. wk[w].file \in 1 .. N /\ wk[w].file < next
  BY <1>4 DEF WorkInv, HandedOut
<1>7. wk'[w].pc = "claim" /\ \A x \in Workers : x # w => wk'[x] = wk[x]
  BY <1>3 DEF Goes
<1>8. Shapes' /\ InPhase' /\ Exhausted' /\ Listed'
  BY <1>3, <1>4, <1>7 DEF WorkInv, Shapes, Goes, InPhase, Exhausted, Listed
<1>9. HandedOut'
  BY <1>3, <1>7 DEF WorkInv, HandedOut, Holds, Holding
<1>10. FirstTime'
  <2>1. ASSUME NEW x \in Workers, wk'[x].pc \in {"extract", "admit", "store"}
        PROVE  wk'[x].file \notin Cached'
    <3>1. x # w /\ wk'[x] = wk[x]
      BY <1>7, <2>1
    <3>2. wk[x].file # wk[w].file /\ wk[x].file \notin Cached
      BY <1>4, <2>1, <3>1 DEF WorkInv, HandedOut, FirstTime, Holds, Holding
    <3>. QED
      BY <1>5, <3>1, <3>2
  <2>. QED
    BY <1>3, <1>5, <1>6, <2>1 DEF WorkInv, FirstTime
<1>11. Divided'
  <2>. SUFFICES ASSUME ~cancelled', NEW i \in 1 .. N, i < next'
                PROVE  Traced(i)' \/ \E x \in Workers : Holds(x)' /\ wk'[x].file = i
    BY DEF Divided
  <2>1. CASE Traced(i)
    BY <1>3, <1>5, <2>1, TracesStay
  <2>2. ASSUME NEW x \in Workers, Holds(x), wk[x].file = i
        PROVE  Traced(i)' \/ \E y \in Workers : Holds(y)' /\ wk'[y].file = i
    <3>1. CASE x = w
      BY <1>5, <2>2, <3>1 DEF Traced
    <3>2. CASE x # w
      BY <1>7, <2>2, <3>2 DEF Holds
    <3>. QED
      BY <3>1, <3>2
  <2>. QED
    BY <1>3, <1>4, <2>1, <2>2 DEF WorkInv, Divided
<1>. QED
  BY <1>8, <1>9, <1>10, <1>11 DEF WorkInv

\* The counter is read and moved in one step: what a worker takes nobody has.
LEMMA ClaimGoes ==
    ASSUME Shapes, NEW w \in Workers, Claim(w)
    PROVE  /\ wk[w].pc = "claim" /\ next' = next + 1
           /\ UNCHANGED <<phase, threads, cache, skipped, quiet, cancelled>>
           /\ \A x \in Workers : IsWorker(wk'[x]) /\ (x # w => wk'[x] = wk[x])
           /\ wk' = [x \in Workers |-> wk'[x]]
           /\ wk'[w].errs = wk[w].errs /\ wk'[w].quiet = wk[w].quiet
           /\ IF next > N \/ cancelled THEN wk'[w].pc = "exit"
              ELSE wk'[w].pc = phase /\ wk'[w].file = next
<1>1. /\ wk[w].pc = "claim" /\ next' = next + 1
      /\ UNCHANGED <<phase, threads, cache, skipped, quiet, cancelled>>
      /\ wk' = IF next > N \/ cancelled THEN [wk EXCEPT ![w].pc = "exit"]
               ELSE [wk EXCEPT ![w].pc = phase, ![w].file = next]
  BY DEF Claim
<1>2. IsWorker(wk[w])
  BY DEF Shapes
<1>3. CASE next > N \/ cancelled
  <2>. DEFINE r == [wk[w] EXCEPT !.pc = "exit"]
  <2>1. wk' = [wk EXCEPT ![w] = r]
    BY <1>1, <1>3
  <2>2. r = [wk[w] EXCEPT !.pc = "exit"]
    OBVIOUS
  <2>. HIDE DEF r
  <2>3. IsWorker(r) /\ r.pc = "exit" /\ r.errs = wk[w].errs /\ r.quiet = wk[w].quiet
    BY <1>2, <2>2 DEF IsWorker
  <2>. QED
    BY <1>1, <1>3, <2>1, <2>3, OneMoves DEF Becomes
<1>4. CASE ~(next > N \/ cancelled)
  <2>. DEFINE r == [wk[w] EXCEPT !.pc = phase, !.file = next]
  <2>1. wk' = [wk EXCEPT ![w] = r]
    BY <1>1, <1>4
  <2>2. r = [wk[w] EXCEPT !.pc = phase, !.file = next]
    OBVIOUS
  <2>. HIDE DEF r
  <2>3. IsWorker(r) /\ r.pc = phase /\ r.file = next /\ r.errs = wk[w].errs /\ r.quiet = wk[w].quiet
    BY <1>2, <2>2 DEF IsWorker
  <2>. QED
    BY <1>1, <1>4, <2>1, <2>3, OneMoves DEF Becomes
<1>. QED
  BY <1>3, <1>4

LEMMA ClaimKeeps ==
    ASSUME WorkInv, NEW w \in Workers, Claim(w)
    PROVE  WorkInv'
<1>1. /\ wk[w].pc = "claim" /\ next' = next + 1
      /\ UNCHANGED <<phase, threads, cache, skipped, quiet, cancelled>>
      /\ \A x \in Workers : IsWorker(wk'[x]) /\ (x # w => wk'[x] = wk[x])
      /\ wk' = [x \in Workers |-> wk'[x]]
      /\ wk'[w].errs = wk[w].errs /\ wk'[w].quiet = wk[w].quiet
      /\ IF next > N \/ cancelled THEN wk'[w].pc = "exit"
         ELSE wk'[w].pc = phase /\ wk'[w].file = next
  BY ClaimGoes DEF WorkInv
<1>2. next \in Nat \ {0} /\ N \in Nat /\ phase \in {"extract", "resolve"} /\ Cached' = Cached
  BY <1>1, FilesAssumption DEF WorkInv, Shapes, InPhase, Cached
<1>3. \A i : Traced(i) => Traced(i)'
  BY <1>1, <1>2 DEF Traced
<1>. HIDE DEF N
<1>4. Shapes' /\ InPhase' /\ Listed'
  BY <1>1, <1>2 DEF WorkInv, Shapes, InPhase, Listed
<1>5. CASE next > N \/ cancelled
  <2>1. wk'[w].pc = "exit"
    BY <1>1, <1>5
  <2>2. \A x \in Workers : wk'[x].pc \in Holding => x # w /\ wk'[x] = wk[x]
    BY <1>1, <2>1 DEF Holding
  <2>5. HandedOut'
    <3>1. \A x \in Workers : Holds(x) => wk[x].file \in 1 .. N /\ wk[x].file < next
      BY DEF WorkInv, HandedOut
    <3>2. \A x \in Workers : Holds(x)' => wk'[x].file \in 1 .. N /\ wk'[x].file < next'
      BY <1>1, <1>2, <2>2, <3>1 DEF Holds
    <3>. QED
      BY <2>2, <3>2 DEF WorkInv, HandedOut, Holds
  <2>6. FirstTime'
    <3>1. \A i \in Cached : phase = "extract" => i \in 1 .. N /\ i < next'
      BY <1>1, <1>2 DEF WorkInv, FirstTime
    <3>. QED
      BY <1>1, <1>2, <2>2, <3>1 DEF WorkInv, FirstTime, Holding
  <2>3. Exhausted'
    BY <1>1, <1>2, <1>5 DEF WorkInv, Exhausted
  <2>4. Divided'
    <3>. SUFFICES ASSUME phase' = "extract", ~cancelled', NEW i \in 1 .. N, i < next'
                  PROVE  Traced(i)' \/ \E x \in Workers : Holds(x)' /\ wk'[x].file = i
      BY DEF Divided
    <3>1. Traced(i) \/ \E x \in Workers : Holds(x) /\ wk[x].file = i
      BY <1>1, <1>2, <1>5 DEF WorkInv, Divided
    <3>. QED
      BY <1>1, <1>3, <3>1 DEF Holds, Holding
  <2>. QED
    BY <1>4, <2>3, <2>4, <2>5, <2>6 DEF WorkInv
<1>6. CASE ~(next > N \/ cancelled)
  <2>1. wk'[w].pc = phase /\ wk'[w].file = next /\ next \in 1 .. N
    BY <1>1, <1>2, <1>6
  <2>2. HandedOut'
    <3>1. \A x \in Workers : x # w /\ Holds(x)' => Holds(x) /\ wk'[x].file = wk[x].file
                                                  /\ wk[x].file \in 1 .. N /\ wk[x].file < next
      BY <1>1 DEF WorkInv, HandedOut, Holds
    <3>. QED
      BY <1>1, <1>2, <2>1, <3>1 DEF WorkInv, HandedOut, Holds
  <2>3. FirstTime'
    <3>1. \A i \in Cached : phase = "extract" => i \in 1 .. N /\ i < next /\ i < next'
      BY <1>1, <1>2 DEF WorkInv, FirstTime
    <3>2. wk'[w].pc \in {"extract", "admit", "store"} => wk'[w].file \notin Cached
      BY <1>2, <2>1, <3>1
    <3>. QED
      BY <1>1, <1>2, <3>1, <3>2 DEF WorkInv, FirstTime
  <2>4. Exhausted'
    BY <1>1, <1>2, <1>6, <2>1 DEF WorkInv, Exhausted
  <2>5. Divided'
    <3>. SUFFICES ASSUME phase' = "extract", ~cancelled', NEW i \in 1 .. N, i < next'
                  PROVE  Traced(i)' \/ \E x \in Workers : Holds(x)' /\ wk'[x].file = i
      BY DEF Divided
    <3>1. CASE i = next
      BY <1>1, <2>1, <3>1 DEF Holds, Holding
    <3>2. CASE i < next
      <4>1. Traced(i) \/ \E x \in Workers : Holds(x) /\ wk[x].file = i
        BY <1>1, <3>2 DEF WorkInv, Divided
      <4>. QED
        BY <1>1, <1>3, <4>1 DEF Holds, Holding
    <3>. QED
      BY <1>1, <1>2, <3>1, <3>2
  <2>. QED
    BY <1>4, <2>2, <2>3, <2>4, <2>5 DEF WorkInv
<1>. QED
  BY <1>5, <1>6

\* When every worker has left and the run was not cancelled, the counter has
\* passed the last file: every trace is in a list that is merged.
LEMMA MergeKeeps ==
    ASSUME WorkInv, MergeExtracted
    PROVE  WorkInv'
<1>1. /\ phase = "extract" /\ AllLeft
      /\ skipped' = UNION {wk[w].errs : w \in Workers}
      /\ quiet'   = UNION {wk[w].quiet : w \in Workers}
      /\ phase' = IF cancelled THEN "failed" ELSE "registry"
      /\ wk' = [w \in Workers |-> Idle] /\ next' = 1
      /\ UNCHANGED <<threads, cache, cancelled>>
  BY DEF MergeExtracted
<1>2. Cached' = Cached /\ threads \in Workers
  BY <1>1 DEF Cached, WorkInv, Shapes
<1>3. \A w \in Workers : IsWorker(wk'[w]) /\ wk'[w].pc = "new"
  BY <1>1 DEF IsWorker, Idle
<1>4. Shapes' /\ InPhase' /\ HandedOut' /\ FirstTime' /\ Divided' /\ Exhausted'
  BY <1>1, <1>2, <1>3 DEF WorkInv, Shapes, InPhase, HandedOut, FirstTime, Divided, Exhausted, Holds, Holding
<1>5. ASSUME ~cancelled, NEW i \in 1 .. N
      PROVE  i \in Cached \cup quiet' \/ \E o \in Outcomes : <<i, o>> \in skipped'
  <2>1. next > N /\ next \in Nat /\ N \in Nat
    BY <1>1, <1>2, <1>5, FilesAssumption DEF WorkInv, Shapes, Exhausted, AllLeft
  <2>2. i < next
    BY <2>1
  <2>3. Traced(i)
    BY <1>1, <1>5, <2>2 DEF WorkInv, Divided, AllLeft, Holds, Holding
  <2>. QED
    BY <1>1, <2>3 DEF Traced
<1>6. Listed'
  BY <1>1, <1>2, <1>5 DEF Listed
<1>. QED
  BY <1>4, <1>6 DEF WorkInv

\* The phases after the extraction.
LEMMA PhasesKeep ==
    ASSUME WorkInv, BuildRegistry \/ MergeResolved \/ DumpRows \/ Cancel \/ UNCHANGED vars
    PROVE  WorkInv'
<1>1. UNCHANGED <<next, wk, threads, cache, skipped, quiet>> /\ cancelled' \in BOOLEAN
      /\ (cancelled => cancelled')
  <2>1. CASE BuildRegistry
    BY <2>1, RegistryMoves DEF WorkInv, Shapes
  <2>2. CASE MergeResolved \/ DumpRows \/ Cancel \/ UNCHANGED vars
    BY <2>2 DEF MergeResolved, DumpRows, Cancel, vars, WorkInv, Shapes
  <2>. QED
    BY <2>1, <2>2
<1>2. \/ phase' = phase
      \/ phase = "registry" /\ phase' \in {"failed", "resolve"}
      \/ phase = "resolve" /\ AllLeft /\ phase' \in {"failed", "dump"}
      \/ phase = "dump" /\ phase' \in {"failed", "done"}
  <2>1. CASE BuildRegistry
    BY <2>1, RegistryMoves
  <2>2. CASE MergeResolved \/ DumpRows \/ Cancel \/ UNCHANGED vars
    BY <2>2 DEF MergeResolved, DumpRows, Cancel, vars
  <2>. QED
    BY <2>1, <2>2
<1>3. Cached' = Cached /\ \A i : Traced(i) => Traced(i)'
  BY <1>1 DEF Cached, Traced
<1>4. Shapes' /\ HandedOut'
  BY <1>1 DEF WorkInv, Shapes, HandedOut, Holds
<1>5. FirstTime' /\ Divided' /\ Listed'
  BY <1>1, <1>2, <1>3 DEF WorkInv, FirstTime, Divided, Listed, Holds
<1>6. InPhase'
  BY <1>1, <1>2 DEF WorkInv, InPhase, AllLeft
<1>7. Exhausted'
  BY <1>1, <1>2 DEF WorkInv, Exhausted, InPhase
<1>. QED
  BY <1>4, <1>5, <1>6, <1>7 DEF WorkInv

-----------------------------------------------------------------------------
(* The theorem.                                                             *)

LEMMA InitWork == Init => WorkInv
<1>. SUFFICES ASSUME Init PROVE WorkInv
  OBVIOUS
<1>1. /\ phase = "extract" /\ next = 1 /\ wk = [w \in Workers |-> Idle] /\ threads \in Workers
      /\ cache = {} /\ cancelled = FALSE
  BY DEF Init
<1>2. \A w \in Workers : IsWorker(wk[w]) /\ wk[w].pc = "new"
  BY <1>1 DEF IsWorker, Idle
<1>3. Cached = {}
  BY <1>1 DEF Cached
<1>. QED
  <2>5. wk = [w \in Workers |-> wk[w]]
    BY <1>1
  <2>7. next \in Nat \ {0}
    BY <1>1
  <2>8. threads \in Workers
    BY <1>1
  <2>9. cancelled \in BOOLEAN
    BY <1>1
  <2>6. Shapes
    <3>1. \A w \in Workers : IsWorker(wk[w])
      BY <1>2
    <3>. QED
      BY <2>5, <2>7, <2>8, <2>9, <3>1 DEF Shapes
  <2>1. InPhase
    BY <1>1, <1>2 DEF InPhase
  <2>2. HandedOut /\ FirstTime
    BY <1>2, <1>3 DEF HandedOut, FirstTime, Holds, Holding
  <2>3. Divided
    BY <1>1, FilesAssumption DEF Divided
  <2>4. Exhausted /\ Listed
    BY <1>1, <1>2 DEF Exhausted, Listed
  <2>. QED
    BY <2>1, <2>2, <2>3, <2>4, <2>6 DEF WorkInv

LEMMA WorkIsKept == WorkInv /\ [Next]_vars => WorkInv'
<1>. SUFFICES ASSUME WorkInv, [Next]_vars PROVE WorkInv'
  OBVIOUS
<1>1. ASSUME NEW w \in Workers,
             \/ StartWorker(w) \/ Claim(w) \/ Extract(w) \/ Admit(w) \/ Refuse(w) \/ StoreLarge(w)
             \/ ResolveFile(w)
      PROVE  WorkInv'
  BY <1>1, PoolKeeps, ClaimKeeps, ExtractKeeps, StoreKeeps, ResolveKeeps
<1>. QED
  BY <1>1, MergeKeeps, PhasesKeep DEF Next, Ended

\* No file is dropped without a word: however the workers take them from the
\* counter and whatever each comes to, a run that goes on to the registry has
\* for every file a result, an entry on the skip list, or nothing in it; and no
\* file is extracted twice or by two workers (extract_worker, resolve_worker).
THEOREM NothingIsDropped == Spec => []EveryFileIsAccounted
<1>1. WorkInv => EveryFileIsAccounted
  <2>. SUFFICES ASSUME WorkInv PROVE EveryFileIsAccounted
    OBVIOUS
  <2>1. \A w, x \in Workers : w # x /\ wk[w].pc \in Holding /\ wk[x].pc \in Holding
                               => wk[w].file # wk[x].file
    BY DEF WorkInv, HandedOut, Holds
  <2>2. \A w \in Workers : wk[w].pc = "extract" => wk[w].file \notin Cached
    BY DEF WorkInv, FirstTime
  <2>. QED
    BY <2>1, <2>2 DEF WorkInv, Listed, EveryFileIsAccounted
<1>. QED
  BY <1>1, WorkIsKept, InitWork, PTL DEF Spec

-----------------------------------------------------------------------------
(* The retained texts.                                                      *)

\* What holds of no file, and of one more file each time, holds of any number.
LEMMA UpToN ==
    ASSUME NEW A, 0 \in A, \A n \in 1 .. N : n - 1 \in A => n \in A
    PROVE  \A n \in 0 .. N : n \in A
<1>. DEFINE R == OpToRel(<, Nat)
            T == {n \in 0 .. N : n \notin A}
<1>1. IsWellFoundedOn(R, Nat)
  BY NatLessThanWellFounded
<1>2. \A x, y \in Nat : x < y => <<x, y>> \in R
  BY DEF OpToRel
<1>3. T \subseteq Nat /\ N \in Nat
  BY FilesAssumption
<1>. HIDE DEF R
<1>4. SUFFICES ASSUME T # {} PROVE FALSE
  OBVIOUS
<1>5. PICK n \in T : \A m \in T : ~(<<m, n>> \in R)
  BY <1>1, <1>3, <1>4, WFMin
<1>6. n \in 1 .. N /\ n - 1 \in Nat /\ n - 1 < n /\ n - 1 \in 0 .. N
  BY <1>3, <1>5
<1>7. <<n - 1, n>> \in R
  BY <1>2, <1>3, <1>6
<1>8. n - 1 \in A
  BY <1>5, <1>6, <1>7
<1>. QED
  BY <1>5, <1>6, <1>8

\* The function that sums the texts of S among the first files.
Part(S, n)    == IF n \in S THEN Length(n) ELSE 0
IsSum(f, S, k) == f = [n \in 0 .. k |-> IF n = 0 THEN 0 ELSE f[n - 1] + Part(S, n)]

LEMMA SumsExist == ASSUME NEW S PROVE \A k \in 0 .. N : \E f : IsSum(f, S, k)
<1>. DEFINE A == {k \in 0 .. N : \E f : IsSum(f, S, k)}
<1>1. 0 \in A
  <2>. DEFINE f == [n \in 0 .. 0 |-> 0]
  <2>1. IsSum(f, S, 0)
    BY DEF IsSum
  <2>. QED
    BY <2>1, FilesAssumption
<1>2. ASSUME NEW k \in 1 .. N, k - 1 \in A PROVE k \in A
  <2>1. PICK f : IsSum(f, S, k - 1)
    BY <1>2
  <2>. DEFINE g == [n \in 0 .. k |-> IF n = k THEN f[k - 1] + Part(S, k) ELSE f[n]]
  <2>2. ASSUME NEW n \in 0 .. k PROVE g[n] = IF n = 0 THEN 0 ELSE g[n - 1] + Part(S, n)
    <3>1. CASE n = k
      BY <3>1
    <3>2. CASE n # k
      <4>1. n \in 0 .. k - 1 /\ (n # 0 => n - 1 \in 0 .. k /\ n - 1 # k)
        BY <3>2
      <4>. QED
        BY <2>1, <4>1 DEF IsSum
    <3>. QED
      BY <3>1, <3>2
  <2>3. IsSum(g, S, k)
    BY <2>2 DEF IsSum
  <2>. QED
    BY <2>3
<1>. HIDE DEF A
<1>3. \A k \in 0 .. N : k \in A
  BY <1>1, <1>2, UpToN
<1>. QED
  BY <1>3 DEF A

LEMMA TotalIsASum == ASSUME NEW S PROVE \E f : IsSum(f, S, N) /\ Total(S) = f[N]
<1>1. \E f : IsSum(f, S, N)
  BY SumsExist, FilesAssumption
<1>. QED
  BY <1>1 DEF Total, IsSum, Part

LEMMA SumsAreNatural ==
    ASSUME NEW S, NEW f, IsSum(f, S, N)
    PROVE  \A n \in 0 .. N : f[n] \in Nat
<1>. DEFINE A == {n \in 0 .. N : f[n] \in Nat}
<1>1. 0 \in A
  BY FilesAssumption DEF IsSum
<1>2. ASSUME NEW n \in 1 .. N, n - 1 \in A PROVE n \in A
  BY <1>2, FilesAssumption DEF IsSum, Part
<1>. HIDE DEF A
<1>3. \A n \in 0 .. N : n \in A
  BY <1>1, <1>2, UpToN
<1>. QED
  BY <1>3 DEF A

LEMMA SumWithOneMore ==
    ASSUME NEW S, NEW i \in (1 .. N) \ S, NEW f, NEW g, IsSum(f, S, N), IsSum(g, S \cup {i}, N)
    PROVE  g[N] = f[N] + Length(i)
<1>. DEFINE A == {n \in 0 .. N : g[n] = f[n] + (IF i <= n THEN Length(i) ELSE 0)}
<1>0. \A n \in 0 .. N : f[n] \in Nat /\ g[n] \in Nat
  BY SumsAreNatural
<1>1. 0 \in A
  BY FilesAssumption DEF IsSum
<1>2. ASSUME NEW n \in 1 .. N, n - 1 \in A PROVE n \in A
  <2>1. /\ n - 1 \in 0 .. N /\ N \in Nat /\ Length(n) \in Nat /\ Length(i) \in Nat
        /\ g[n - 1] = f[n - 1] + (IF i <= n - 1 THEN Length(i) ELSE 0)
    BY <1>2, FilesAssumption
  <2>2. f[n] = f[n - 1] + Part(S, n) /\ g[n] = g[n - 1] + Part(S \cup {i}, n)
    <3>1. n \in 0 .. N /\ n # 0
      BY <2>1
    <3>2. f[n] = f[n - 1] + Part(S, n)
      BY <3>1 DEF IsSum
    <3>3. g[n] = g[n - 1] + Part(S \cup {i}, n)
      BY <3>1 DEF IsSum
    <3>. QED
      BY <3>2, <3>3
  <2>3. Part(S \cup {i}, n) = Part(S, n) + (IF n = i THEN Length(i) ELSE 0) /\ Part(S, n) \in Nat
    BY <2>1 DEF Part
  <2>. QED
    BY <1>0, <2>1, <2>2, <2>3
<1>. HIDE DEF A
<1>3. \A n \in 0 .. N : n \in A
  BY <1>1, <1>2, UpToN
<1>. QED
  BY <1>3, FilesAssumption DEF A

LEMMA SumOfFewer ==
    ASSUME NEW S, NEW T \in SUBSET S, NEW f, NEW g, IsSum(f, S, N), IsSum(g, T, N)
    PROVE  g[N] <= f[N]
<1>. DEFINE A == {n \in 0 .. N : g[n] <= f[n]}
<1>0. \A n \in 0 .. N : f[n] \in Nat /\ g[n] \in Nat
  BY SumsAreNatural
<1>1. 0 \in A
  BY FilesAssumption DEF IsSum
<1>2. ASSUME NEW n \in 1 .. N, n - 1 \in A PROVE n \in A
  <2>1. n - 1 \in 0 .. N /\ N \in Nat /\ Length(n) \in Nat /\ g[n - 1] <= f[n - 1]
    BY <1>2, FilesAssumption
  <2>2. f[n] = f[n - 1] + Part(S, n) /\ g[n] = g[n - 1] + Part(T, n)
    BY <2>1 DEF IsSum
  <2>3. Part(T, n) <= Part(S, n) /\ Part(T, n) \in Nat /\ Part(S, n) \in Nat
    BY <2>1 DEF Part
  <2>. QED
    BY <1>0, <2>1, <2>2, <2>3
<1>. HIDE DEF A
<1>3. \A n \in 0 .. N : n \in A
  BY <1>1, <1>2, UpToN
<1>. QED
  BY <1>3, FilesAssumption DEF A

LEMMA Sums ==
    \A S \in SUBSET (1 .. N) :
        /\ Total(S) \in Nat
        /\ S = {} => Total(S) = 0
        /\ \A i \in (1 .. N) \ S : Total(S \cup {i}) = Total(S) + Length(i)
        /\ \A T \in SUBSET S : Total(T) <= Total(S)
<1>. SUFFICES ASSUME NEW S \in SUBSET (1 .. N)
              PROVE  /\ Total(S) \in Nat
                     /\ S = {} => Total(S) = 0
                     /\ \A i \in (1 .. N) \ S : Total(S \cup {i}) = Total(S) + Length(i)
                     /\ \A T \in SUBSET S : Total(T) <= Total(S)
  OBVIOUS
<1>1. PICK f : IsSum(f, S, N) /\ Total(S) = f[N]
  BY TotalIsASum
<1>2. Total(S) \in Nat
  BY <1>1, SumsAreNatural, FilesAssumption
<1>3. ASSUME S = {} PROVE Total(S) = 0
  <2>. DEFINE A == {n \in 0 .. N : f[n] = 0}
  <2>1. 0 \in A
    BY <1>1, FilesAssumption DEF IsSum
  <2>2. ASSUME NEW n \in 1 .. N, n - 1 \in A PROVE n \in A
    BY <1>1, <1>3, <2>2, FilesAssumption DEF IsSum, Part
  <2>. HIDE DEF A
  <2>3. \A n \in 0 .. N : n \in A
    BY <2>1, <2>2, UpToN
  <2>. QED
    BY <1>1, <2>3, FilesAssumption DEF A
<1>4. ASSUME NEW i \in (1 .. N) \ S PROVE Total(S \cup {i}) = Total(S) + Length(i)
  <2>1. PICK g : IsSum(g, S \cup {i}, N) /\ Total(S \cup {i}) = g[N]
    BY TotalIsASum
  <2>. QED
    BY <1>1, <2>1, SumWithOneMore
<1>5. ASSUME NEW T \in SUBSET S PROVE Total(T) <= Total(S)
  <2>1. PICK g : IsSum(g, T, N) /\ Total(T) = g[N]
    BY TotalIsASum
  <2>. QED
    BY <1>1, <2>1, SumOfFewer
<1>. QED
  BY <1>2, <1>3, <1>4, <1>5

\* Files whose worker has taken room, and those of them that will be given it.
Outstanding == {i \in 1 .. N : \E w \in Workers : wk[w].pc = "admit" /\ wk[w].file = i}
Fitting     == {i \in 1 .. N : \E w \in Workers : wk[w].pc = "admit" /\ wk[w].file = i /\ Admitted(w)}

\* RetainedWithinBudget is not inductive: several workers may have found room
\* before any of them stores its text.  Each found it beside all that were
\* there before, so all that will be admitted fit together.
BudgetInv ==
    /\ Kept \subseteq 1 .. N /\ retained \in Nat
    /\ \A w \in Workers : wk[w].pc = "admit" => wk[w].prior \in Nat
    /\ phase = "extract" => retained = Total(Kept \cup Outstanding)
    /\ Total(Kept \cup Fitting) <= Budget

LEMMA SubsetsOfFiles ==
    Kept \subseteq 1 .. N => /\ Kept \cup Outstanding \in SUBSET (1 .. N)
                             /\ Kept \cup Fitting \in SUBSET (Kept \cup Outstanding)
BY DEF Outstanding, Fitting

\* Nobody takes room, and nobody who has it is heard.
StillAdmitting ==
    /\ UNCHANGED retained /\ Kept' = Kept /\ (phase' = "extract" => phase = "extract")
    /\ \A w \in Workers :
          /\ wk'[w].pc = "admit" <=> wk[w].pc = "admit"
          /\ wk[w].pc = "admit" => wk'[w].file = wk[w].file /\ wk'[w].prior = wk[w].prior

LEMMA StillFits == ASSUME BudgetInv, StillAdmitting PROVE BudgetInv'
<1>1. \A w \in Workers : wk[w].pc = "admit" => (Admitted(w)' <=> Admitted(w))
  BY DEF StillAdmitting, Admitted
<1>2. Outstanding' = Outstanding
  BY DEF Outstanding, StillAdmitting
<1>3. Fitting' = Fitting
  BY <1>1 DEF Fitting, StillAdmitting
<1>. QED
  BY <1>2, <1>3 DEF BudgetInv, StillAdmitting

\* The record of the worker that extracts a readable file.
LEMMA ExtractedRecord ==
    ASSUME Shapes, NEW w \in Workers, NEW o, Extracted(w, o)
    PROVE  /\ \A x \in Workers : x # w => wk'[x] = wk[x]
           /\ wk'[w].file = wk[w].file /\ wk'[w].prior = retained
           /\ wk'[w].pc = IF Length(wk[w].file) <= PerFile THEN "admit" ELSE "store"
           /\ retained' = IF Length(wk[w].file) <= PerFile THEN retained + Length(wk[w].file) ELSE retained
<1>. DEFINE f == Files[wk[w].file]
            b == FoldLeft(LAMBDA x, d : WithDef(f, x, d), SharingIds(wk[w].buf), Source[f].defs)
            q == IF Length(wk[w].file) <= PerFile THEN "admit" ELSE "store"
            e == IF o = "partial" THEN {<<wk[w].file, o>>} ELSE {}
            r == [wk[w] EXCEPT !.pc = q, !.prior = retained, !.buf = b, !.errs = wk[w].errs \cup e]
<1>1. /\ wk' = [wk EXCEPT ![w].pc = q, ![w].prior = retained, ![w].buf = b, ![w].errs = @ \cup e]
      /\ retained' = IF Length(wk[w].file) <= PerFile THEN retained + Length(wk[w].file) ELSE retained
  BY DEF Extracted
<1>2. q = IF Length(wk[w].file) <= PerFile THEN "admit" ELSE "store"
  OBVIOUS
<1>3. IsWorker(wk[w])
  BY DEF Shapes
<1>. HIDE DEF f, b, q, e
<1>4. wk' = [wk EXCEPT ![w] = r]
  BY <1>1
<1>5. r = [wk[w] EXCEPT !.pc = q, !.prior = retained, !.buf = b, !.errs = wk[w].errs \cup e]
  OBVIOUS
<1>. HIDE DEF r
<1>6. IsWorker(r) /\ r.pc = q /\ r.prior = retained /\ r.file = wk[w].file
  BY <1>3, <1>5 DEF IsWorker
<1>7. Becomes(w, r)
  BY <1>4, <1>6, OneMoves
<1>. QED
  BY <1>1, <1>2, <1>6, <1>7 DEF Becomes

\* A worker that stores its result: the other fields are as they were.
LEMMA StoredRecord ==
    ASSUME Shapes, NEW w \in Workers, NEW kept, Store(w, kept)
    PROVE  /\ \A x \in Workers : x # w => wk'[x] = wk[x]
           /\ wk'[w].pc = "claim"
<1>. DEFINE r == [wk[w] EXCEPT !.pc = "claim"]
<1>1. wk' = [wk EXCEPT ![w] = r]
  BY DEF Store
<1>2. r = [wk[w] EXCEPT !.pc = "claim"] /\ IsWorker(wk[w])
  BY DEF Shapes
<1>. HIDE DEF r
<1>3. IsWorker(r) /\ r.pc = "claim"
  BY <1>2 DEF IsWorker
<1>. QED
  BY <1>1, <1>3, OneMoves DEF Becomes

LEMMA KeptOfStore ==
    ASSUME NEW w, NEW kept \in BOOLEAN, Store(w, kept)
    PROVE  Kept' = IF kept THEN Kept \cup {wk[w].file} ELSE Kept
<1>. DEFINE r == [file |-> wk[w].file, kept |-> kept]
<1>1. cache' = cache \cup {r} /\ r.file = wk[w].file /\ r.kept = kept
  BY DEF Store
<1>. HIDE DEF r
<1>2. CASE kept
  <2>1. \A i : i \in Kept' <=> i \in Kept \/ i = wk[w].file
    BY <1>1, <1>2 DEF Kept
  <2>. QED
    BY <1>2, <2>1
<1>3. CASE ~kept
  <2>1. \A i : i \in Kept' <=> i \in Kept
    BY <1>1, <1>3 DEF Kept
  <2>. QED
    BY <1>3, <2>1
<1>. QED
  BY <1>2, <1>3

\* A file that takes room, beside what is kept and what else is outstanding.
LEMMA TakingRoomFits ==
    ASSUME WorkInv, BudgetInv, NEW w \in Workers, NEW o, Extracted(w, o), UNCHANGED <<phase, cache>>,
           wk[w].pc = "extract"
    PROVE  BudgetInv'
<1>. DEFINE i == wk[w].file
<1>1. /\ \A x \in Workers : x # w => wk'[x] = wk[x]
      /\ wk'[w].file = i /\ wk'[w].prior = retained
      /\ wk'[w].pc = IF Length(i) <= PerFile THEN "admit" ELSE "store"
      /\ retained' = IF Length(i) <= PerFile THEN retained + Length(i) ELSE retained
  BY ExtractedRecord DEF WorkInv
<1>2. phase = "extract" /\ Kept' = Kept
  BY DEF WorkInv, InPhase, Kept
<1>3. /\ i \in 1 .. N /\ i \notin Cached /\ N \in Nat
      /\ \A x \in Workers : x # w /\ wk[x].pc = "admit" => wk[x].file # i
  BY FilesAssumption DEF WorkInv, HandedOut, FirstTime, Holds, Holding
<1>. HIDE DEF i
<1>4. i \notin Kept \cup Outstanding
  BY <1>3 DEF Kept, Cached, Outstanding
<1>5. Kept \subseteq 1 .. N /\ retained \in Nat /\ Budget \in Nat /\ Length(i) \in Nat
  BY <1>3, FilesAssumption DEF BudgetInv
<1>6. CASE ~(Length(i) <= PerFile)
  <2>1. StillAdmitting
    BY <1>1, <1>2, <1>6 DEF StillAdmitting
  <2>. QED
    BY <2>1, StillFits
<1>7. CASE Length(i) <= PerFile
  <2>1. wk'[w].pc = "admit" /\ retained' = retained + Length(i)
    BY <1>1, <1>7
  <2>2. Outstanding' = Outstanding \cup {i}
    <3>1. \A j \in 1 .. N : j \in Outstanding' <=> j \in Outstanding \/ j = i
      BY <1>1, <1>3, <2>1 DEF Outstanding
    <3>. QED
      BY <1>3, <3>1 DEF Outstanding
  <2>3. \A x \in Workers : x # w => (Admitted(x)' <=> Admitted(x))
    BY <1>1 DEF Admitted
  <2>4. Admitted(w)' <=> retained + Length(i) <= Budget
    BY <1>1 DEF Admitted
  <2>5. Fitting' = IF retained + Length(i) <= Budget THEN Fitting \cup {i} ELSE Fitting
    <3>1. \A j \in 1 .. N : j \in Fitting' <=> j \in Fitting \/ (j = i /\ retained + Length(i) <= Budget)
      BY <1>1, <1>3, <2>1, <2>3, <2>4 DEF Fitting
    <3>. QED
      BY <1>3, <3>1 DEF Fitting
  <2>6. /\ Kept \cup Outstanding \in SUBSET (1 .. N)
        /\ Kept \cup Fitting \in SUBSET (Kept \cup Outstanding)
    BY <1>5, SubsetsOfFiles
  <2>7. /\ Total(Kept \cup Outstanding) = retained
        /\ Total((Kept \cup Outstanding) \cup {i}) = retained + Length(i)
    BY <1>2, <1>3, <1>4, <2>6, Sums DEF BudgetInv
  <2>8. retained' = Total(Kept' \cup Outstanding')
    <3>1. Kept' \cup Outstanding' = (Kept \cup Outstanding) \cup {i}
      BY <1>2, <2>2
    <3>. QED
      BY <2>1, <2>7, <3>1
  <2>9. Total(Kept' \cup Fitting') <= Budget
    <3>1. CASE retained + Length(i) <= Budget
      <4>1. Kept' \cup Fitting' = (Kept \cup Fitting) \cup {i}
        BY <1>2, <2>5, <3>1
      <4>2. /\ (Kept \cup Outstanding) \cup {i} \in SUBSET (1 .. N)
            /\ (Kept \cup Fitting) \cup {i} \in SUBSET ((Kept \cup Outstanding) \cup {i})
        BY <1>3, <2>6
      <4>3. Total((Kept \cup Fitting) \cup {i}) <= retained + Length(i) /\ Total((Kept \cup Fitting) \cup {i}) \in Nat
        BY <2>7, <4>2, Sums
      <4>. QED
        BY <1>5, <3>1, <4>1, <4>3
    <3>2. CASE ~(retained + Length(i) <= Budget)
      BY <1>2, <2>5, <3>2 DEF BudgetInv
    <3>. QED
      BY <3>1, <3>2
  <2>10. \A x \in Workers : wk'[x].pc = "admit" => wk'[x].prior \in Nat
    BY <1>1, <1>5 DEF BudgetInv
  <2>. QED
    BY <1>2, <1>5, <2>1, <2>8, <2>9, <2>10 DEF BudgetInv
<1>. QED
  BY <1>6, <1>7

\* An admission moves a file from those that fit to those that are kept, a
\* refusal gives back the room of one that does not fit.
LEMMA StoringFits ==
    ASSUME WorkInv, BudgetInv, NEW w \in Workers, Admit(w) \/ Refuse(w) \/ StoreLarge(w)
    PROVE  BudgetInv'
<1>. DEFINE i == wk[w].file
<1>1. ASSUME NEW kept \in BOOLEAN, Store(w, kept)
      PROVE  /\ \A x \in Workers : x # w => wk'[x] = wk[x]
             /\ wk'[w].pc = "claim" /\ phase' = phase
             /\ Kept' = IF kept THEN Kept \cup {i} ELSE Kept
  BY <1>1, StoredRecord, KeptOfStore DEF WorkInv, Store
<1>2. CASE StoreLarge(w)
  <2>1. StillAdmitting
    BY <1>1, <1>2 DEF StoreLarge, StillAdmitting
  <2>. QED
    BY <2>1, StillFits
<1>3. CASE Admit(w) \/ Refuse(w)
  <2>1. /\ wk[w].pc = "admit"
        /\ \/ Admitted(w) /\ Store(w, TRUE) /\ retained' = retained
           \/ ~Admitted(w) /\ Store(w, FALSE) /\ retained' = retained - Length(i)
    BY <1>3 DEF Admit, Refuse
  <2>2. phase = "extract" /\ N \in Nat
    BY <2>1, FilesAssumption DEF WorkInv, InPhase
  <2>3. /\ i \in 1 .. N /\ i \notin Cached
        /\ \A x \in Workers : x # w /\ wk[x].pc = "admit" => wk[x].file # i
    BY <2>1 DEF WorkInv, HandedOut, FirstTime, Holds, Holding
  <2>4. i \notin Kept
    BY <2>3 DEF Kept, Cached
  <2>. HIDE DEF i
  <2>5. /\ \A x \in Workers : x # w => wk'[x] = wk[x]
        /\ wk'[w].pc = "claim" /\ phase' = phase
    BY <1>1, <2>1
  <2>6. \A x \in Workers : x # w => (Admitted(x)' <=> Admitted(x))
    BY <2>5 DEF Admitted
  <2>7. Outstanding' = Outstanding \ {i} /\ i \in Outstanding
    <3>1. \A j \in 1 .. N : j \in Outstanding' <=> j \in Outstanding /\ j # i
      BY <2>1, <2>3, <2>5 DEF Outstanding, i
    <3>2. i \in Outstanding
      BY <2>1, <2>3 DEF Outstanding, i
    <3>. QED
      BY <3>1, <3>2 DEF Outstanding
  <2>8. Fitting' = Fitting \ {i} /\ (i \in Fitting <=> Admitted(w))
    <3>1. \A j \in 1 .. N : j \in Fitting' <=> j \in Fitting /\ j # i
      BY <2>1, <2>3, <2>5, <2>6 DEF Fitting, i
    <3>2. i \in Fitting <=> Admitted(w)
      BY <2>1, <2>3 DEF Fitting, i
    <3>. QED
      BY <3>1, <3>2 DEF Fitting
  <2>9. \A x \in Workers : wk'[x].pc = "admit" => wk'[x].prior \in Nat
    BY <2>5 DEF BudgetInv
  <2>10. CASE Admitted(w) /\ Store(w, TRUE) /\ retained' = retained
    <3>1. Kept' = Kept \cup {i}
      BY <1>1, <2>10
    <3>2. Kept' \cup Outstanding' = Kept \cup Outstanding /\ Kept' \cup Fitting' = Kept \cup Fitting
      BY <2>7, <2>8, <2>10, <3>1
    <3>. QED
      BY <2>3, <2>5, <2>9, <2>10, <3>1, <3>2 DEF BudgetInv
  <2>11. CASE ~Admitted(w) /\ Store(w, FALSE) /\ retained' = retained - Length(i)
    <3>1. Kept' = Kept
      BY <1>1, <2>11
    <3>2. Kept' \cup Fitting' = Kept \cup Fitting
      BY <2>8, <2>11, <3>1
    <3>3. /\ Kept' \cup Outstanding' \in SUBSET (1 .. N) /\ i \in (1 .. N) \ (Kept' \cup Outstanding')
          /\ (Kept' \cup Outstanding') \cup {i} = Kept \cup Outstanding
      BY <2>3, <2>4, <2>7, <3>1, SubsetsOfFiles DEF BudgetInv
    <3>4. /\ Total(Kept' \cup Outstanding') \in Nat /\ Length(i) \in Nat
          /\ Total(Kept \cup Outstanding) = Total(Kept' \cup Outstanding') + Length(i)
      BY <2>3, <3>3, Sums, FilesAssumption
    <3>5. retained' \in Nat /\ retained' = Total(Kept' \cup Outstanding')
      BY <2>2, <2>11, <3>4 DEF BudgetInv
    <3>. QED
      BY <2>9, <3>1, <3>2, <3>5 DEF BudgetInv
  <2>. QED
    BY <2>1, <2>10, <2>11
<1>. QED
  BY <1>2, <1>3

\* Steps after which the same workers stand before admission with the same room.
LEMMA OthersStillAdmit ==
    ASSUME WorkInv,
           \/ \E w \in Workers : StartWorker(w) \/ Claim(w) \/ ResolveFile(w)
           \/ MergeExtracted \/ BuildRegistry \/ MergeResolved \/ DumpRows \/ Cancel \/ UNCHANGED vars
    PROVE  StillAdmitting
<1>1. CASE \E w \in Workers : StartWorker(w) \/ Claim(w) \/ ResolveFile(w)
  <2>1. PICK w \in Workers : StartWorker(w) \/ Claim(w) \/ ResolveFile(w)
    BY <1>1
  <2>2. UNCHANGED <<phase, retained, cache>> /\ wk[w].pc # "admit"
    BY <2>1 DEF StartWorker, Claim, ResolveFile
  <2>3. wk'[w].pc # "admit" /\ \A x \in Workers : x # w => wk'[x] = wk[x]
    <3>1. CASE StartWorker(w)
      BY <3>1, PoolGoes DEF WorkInv, Goes
    <3>2. CASE ResolveFile(w)
      BY <3>2, ResolveGoes DEF WorkInv, Goes
    <3>3. CASE Claim(w)
      BY <3>3, ClaimGoes DEF WorkInv, InPhase
    <3>. QED
      BY <2>1, <3>1, <3>2, <3>3
  <2>. QED
    BY <2>2, <2>3 DEF StillAdmitting, Kept
<1>2. CASE MergeExtracted
  <2>1. /\ \A w \in Workers : wk[w].pc = "exit" /\ wk'[w].pc = "new"
        /\ UNCHANGED <<retained, cache>> /\ phase' # "extract"
    BY <1>2 DEF MergeExtracted, AllLeft, Idle
  <2>. QED
    BY <2>1 DEF StillAdmitting, Kept
<1>3. CASE BuildRegistry \/ MergeResolved \/ DumpRows \/ Cancel \/ UNCHANGED vars
  <2>1. UNCHANGED <<retained, cache, wk>> /\ (phase' = "extract" => phase = "extract")
    BY <1>3 DEF BuildRegistry, MergeResolved, DumpRows, Cancel, vars
  <2>. QED
    BY <2>1 DEF StillAdmitting, Kept
<1>. QED
  BY <1>1, <1>2, <1>3

LEMMA ExtractFits == ASSUME WorkInv, BudgetInv, NEW w \in Workers, Extract(w) PROVE BudgetInv'
<1>1. /\ wk[w].pc = "extract" /\ UNCHANGED <<phase, cache>>
      /\ \E o \in Outcomes : Extracted(w, o) \/ Unreadable(w, o)
  BY DEF Extract
<1>2. PICK o \in Outcomes : Extracted(w, o) \/ Unreadable(w, o)
  BY <1>1
<1>3. CASE Unreadable(w, o)
  <2>1. /\ wk'[w].pc = "claim" /\ \A x \in Workers : x # w => wk'[x] = wk[x]
    BY <1>1, <1>3, UnreadableGoes DEF WorkInv, Goes
  <2>2. StillAdmitting
    BY <1>1, <1>3, <2>1 DEF StillAdmitting, Unreadable, Kept
  <2>. QED
    BY <2>2, StillFits
<1>. QED
  BY <1>1, <1>2, <1>3, TakingRoomFits

LEMMA InitFits == Init => BudgetInv
<1>. SUFFICES ASSUME Init PROVE BudgetInv
  OBVIOUS
<1>1. cache = {} /\ retained = 0 /\ \A w \in Workers : wk[w].pc = "new"
  BY DEF Init, Idle
<1>2. Kept = {} /\ Outstanding = {} /\ Fitting = {}
  BY <1>1 DEF Kept, Outstanding, Fitting
<1>3. {} \in SUBSET (1 .. N) /\ Kept \cup Outstanding = {} /\ Kept \cup Fitting = {}
  BY <1>2
<1>4. Total({}) = 0 /\ Budget \in Nat
  BY <1>3, Sums, FilesAssumption
<1>. QED
  BY <1>1, <1>2, <1>3, <1>4 DEF BudgetInv

\* However the admissions interleave, the texts that are kept fit the budget: a
\* worker counts its room before it decides and gives it back when refused.
THEOREM KeptTextsFit == Spec => []RetainedWithinBudget
<1>1. WorkInv /\ BudgetInv /\ [Next]_vars => BudgetInv'
  <2>. SUFFICES ASSUME WorkInv, BudgetInv, [Next]_vars PROVE BudgetInv'
    OBVIOUS
  <2>1. CASE \E w \in Workers : Extract(w)
    BY <2>1, ExtractFits
  <2>2. CASE \E w \in Workers : Admit(w) \/ Refuse(w) \/ StoreLarge(w)
    BY <2>2, StoringFits
  <2>3. CASE \/ \E w \in Workers : StartWorker(w) \/ Claim(w) \/ ResolveFile(w)
             \/ MergeExtracted \/ BuildRegistry \/ MergeResolved \/ DumpRows \/ Cancel
             \/ UNCHANGED vars
    BY <2>3, OthersStillAdmit, StillFits
  <2>. QED
    BY <2>1, <2>2, <2>3 DEF Next, Ended
<1>2. BudgetInv => RetainedWithinBudget
  <2>. SUFFICES ASSUME BudgetInv PROVE RetainedWithinBudget
    OBVIOUS
  <2>1. Kept \cup Fitting \in SUBSET (1 .. N) /\ Kept \in SUBSET (Kept \cup Fitting) /\ Kept \in SUBSET (1 .. N)
    BY SubsetsOfFiles DEF BudgetInv
  <2>2. Total(Kept) <= Total(Kept \cup Fitting) /\ Total(Kept) \in Nat /\ Total(Kept \cup Fitting) \in Nat
    BY <2>1, Sums
  <2>. QED
    BY <2>2, FilesAssumption DEF BudgetInv, RetainedWithinBudget
<1>. QED
  BY <1>1, <1>2, WorkIsKept, InitWork, InitFits, PTL DEF Spec

====
