---------------------- MODULE McpConnectionsProofs ----------------------
(***************************************************************************)
(* The server's promises about what comes and goes under a client:         *)
(* DeletedStaysDeleted, AdrIsKept and PagesCoverTheAnswer, for any number  *)
(* of files, projects, versions and calls, and whatever the other tools    *)
(* answer.                                                                 *)
(***************************************************************************)
EXTENDS McpConnections, FiniteSetTheorems, SequenceTheorems, WellFoundedInduction, TLAPS

FilesIn(d) == \A f \in DOMAIN d : d[f] = Broken \/ IsRows(d[f])

\* An open connection: its file could be opened when it was, for a project with
\* a name, and what it reads are rows.
Opened(c, d) ==
    /\ c = [file |-> c.file, project |-> c.project, replaced |-> c.replaced]
    /\ c.project # None
    /\ c.replaced = <<>> => c.file \in DOMAIN d
    /\ IsRows(Reads(c, d))

-----------------------------------------------------------------------------
(* Rows and files.                                                          *)

LEMMA RowsAreWhole == \A db : IsRows(db) => db # Broken
<1>1. DOMAIN Broken = {"broken"}  BY DEF Broken
<1>2. \A db : IsRows(db) => "projects" \in DOMAIN db  BY DEF IsRows
<1>. QED  BY <1>1, <1>2

LEMMA EmptyIsRows == IsRows(EmptyDb)
  BY FS_EmptySet DEF IsRows, EmptyDb

\* Only the records of a database are changed.
LEMMA Summarized ==
    ASSUME NEW db, IsRows(db), NEW s
    PROVE  LET new == [db EXCEPT !.summaries = s]
           IN /\ IsRows(new) /\ new.summaries = s
              /\ new.projects = db.projects /\ new.nodes = db.nodes /\ new.edges = db.edges
<1> DEFINE new == [db EXCEPT !.summaries = s]
<1>1. new = [projects |-> db.projects, nodes |-> db.nodes, edges |-> db.edges,
             hashes |-> db.hashes, summaries |-> s, nextId |-> db.nextId]
      BY DEF IsRows
<1> HIDE DEF new
<1>2. IsRows(new) /\ new.summaries = s /\ new.projects = db.projects /\ new.nodes = db.nodes
                  /\ new.edges = db.edges
      BY <1>1 DEF IsRows
<1>. QED  BY <1>2 DEF new

LEMMA TakenOver ==
    ASSUME NEW db, IsRows(db), NEW p
    PROVE  LET new == AdrTakenOver(db, p)
           IN /\ IsRows(new) /\ new.projects = db.projects
              /\ \A q \in DOMAIN db.summaries :
                    q \in DOMAIN new.summaries /\ new.summaries[q] = db.summaries[q]
<1>1. CASE p \notin DOMAIN db.summaries /\ p \in DOMAIN LegacyAdr
  <2> DEFINE s == With(db.summaries, p, LegacyAdr[p])
  <2>1. AdrTakenOver(db, p) = [db EXCEPT !.summaries = s]  BY <1>1 DEF AdrTakenOver
  <2>2. \A q \in DOMAIN db.summaries : q \in DOMAIN s /\ s[q] = db.summaries[q]
        BY <1>1 DEF With
  <2> HIDE DEF s
  <2>. QED  BY <2>1, <2>2, Summarized
<1>2. CASE ~(p \notin DOMAIN db.summaries /\ p \in DOMAIN LegacyAdr)
      BY <1>2 DEF AdrTakenOver
<1>. QED  BY <1>1, <1>2

\* A call of manage_adr writes the record of its project, and loses none.
LEMMA Written ==
    ASSUME NEW db, IsRows(db), NEW p, NEW r
    PROVE  LET new == AdrWritten(db, p, r)
           IN /\ IsRows(new) /\ new.projects = db.projects
              /\ AdrUpdates(r) => p \in DOMAIN new.summaries /\ new.summaries[p] = r.content
              /\ \A q \in DOMAIN db.summaries : q # p \/ ~AdrUpdates(r) =>
                    q \in DOMAIN new.summaries /\ new.summaries[q] = db.summaries[q]
<1> DEFINE old == AdrTakenOver(db, p)
<1>1. /\ IsRows(old) /\ old.projects = db.projects
      /\ \A q \in DOMAIN db.summaries : q \in DOMAIN old.summaries /\ old.summaries[q] = db.summaries[q]
      BY TakenOver
<1>2. AdrWritten(db, p, r) = IF AdrUpdates(r) THEN [old EXCEPT !.summaries = With(@, p, r.content)]
                             ELSE old
      BY DEF AdrWritten
<1> HIDE DEF old
<1>3. CASE AdrUpdates(r)
  <2> DEFINE s == With(old.summaries, p, r.content)
  <2>1. AdrWritten(db, p, r) = [old EXCEPT !.summaries = s]  BY <1>2, <1>3
  <2>2. p \in DOMAIN s /\ s[p] = r.content  BY DEF With
  <2>3. \A q \in DOMAIN old.summaries : q # p => q \in DOMAIN s /\ s[q] = old.summaries[q]
        BY DEF With
  <2> HIDE DEF s
  <2>. QED  BY <1>1, <1>3, <2>1, <2>2, <2>3, Summarized
<1>4. CASE ~AdrUpdates(r)  BY <1>1, <1>2, <1>4
<1>. QED  BY <1>3, <1>4

\* What a call gets that only reads a record that is there.
LEMMA RecordRead ==
    ASSUME NEW db, IsRows(db), NEW p \in DOMAIN db.summaries, NEW r, r.mode = "get"
    PROVE  AdrAnswer(db, p, r).body = db.summaries[p]
<1>1. AdrTakenOver(db, p) = db  BY DEF AdrTakenOver
<1>2. ~AdrUpdates(r)  BY DEF AdrUpdates
<1>. QED  BY <1>1, <1>2 DEF AdrAnswer, Ok

LEMMA WithoutFiles ==
    ASSUME NEW d, NEW p
    PROVE  /\ DOMAIN Without(d, p) = DOMAIN d \ {p}
           /\ \A f \in DOMAIN d \ {p} : Without(d, p)[f] = d[f]
           /\ FilesIn(d) => FilesIn(Without(d, p))
<1>1. /\ DOMAIN Without(d, p) = DOMAIN d \ {p}
      /\ \A f \in DOMAIN d \ {p} : Without(d, p)[f] = d[f]
      BY DEF Without, Restrict
<1>. QED  BY <1>1 DEF FilesIn

-----------------------------------------------------------------------------
(* Connections.                                                             *)

\* A connection goes on reading what it read, whatever takes the file's place.
LEMMA StillReads ==
    ASSUME NEW c, NEW d, NEW f, NEW e, c # Absent, Opened(c, d),
           DOMAIN d \ {f} = DOMAIN e \ {f}, \A x \in DOMAIN d : x # f => e[x] = d[x]
    PROVE  LET new == Replaced(c, f, d)
           IN /\ Opened(new, e) /\ Reads(new, e) = Reads(c, d)
              /\ new # Absent /\ new.file = c.file /\ new.project = c.project
<1> DEFINE new == Replaced(c, f, d)
<1>1. CASE c.file = f /\ c.replaced = <<>>
  <2>1. new = [file |-> c.file, project |-> c.project, replaced |-> <<d[f]>>]
        BY <1>1 DEF Replaced, Opened
  <2>2. new.replaced[1] = d[f] /\ new.replaced # <<>>  BY <2>1
  <2>3. Reads(new, e) = Reads(c, d)  BY <1>1, <2>2 DEF Reads
  <2> HIDE DEF new
  <2>4. new.file = c.file /\ new.project = c.project /\ new.project # None
        BY <2>1 DEF Opened
  <2>5. new # Absent  BY <2>4 DEF Absent, None
  <2>6. Opened(new, e)  BY <1>1, <2>1, <2>2, <2>3, <2>4 DEF Opened
  <2>. QED  BY <2>3, <2>4, <2>5, <2>6 DEF new
<1>2. CASE ~(c.file = f /\ c.replaced = <<>>)
  <2>1. new = c  BY <1>2 DEF Replaced
  <2>2. Reads(c, e) = Reads(c, d)  BY <1>2 DEF Reads, Opened
  <2>. QED  BY <1>2, <2>1, <2>2 DEF Opened
<1>. QED  BY <1>1, <1>2

LEMMA OneProject ==
    ASSUME NEW d, FilesIn(d), NEW f, InternalName(d, f) # None
    PROVE  Whole(d, f) /\ IsRows(d[f]) /\ DOMAIN d[f].projects = {InternalName(d, f)}
<1>1. Whole(d, f) /\ IsRows(d[f]) /\ Cardinality(DOMAIN d[f].projects) = 1
      BY DEF InternalName, FilesIn, Whole
<1>2. \E x : DOMAIN d[f].projects = {x}  BY <1>1, FS_Singleton DEF IsRows
<1>. QED  BY <1>1, <1>2 DEF InternalName, Whole

LEMMA LeastOf == ASSUME NEW S, S \subseteq Nat, S # {} PROVE Min(S) \in S
<1> DEFINE R == OpToRel(<, Nat)
<1>1. IsWellFoundedOn(R, Nat)  BY NatLessThanWellFounded
<1>2. \A x, y \in Nat : x < y => <<x, y>> \in R  BY DEF OpToRel
<1> HIDE DEF R
<1>3. PICK x \in S : \A y \in S : ~(<<y, x>> \in R)  BY <1>1, WFMin
<1>4. ASSUME NEW y \in S PROVE x <= y
  <2>1. <<y, x>> \notin R  BY <1>3
  <2>2. ~(y < x)  BY <1>2, <2>1
  <2>. QED  BY <2>2
<1>. QED  BY <1>4 DEF Min

\* The scan of the directory finds a file that has the project and no other.
LEMMA ScanFinds ==
    ASSUME NEW d, FilesIn(d), NEW p, p # None, FallbackScan(d, p) # None
    PROVE  LET f == FallbackScan(d, p)
           IN Whole(d, f) /\ IsRows(d[f]) /\ DOMAIN d[f].projects = {p}
<1> DEFINE found == {k \in DOMAIN DirOrder : InternalName(d, DirOrder[k]) = p}
<1>1. found # {} /\ FallbackScan(d, p) = DirOrder[Min(found)]  BY DEF FallbackScan
<1>2. found \subseteq Nat  BY DirOrderAssumption
<1>3. Min(found) \in found  BY <1>1, <1>2, LeastOf
<1>4. InternalName(d, FallbackScan(d, p)) = p  BY <1>1, <1>3
<1>. QED  BY <1>4, OneProject

\* resolve_store removes at most a broken file; what it opens is the file of the
\* project's name or one that has the project alone.
ResolvedTo(res, d, c, p) ==
    /\ \/ res.disk = d
       \/ p \in DOMAIN d /\ d[p] = Broken /\ res.disk = Without(d, p) /\ res.conn = Absent
    /\ res.conn = Absent \/ Opened(res.conn, res.disk)
    /\ res.open => p # None /\ res.disk = d /\ res.conn # Absent /\ res.conn.project = p
    /\ \/ res.conn = c
       \/ res.conn = Absent
       \/ /\ res.disk = d /\ res.conn = Open(p, p)
          /\ Whole(d, p) /\ p \in DOMAIN d[p].projects
       \/ /\ res.disk = d /\ ~(Whole(d, p) /\ p \in DOMAIN d[p].projects)
          /\ \E f : res.conn = Open(f, p) /\ Whole(d, f) /\ DOMAIN d[f].projects = {p}

LEMMA Resolved ==
    ASSUME NEW d, NEW c, FilesIn(d), c = Absent \/ Opened(c, d), NEW p
    PROVE  ResolvedTo(ResolveStore(d, c, p), d, c, p)
<1> DEFINE res == ResolveStore(d, c, p)
           known == Whole(d, p) /\ p \in DOMAIN d[p].projects
           other == FallbackScan(d, p)
<1>1. ASSUME NEW f, Whole(d, f), IsRows(d[f]), p # None
      PROVE  Opened(Open(f, p), d) /\ Open(f, p) # Absent /\ Open(f, p).project = p
  <2> DEFINE o == Open(f, p)
  <2>1. o = [file |-> f, project |-> p, replaced |-> <<>>]  BY DEF Open
  <2> HIDE DEF o
  <2>2. o.project = p /\ o.file = f /\ o.replaced = <<>>  BY <2>1
  <2>3. o # Absent  BY <1>1, <2>2 DEF Absent, None
  <2>4. Reads(o, d) = d[f]  BY <2>2 DEF Reads
  <2>5. Opened(o, d)  BY <1>1, <2>1, <2>2, <2>4 DEF Opened, Whole
  <2>. QED  BY <2>2, <2>3, <2>5 DEF o
<1>2. CASE p = None
  <2>1. res = [disk |-> d, conn |-> c, open |-> FALSE]  BY <1>2 DEF ResolveStore
  <2>. QED  BY <1>2, <2>1 DEF ResolvedTo
<1>3. CASE p # None /\ c # Absent /\ c.project = p
  <2>1. res = [disk |-> d, conn |-> c, open |-> TRUE]  BY <1>3 DEF ResolveStore
  <2>. QED  BY <1>3, <2>1 DEF ResolvedTo
<1>4. CASE p # None /\ ~(c # Absent /\ c.project = p) /\ p \in DOMAIN d /\ d[p] = Broken
      BY <1>4 DEF ResolveStore, Without, ResolvedTo
<1>5. CASE p # None /\ ~(c # Absent /\ c.project = p) /\ ~(p \in DOMAIN d /\ d[p] = Broken) /\ known
  <2>1. res = [disk |-> d, conn |-> Open(p, p), open |-> TRUE]
        BY <1>5 DEF ResolveStore, Whole
  <2>2. IsRows(d[p])  BY <1>5 DEF FilesIn, Whole
  <2>. QED  BY <1>1, <1>5, <2>1, <2>2 DEF ResolvedTo
<1>6. CASE p # None /\ ~(c # Absent /\ c.project = p) /\ ~(p \in DOMAIN d /\ d[p] = Broken) /\ ~known
  <2>1. res = [disk |-> d, conn |-> IF other = None THEN Absent ELSE Open(other, p),
               open |-> other # None]
        BY <1>6 DEF ResolveStore, Whole
  <2>2. CASE other = None
    <3>1. res = [disk |-> d, conn |-> Absent, open |-> FALSE]  BY <2>1, <2>2
    <3>. QED  BY <3>1 DEF ResolvedTo
  <2>3. CASE other # None
    <3>1. Whole(d, other) /\ IsRows(d[other]) /\ DOMAIN d[other].projects = {p}
          BY <1>6, <2>3, ScanFinds
    <3> HIDE DEF other
    <3>. QED  BY <1>1, <1>6, <2>1, <2>3, <3>1 DEF ResolvedTo
  <2>. QED  BY <2>2, <2>3
<1>. QED  BY <1>2, <1>3, <1>4, <1>5, <1>6

-----------------------------------------------------------------------------
(* What holds of connection and files between all steps.                    *)

\* No file under its name still has a project whose deletion was acknowledged.
GoneFrom(g, d) == \A p \in g : Whole(d, p) => p \notin DOMAIN d[p].projects

\* What is open for such a project is another file, with that project alone.
ClosedFor(g, c, d) ==
    c # Absent /\ c.project \in g =>
        c.file # c.project /\ DOMAIN Reads(c, d).projects = {c.project}

Full(i, file) == i # Absent /\ i.full /\ i.project = file

\* A record that was not dropped is in the file it went to, or with the run that
\* will write that file anew.
StoredFor(k, content, i, d) ==
    /\ k = <<k[1], k[2]>>
    /\ Full(i, k[1]) => k[2] = k[1] /\ k[1] \in DOMAIN i.saved /\ i.saved[k[1]] = content
    /\ ~Full(i, k[1]) => /\ Whole(d, k[1]) /\ k[2] \in DOMAIN d[k[1]].summaries
                         /\ d[k[1]].summaries[k[2]] = content

StoredIn(a, i, d) == \A k \in DOMAIN a : a[k].kept => StoredFor(k, a[k].content, i, d)

FilesOK(d, c, g, a, i) ==
    /\ FilesIn(d) /\ (c = Absent \/ Opened(c, d))
    /\ GoneFrom(g, d) /\ ClosedFor(g, c, d) /\ StoredIn(a, i, d)

\* What the indexer finds are rows, and the call that waits for it is its own.
RunOK(i) ==
    i # Absent => /\ IsRows(i.rows)
                  /\ i.call # Absent => i.call.tool = "index_repository"

\* A call that is answered about a project is answered from the connection.
AnsweredFromConn ==
    /\ answer # Absent /\ answer.ok
    /\ answer.call.tool \in Verified \cup Unverified \cup {"manage_adr"}
    => conn # Absent /\ conn.project = answer.call.project

FilesInv == FilesOK(disk, conn, gone, adr, indexing) /\ RunOK(indexing)

ConnInv == FilesInv /\ AnsweredFromConn /\ AdrIsKept

LEMMA ReplacedAbsent == \A p, d : Replaced(Absent, p, d) = Absent
  BY DEF Replaced

LEMMA AnswerParts ==
    ASSUME NEW r, NEW a
    PROVE  /\ Answer(r, a).call = r /\ Answer(r, a).ok = a.ok /\ Answer(r, a).body = a.body
           /\ Answer(r, a) # Absent
<1>1. DOMAIN Answer(r, a) = {"call", "ok", "body"} /\ DOMAIN Absent = {"project"}
      BY DEF Answer, Absent
<1>2. Answer(r, a) # Absent  BY <1>1
<1>. QED  BY <1>2 DEF Answer

\* Looking for a project's file disturbs none of this.
LEMMA ResolvedInv ==
    ASSUME NEW d, NEW c, NEW g, NEW a, NEW i, FilesOK(d, c, g, a, i), NEW p
    PROVE  LET res == ResolveStore(d, c, p) IN FilesOK(res.disk, res.conn, g, a, i)
<1> DEFINE res == ResolveStore(d, c, p)
<1>1. ResolvedTo(res, d, c, p)
  <2>1. FilesIn(d) /\ (c = Absent \/ Opened(c, d))  BY DEF FilesOK
  <2>. QED  BY <2>1, Resolved
<1> HIDE DEF res
<1>2. /\ \A f \in DOMAIN res.disk : f \in DOMAIN d /\ res.disk[f] = d[f]
      /\ \A f \in DOMAIN d : d[f] # Broken => f \in DOMAIN res.disk
  <2>1. CASE res.disk = d  BY <2>1
  <2>2. CASE d[p] = Broken /\ res.disk = Without(d, p)
    <3>1. DOMAIN Without(d, p) = DOMAIN d \ {p}
          /\ \A f \in DOMAIN d \ {p} : Without(d, p)[f] = d[f]
          BY WithoutFiles
    <3>. QED  BY <2>2, <3>1
  <2>. QED  BY <1>1, <2>1, <2>2 DEF ResolvedTo
<1>3. FilesIn(res.disk)  BY <1>2 DEF FilesOK, FilesIn
<1>4. GoneFrom(g, res.disk)  BY <1>2 DEF FilesOK, GoneFrom, Whole
<1>5. StoredIn(a, i, res.disk)
  <2> SUFFICES ASSUME NEW k \in DOMAIN a, a[k].kept PROVE StoredFor(k, a[k].content, i, res.disk)
      BY DEF StoredIn
  <2>1. StoredFor(k, a[k].content, i, d)  BY DEF FilesOK, StoredIn
  <2>. QED  BY <1>2, <2>1 DEF StoredFor, Whole
<1>6. ClosedFor(g, res.conn, res.disk)
  <2>1. CASE res.conn = Absent  BY <2>1 DEF ClosedFor
  <2>2. CASE res.conn # Absent /\ res.conn = c
        BY <1>1, <2>2 DEF FilesOK, ResolvedTo
  <2>3. CASE res.disk = d /\ res.conn = Open(p, p) /\ Whole(d, p) /\ p \in DOMAIN d[p].projects
    <3>1. p \notin g  BY <2>3 DEF FilesOK, GoneFrom
    <3>2. res.conn.project = p  BY <2>3 DEF Open
    <3>. QED  BY <3>1, <3>2 DEF ClosedFor
  <2>4. ASSUME res.disk = d, ~(Whole(d, p) /\ p \in DOMAIN d[p].projects),
               NEW f, res.conn = Open(f, p), Whole(d, f), DOMAIN d[f].projects = {p}
        PROVE  ClosedFor(g, res.conn, res.disk)
    <3>1. res.conn.project = p /\ res.conn.file = f /\ res.conn.replaced = <<>>
          BY <2>4 DEF Open
    <3>2. Reads(res.conn, res.disk) = d[f]  BY <2>4, <3>1 DEF Reads
    <3>3. f # p  BY <2>4
    <3>. QED  BY <2>4, <3>1, <3>2, <3>3 DEF ClosedFor
  <2>. QED  BY <1>1, <2>1, <2>2, <2>3, <2>4 DEF ResolvedTo
<1>. QED  BY <1>1, <1>3, <1>4, <1>5, <1>6 DEF res, ResolvedTo, FilesOK

LEMMA QueryKeeps == ASSUME FilesInv, NEW r, Query(r) PROVE ConnInv'
<1> DEFINE p   == IF r.tool = "get_code_snippet" /\ ~Complete(r) THEN None ELSE Arg(r, "project", None)
           res == ResolveStore(disk, conn, p)
           db  == Reads(res.conn, res.disk)
           a   == IF ~Complete(r) THEN Error("argument")
                  ELSE IF ~res.open \/ (r.tool \in Verified /\ ~VerifyIndexed(db, p))
                  THEN NoStoreError(res.disk, p)
                  ELSE Reading(db, p, r)
<1>1. disk' = res.disk /\ conn' = res.conn /\ answer' = Answer(r, a) /\ UNCHANGED <<adr, gone, indexing>>
      /\ r.tool \in Verified \cup Unverified
      BY DEF Query
<1>2. FilesInv'
  <2>1. FilesOK(res.disk, res.conn, gone, adr, indexing)  BY ResolvedInv DEF FilesInv
  <2>. QED  BY <1>1, <2>1 DEF FilesInv
<1>3. AnsweredFromConn'
  <2> SUFFICES ASSUME answer'.ok PROVE conn' # Absent /\ conn'.project = answer'.call.project
      BY DEF AnsweredFromConn
  <2>1. a.ok  BY <1>1, AnswerParts
  <2>2. Complete(r) /\ res.open  BY <2>1 DEF Error, NoStoreError
  <2>3. p # None /\ res.conn # Absent /\ res.conn.project = p
        BY <2>2, Resolved DEF FilesInv, FilesOK, ResolvedTo
  <2>4. p = r.project  BY <2>2, <2>3 DEF Arg
  <2>. QED  BY <1>1, <2>3, <2>4, AnswerParts
<1>4. AdrIsKept'
      BY <1>1, AnswerParts DEF AdrIsKept, Answered, Verified, Unverified
<1>. QED  BY <1>2, <1>3, <1>4 DEF ConnInv

LEMMA FullIs == \A file : FullAt(file) = Full(indexing, file)  BY DEF FullAt, Full

LEMMA ManageAdrKeeps == ASSUME FilesInv, NEW r, ManageAdr(r) PROVE ConnInv'
<1> DEFINE p    == Arg(r, "project", None)
           res  == ResolveStore(disk, conn, p)
           file == res.conn.file
           db   == IF file \in DOMAIN res.disk THEN res.disk[file] ELSE EmptyDb
           new  == AdrWritten(db, p, r)
<1>1. conn' = res.conn /\ UNCHANGED <<gone, indexing>> /\ r.tool = "manage_adr"  BY DEF ManageAdr
<1>2. FilesOK(res.disk, res.conn, gone, adr, indexing)  BY ResolvedInv DEF FilesInv
<1>3. CASE res.open /\ db # Broken
  <2>1. /\ disk' = With(res.disk, file, new) /\ answer' = Answer(r, AdrAnswer(db, p, r))
        /\ adr' = IF AdrUpdates(r)
                  THEN With(adr, <<file, p>>, [content |-> r.content, kept |-> ~FullAt(file)]) ELSE adr
        BY <1>3 DEF ManageAdr
  <2>2. p # None /\ res.conn # Absent /\ res.conn.project = p
        BY <1>3, Resolved DEF FilesInv, FilesOK, ResolvedTo
  <2>3. p = r.project  BY <2>2 DEF Arg
  <2>4. Opened(res.conn, res.disk)  BY <1>2, <2>2 DEF FilesOK
  <2>5. IsRows(db)  BY <1>2, <1>3, EmptyIsRows DEF FilesOK, FilesIn
  <2>6. db.projects = <<>> \/ (file \in DOMAIN res.disk /\ res.disk[file] # Broken /\ db = res.disk[file])
        BY <1>3 DEF EmptyDb
  <2>7. file = res.conn.file /\ db = IF file \in DOMAIN res.disk THEN res.disk[file] ELSE EmptyDb
        OBVIOUS
  <2> HIDE DEF res, db, file
  <2>8. /\ IsRows(new) /\ new.projects = db.projects
        /\ AdrUpdates(r) => p \in DOMAIN new.summaries /\ new.summaries[p] = r.content
        /\ \A q \in DOMAIN db.summaries : q # p \/ ~AdrUpdates(r) =>
              q \in DOMAIN new.summaries /\ new.summaries[q] = db.summaries[q]
        BY <2>5, Written
  <2> HIDE DEF new
  <2>9. /\ DOMAIN disk' = DOMAIN res.disk \cup {file} /\ disk'[file] = new
        /\ \A f \in DOMAIN res.disk : f # file => disk'[f] = res.disk[f]
        BY <2>1 DEF With
  <2>10. new # Broken  BY <2>8, RowsAreWhole
  <2>11. FilesIn(disk')  BY <1>2, <2>8, <2>9 DEF FilesOK, FilesIn
  <2>12. /\ Opened(res.conn, disk')
         /\ DOMAIN Reads(res.conn, disk').projects = DOMAIN Reads(res.conn, res.disk).projects
    <3>1. CASE res.conn.replaced = <<>>
      <4>1. db = res.disk[file] /\ Reads(res.conn, res.disk) = db /\ Reads(res.conn, disk') = new
            BY <2>4, <2>7, <2>9, <3>1 DEF Opened, Reads
      <4>. QED  BY <2>4, <2>7, <2>8, <2>9, <4>1 DEF Opened
    <3>2. CASE res.conn.replaced # <<>>
      <4>1. Reads(res.conn, disk') = Reads(res.conn, res.disk)  BY <3>2 DEF Reads
      <4>. QED  BY <2>4, <3>2, <4>1 DEF Opened
    <3>. QED  BY <3>1, <3>2
  <2>13. GoneFrom(gone, disk')
    <3> SUFFICES ASSUME NEW q \in gone, Whole(disk', q) PROVE q \notin DOMAIN disk'[q].projects
        BY DEF GoneFrom
    <3>1. CASE q = file
      <4>1. disk'[q].projects = db.projects  BY <2>8, <2>9, <3>1
      <4>. QED  BY <1>2, <2>6, <3>1, <4>1 DEF FilesOK, GoneFrom, Whole
    <3>2. CASE q # file  BY <1>2, <2>9, <3>2 DEF FilesOK, GoneFrom, Whole
    <3>. QED  BY <3>1, <3>2
  <2>14. ClosedFor(gone, res.conn, disk')  BY <1>2, <2>12 DEF FilesOK, ClosedFor
  <2>15. StoredIn(adr', indexing, disk')
    <3> SUFFICES ASSUME NEW k \in DOMAIN adr', adr'[k].kept
                 PROVE  StoredFor(k, adr'[k].content, indexing, disk')
        BY DEF StoredIn
    <3>1. CASE AdrUpdates(r) /\ k = <<file, p>>
      <4> DEFINE apart == ~FullAt(file)
                 record == [content |-> r.content, kept |-> apart]
      <4> HIDE DEF apart, record
      <4>1. adr'[k] = record  BY <2>1, <3>1 DEF With, record, apart
      <4>2. record.content = r.content /\ record.kept = apart  BY Zenon DEF record
      <4>3. apart  BY <4>1, <4>2, Zenon
      <4>4. adr'[k].content = r.content /\ ~Full(indexing, file)  BY <4>1, <4>2, <4>3, FullIs DEF apart
      <4>. QED  BY <2>8, <2>9, <2>10, <3>1, <4>4 DEF StoredFor, Whole
    <3>2. CASE ~(AdrUpdates(r) /\ k = <<file, p>>)
      <4>1. k \in DOMAIN adr /\ adr'[k] = adr[k]  BY <2>1, <3>2 DEF With
      <4>2. StoredFor(k, adr[k].content, indexing, res.disk)  BY <1>2, <4>1 DEF FilesOK, StoredIn
      <4>3. CASE Full(indexing, k[1])  BY <4>1, <4>2, <4>3 DEF StoredFor
      <4>4. CASE ~Full(indexing, k[1]) /\ k[1] = file
        <5>1. db = res.disk[file]  BY <2>7, <4>2, <4>4 DEF StoredFor, Whole
        <5>2. k[2] # p \/ ~AdrUpdates(r)  BY <3>2, <4>2, <4>4 DEF StoredFor
        <5>. QED  BY <2>8, <2>9, <2>10, <4>1, <4>2, <4>4, <5>1, <5>2 DEF StoredFor, Whole
      <4>5. CASE ~Full(indexing, k[1]) /\ k[1] # file
            BY <2>9, <4>1, <4>2, <4>5 DEF StoredFor, Whole
      <4>. QED  BY <4>3, <4>4, <4>5
    <3>. QED  BY <3>1, <3>2
  <2>16. AnsweredFromConn'
        BY <1>1, <2>1, <2>2, <2>3, <2>7, AnswerParts DEF AnsweredFromConn, res
  <2>17. AdrIsKept'
    <3> SUFFICES ASSUME r.mode = "get", <<conn'.file, r.project>> \in DOMAIN adr',
                        adr'[<<conn'.file, r.project>>].kept, ~Full(indexing, conn'.file)
                 PROVE  answer'.body = adr'[<<conn'.file, r.project>>].content
        BY <1>1, <2>1, AnswerParts DEF AdrIsKept, Answered, FullAt, Full
    <3>1. ~AdrUpdates(r)  BY DEF AdrUpdates
    <3>2. conn'.file = file  BY <1>1, <2>7 DEF res
    <3>3. adr' = adr /\ <<file, p>> \in DOMAIN adr /\ adr[<<file, p>>].kept
          BY <2>1, <2>3, <3>1, <3>2
    <3>4. ~Full(indexing, file)  BY <3>2
    <3>5. StoredFor(<<file, p>>, adr[<<file, p>>].content, indexing, res.disk)
          BY <1>2, <3>3 DEF FilesOK, StoredIn
    <3>6. Whole(res.disk, file) /\ p \in DOMAIN res.disk[file].summaries
          /\ res.disk[file].summaries[p] = adr[<<file, p>>].content
          BY <3>4, <3>5 DEF StoredFor
    <3>7. db = res.disk[file]  BY <2>7, <3>6 DEF Whole
    <3>8. AdrAnswer(db, p, r).body = db.summaries[p]  BY <2>5, <3>6, <3>7, RecordRead
    <3>9. answer'.body = AdrAnswer(db, p, r).body  BY <2>1, AnswerParts
    <3>. QED  BY <2>3, <3>2, <3>3, <3>6, <3>7, <3>8, <3>9
  <2>18. FilesOK(disk', res.conn, gone, adr', indexing)
         BY <2>11, <2>12, <2>13, <2>14, <2>15 DEF FilesOK
  <2>19. FilesInv'  BY <1>1, <2>18 DEF FilesInv, res
  <2>. QED  BY <2>16, <2>17, <2>19 DEF ConnInv
<1>4. CASE ~(res.open /\ db # Broken)
  <2>1. disk' = res.disk /\ answer' = Answer(r, NoStoreError(res.disk, p)) /\ adr' = adr
        BY <1>4 DEF ManageAdr
  <2>2. ~answer'.ok
    <3>1. ~NoStoreError(res.disk, p).ok  BY DEF NoStoreError, Error
    <3>. QED  BY <2>1, <3>1, AnswerParts
  <2>3. FilesInv'  BY <1>1, <1>2, <2>1 DEF FilesInv
  <2>. QED  BY <2>2, <2>3 DEF ConnInv, AnsweredFromConn, AdrIsKept, Answered
<1>. QED  BY <1>3, <1>4

-----------------------------------------------------------------------------
(* Runs of the indexer.                                                     *)

LEMMA DroppedRecords ==
    ASSUME NEW S, NEW k \in DOMAIN Dropped(S), Dropped(S)[k].kept
    PROVE  k \in DOMAIN adr /\ adr[k].kept /\ k \notin S /\ Dropped(S)[k].content = adr[k].content
<1>1. k \in DOMAIN adr  BY DEF Dropped
<1> DEFINE stays == adr[k].kept /\ k \notin S
           record == [content |-> adr[k].content, kept |-> stays]
<1>2. Dropped(S)[k] = record  BY <1>1 DEF Dropped
<1> HIDE DEF stays, record
<1>3. record.content = adr[k].content /\ record.kept = stays  BY Zenon DEF record
<1>4. stays  BY <1>2, <1>3, Zenon
<1>. QED  BY <1>1, <1>2, <1>3, <1>4 DEF stays

\* A full run that begins removes the file, and has the project's record.
LEMMA BeginKeeps ==
    ASSUME FilesInv, NEW p, NEW rows, IsRows(rows), NEW call,
           call # Absent => call.tool = "index_repository",
           IndexBegins(p, rows, call),
           conn' = Absent \/ conn' = IF indexing'.full THEN Replaced(conn, p, disk) ELSE conn
    PROVE  FilesInv'
<1> DEFINE full == ~Incremental(disk, p, rows)
           i == [project |-> p, rows |-> rows, full |-> full, call |-> call,
                 saved |-> IF full THEN OwnRecord(disk, p) ELSE <<>>]
<1>1. /\ indexing = Absent /\ indexing' = i /\ gone' = gone
      /\ disk' = IF full THEN Without(disk, p) ELSE disk
      /\ adr' = IF full THEN Dropped(RecordsAt(p) \ {<<p, p>>}) ELSE adr
      BY DEF IndexBegins
<1>2. /\ i.rows = rows /\ i.call = call /\ i.project = p
      /\ i.saved = IF full THEN OwnRecord(disk, p) ELSE <<>>
      OBVIOUS
<1>3. i.full = full  BY Zenon
<1>4. i # Absent
  <2>1. "rows" \in DOMAIN i /\ "rows" \notin DOMAIN Absent  BY DEF Absent
  <2>. QED  BY <2>1
<1> HIDE DEF i
<1>5. RunOK(indexing)'  BY <1>1, <1>2 DEF RunOK
<1>6. FilesOK(disk, conn, gone, adr, indexing)  BY DEF FilesInv
<1>7. CASE ~full
  <2>1. disk' = disk /\ adr' = adr /\ (conn' = Absent \/ conn' = conn)
        BY <1>1, <1>3, <1>7
  <2>2. \A f : ~Full(i, f) /\ ~Full(indexing, f)  BY <1>1, <1>3, <1>7 DEF Full
  <2>3. StoredIn(adr, i, disk)  BY <1>6, <2>2 DEF FilesOK, StoredIn, StoredFor
  <2>4. FilesOK(disk, conn', gone, adr, i)  BY <1>6, <2>1, <2>3 DEF FilesOK, ClosedFor
  <2>. QED  BY <1>1, <1>5, <2>1, <2>4 DEF FilesInv
<1>8. CASE full
  <2>1. /\ disk' = Without(disk, p) /\ adr' = Dropped(RecordsAt(p) \ {<<p, p>>})
        /\ conn' = Absent \/ conn' = Replaced(conn, p, disk)
        BY <1>1, <1>3, <1>8
  <2>2. /\ DOMAIN disk' = DOMAIN disk \ {p} /\ \A f \in DOMAIN disk' : disk'[f] = disk[f]
        /\ FilesIn(disk')
        BY <1>6, <2>1, WithoutFiles DEF FilesOK
  <2>3. GoneFrom(gone, disk')  BY <1>6, <2>2 DEF FilesOK, GoneFrom, Whole
  <2>4. (conn' = Absent \/ Opened(conn', disk')) /\ ClosedFor(gone, conn', disk')
    <3>1. CASE conn' = Absent  BY <3>1 DEF ClosedFor
    <3>2. CASE conn' # Absent
      <4>1. conn' = Replaced(conn, p, disk) /\ conn # Absent  BY <2>1, <3>2, ReplacedAbsent
      <4>2. Opened(conn, disk)  BY <1>6, <4>1 DEF FilesOK
      <4>3. /\ Opened(conn', disk') /\ Reads(conn', disk') = Reads(conn, disk)
            /\ conn'.file = conn.file /\ conn'.project = conn.project
            BY <2>2, <4>1, <4>2, StillReads
      <4>. QED  BY <1>6, <4>1, <4>3 DEF FilesOK, ClosedFor
    <3>. QED  BY <3>1, <3>2
  <2>5. StoredIn(adr', i, disk')
    <3> SUFFICES ASSUME NEW k \in DOMAIN adr', adr'[k].kept
                 PROVE  StoredFor(k, adr'[k].content, i, disk')
        BY DEF StoredIn
    <3>1. /\ k \in DOMAIN adr /\ adr[k].kept /\ k \notin RecordsAt(p) \ {<<p, p>>}
          /\ adr'[k].content = adr[k].content
          BY <2>1, DroppedRecords
    <3>2. StoredFor(k, adr[k].content, indexing, disk)  BY <1>6, <3>1 DEF FilesOK, StoredIn
    <3>3. /\ k = <<k[1], k[2]>> /\ Whole(disk, k[1]) /\ k[2] \in DOMAIN disk[k[1]].summaries
          /\ disk[k[1]].summaries[k[2]] = adr[k].content
          BY <1>1, <3>2 DEF StoredFor, Full
    <3>4. CASE k[1] = p
      <4>1. k = <<p, p>>  BY <3>1, <3>4 DEF RecordsAt
      <4>2. i.saved = Restrict(disk[p].summaries, DOMAIN disk[p].summaries \cap {p})
            BY <1>2, <1>8, <3>3, <4>1 DEF OwnRecord
      <4>3. p \in DOMAIN i.saved /\ i.saved[p] = disk[p].summaries[p]
            BY <3>3, <4>1, <4>2 DEF Restrict
      <4>4. Full(i, p)  BY <1>2, <1>3, <1>4, <1>8 DEF Full
      <4>. QED  BY <3>1, <3>3, <4>1, <4>3, <4>4 DEF StoredFor
    <3>5. CASE k[1] # p
      <4>1. ~Full(i, k[1])  BY <1>2, <3>5 DEF Full
      <4>. QED  BY <2>2, <3>1, <3>3, <3>5, <4>1 DEF StoredFor, Whole
    <3>. QED  BY <3>4, <3>5
  <2>6. FilesOK(disk', conn', gone, adr', i)  BY <2>2, <2>3, <2>4, <2>5 DEF FilesOK
  <2>. QED  BY <1>1, <1>5, <2>6 DEF FilesInv
<1>. QED  BY <1>7, <1>8

\* What a run leaves: new rows, an unfinished file, or what there was.
LeftAs(new, outcome) ==
    /\ FilesIn(new) /\ DOMAIN new \ {indexing.project} = DOMAIN disk \ {indexing.project}
    /\ \A f \in DOMAIN disk : f # indexing.project => new[f] = disk[f]
    /\ outcome \in {"failed", "skipped"} => new = disk
    /\ outcome = "torn" => ~Whole(new, indexing.project)
    /\ outcome = "done" => /\ Whole(new, indexing.project)
                           /\ new[indexing.project].summaries = indexing.saved

PutInto(new, d, p, db) ==
    /\ FilesIn(new) /\ DOMAIN new = DOMAIN d \cup {p} /\ new[p] = db
    /\ \A f \in DOMAIN d : f # p => new[f] = d[f]

LEMMA WithFile ==
    ASSUME NEW d, FilesIn(d), NEW p, NEW db, db = Broken \/ IsRows(db)
    PROVE  PutInto(With(d, p, db), d, p, db)
<1>1. /\ DOMAIN With(d, p, db) = DOMAIN d \cup {p} /\ With(d, p, db)[p] = db
      /\ \A f \in DOMAIN d : f # p => With(d, p, db)[f] = d[f]
      BY DEF With
<1>. QED  BY <1>1 DEF FilesIn, PutInto

LEMMA LeftFiles ==
    ASSUME FilesInv, indexing # Absent, NEW outcome \in Outcomes
    PROVE  LeftAs(Left(outcome), outcome)
<1> DEFINE p == indexing.project
           new == Left(outcome)
<1>1. FilesIn(disk) /\ IsRows(indexing.rows)  BY DEF FilesInv, FilesOK, RunOK
<1>2. CASE outcome = "done"
  <2> DEFINE db == [indexing.rows EXCEPT !.summaries = indexing.saved]
  <2>1. new = With(disk, p, db)  BY <1>2 DEF Left
  <2>2. IsRows(db) /\ db.summaries = indexing.saved  BY <1>1, Summarized
  <2> HIDE DEF db, new
  <2>3. db # Broken  BY <2>2, RowsAreWhole
  <2>4. PutInto(new, disk, p, db)  BY <1>1, <2>1, <2>2, WithFile
  <2>5. DOMAIN new \ {p} = DOMAIN disk \ {p}  BY <2>4 DEF PutInto
  <2>6. LeftAs(new, outcome)
        BY <1>2, <2>2, <2>3, <2>4, <2>5 DEF LeftAs, Whole, PutInto
  <2>. QED  BY <2>6 DEF new
<1>3. CASE outcome = "unrestored"
  <2> DEFINE db == [indexing.rows EXCEPT !.summaries = <<>>]
  <2>1. new = With(disk, p, db)  BY <1>3 DEF Left
  <2>2. IsRows(db)  BY <1>1, Summarized
  <2> HIDE DEF db, new
  <2>3. PutInto(new, disk, p, db)  BY <1>1, <2>1, <2>2, WithFile
  <2>4. DOMAIN new \ {p} = DOMAIN disk \ {p}  BY <2>3 DEF PutInto
  <2>5. LeftAs(new, outcome)  BY <1>3, <2>3, <2>4 DEF LeftAs, PutInto
  <2>. QED  BY <2>5 DEF new
<1>4. CASE outcome = "torn"
  <2>1. new = With(disk, p, Broken)  BY <1>4 DEF Left
  <2> HIDE DEF new
  <2>2. PutInto(new, disk, p, Broken)  BY <1>1, <2>1, WithFile
  <2>3. DOMAIN new \ {p} = DOMAIN disk \ {p}  BY <2>2 DEF PutInto
  <2>4. LeftAs(new, outcome)  BY <1>4, <2>2, <2>3 DEF LeftAs, Whole, PutInto
  <2>. QED  BY <2>4 DEF new
<1>5. CASE outcome \in {"failed", "skipped"}
  <2>1. new = disk  BY <1>5 DEF Left
  <2>. QED  BY <1>1, <1>5, <2>1 DEF LeftAs
<1>. QED  BY <1>2, <1>3, <1>4, <1>5 DEF Outcomes

\* Nothing is left but what was saved, and what was there if nothing was written.
LEMMA EndFiles ==
    ASSUME FilesInv, indexing # Absent, NEW outcome \in Outcomes, NEW g,
           g = IF outcome \in {"done", "unrestored"} THEN gone \ {indexing.project} ELSE gone
    PROVE  /\ FilesIn(Left(outcome)) /\ GoneFrom(g, Left(outcome))
           /\ StoredIn(AdrsAfter(outcome), Absent, Left(outcome))
<1> DEFINE p == indexing.project
           new == Left(outcome)
           after == AdrsAfter(outcome)
<1>1. LeftAs(new, outcome)  BY LeftFiles
<1>2. FilesOK(disk, conn, gone, adr, indexing)  BY DEF FilesInv
<1>3. after = IF outcome = (IF indexing.full THEN "done" ELSE "failed")
              THEN adr ELSE Dropped(RecordsAt(p))
      BY DEF AdrsAfter
<1> HIDE DEF new, after
<1>4. GoneFrom(g, new)
  <2> SUFFICES ASSUME NEW q \in g, Whole(new, q) PROVE q \notin DOMAIN new[q].projects
      BY DEF GoneFrom
  <2>1. q \in gone  OBVIOUS
  <2>2. CASE q # p  BY <1>1, <1>2, <2>1, <2>2 DEF LeftAs, FilesOK, GoneFrom, Whole
  <2>3. CASE q = p
    <3>1. outcome \in {"failed", "skipped"}  BY <1>1, <2>3 DEF LeftAs, Outcomes
    <3>. QED  BY <1>1, <1>2, <2>1, <3>1 DEF LeftAs, FilesOK, GoneFrom
  <2>. QED  BY <2>2, <2>3
<1>5. StoredIn(after, Absent, new)
  <2> SUFFICES ASSUME NEW k \in DOMAIN after, after[k].kept
               PROVE  StoredFor(k, after[k].content, Absent, new)
      BY DEF StoredIn
  <2>1. /\ k \in DOMAIN adr /\ adr[k].kept /\ after[k].content = adr[k].content
        /\ k[1] = p => outcome = (IF indexing.full THEN "done" ELSE "failed")
    <3>1. CASE outcome = (IF indexing.full THEN "done" ELSE "failed")  BY <1>3, <3>1
    <3>2. CASE outcome # (IF indexing.full THEN "done" ELSE "failed")
      <4>1. after = Dropped(RecordsAt(p))  BY <1>3, <3>2
      <4>. QED  BY <4>1, DroppedRecords DEF RecordsAt
    <3>. QED  BY <3>1, <3>2
  <2>2. StoredFor(k, adr[k].content, indexing, disk)  BY <1>2, <2>1 DEF FilesOK, StoredIn
  <2>3. ~Full(Absent, k[1])  BY DEF Full
  <2>4. CASE k[1] = p /\ indexing.full
    <3>1. outcome = "done" /\ Full(indexing, k[1])  BY <2>1, <2>4 DEF Full
    <3>. QED  BY <1>1, <2>1, <2>2, <2>3, <2>4, <3>1 DEF StoredFor, LeftAs
  <2>5. CASE k[1] = p /\ ~indexing.full
    <3>1. outcome = "failed" /\ ~Full(indexing, k[1])  BY <2>1, <2>5 DEF Full
    <3>. QED  BY <1>1, <2>1, <2>2, <2>3, <3>1 DEF StoredFor, LeftAs
  <2>6. CASE k[1] # p
    <3>1. ~Full(indexing, k[1])  BY <2>6 DEF Full
    <3>. QED  BY <1>1, <2>1, <2>2, <2>3, <2>6, <3>1 DEF StoredFor, LeftAs, Whole
  <2>. QED  BY <2>4, <2>5, <2>6
<1>6. FilesIn(new)  BY <1>1 DEF LeftAs
<1>. QED  BY <1>4, <1>5, <1>6 DEF new, after

\* A call that has succeeded opens its project's file, if it is there.
LEMMA SucceedsKeeps ==
    ASSUME NEW r, NEW d, Succeeds(r, d), r.tool = "index_repository", FilesIn(d),
           GoneFrom(gone', d), StoredIn(adr', indexing', d), RunOK(indexing')
    PROVE  FilesInv' /\ answer' # Absent /\ answer'.call = r
<1> DEFINE res == ResolveStore(d, Absent, r.project)
<1>1. /\ disk' = res.disk /\ conn' = res.conn
      /\ answer' = Answer(r, Ok(IF res.open THEN "indexed" ELSE "degraded"))
      BY DEF Succeeds
<1>2. FilesOK(d, Absent, gone', adr', indexing')  BY DEF FilesOK, ClosedFor
<1>3. FilesOK(res.disk, res.conn, gone', adr', indexing')  BY <1>2, ResolvedInv
<1>4. FilesInv'  BY <1>1, <1>3 DEF FilesInv
<1>. QED  BY <1>1, <1>4, AnswerParts

LEMMA EndKeeps ==
    ASSUME FilesInv, NEW outcome \in Outcomes, IndexEnds(outcome)
    PROVE  FilesInv' /\ (answer' # Absent => answer'.call.tool = "index_repository")
<1> DEFINE p == indexing.project
           r == indexing.call
           new == Left(outcome)
           ok == outcome # "failed" /\ (outcome = "torn" => ~indexing.full)
<1>1. /\ indexing # Absent /\ indexing' = Absent /\ adr' = AdrsAfter(outcome)
      /\ gone' = IF outcome \in {"done", "unrestored"} THEN gone \ {p} ELSE gone
      /\ IF r # Absent /\ ok
         THEN Succeeds(r, new)
         ELSE /\ disk' = new
              /\ conn' = IF outcome \in {"failed", "skipped"} THEN conn ELSE Replaced(conn, p, disk)
              /\ answer' = IF r = Absent THEN Absent ELSE Answer(r, Error("error"))
      BY DEF IndexEnds
<1>2. FilesIn(new) /\ GoneFrom(gone', new) /\ StoredIn(adr', Absent, new)
      BY <1>1, EndFiles
<1>3. LeftAs(new, outcome)  BY <1>1, LeftFiles
<1>4. RunOK(Absent)  BY DEF RunOK
<1>5. r # Absent => r.tool = "index_repository"  BY <1>1 DEF FilesInv, RunOK
<1>6. FilesOK(disk, conn, gone, adr, indexing)  BY DEF FilesInv
<1> HIDE DEF new
<1>7. CASE r # Absent /\ ok
  <2>1. Succeeds(r, new)  BY <1>1, <1>7
  <2>2. FilesInv' /\ answer'.call = r  BY <1>1, <1>2, <1>4, <1>5, <1>7, <2>1, SucceedsKeeps
  <2>. QED  BY <1>5, <1>7, <2>2
<1>8. CASE ~(r # Absent /\ ok)
  <2>1. /\ disk' = new /\ (conn' = Replaced(conn, p, disk) \/ (conn' = conn /\ new = disk))
        /\ answer' = IF r = Absent THEN Absent ELSE Answer(r, Error("error"))
        BY <1>1, <1>3, <1>8 DEF LeftAs
  <2>2. (conn' = Absent \/ Opened(conn', new)) /\ ClosedFor(gone', conn', new)
    <3>1. CASE conn' = Absent  BY <3>1 DEF ClosedFor
    <3>2. CASE conn' # Absent
      <4>1. conn # Absent  BY <2>1, <3>2, ReplacedAbsent
      <4>2. Opened(conn, disk)  BY <1>6, <4>1 DEF FilesOK
      <4>3. /\ Opened(conn', new) /\ Reads(conn', new) = Reads(conn, disk)
            /\ conn'.file = conn.file /\ conn'.project = conn.project
        <5>1. CASE conn' = Replaced(conn, p, disk)
          <6>1. /\ DOMAIN disk \ {p} = DOMAIN new \ {p}
                /\ \A f \in DOMAIN disk : f # p => new[f] = disk[f]
                BY <1>3 DEF LeftAs
          <6> HIDE DEF p
          <6>. QED  BY <4>1, <4>2, <5>1, <6>1, StillReads
        <5>2. CASE conn' = conn /\ new = disk  BY <4>2, <5>2
        <5>. QED  BY <2>1, <5>1, <5>2
      <4>4. gone' \subseteq gone  BY <1>1
      <4>. QED  BY <1>6, <4>1, <4>3, <4>4 DEF FilesOK, ClosedFor
    <3>. QED  BY <3>1, <3>2
  <2>3. FilesOK(new, conn', gone', adr', Absent)  BY <1>2, <2>2 DEF FilesOK
  <2>4. FilesInv'  BY <1>1, <1>4, <2>1, <2>3 DEF FilesInv
  <2>5. answer' # Absent => answer'.call = r /\ r # Absent  BY <2>1, AnswerParts
  <2>. QED  BY <1>5, <2>4, <2>5
<1>. QED  BY <1>7, <1>8

-----------------------------------------------------------------------------
(* Every step.                                                              *)

\* With a project's file its records go; what is open for the project is closed
\* by the one who acknowledges the deletion.
LEMMA DeletingKeeps ==
    ASSUME FilesInv, NEW p, disk' = Without(disk, p), adr' = AdrsElsewhere(p), indexing' = indexing,
           \/ conn' = Closed(conn, p, disk) /\ gone' \subseteq gone \cup {p}
           \/ conn' = Replaced(conn, p, disk) /\ gone' = gone
    PROVE  FilesInv'
<1>0. FilesOK(disk, conn, gone, adr, indexing)  BY DEF FilesInv
<1>1. /\ DOMAIN disk' = DOMAIN disk \ {p} /\ \A f \in DOMAIN disk' : disk'[f] = disk[f]
      /\ FilesIn(disk')
      BY <1>0, WithoutFiles DEF FilesOK
<1>2. GoneFrom(gone', disk')  BY <1>0, <1>1 DEF FilesOK, GoneFrom, Whole
<1>3. (conn' = Absent \/ Opened(conn', disk')) /\ ClosedFor(gone', conn', disk')
  <2>1. CASE conn' = Absent  BY <2>1 DEF ClosedFor
  <2>2. CASE conn' # Absent
    <3>1. /\ conn' = Replaced(conn, p, disk) /\ conn # Absent
          /\ conn.project \in gone' => conn.project \in gone
          BY <2>2, ReplacedAbsent DEF Closed
    <3>2. Opened(conn, disk)  BY <1>0, <3>1 DEF FilesOK
    <3>3. /\ Opened(conn', disk') /\ Reads(conn', disk') = Reads(conn, disk)
          /\ conn'.file = conn.file /\ conn'.project = conn.project
          BY <1>1, <3>1, <3>2, StillReads
    <3>. QED  BY <1>0, <3>1, <3>3 DEF FilesOK, ClosedFor
  <2>. QED  BY <2>1, <2>2
<1>4. StoredIn(adr', indexing, disk')
  <2> SUFFICES ASSUME NEW k \in DOMAIN adr', adr'[k].kept
               PROVE  StoredFor(k, adr'[k].content, indexing, disk')
      BY DEF StoredIn
  <2>1. k \in DOMAIN adr /\ adr'[k] = adr[k] /\ k[1] # p  BY DEF AdrsElsewhere, RecordsAt, Restrict
  <2>2. StoredFor(k, adr[k].content, indexing, disk)  BY <1>0, <2>1 DEF FilesOK, StoredIn
  <2>. QED  BY <1>1, <2>1, <2>2 DEF StoredFor, Whole
<1>5. FilesOK(disk', conn', gone', adr', indexing)  BY <1>1, <1>2, <1>3, <1>4 DEF FilesOK
<1>. QED  BY <1>5 DEF FilesInv

\* The calls a client may make: those of the instance, and the page after one.
CallOK(r) ==
    /\ "tool" \in DOMAIN r
    /\ r.tool = "index_repository" => r.project \in DOMAIN Versions

LEMMA CallIsThere == \A r : "tool" \in DOMAIN r => r # Absent  BY DEF Absent

LEMMA IndexRepositoryKeeps ==
    ASSUME FilesInv, NEW r, CallOK(r), IndexRepository(r)
    PROVE  FilesInv' /\ (answer' # Absent => answer'.call = r)
<1>1. PICK rows \in Versions[r.project] :
         \/ IndexBegins(r.project, rows, r) /\ conn' = Absent
         \/ /\ indexing = Absent /\ Unchanged(disk, r.project, rows)
            /\ Succeeds(r, disk)
            /\ gone' = gone \ {r.project} /\ UNCHANGED <<adr, indexing>>
      BY DEF IndexRepository
<1>2. r.tool = "index_repository" /\ answer = Absent  BY DEF IndexRepository, Free
<1>3. IsRows(rows)  BY <1>2, VersionsAssumption DEF CallOK
<1>4. CASE IndexBegins(r.project, rows, r) /\ conn' = Absent
  <2>1. FilesInv'  BY <1>2, <1>3, <1>4, BeginKeeps
  <2>2. answer' = Absent  BY <1>2, <1>4 DEF IndexBegins
  <2>. QED  BY <2>1, <2>2
<1>5. CASE /\ indexing = Absent /\ Succeeds(r, disk)
           /\ gone' = gone \ {r.project} /\ UNCHANGED <<adr, indexing>>
  <2>1. FilesOK(disk, conn, gone, adr, indexing)  BY DEF FilesInv
  <2>2. FilesIn(disk) /\ GoneFrom(gone', disk) /\ StoredIn(adr', indexing', disk)
        BY <1>5, <2>1 DEF FilesOK, GoneFrom
  <2>3. RunOK(indexing')  BY <1>5 DEF RunOK
  <2>. QED  BY <1>2, <1>5, <2>2, <2>3, SucceedsKeeps
<1>. QED  BY <1>1, <1>4, <1>5

\* Nothing is asked of an answer that is none, or to a call of other tools.
LEMMA OtherTool ==
    ASSUME FilesInv',
           answer' # Absent => answer'.call.tool \notin Verified \cup Unverified \cup {"manage_adr"}
    PROVE  ConnInv'
  BY DEF ConnInv, AnsweredFromConn, AdrIsKept, Answered

LEMMA ConnStep == ASSUME ConnInv, [Next]_vars PROVE ConnInv'
<1>0. FilesInv /\ FilesOK(disk, conn, gone, adr, indexing) /\ RunOK(indexing)
      BY DEF ConnInv, FilesInv
<1>1. ASSUME NEW r, Query(r) PROVE ConnInv'  BY <1>0, <1>1, QueryKeeps
<1>2. ASSUME NEW r, ManageAdr(r) PROVE ConnInv'  BY <1>0, <1>2, ManageAdrKeeps
<1>3. ASSUME NEW r, NeedsNoProject(r) PROVE ConnInv'
  <2>1. UNCHANGED <<disk, conn, adr, gone, indexing>>  BY <1>3 DEF NeedsNoProject
  <2>2. FilesInv'  BY <1>0, <2>1 DEF FilesInv
  <2>3. answer' # Absent /\ answer'.call.tool \in {"list_projects", "ingest_traces"}
        BY <1>3, AnswerParts DEF NeedsNoProject
  <2>. QED  BY <2>2, <2>3, OtherTool DEF Verified, Unverified
<1>4. ASSUME NEW r, CallOK(r), IndexRepository(r) PROVE ConnInv'
  <2>1. FilesInv' /\ (answer' # Absent => answer'.call = r)  BY <1>0, <1>4, IndexRepositoryKeeps
  <2>2. r.tool = "index_repository"  BY <1>4 DEF IndexRepository
  <2>. QED  BY <2>1, <2>2, OtherTool DEF Verified, Unverified
<1>5. ASSUME NEW r, DeleteProjectCall(r) PROVE ConnInv'
  <2>1. /\ conn' = Closed(conn, r.project, disk) /\ disk' = Without(disk, r.project)
        /\ adr' = AdrsElsewhere(r.project) /\ gone' \subseteq gone \cup {r.project}
        /\ indexing' = indexing
        BY <1>5 DEF DeleteProjectCall
  <2>2. FilesInv'  BY <1>0, <2>1, DeletingKeeps
  <2>3. answer'.call.tool = "delete_project"  BY <1>5, AnswerParts DEF DeleteProjectCall
  <2>. QED  BY <2>2, <2>3, OtherTool DEF Verified, Unverified
<1>6. CASE Receive
  <2>1. UNCHANGED <<disk, conn, adr, gone, indexing>> /\ answer' = Absent  BY <1>6 DEF Receive
  <2>2. FilesInv'  BY <1>0, <2>1 DEF FilesInv
  <2>. QED  BY <2>1, <2>2, OtherTool
<1>7. CASE EvictIdle
  <2>1. UNCHANGED <<disk, answer, adr, gone, indexing>> /\ conn' = Absent /\ answer = Absent
        BY <1>7 DEF EvictIdle, Free
  <2>2. FilesOK(disk, Absent, gone, adr, indexing)  BY <1>0 DEF FilesOK, ClosedFor
  <2>3. FilesInv'  BY <1>0, <2>1, <2>2 DEF FilesInv
  <2>. QED  BY <2>1, <2>3, OtherTool
<1>8. ASSUME NEW p, DeletedElsewhere(p) PROVE ConnInv'
  <2>1. FilesInv'  BY <1>0, <1>8, DeletingKeeps DEF DeletedElsewhere
  <2>2. answer' = Absent  BY <1>8 DEF DeletedElsewhere
  <2>. QED  BY <2>1, <2>2, OtherTool
<1>9. ASSUME NEW p \in DOMAIN Versions, NEW rows \in Versions[p], Reindex(p, rows) PROVE ConnInv'
  <2>1. IsRows(rows)  BY VersionsAssumption
  <2>2. FilesInv'  BY <1>0, <1>9, <2>1, BeginKeeps DEF Reindex
  <2>3. answer' = Absent  BY <1>9 DEF Reindex, IndexBegins
  <2>. QED  BY <2>2, <2>3, OtherTool
<1>10. ASSUME NEW outcome \in Outcomes, IndexEnds(outcome) PROVE ConnInv'
  <2>1. FilesInv' /\ (answer' # Absent => answer'.call.tool = "index_repository")
        BY <1>0, <1>10, EndKeeps
  <2>. QED  BY <2>1, OtherTool DEF Verified, Unverified
<1>11. CASE UNCHANGED vars
  <2>1. UNCHANGED <<disk, conn, answer, adr, gone, indexing>>  BY <1>11 DEF vars
  <2>2. FilesInv'  BY <1>0, <2>1 DEF FilesInv
  <2>. QED  BY <2>1, <2>2 DEF ConnInv, AnsweredFromConn, AdrIsKept, Answered, FullAt
<1>12. ASSUME NEW r \in Callable, Call(r) PROVE ConnInv'
  <2>1. CallOK(r)  BY CallsAssumption DEF CallOK, Callable
  <2>. QED  BY <1>1, <1>2, <1>3, <1>4, <1>5, <1>12, <2>1 DEF Call
<1>. QED  BY <1>1, <1>6, <1>7, <1>8, <1>9, <1>10, <1>11, <1>12 DEF Next, NextPage

THEOREM ConnInvariance == Spec => []ConnInv
<1>1. Init => ConnInv
  <2> SUFFICES ASSUME Init PROVE ConnInv  OBVIOUS
  <2>1. FilesIn(disk)  BY StartDisksAssumption DEF Init, FilesIn
  <2>2. GoneFrom(gone, disk) /\ ClosedFor(gone, conn, disk) /\ StoredIn(adr, indexing, disk)
        BY DEF Init, GoneFrom, ClosedFor, StoredIn
  <2>. QED  BY <2>1, <2>2 DEF Init, ConnInv, FilesInv, FilesOK, RunOK, AnsweredFromConn, AdrIsKept, Answered
<1>. QED  BY <1>1, ConnStep, PTL DEF Spec

\* After an acknowledged deletion a project is not answered about before it is
\* indexed again, except from another file that has it and nothing else.
THEOREM DeletionHolds == Spec => []DeletedStaysDeleted
<1>1. ConnInv => DeletedStaysDeleted
      BY DEF ConnInv, FilesInv, FilesOK, AnsweredFromConn, ClosedFor, DeletedStaysDeleted
<1>. QED  BY <1>1, ConnInvariance, PTL

\* An acknowledged record that no run of the indexer dropped is what is read next
\* from the file it went to: a full run that ends well has carried it over, and no
\* other call and no deletion of another file touches it.
THEOREM RecordsHold == Spec => []AdrIsKept
<1>1. ConnInv => AdrIsKept  BY DEF ConnInv
<1>. QED  BY <1>1, ConnInvariance, PTL

-----------------------------------------------------------------------------
(* Pages.                                                                   *)

\* The ids of n rows after so many.
Slice(all, from, n) == [i \in 1 .. n |-> all[from + i].id]

\* The rows a search finds, in their order.
AllRows(db, r) == ByName(Found(db, [r.search EXCEPT !.project = r.project]))

PageCall(r) ==
    /\ IsPage(r) /\ "tool" \in DOMAIN r /\ DOMAIN r.search = DOMAIN AnySearch
    /\ r.search.limit \in Int /\ r.search.offset \in Nat

\* The pages that were read are the first rows of one state of the project.
PagesFollow ==
    page # Absent =>
        /\ PageCall(page.call) /\ IsFiniteSet(page.on.nodes)
        /\ LET all == AllRows(page.on, page.call)
           IN \E n \in 0 .. Len(all) : page.rows = Slice(all, 0, n) /\ page.more = (Len(all) > n)

\* A page that was answered has the rows from its offset on, of what is read now,
\* and continues the pages before it.
IsAnswer(body, all, from) ==
    \E n \in 0 .. Len(all) : /\ n = 0 \/ from + n <= Len(all)
                             /\ Ids(body.rows) = Slice(all, from, n)
                             /\ body.more = (Len(all) > from + n)

Continues(r) ==
    r.search.offset # 0 => /\ page # Absent /\ r.search.offset = Len(page.rows)
                           /\ r = [page.call EXCEPT !.search.offset = r.search.offset]

AnswerFollows ==
    answer # Absent /\ IsPage(answer.call) =>
        /\ PageCall(answer.call) /\ Continues(answer.call)
        /\ answer.ok => IsAnswer(answer.body, AllRows(Reads(conn, disk), answer.call),
                                 answer.call.search.offset)

PageInv == PagesFollow /\ AnswerFollows

\* The call that waits for the indexer does not search.
LEMMA WaitingCall == ASSUME ConnInv, indexing # Absent, indexing.call # Absent PROVE ~IsPage(indexing.call)
  BY DEF ConnInv, FilesInv, RunOK, IsPage

\* What a search finds comes in an order that has a length.
LEMMA RowsInOrder ==
    ASSUME NEW S, IsFiniteSet(S)
    PROVE  Len(ByName(S)) \in Nat /\ DOMAIN ByName(S) = 1 .. Len(ByName(S))
<1>1. Cardinality(S) \in Nat  BY FS_CardinalityType
<1>2. DOMAIN ByName(S) = 1 .. Cardinality(S)  BY DEF ByName, Sorted
<1> DEFINE less(m, n) == Before(m.name, n.name) \/ (m.name = n.name /\ m.id < n.id)
           nth(k) == CHOOSE x \in S : Cardinality({y \in S : less(y, x)}) = k - 1
<1>3. ByName(S) = [k \in 1 .. Cardinality(S) |-> nth(k)]  BY DEF ByName, Sorted
<1> HIDE DEF nth
<1>4. ByName(S) \in Seq(Range(ByName(S)))  BY <1>1, <1>3 DEF Range
<1>. QED  BY <1>1, <1>2, <1>4, LenProperties

LEMMA FoundIsFinite == ASSUME NEW db, NEW q, IsFiniteSet(db.nodes) PROVE IsFiniteSet(Found(db, q))
  BY FS_Subset DEF Found

\* The records play no part in a search, nor do limit and offset.
LEMMA SameFound ==
    ASSUME NEW d, NEW e, d.nodes = e.nodes, d.edges = e.edges, NEW q, NEW s,
           q.project = s.project, q.label = s.label, q.pattern = s.pattern, q.exact = s.exact,
           q.glob = s.glob, q.relationship = s.relationship, q.noEntry = s.noEntry,
           q.without = s.without, q.min = s.min, q.max = s.max
    PROVE  Found(d, q) = Found(e, s)
<1>1. \A n : WhereBasic(q, n) = WhereBasic(s, n)  BY DEF WhereBasic
<1>2. \A i, t : InDegree(d, i, t) = InDegree(e, i, t) /\ OutDegree(d, i, t) = OutDegree(e, i, t)
      BY DEF InDegree, OutDegree, EdgesByTarget, EdgesBySource
<1>3. \A n : WhereAdvanced(d, q, n) = WhereAdvanced(e, s, n)  BY <1>2 DEF WhereAdvanced
<1>4. \A n : DegreeIn(d, n) = DegreeIn(e, n) /\ DegreeOut(d, n) = DegreeOut(e, n)
      BY DEF DegreeIn, DegreeOut, EdgesByTarget, EdgesBySource
<1>5. \A n : WhereDegree(d, q, n) = WhereDegree(e, s, n)  BY <1>4 DEF WhereDegree
<1>. QED  BY <1>1, <1>3, <1>5 DEF Found

LEMMA SameRows ==
    ASSUME NEW d, NEW e, d.nodes = e.nodes, d.edges = e.edges,
           NEW r, PageCall(r), NEW n
    PROVE  /\ AllRows(d, r) = AllRows(e, r)
           /\ AllRows(d, [r EXCEPT !.search.offset = n]) = AllRows(d, r)
<1> DEFINE t == [r EXCEPT !.search.offset = n]
           q == [r.search EXCEPT !.project = r.project]
           s == [t.search EXCEPT !.project = t.project]
<1>1. Found(d, q) = Found(e, q)  BY SameFound
<1>2. DOMAIN r.search = {"project", "label", "pattern", "exact", "glob", "relationship", "noEntry",
                         "without", "min", "max", "limit", "offset"}
      BY DEF PageCall, AnySearch
<1>3. "search" \in DOMAIN r  BY DEF PageCall, IsPage
<1>4. t.search = [r.search EXCEPT !.offset = n] /\ t.project = r.project  BY <1>3
<1> HIDE DEF t
<1>5. /\ q.project = s.project /\ q.label = s.label /\ q.pattern = s.pattern /\ q.exact = s.exact
      /\ q.glob = s.glob /\ q.relationship = s.relationship /\ q.noEntry = s.noEntry
      /\ q.without = s.without /\ q.min = s.min /\ q.max = s.max
      BY <1>2, <1>4
<1> HIDE DEF q, s
<1>6. Found(d, q) = Found(d, s)  BY <1>5, SameFound
<1>. QED  BY <1>1, <1>6 DEF AllRows, q, s, t

\* A page of a sequence is a slice of it.
LEMMA TakenSlice ==
    ASSUME NEW all, Len(all) \in Nat, NEW from \in Nat, NEW m \in Nat \ {0}
    PROVE  LET rows == Take(SubSeq(all, from + 1, Len(all)), m)
           IN \E n \in 0 .. Len(all) : /\ n = 0 \/ from + n <= Len(all)
                                       /\ Len(rows) = n /\ Ids(rows) = Slice(all, from, n)
<1> DEFINE L == Len(all)
           S == {all[i] : i \in 1 .. L}
           rest == SubSeq(all, from + 1, L)
           k == IF m < Len(rest) THEN m ELSE Len(rest)
           rows == SubSeq(rest, 1, k)
<1>1. \A i \in from + 1 .. L : all[i] \in S  OBVIOUS
<1>2. /\ rest \in Seq(S) /\ Len(rest) = IF from + 1 <= L THEN L - from ELSE 0
      /\ \A i \in 1 .. L - from : rest[i] = all[from + i]
  <2>1. /\ rest \in Seq(S) /\ Len(rest) = IF from + 1 <= L THEN L - (from + 1) + 1 ELSE 0
        /\ \A i \in 1 .. L - (from + 1) + 1 : rest[i] = all[(from + 1) + i - 1]
        BY <1>1, SubSeqProperties
  <2> HIDE DEF rest
  <2>. QED  BY <2>1
<1> HIDE DEF rest, S
<1>3. k \in 0 .. L /\ (k = 0 \/ from + k <= L) /\ \A i \in 1 .. k : i \in 1 .. L - from
      BY <1>2
<1>4. DOMAIN rest = 1 .. Len(rest) /\ \A i \in 1 .. k : rest[i] \in S
      BY <1>2, LenProperties
<1> HIDE DEF k
<1>5. rows \in Seq(S) /\ Len(rows) = k /\ \A i \in 1 .. k : rows[i] = rest[i]
      BY <1>3, <1>4, SubSeqProperties
<1>6. Take(rest, m) = rows  BY DEF Take, k
<1> HIDE DEF rows
<1>7. DOMAIN rows = 1 .. k  BY <1>5, LenProperties
<1>8. \A i \in 1 .. k : rows[i].id = all[from + i].id  BY <1>2, <1>3, <1>5
<1>9. Ids(rows) = Slice(all, from, k)  BY <1>7, <1>8 DEF Ids, Slice
<1>. QED  BY <1>3, <1>5, <1>6, <1>9 DEF rest

\* What search_graph answers for a page.
LEMMA PageAnswered ==
    ASSUME NEW db, IsFiniteSet(db.nodes), NEW r, PageCall(r), SearchGraph(db, r.project, r).ok
    PROVE  IsAnswer(SearchGraph(db, r.project, r).body, AllRows(db, r), r.search.offset)
<1> DEFINE q    == [r.search EXCEPT !.project = r.project]
           all  == AllRows(db, r)
           m    == IF q.limit > 0 THEN q.limit ELSE DefaultLimit
           rows == Take(SubSeq(all, q.offset + 1, Len(all)), m)
           body == SearchGraph(db, r.project, r).body
<1>1. /\ "search" \in DOMAIN r /\ "query" \notin DOMAIN r
      /\ q.limit = r.search.limit /\ q.offset = r.search.offset
      BY DEF PageCall, IsPage, AnySearch
<1>2. Len(all) \in Nat  BY RowsInOrder, FoundIsFinite DEF AllRows
<1>3. Search(db, q) = [total |-> Len(all), rows |-> rows]  BY DEF Search, AllRows
<1>4. body.rows = rows /\ body.more = (Len(all) > q.offset + Len(rows))
  <2>1. Arg(r, "search", AnySearch) = r.search /\ Arg(r, "query", <<>>) = <<>>  BY <1>1 DEF Arg
  <2>2. /\ EmitResults(Search(db, q), q.offset).rows = rows
        /\ EmitResults(Search(db, q), q.offset).more = (Len(all) > q.offset + Len(rows))
        BY <1>3 DEF EmitResults
  <2> HIDE DEF rows, all
  <2>. QED  BY <2>1, <2>2 DEF SearchGraph, Ok, Error
<1>5. m \in Nat \ {0} /\ q.offset \in Nat  BY <1>1, LimitAssumption DEF PageCall
<1> HIDE DEF all, m, q, body
<1>6. \E n \in 0 .. Len(all) : /\ n = 0 \/ q.offset + n <= Len(all)
                               /\ Len(rows) = n /\ Ids(rows) = Slice(all, q.offset, n)
      BY <1>2, <1>5, TakenSlice
<1> HIDE DEF rows
<1>. QED  BY <1>1, <1>4, <1>6 DEF IsAnswer, all, body

LEMMA NextSlice ==
    ASSUME NEW all, NEW n \in Nat, NEW m \in Nat
    PROVE  /\ Slice(all, 0, n) \o Slice(all, n, m) = Slice(all, 0, n + m)
           /\ <<>> \o Slice(all, 0, n) = Slice(all, 0, n) /\ Len(Slice(all, 0, n)) = n
<1> DEFINE S == {all[i].id : i \in 1 .. n + m}
           a == Slice(all, 0, n)
           b == Slice(all, n, m)
           c == Slice(all, 0, n + m)
<1>1. /\ \A i \in 1 .. n : all[0 + i].id \in S
      /\ \A i \in 1 .. m : all[n + i].id \in S
      /\ \A i \in 1 .. n + m : all[0 + i].id \in S
      OBVIOUS
<1> HIDE DEF S
<1>2. a \in Seq(S) /\ Len(a) = n /\ \A i \in 1 .. n : a[i] = all[i].id
      BY <1>1 DEF Slice
<1>3. b \in Seq(S) /\ Len(b) = m /\ \A i \in 1 .. m : b[i] = all[n + i].id
      BY <1>1 DEF Slice
<1>4. c \in Seq(S) /\ Len(c) = n + m /\ \A i \in 1 .. n + m : c[i] = all[i].id
      BY <1>1 DEF Slice
<1> HIDE DEF a, b, c
<1>5. /\ a \o b \in Seq(S) /\ Len(a \o b) = n + m
      /\ \A i \in 1 .. n + m : (a \o b)[i] = IF i <= n THEN a[i] ELSE b[i - n]
      BY <1>2, <1>3, ConcatProperties
<1>6. ASSUME NEW i \in 1 .. n + m PROVE (a \o b)[i] = c[i]
  <2>1. CASE i <= n
    <3>1. i \in 1 .. n  BY <2>1
    <3>. QED  BY <1>2, <1>4, <1>5, <2>1, <3>1
  <2>2. CASE ~(i <= n)
    <3>1. i - n \in 1 .. m /\ n + (i - n) = i  BY <2>2
    <3>2. b[i - n] = all[n + (i - n)].id  BY <1>3, <3>1
    <3>. QED  BY <1>4, <1>5, <2>2, <3>1, <3>2
  <2>. QED  BY <2>1, <2>2
<1>7. a \o b = c  BY <1>4, <1>5, <1>6, SeqEqual
<1>8. <<>> \o a = a  BY <1>2, ConcatEmptySeq
<1>. QED  BY <1>2, <1>7, <1>8 DEF a, b, c

\* A call that does not search leaves the pages.
LEMMA OtherAnswer ==
    ASSUME PagesFollow, page' = Forgotten, NEW r, NEW a, answer' = Answer(r, a), ~IsPage(r)
    PROVE  PageInv'
<1>1. PagesFollow'  BY DEF PagesFollow, Forgotten
<1>2. AnswerFollows'  BY AnswerParts DEF AnswerFollows
<1>. QED  BY <1>1, <1>2 DEF PageInv

LEMMA PageQuery ==
    ASSUME ConnInv, PagesFollow, NEW r, Query(r), IsPage(r) => PageCall(r) /\ Continues(r),
           (page # Absent /\ page.more) \/ (IsPage(r) => r.search.offset = 0)
    PROVE  PageInv'
<1>1. PagesFollow'  BY DEF PagesFollow, Query, Forgotten
<1>2. CASE ~IsPage(r)
  <2>1. page' = Forgotten /\ \E a : answer' = Answer(r, a)  BY DEF Query
  <2>. QED  BY <1>2, <2>1, OtherAnswer
<1>3. CASE IsPage(r)
  <2> DEFINE p   == IF r.tool = "get_code_snippet" /\ ~Complete(r) THEN None ELSE Arg(r, "project", None)
             res == ResolveStore(disk, conn, p)
             db  == Reads(res.conn, res.disk)
             a   == IF ~Complete(r) THEN Error("argument")
                    ELSE IF ~res.open \/ (r.tool \in Verified /\ ~VerifyIndexed(db, p))
                    THEN NoStoreError(res.disk, p)
                    ELSE Reading(db, p, r)
  <2>1. disk' = res.disk /\ conn' = res.conn /\ answer' = Answer(r, a) /\ page' = Forgotten
        BY DEF Query
  <2>2. PageCall(r) /\ Continues(r) /\ r.tool = "search_graph"  BY <1>3 DEF IsPage
  <2>3. r.search.offset # 0 => page' = page
        BY <1>3, <2>1 DEF Forgotten
  <2>4. Continues(r)'  BY <2>2, <2>3 DEF Continues
  <2>5. ASSUME a.ok
        PROVE  IsAnswer(a.body, AllRows(db, r), r.search.offset)
    <3>1. Complete(r) /\ res.open  BY <2>5 DEF Error, NoStoreError
    <3>2. ResolvedTo(res, disk, conn, p)  BY Resolved DEF ConnInv, FilesInv, FilesOK
    <3>3. p # None /\ res.conn # Absent /\ Opened(res.conn, res.disk)
          BY <3>1, <3>2 DEF ResolvedTo
    <3>4. p = r.project  BY <3>1, <3>3 DEF Arg
    <3>5. IsFiniteSet(db.nodes)  BY <3>3 DEF Opened, IsRows
    <3>6. a = SearchGraph(db, p, r)
      <4>1. a = Reading(db, p, r)  BY <2>5, <3>1 DEF Error, NoStoreError
      <4>. QED  BY <2>2, <4>1 DEF Reading
    <3> HIDE DEF a, db, p, res
    <3>. QED  BY <2>2, <2>5, <3>4, <3>5, <3>6, PageAnswered
  <2>6. /\ answer'.call = r /\ answer'.ok = a.ok /\ answer'.body = a.body
        /\ Reads(conn', disk') = db
        BY <2>1, AnswerParts
  <2> HIDE DEF a, db, p, res
  <2>7. AnswerFollows'  BY <2>2, <2>4, <2>5, <2>6 DEF AnswerFollows
  <2>. QED  BY <1>1, <2>7 DEF PageInv
<1>. QED  BY <1>2, <1>3

\* A client's own call searches from the first row.
LEMMA OwnCall ==
    ASSUME NEW r \in Calls \cup Interludes, IsPage(r)
    PROVE  PageCall(r) /\ Continues(r) /\ r.search.offset = 0
  BY CallsAssumption DEF PageCall, Continues

\* The next page of a search is searched for with the call of the page before.
LEMMA NextCall ==
    ASSUME PagesFollow, page # Absent
    PROVE  LET r == [page.call EXCEPT !.search.offset = Len(page.rows)]
           IN PageCall(r) /\ Continues(r)
<1> DEFINE c == page.call
           r == [c EXCEPT !.search.offset = Len(page.rows)]
<1>1. PageCall(c) /\ Len(page.rows) \in Nat
  <2>1. PageCall(c) /\ IsFiniteSet(page.on.nodes)  BY DEF PagesFollow
  <2>2. PICK n \in 0 .. Len(AllRows(page.on, c)) : page.rows = Slice(AllRows(page.on, c), 0, n)
        BY DEF PagesFollow
  <2>3. Len(AllRows(page.on, c)) \in Nat  BY <2>1, RowsInOrder, FoundIsFinite DEF AllRows
  <2>. QED  BY <2>1, <2>2, <2>3, NextSlice
<1>2. /\ "search" \in DOMAIN c /\ "tool" \in DOMAIN c /\ "offset" \in DOMAIN c.search
      /\ "limit" \in DOMAIN c.search /\ "query" \notin DOMAIN c
      BY <1>1 DEF PageCall, IsPage, AnySearch
<1>3. /\ DOMAIN r = DOMAIN c /\ r.tool = c.tool /\ DOMAIN r.search = DOMAIN c.search
      /\ r.search.limit = c.search.limit /\ r.search.offset = Len(page.rows)
      BY <1>2
<1>4. r = [page.call EXCEPT !.search.offset = r.search.offset]  BY <1>3
<1> HIDE DEF r
<1>5. PageCall(r)  BY <1>1, <1>2, <1>3 DEF PageCall, IsPage
<1>6. Continues(r)  BY <1>3, <1>4 DEF Continues
<1>. QED  BY <1>5, <1>6 DEF r

LEMMA ReceiveFollows == ASSUME ConnInv, PageInv, Receive PROVE PageInv'
<1> DEFINE r     == answer.call
           db    == Reads(conn, disk)
           now   == [db EXCEPT !.summaries = <<>>]
           first == r.search.offset = 0
           read  == IF first THEN <<>> ELSE page.rows
           got   == Ids(answer.body.rows)
           next  == [call |-> r, more |-> answer.body.more, on |-> now, rows |-> read \o got]
<1>1. answer # Absent /\ answer' = Absent
      /\ page' = IF ~IsPage(r) \/ ~answer.ok THEN page
                 ELSE IF first \/ page.on = now THEN next ELSE Absent
      BY DEF Receive
<1>2. AnswerFollows'  BY <1>1 DEF AnswerFollows
<1>3. CASE ~IsPage(r) \/ ~answer.ok
  <2>1. page' = page  BY <1>1, <1>3
  <2>. QED  BY <1>2, <2>1 DEF PageInv, PagesFollow
<1>4. CASE ~(~IsPage(r) \/ ~answer.ok) /\ ~(first \/ page.on = now)
  <2>1. page' = Absent  BY <1>1, <1>4
  <2>. QED  BY <1>2, <2>1 DEF PageInv, PagesFollow
<1>5. CASE ~(~IsPage(r) \/ ~answer.ok) /\ (first \/ page.on = now)
  <2>1. page' = next  BY <1>1, <1>5
  <2>2. /\ PageCall(r) /\ Continues(r)
        /\ IsAnswer(answer.body, AllRows(db, r), r.search.offset)
        BY <1>1, <1>5 DEF PageInv, AnswerFollows
  <2>3. conn # Absent /\ IsRows(db)
    <3>1. r.tool \in Verified  BY <1>5 DEF IsPage, Verified
    <3>2. conn # Absent  BY <1>1, <1>5, <3>1 DEF ConnInv, AnsweredFromConn
    <3>. QED  BY <3>2 DEF ConnInv, FilesInv, FilesOK, Opened
  <2>4. now.nodes = db.nodes /\ now.edges = db.edges /\ IsRows(now)
        BY <2>3, Summarized
  <2> HIDE DEF db, now
  <2> DEFINE all == AllRows(now, r)
  <2>5. all = AllRows(db, r)  BY <2>2, <2>4, SameRows
  <2>6. Len(all) \in Nat  BY <2>4, RowsInOrder, FoundIsFinite DEF AllRows, IsRows
  <2>7. PICK m \in 0 .. Len(all) : /\ m = 0 \/ r.search.offset + m <= Len(all)
                                   /\ got = Slice(all, r.search.offset, m)
                                   /\ answer.body.more = (Len(all) > r.search.offset + m)
        BY <2>2, <2>5 DEF IsAnswer
  <2>8. \E n \in 0 .. Len(all) : n = r.search.offset /\ read = (IF n = 0 THEN <<>> ELSE Slice(all, 0, n))
    <3>1. CASE first  BY <2>6, <3>1
    <3>2. CASE ~first
      <4>1. /\ page # Absent /\ r.search.offset = Len(page.rows) /\ page.on = now /\ read = page.rows
            /\ r = [page.call EXCEPT !.search.offset = r.search.offset]
            BY <1>5, <2>2, <3>2 DEF Continues
      <4>2. PageCall(page.call)  BY <4>1 DEF PageInv, PagesFollow
      <4>3. all = AllRows(now, page.call)
        <5> DEFINE k == r.search.offset
        <5>1. AllRows(now, [page.call EXCEPT !.search.offset = k]) = AllRows(now, page.call)
              BY <4>2, SameRows
        <5>. QED  BY <4>1, <5>1
      <4> HIDE DEF all
      <4>4. PICK n \in 0 .. Len(all) : page.rows = Slice(all, 0, n)
            BY <4>1, <4>3 DEF PageInv, PagesFollow
      <4>5. Len(page.rows) = n  BY <2>6, <4>4, NextSlice
      <4>. QED  BY <3>2, <4>1, <4>4, <4>5
    <3>. QED  BY <3>1, <3>2
  <2>9. PICK n \in 0 .. Len(all) : n = r.search.offset /\ read = (IF n = 0 THEN <<>> ELSE Slice(all, 0, n))
        BY <2>8
  <2> HIDE DEF all, read, got
  <2>10. n + m \in 0 .. Len(all)  BY <2>6, <2>7, <2>9
  <2>11. read \o got = Slice(all, 0, n + m)
    <3>1. got = Slice(all, n, m)  BY <2>7, <2>9
    <3>2. n \in Nat /\ m \in Nat  BY <2>6
    <3>3. CASE n = 0
      <4>1. <<>> \o Slice(all, 0, m) = Slice(all, 0, m)  BY <3>2, NextSlice
      <4>. QED  BY <2>9, <3>1, <3>2, <3>3, <4>1
    <3>4. CASE n # 0
      <4>1. Slice(all, 0, n) \o Slice(all, n, m) = Slice(all, 0, n + m)  BY <3>2, NextSlice
      <4>. QED  BY <2>9, <3>1, <3>4, <4>1
    <3>. QED  BY <3>3, <3>4
  <2>12. /\ page'.call = r /\ page'.on = now /\ page'.rows = read \o got
         /\ page'.more = (Len(all) > n + m)
         BY <2>1, <2>7, <2>9
  <2>13. \E k \in 0 .. Len(all) : page'.rows = Slice(all, 0, k) /\ page'.more = (Len(all) > k)
         BY <2>10, <2>11, <2>12
  <2>14. IsFiniteSet(now.nodes)  BY <2>4 DEF IsRows
  <2>15. PagesFollow'  BY <2>2, <2>12, <2>13, <2>14 DEF PagesFollow, all
  <2>. QED  BY <1>2, <2>15 DEF PageInv
<1>. QED  BY <1>3, <1>4, <1>5

\* A run that ends leaves the pages, and answers no search.
LEMMA RunAnswer ==
    ASSUME PagesFollow, page' = page, NEW r, NEW a, answer' = Answer(r, a), ~IsPage(r)
    PROVE  PageInv'
<1>1. PagesFollow'  BY DEF PagesFollow
<1>2. AnswerFollows'  BY AnswerParts DEF AnswerFollows
<1>. QED  BY <1>1, <1>2 DEF PageInv

LEMMA PageStep == ASSUME ConnInv, PageInv, [Next]_vars PROVE PageInv'
<1>0. PagesFollow  BY DEF PageInv
<1>1. ASSUME NEW r \in Calls \cup Interludes, Call(r) PROVE PageInv'
  <2>1. CASE Query(r)  BY <1>0, <2>1, OwnCall, PageQuery
  <2>2. CASE ManageAdr(r)
    <3>1. page' = Forgotten /\ ~IsPage(r)  BY <2>2 DEF ManageAdr, IsPage
    <3>2. \E a : answer' = Answer(r, a)  BY <2>2 DEF ManageAdr
    <3>. QED  BY <1>0, <3>1, <3>2, OtherAnswer
  <2>3. CASE NeedsNoProject(r)
    <3>1. page' = Forgotten /\ ~IsPage(r)  BY <2>3 DEF NeedsNoProject, IsPage
    <3>2. \E a : answer' = Answer(r, a)  BY <2>3 DEF NeedsNoProject
    <3>. QED  BY <1>0, <3>1, <3>2, OtherAnswer
  <2>4. CASE IndexRepository(r)
    <3>1. page' = Forgotten /\ ~IsPage(r)  BY <2>4 DEF IndexRepository, IsPage
    <3>2. answer' = Absent \/ \E a : answer' = Answer(r, a)
          BY <2>4 DEF IndexRepository, IndexBegins, Succeeds, Free
    <3>3. CASE answer' = Absent
          BY <1>0, <3>1, <3>3 DEF PageInv, PagesFollow, AnswerFollows, Forgotten
    <3>. QED  BY <1>0, <3>1, <3>2, <3>3, OtherAnswer
  <2>5. CASE DeleteProjectCall(r)
    <3>1. page' = Forgotten /\ ~IsPage(r)  BY <2>5 DEF DeleteProjectCall, IsPage
    <3>2. \E a : answer' = Answer(r, a)  BY <2>5 DEF DeleteProjectCall
    <3>. QED  BY <1>0, <3>1, <3>2, OtherAnswer
  <2>. QED  BY <1>1, <2>1, <2>2, <2>3, <2>4, <2>5 DEF Call
<1>2. CASE NextPage
  <2> DEFINE r == [page.call EXCEPT !.search.offset = Len(page.rows)]
  <2>1. page # Absent /\ page.more /\ Query(r)  BY <1>2 DEF NextPage
  <2>2. PageCall(r) /\ Continues(r)  BY <1>0, <2>1, NextCall
  <2> HIDE DEF r
  <2>. QED  BY <1>0, <2>1, <2>2, PageQuery
<1>3. CASE Receive  BY <1>3, ReceiveFollows
<1>4. CASE EvictIdle
      BY <1>4 DEF EvictIdle, Free, PageInv, PagesFollow, AnswerFollows
<1>5. ASSUME NEW p \in DOMAIN Versions, DeletedElsewhere(p) PROVE PageInv'
      BY <1>5 DEF DeletedElsewhere, PageInv, PagesFollow, AnswerFollows
<1>6. ASSUME NEW p \in DOMAIN Versions, NEW rows \in Versions[p], Reindex(p, rows) PROVE PageInv'
      BY <1>6 DEF Reindex, IndexBegins, PageInv, PagesFollow, AnswerFollows
<1>8. ASSUME NEW outcome \in Outcomes, IndexEnds(outcome) PROVE PageInv'
  <2> DEFINE r == indexing.call
  <2>1. indexing # Absent /\ page' = page  BY <1>8 DEF IndexEnds
  <2>2. \/ r = Absent /\ answer' = Absent
        \/ r # Absent /\ \E a : answer' = Answer(r, a)
        BY <1>8 DEF IndexEnds, Succeeds
  <2>3. CASE r = Absent /\ answer' = Absent
        BY <1>0, <2>1, <2>3 DEF PageInv, PagesFollow, AnswerFollows
  <2>4. CASE r # Absent /\ \E a : answer' = Answer(r, a)
        BY <1>0, <2>1, <2>4, WaitingCall, RunAnswer
  <2>. QED  BY <2>2, <2>3, <2>4
<1>7. CASE UNCHANGED vars
      BY <1>7 DEF vars, PageInv, PagesFollow, AnswerFollows, Continues
<1>. QED  BY <1>1, <1>2, <1>3, <1>4, <1>5, <1>6, <1>7, <1>8 DEF Next, Callable

\* What was read of a search, and what is answered to it, is always part of it,
\* in its order and from one state of the project.  (handle_search_graph)
THEOREM PageInvariance == Spec => [](ConnInv /\ PageInv)
<1>1. Init => PageInv  BY DEF Init, PageInv, PagesFollow, AnswerFollows
<1>2. ConnInv /\ PageInv /\ [Next]_vars => PageInv'  BY PageStep
<1>. QED  BY <1>1, <1>2, ConnInvariance, PTL DEF Spec

\* Who goes on until nothing is left has read every row that matches, once each
\* and in order.  (handle_search_graph, cbm_store_search)
THEOREM PagesHold == Spec => []PagesCoverTheAnswer
<1>1. PageInv => PagesCoverTheAnswer
  <2> SUFFICES ASSUME PageInv, page # Absent, ~page.more
               PROVE  page.rows = Ids(AllRows(page.on, page.call))
      BY DEF PagesCoverTheAnswer, AllRows
  <2> DEFINE all == AllRows(page.on, page.call)
  <2>1. Len(all) \in Nat /\ DOMAIN all = 1 .. Len(all)
        BY RowsInOrder, FoundIsFinite DEF AllRows, PageInv, PagesFollow
  <2>2. PICK n \in 0 .. Len(all) : page.rows = Slice(all, 0, n) /\ page.more = (Len(all) > n)
        BY DEF PageInv, PagesFollow
  <2> DEFINE more == Len(all) > n
  <2> HIDE DEF all
  <2>3. ~more
    <3>1. page.more = more  BY <2>2
    <3> HIDE DEF more
    <3>. QED  BY <3>1, Zenon
  <2> HIDE DEF more
  <2>4. n = Len(all)
    <3>1. Len(all) \in Nat /\ n \in 0 .. Len(all)  BY <2>1
    <3>2. ~(Len(all) > n)  BY <2>3, Zenon DEF more
    <3>. QED  BY <3>1, <3>2
  <2>5. Slice(all, 0, n) = Ids(all)  BY <2>1, <2>4 DEF Slice, Ids
  <2>. QED  BY <2>2, <2>5 DEF all
<1>. QED  BY <1>1, PageInvariance, PTL
=============================================================================
