---------------------------- MODULE McpConnections ----------------------------
(***************************************************************************)
(* The MCP server of mcp.c between its client and the database files of    *)
(* the cache directory.  The server keeps one project's file open; what    *)
(* indexes a project, here or in another thread or process, puts a new     *)
(* file in the place of the old one, which a connection that is open goes  *)
(* on reading.  The server has one thread for its calls: each is answered  *)
(* in one step, but for index_repository.  A run of the indexer, a call's  *)
(* or another's, is two steps: what it takes from the old file, and what   *)
(* it leaves.  (How a file is written is IndexPipeline's.)                 *)
(***************************************************************************)
EXTENDS McpCalls

CONSTANTS
    DirOrder,       \* the database files, as the directory lists them
    Versions,       \* what indexing may find in a project, by project
    Calls,          \* the calls a client makes
    Interludes,     \* those it also makes between the pages of a search, and
                    \* while a run of the indexer is at work
    StartDisks,     \* the database files at first, one of these
    Handle(_, _, _) \* what any other tool that reads answers from rows, for a
                    \* project and a call

Broken  == [broken |-> TRUE]    \* a file that is no database any more
Absent == [project |-> "none"]  \* no connection, no answer, no page

\* A table has finitely many rows.
IsRows(db) ==
    /\ db = [projects |-> db.projects, nodes |-> db.nodes, edges |-> db.edges,
             hashes |-> db.hashes, summaries |-> db.summaries, nextId |-> db.nextId]
    /\ IsFiniteSet(db.nodes) /\ IsFiniteSet(DOMAIN db.projects)

ASSUME DirOrderAssumption == DirOrder \in Seq(Range(DirOrder))
ASSUME VersionsAssumption == \A p \in DOMAIN Versions : \A rows \in Versions[p] : IsRows(rows)
ASSUME StartDisksAssumption ==
    \A d \in StartDisks : \A f \in DOMAIN d : d[f] = Broken \/ IsRows(d[f])

\* A client that searches begins with the first page.
IsPage(r) == r.tool = "search_graph" /\ "search" \in DOMAIN r /\ "query" \notin DOMAIN r
ASSUME CallsAssumption ==
    \A r \in Calls \cup Interludes :
        /\ "tool" \in DOMAIN r
        /\ r.tool = "index_repository" => r.project \in DOMAIN Versions
        /\ IsPage(r) => /\ DOMAIN r.search = DOMAIN AnySearch
                        /\ r.search.limit \in Int /\ r.search.offset = 0
ASSUME LimitAssumption == DefaultLimit \in Nat \ {0}

VARIABLES
    disk,       \* the database files there are: rows, or Broken
    conn,       \* srv->store and current_project, or Absent
    answer,     \* the call that was answered and what it got, or Absent
    page,       \* the pages of one search that the client has read
    adr,        \* the records whose update was answered with "updated", by file
                \* and project, and whether no run of the indexer dropped them
    gone,       \* the projects whose deletion was answered with "deleted"
    indexing    \* the run of the indexer at work, or Absent: its project, what
                \* it finds, whether it is a full one, the record it saved, and
                \* the call that waits for it, if one does

vars == <<disk, conn, answer, page, adr, gone, indexing>>

\* A file that was replaced under the connection is still read through it.
Reads(c, d) == IF c.replaced # <<>> THEN c.replaced[1] ELSE d[c.file]

\* The one project of a file, for one that can be opened and has just one.
InternalName(d, file) ==
    IF file \in DOMAIN d /\ d[file] # Broken /\ Cardinality(DOMAIN d[file].projects) = 1
    THEN CHOOSE p \in DOMAIN d[file].projects : TRUE ELSE None

CollectNames(d) ==
    SelectSeq([k \in DOMAIN DirOrder |-> InternalName(d, DirOrder[k])], LAMBDA p : p # None)

\* The first file whose one project has the name.
FallbackScan(d, p) ==
    LET found == {k \in DOMAIN DirOrder : InternalName(d, DirOrder[k]) = p}
    IN IF found = {} THEN None ELSE DirOrder[Min(found)]

Open(file, p) == [file |-> file, project |-> p, replaced |-> <<>>]

\* A project that is open is not looked at again.  A file that is broken is
\* moved out of the way.
ResolveStore(d, c, p) ==
    LET known == p \in DOMAIN d /\ d[p] # Broken /\ p \in DOMAIN d[p].projects
        other == FallbackScan(d, p)
    IN IF p = None THEN [disk |-> d, conn |-> c, open |-> FALSE]
       ELSE IF c # Absent /\ c.project = p THEN [disk |-> d, conn |-> c, open |-> TRUE]
       ELSE IF p \in DOMAIN d /\ d[p] = Broken
       THEN [disk |-> Restrict(d, DOMAIN d \ {p}), conn |-> Absent, open |-> FALSE]
       ELSE IF known THEN [disk |-> d, conn |-> Open(p, p), open |-> TRUE]
       ELSE [disk |-> d, conn |-> IF other = None THEN Absent ELSE Open(other, p), open |-> other # None]

NoStoreError(d, p) == IF p = None THEN Error("missing project") ELSE Error(CollectNames(d))

ProjectEntry(d, file) ==
    LET p == InternalName(d, file)
    IN [project |-> p, nodes |-> Cardinality(NodesOf(d[file], p)),
        edges |-> Cardinality({e \in d[file].edges : e.project = p}), root |-> d[file].projects[p]]

ListProjects(d) ==
    LET files == SelectSeq(DirOrder, LAMBDA f : InternalName(d, f) # None)
    IN Ok([k \in DOMAIN files |-> ProjectEntry(d, files[k])])

VerifyIndexed(db, p) == p \in DOMAIN db.projects

\* What has to be there for a call besides its project.
Required == [query_graph |-> "text", trace_path |-> "function", get_code_snippet |-> "qn"]
Complete(r) == r.tool \in DOMAIN Required => Required[r.tool] \in DOMAIN r

Verified   == {"search_graph", "query_graph", "get_graph_schema", "get_architecture",
               "trace_path", "get_code_snippet"}
Unverified == {"index_status", "search_code", "detect_changes"}

Reading(db, p, r) == IF r.tool = "search_graph" THEN SearchGraph(db, p, r) ELSE Handle(db, p, r)

Answer(r, a) == [call |-> r, ok |-> a.ok, body |-> a.body]

\* A call that waits for the indexer keeps the server's thread.
Free == answer = Absent /\ (indexing # Absent => indexing.call = Absent)

\* Pages that were all read are kept until the next call.
Forgotten == IF page # Absent /\ ~page.more THEN Absent ELSE page

\* The connection and its answer are one: of two calls the second waits.
Query(r) ==
    LET p   == IF r.tool = "get_code_snippet" /\ ~Complete(r) THEN None ELSE Arg(r, "project", None)
        res == ResolveStore(disk, conn, p)
        db  == Reads(res.conn, res.disk)
    IN /\ Free
       /\ r.tool \in Verified \cup Unverified
       /\ disk' = res.disk /\ conn' = res.conn
       /\ answer' = Answer(r, IF ~Complete(r) THEN Error("argument")
                              ELSE IF ~res.open \/ (r.tool \in Verified /\ ~VerifyIndexed(db, p))
                              THEN NoStoreError(res.disk, p)
                              ELSE Reading(db, p, r))
       /\ page' = Forgotten /\ UNCHANGED <<adr, gone, indexing>>

\* A full run has saved the record of this file, and will write the file anew.
FullAt(file) == indexing # Absent /\ indexing.full /\ indexing.project = file

\* The record is read and written in the file itself, not in what is open; no
\* lock keeps a run of the indexer from replacing the file meanwhile.
ManageAdr(r) ==
    LET p    == Arg(r, "project", None)
        res  == ResolveStore(disk, conn, p)
        file == res.conn.file
        db   == IF file \in DOMAIN res.disk THEN res.disk[file] ELSE EmptyDb
    IN /\ Free /\ r.tool = "manage_adr"
       /\ conn' = res.conn
       /\ IF res.open /\ db # Broken
          THEN /\ disk' = With(res.disk, file, AdrWritten(db, p, r))
               /\ answer' = Answer(r, AdrAnswer(db, p, r))
               /\ adr' = IF AdrUpdates(r)
                       THEN With(adr, <<file, p>>, [content |-> r.content, kept |-> ~FullAt(file)])
                       ELSE adr
          ELSE /\ disk' = res.disk
               /\ answer' = Answer(r, NoStoreError(res.disk, p))
               /\ UNCHANGED adr
       /\ page' = Forgotten /\ UNCHANGED <<gone, indexing>>

\* Calls that need no project.
NeedsNoProject(r) ==
    /\ Free /\ r.tool \in {"list_projects", "ingest_traces"}
    /\ answer' = Answer(r, IF r.tool = "list_projects" THEN ListProjects(disk) ELSE IngestTraces(r))
    /\ page' = Forgotten /\ UNCHANGED <<disk, conn, adr, gone, indexing>>

-----------------------------------------------------------------------------
(* What changes the files: never between an answer and its reading, which   *)
(* the client cannot tell from after it.                                    *)

Replaced(c, file, d) ==
    IF c # Absent /\ c.file = file /\ c.replaced = <<>> /\ file \in DOMAIN d
    THEN [c EXCEPT !.replaced = <<d[file]>>] ELSE c

Without(d, p) == Restrict(d, DOMAIN d \ {p})
Whole(d, p) == p \in DOMAIN d /\ d[p] # Broken
Hashed(d, p) == IF Whole(d, p) THEN Cardinality({n.file : n \in NodesOf(d[p], p)}) ELSE 0

\* A file that is whole is kept unless it has grown by more than half.
Incremental(d, p, rows) ==
    Hashed(d, p) > 0 /\ Cardinality({n.file : n \in rows.nodes}) <= Hashed(d, p) + Hashed(d, p) \div 2
Unchanged(d, p, rows) == Incremental(d, p, rows) /\ [d[p] EXCEPT !.summaries = <<>>] = rows

\* Nothing is saved (mutant of OwnRecord).
OwnRecordForgotten(d, p) == <<>>

\* The record of the project in its own file.
OwnRecord(d, p) ==
    IF Whole(d, p) THEN Restrict(d[p].summaries, DOMAIN d[p].summaries \cap {p}) ELSE <<>>

RecordsAt(file) == {k \in DOMAIN adr : k[1] = file}
Dropped(S) == [k \in DOMAIN adr |-> [content |-> adr[k].content, kept |-> adr[k].kept /\ k \notin S]]

\* A full run saves the project's record and removes the file at once.
IndexBegins(p, rows, call) ==
    LET full == ~Incremental(disk, p, rows)
    IN /\ indexing = Absent /\ ~Unchanged(disk, p, rows)
       /\ indexing' = [project |-> p, rows |-> rows, full |-> full, call |-> call,
                       saved |-> IF full THEN OwnRecord(disk, p) ELSE <<>>]
       /\ disk' = IF full THEN Without(disk, p) ELSE disk
       /\ adr' = IF full THEN Dropped(RecordsAt(p) \ {<<p, p>>}) ELSE adr
       /\ UNCHANGED <<answer, gone>>

\* The watcher, auto-indexing, or a process of its own, for which no deletion
\* here waits.
Reindex(p, rows) ==
    /\ answer = Absent
    /\ IndexBegins(p, rows, Absent)
    /\ conn' = IF indexing'.full THEN Replaced(conn, p, disk) ELSE conn
    /\ UNCHANGED page

\* A call that has succeeded looks for its project again, to count what is there.
Succeeds(r, d) ==
    LET res == ResolveStore(d, Absent, r.project)
    IN /\ disk' = res.disk /\ conn' = res.conn
       /\ answer' = Answer(r, Ok(IF res.open THEN "indexed" ELSE "degraded"))

\* The call closes what is open before it starts.
IndexRepository(r) ==
    /\ Free /\ r.tool = "index_repository"
    /\ \E rows \in Versions[r.project] :
         \/ IndexBegins(r.project, rows, r) /\ conn' = Absent
         \/ /\ indexing = Absent /\ Unchanged(disk, r.project, rows)
            /\ Succeeds(r, disk)
            /\ gone' = gone \ {r.project} /\ UNCHANGED <<adr, indexing>>
    /\ page' = Forgotten

\* What a run comes to: the new file, with the record that was saved or without;
\* nothing, after a failure or a cancel before the dump, which the last check of
\* a full run does not report; or a file the dump left unfinished.
Outcomes == {"done", "unrestored", "failed", "skipped", "torn"}

Left(outcome) ==
    LET p == indexing.project
    IN CASE outcome = "done"       -> With(disk, p, [indexing.rows EXCEPT !.summaries = indexing.saved])
         [] outcome = "unrestored" -> With(disk, p, [indexing.rows EXCEPT !.summaries = <<>>])
         [] outcome = "torn"       -> With(disk, p, Broken)
         [] OTHER                  -> disk

\* The records that were there when the run began survive one that restores what
\* it saved; a run that never came to replace the file drops none.
AdrsAfter(outcome) ==
    IF outcome = (IF indexing.full THEN "done" ELSE "failed")
    THEN adr ELSE Dropped(RecordsAt(indexing.project))

\* An incremental run does not ask whether its dump succeeded.
IndexEnds(outcome) ==
    LET p  == indexing.project
        r  == indexing.call
        ok == outcome # "failed" /\ (outcome = "torn" => ~indexing.full)
    IN /\ indexing # Absent /\ answer = Absent
       /\ outcome = "unrestored" => indexing.saved # <<>>
       /\ outcome = "skipped" => indexing.full
       /\ adr' = AdrsAfter(outcome)
       /\ gone' = IF outcome \in {"done", "unrestored"} THEN gone \ {p} ELSE gone
       /\ IF r # Absent /\ ok
          THEN Succeeds(r, Left(outcome))
          ELSE /\ disk' = Left(outcome)
               /\ conn' = IF outcome \in {"failed", "skipped"} THEN conn ELSE Replaced(conn, p, disk)
               /\ answer' = IF r = Absent THEN Absent ELSE Answer(r, Error("error"))
       /\ indexing' = Absent /\ UNCHANGED page

\* The file goes, but what is open stays open (mutant of Closed).
ClosedNever(c, p, d) == Replaced(c, p, d)

\* A connection to what is deleted is closed.
Closed(c, p, d) == IF c # Absent /\ c.project = p THEN Absent ELSE Replaced(c, p, d)

AdrsElsewhere(file) == Restrict(adr, DOMAIN adr \ RecordsAt(file))

DeleteProjectCall(r) ==
    /\ Free /\ r.tool = "delete_project"
    /\ conn' = Closed(conn, r.project, disk)
    /\ disk' = Without(disk, r.project)
    /\ answer' = Answer(r, IF r.project \in DOMAIN disk THEN Ok("deleted") ELSE Error("not_found"))
    /\ page' = Forgotten
    /\ adr' = AdrsElsewhere(r.project)
    /\ gone' = IF r.project \in DOMAIN disk THEN gone \cup {r.project} ELSE gone
    /\ UNCHANGED indexing

\* DELETE of the UI's server removes the file and tells nobody.
DeletedElsewhere(p) ==
    /\ answer = Absent /\ p \in DOMAIN disk
    /\ disk' = Without(disk, p) /\ conn' = Replaced(conn, p, disk)
    /\ adr' = AdrsElsewhere(p)
    /\ UNCHANGED <<answer, page, gone, indexing>>

\* No call for a minute.
EvictIdle ==
    /\ Free /\ conn # Absent
    /\ conn' = Absent
    /\ UNCHANGED <<disk, answer, page, adr, gone, indexing>>

-----------------------------------------------------------------------------
(* The client.                                                              *)

\* The rows of a page follow those that were read, if they are of one state
\* of the project.  A client that learns otherwise starts again.
Receive ==
    LET r     == answer.call
        now   == [Reads(conn, disk) EXCEPT !.summaries = <<>>]
        first == r.search.offset = 0
        rows  == (IF first THEN <<>> ELSE page.rows) \o Ids(answer.body.rows)
    IN /\ answer # Absent
       /\ answer' = Absent
       /\ page' = IF ~IsPage(r) \/ ~answer.ok THEN page
                  ELSE IF first \/ page.on = now
                  THEN [call |-> r, more |-> answer.body.more, on |-> now, rows |-> rows]
                  ELSE Absent
       /\ UNCHANGED <<disk, conn, adr, gone, indexing>>

\* The search tool's description: go on with offset while has_more.
NextPage ==
    /\ page # Absent /\ page.more
    /\ Query([page.call EXCEPT !.search.offset = Len(page.rows)])

Call(r) == Query(r) \/ ManageAdr(r) \/ NeedsNoProject(r) \/ IndexRepository(r) \/ DeleteProjectCall(r)

Init == /\ disk \in StartDisks /\ conn = Absent /\ answer = Absent /\ page = Absent
        /\ adr = <<>> /\ gone = {} /\ indexing = Absent

\* Bound on what a client calls.
Callable == IF indexing = Absent /\ (page = Absent \/ ~page.more) THEN Calls ELSE Interludes

Next == \/ \E r \in Callable : Call(r)
        \/ NextPage
        \/ Receive
        \/ EvictIdle
        \/ \E outcome \in Outcomes : IndexEnds(outcome)
        \/ \E p \in DOMAIN Versions : DeletedElsewhere(p) \/ \E rows \in Versions[p] : Reindex(p, rows)

Spec == Init /\ [][Next]_vars

-----------------------------------------------------------------------------
(* Properties.                                                              *)

Answered(tool) == answer # Absent /\ answer.call.tool = tool /\ answer.ok

\* A project whose deletion was acknowledged is not answered about before it
\* is indexed again, whatever was open at the time; but a file that has another
\* name, and that project alone, still has what it has.  (handle_delete_project)
DeletedStaysDeleted ==
    LET p == answer.call.project
    IN /\ answer # Absent /\ answer.ok
       /\ answer.call.tool \in Verified \cup Unverified \cup {"manage_adr"} /\ p \in gone
       => conn # Absent /\ conn.file # p /\ DOMAIN Reads(conn, disk).projects = {p}

\* The promise of the search tool's description: who goes on while has_more
\* has read, at the end, every row that matches, once each and in order,
\* whatever else was called or indexed meanwhile, as long as the pages came
\* from one state of the project.
PagesCoverTheAnswer ==
    page # Absent /\ ~page.more =>
        page.rows = Ids(ByName(Found(page.on, [page.call.search EXCEPT !.project = page.call.project])))

\* An architecture record whose update was acknowledged is what is read next
\* from the file it went to, also when full runs indexed the project anew in
\* between and the connection still reads the file from before.  Not while such
\* a run is at work; and a record is dropped by an incremental run, one that
\* fails after it removed the file, one that cannot restore what it saved, and
\* by a full run that was at work when the record was written.
\* (handle_manage_adr, try_incremental_or_delete_db)
AdrIsKept ==
    Answered("manage_adr") /\ answer.call.mode = "get" =>
        LET written == <<conn.file, answer.call.project>>
        IN written \in DOMAIN adr /\ adr[written].kept /\ ~FullAt(conn.file) =>
              answer.body = adr[written].content

\* Without the exceptions this does not hold: manage_adr takes no pipeline lock,
\* and a full run brings back the record it saved at its start.
AcknowledgedAdrIsRead ==
    Answered("manage_adr") /\ answer.call.mode = "get" =>
        LET written == <<conn.file, answer.call.project>>
        IN written \in DOMAIN adr => answer.body = adr[written].content
=============================================================================
