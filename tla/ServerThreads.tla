--------------------------- MODULE ServerThreads ---------------------------
(***************************************************************************)
(* The threads of the C engine's server process and what they share.       *)
(*                                                                         *)
(* main.c starts a file watcher and an HTTP server beside the stdio MCP    *)
(* loop; the MCP server starts auto-index threads; an HTTP index job is a  *)
(* child process of its own.  All of them index the same project database. *)
(* The threads of the process are serialised by the atomic g_pipeline_busy *)
(* (pipeline.c), the watcher's per-project state is shared through its     *)
(* mutex, and a signal, end of input or the death of the parent ends it.   *)
(*                                                                         *)
(* One project is modelled.  Its repository is a content version that      *)
(* grows by one with every edit: `work' is the working tree, `head' the    *)
(* committed version, and the tree is dirty when they differ.  A pipeline  *)
(* run reads the tree at its start and publishes what it read at its end.  *)
(***************************************************************************)
EXTENDS Naturals, FiniteSets

CONSTANTS
    AutoThreads,  \* auto-index threads that may be started
    Slots,        \* slots of the HTTP server's index-job table
    StateIds,     \* heap objects a project_state_t may occupy
    MaxEdits,     \* bound: versions of the repository
    MaxEvents     \* bound: requests of the clients and runs that fail, together

None == MaxEdits + 1      \* no database, no state object, no run

ASSUME BoundsAssumption ==
    /\ MaxEdits \in Nat /\ MaxEvents \in Nat
    /\ StateIds \subseteq Nat

ASSUME ThreadsAssumption ==
    /\ "main" \notin AutoThreads /\ "watcher" \notin AutoThreads /\ "http" \notin AutoThreads
    /\ AutoThreads \cap Slots = {}
    /\ {"main", "watcher", "http"} \cap Slots = {}

Locals  == {"main", "watcher", "http"} \cup AutoThreads   \* threads of the process
Runners == Locals \cup Slots                       \* with the job children

VARIABLES
    repo,      \* [work, head]: the user's repository
    db,        \* version in the project's database file, None if absent
    lock,      \* g_pipeline_busy
    pc,        \* control state of each thread
    snap,      \* the version a runner's pipeline has read, None outside a run
    cancelled, \* p->cancelled of the main thread's active pipeline
    shutdown,  \* g_shutdown
    stopped,   \* background servers told to stop
    eof,       \* stdin is at its end or closed
    autoTid,   \* srv->autoindex_tid, {} before the first launch
    watched,   \* state object of the project in w->projects, {} if unwatched
    pending,   \* w->pending_free
    alive,     \* state objects that are allocated
    polled,    \* state object the poller's snapshot points at
    st,        \* [lastHead, baseline] of every state object
    watcherFreed,
    jobs,      \* status of every job slot: idle, running, done, error
    child,     \* the slot's child: none, running, or how it ended: ok, failed
    events     \* requests and failures so far

repoVars  == <<repo, db>>
watchVars == <<watched, pending, alive, polled, st, watcherFreed>>
stopVars  == <<shutdown, stopped, eof>>
jobVars   == <<jobs, child>>
vars == <<repoVars, lock, pc, snap, cancelled, stopVars, autoTid, watchVars,
          jobVars, events>>

TypeOK ==
    /\ repo \in [work : 0..MaxEdits, head : 0..MaxEdits]
    /\ db \in 0..None
    /\ lock \in BOOLEAN /\ cancelled \in BOOLEAN /\ shutdown \in BOOLEAN
    /\ eof \in BOOLEAN /\ watcherFreed \in BOOLEAN
    /\ stopped \subseteq {"watcher", "http"}
    /\ pc \in [Locals -> {"idle", "lock", "run", "delete", "unwatch",
                          "project", "index", "after", "register", "done",
                          "stuck", "joinHttp", "joinWatcher", "joinAuto", "exited"}]
    /\ snap \in [Runners -> 0..None]
    /\ autoTid \subseteq AutoThreads
    /\ watched \subseteq StateIds /\ pending \subseteq StateIds
    /\ polled \subseteq StateIds /\ alive \subseteq StateIds
    /\ st \in [StateIds -> [lastHead : 0..None, baseline : BOOLEAN]]
    /\ jobs \in [Slots -> {"idle", "running", "done", "error"}]
    /\ child \in [Slots -> {"none", "running", "ok", "failed"}]

Init ==
    /\ repo = [work |-> 0, head |-> 0]
    /\ db \in {None, 0}
    /\ lock = FALSE /\ cancelled = FALSE /\ shutdown = FALSE /\ eof = FALSE
    /\ stopped = {} /\ autoTid = {} /\ watcherFreed = FALSE
    /\ pc = [t \in Locals |-> IF t \in AutoThreads THEN "done" ELSE "idle"]
    /\ snap = [t \in Runners |-> None]
    /\ watched = {} /\ pending = {} /\ alive = {} /\ polled = {}
    /\ st = [s \in StateIds |-> [lastHead |-> None, baseline |-> FALSE]]
    /\ jobs = [s \in Slots |-> "idle"] /\ child = [s \in Slots |-> "none"]
    /\ events = 0

----------------------------------------------------------------------------
(* The user's repository *)

Edit ==
    /\ repo.work < MaxEdits
    /\ repo' = [repo EXCEPT !.work = @ + 1]
    /\ UNCHANGED <<db, lock, pc, snap, cancelled, stopVars, autoTid,
                   watchVars, jobVars, events>>

Commit ==
    /\ repo.work # repo.head
    /\ repo' = [repo EXCEPT !.head = repo.work]
    /\ UNCHANGED <<db, lock, pc, snap, cancelled, stopVars, autoTid,
                   watchVars, jobVars, events>>

----------------------------------------------------------------------------
(* The pipeline lock and a run under it *)

Goto(t, label) == pc' = [pc EXCEPT ![t] = label]

\* A bug: the flag is set whatever it was.
LockUnchecked(t) ==
    /\ lock' = TRUE
    /\ snap' = [snap EXCEPT ![t] = repo.work]
    /\ Goto(t, "run")

\* cbm_pipeline_lock and cbm_pipeline_try_lock: an atomic exchange that
\* succeeds when the flag was clear; the holder then reads the tree.
LockAndRead(t) ==
    /\ ~lock
    /\ lock' = TRUE
    /\ snap' = [snap EXCEPT ![t] = repo.work]
    /\ Goto(t, "run")

\* What the bound counts.
AnEvent == events < MaxEvents /\ events' = events + 1

\* What a run leaves in the database: the tree it read, or what was there
\* before when it fails.
Publish(t) ==
    /\ db' = snap[t]
    /\ UNCHANGED events

Fail ==
    /\ AnEvent
    /\ UNCHANGED db

\* The end of a run and the unlock that follows it.
FinishRun(t) ==
    /\ pc[t] = "run"
    /\ lock' = FALSE
    /\ snap' = [snap EXCEPT ![t] = None]

----------------------------------------------------------------------------
(* The watch list *)

NewState == [lastHead |-> None, baseline |-> FALSE]

\* What memory holds that is not in use matters to nobody.
Contents(used) == [s \in StateIds |-> IF s \in used THEN st[s] ELSE NewState]

\* Where a new state may lie once those of `freed' are: at an address that was
\* theirs, or one nothing refers to.  The least stands for all of the latter.
Places(freed) ==
    LET unused == StateIds \ (alive \cup polled)
    IN  freed \cup (polled \ alive) \cup {s \in unused : \A r \in unused : s <= r}

\* cbm_watcher_watch: an old entry is freed at once, whether or not a poll still
\* points at it, and a new one allocated, which may lie where the old one lay.
Watch ==
    \E s \in Places(watched) :
      /\ alive' = (alive \ watched) \cup {s}
      /\ watched' = {s}
      /\ st' = Contents(((alive \ watched) \cup polled) \ {s})
      /\ UNCHANGED <<pending, polled, watcherFreed>>

\* A bug: the entry's memory is released at once.
UnwatchAndFree ==
    /\ watched' = {}
    /\ alive' = alive \ watched
    /\ UNCHANGED <<pending, polled, st, watcherFreed>>

\* cbm_watcher_unwatch: the entry leaves the table, its memory is released
\* by the next poll, which may still hold a pointer to it.
Unwatch ==
    /\ watched' = {}
    /\ pending' = pending \cup watched
    /\ UNCHANGED <<alive, polled, st, watcherFreed>>

\* The process is gone, its threads and its memory with it; the children of
\* index jobs live on.
ProcessEnds ==
    /\ pc' = [t \in Locals |-> "exited"]
    /\ snap' = [r \in Runners |-> IF r \in Slots THEN snap[r] ELSE None]
    /\ lock' = FALSE /\ cancelled' = FALSE /\ autoTid' = {}
    /\ watched' = {} /\ pending' = {} /\ alive' = {} /\ polled' = {}
    /\ st' = [s \in StateIds |-> NewState]
    /\ UNCHANGED <<repoVars, stopVars, watcherFreed, jobVars, events>>

----------------------------------------------------------------------------
(* The main thread: the stdio MCP loop *)

Ready(t) == pc[t] = "idle"

\* Of the threads that are not in use it does not matter which one is started.
Unused(a) == pc[a] = "done" /\ a \notin autoTid

\* "initialize": detect_session and maybe_auto_index.  An indexed project is
\* watched; otherwise a thread is started, and its id overwrites the one of an
\* earlier thread, unless the settings or the size of the project forbid it.
Initialize ==
    /\ Ready("main") /\ ~eof
    /\ AnEvent
    /\ \/ /\ db # None
          /\ Watch
          /\ UNCHANGED <<pc, autoTid>>
       \/ /\ db = None
          /\ \E a \in AutoThreads :
               /\ Unused(a) /\ a = CHOOSE b \in AutoThreads : Unused(b)
               /\ Goto(a, "lock")
               /\ autoTid' = {a}
          /\ UNCHANGED watchVars
       \/ /\ db = None
          /\ UNCHANGED <<pc, autoTid, watchVars>>
    /\ UNCHANGED <<repoVars, lock, snap, cancelled, stopVars, jobVars>>

\* The calls that wait for the pipeline lock: index_repository ("lock") and
\* delete_project ("delete").  While one runs no other message is read, so a
\* notifications/cancelled can reach no running pipeline.
Call(t, label) ==
    /\ Ready(t)
    /\ AnEvent
    /\ Goto(t, label)
    /\ UNCHANGED <<repoVars, lock, snap, cancelled, stopVars, autoTid,
                   watchVars, jobVars>>

\* A tools/call on the stdio loop, and one through the HTTP server's /rpc,
\* which has an MCP server object of its own.
McpCall(label) == ~eof /\ Call("main", label)
RpcCall(label) == "http" \notin stopped /\ Call("http", label)

\* index_repository up to the run, and the same in the auto-index thread.
IndexLock(t) ==
    /\ pc[t] = "lock"
    /\ LockAndRead(t)
    /\ cancelled' = (cancelled /\ t # "main")
    /\ UNCHANGED <<repoVars, stopVars, autoTid, watchVars, jobVars, events>>

\* A cancelled run of the main thread publishes nothing, unless it was past
\* its last check of the flag.
IndexDone(t) ==
    /\ t \in {"main", "http"}
    /\ FinishRun(t)
    /\ Goto(t, "idle")
    /\ \/ Publish(t)
       \/ t = "main" /\ cancelled /\ UNCHANGED <<db, events>>
       \/ Fail
    /\ cancelled' = (cancelled /\ t # "main")
    /\ UNCHANGED <<repo, stopVars, autoTid, watchVars, jobVars>>

\* handle_delete_project: unlink under the lock, then unwatch.  The HTTP
\* server's own MCP object has no watcher to tell.
DeleteUnlink(t) ==
    /\ pc[t] = "delete"
    /\ ~lock
    /\ db' = None
    /\ Goto(t, IF t = "main" THEN "unwatch" ELSE "idle")
    /\ UNCHANGED <<repo, lock, snap, cancelled, stopVars, autoTid,
                   watchVars, jobVars, events>>

DeleteUnwatch ==
    /\ pc["main"] = "unwatch"
    /\ Unwatch
    /\ Goto("main", "idle")
    /\ UNCHANGED <<repo, db, lock, snap, cancelled, stopVars, autoTid,
                   jobVars, events>>

EndOfInput ==
    /\ ~eof
    /\ eof' = TRUE
    /\ UNCHANGED <<repoVars, lock, pc, snap, cancelled, shutdown, stopped,
                   autoTid, watchVars, jobVars, events>>

\* main after cbm_mcp_server_run returns: set g_shutdown, stop and join the
\* HTTP server, stop and join the watcher, free it, free the MCP server, which
\* joins the last auto-index thread, and return.
LeaveLoop ==
    /\ pc["main"] = "idle" /\ eof
    /\ shutdown' = TRUE
    /\ stopped' = stopped \cup {"http"}
    /\ Goto("main", "joinHttp")
    /\ UNCHANGED <<repoVars, lock, snap, cancelled, eof, autoTid, watchVars,
                   jobVars, events>>

\* A bug: the watcher is joined without being told to stop.
JoinHttpOnly ==
    /\ pc["main"] = "joinHttp"
    /\ pc["http"] = "done"
    /\ Goto("main", "joinWatcher")
    /\ UNCHANGED <<repoVars, lock, snap, cancelled, stopVars, autoTid,
                   watchVars, jobVars, events>>

\* main, between the two joins.
JoinHttp ==
    /\ pc["main"] = "joinHttp"
    /\ pc["http"] = "done"
    /\ stopped' = stopped \cup {"watcher"}
    /\ Goto("main", "joinWatcher")
    /\ UNCHANGED <<repoVars, lock, snap, cancelled, shutdown, eof, autoTid,
                   watchVars, jobVars, events>>

JoinWatcher ==
    /\ pc["main"] = "joinWatcher"
    /\ pc["watcher"] = "done"
    /\ Goto("main", "joinAuto")
    /\ watcherFreed' = TRUE
    /\ alive' = alive \ (watched \cup pending)
    /\ watched' = {} /\ pending' = {} /\ st' = Contents({})
    /\ UNCHANGED <<repoVars, lock, snap, cancelled, stopVars, autoTid,
                   polled, jobVars, events>>

JoinAuto ==
    /\ pc["main"] = "joinAuto"
    /\ \A a \in autoTid : pc[a] = "done"
    /\ ProcessEnds

----------------------------------------------------------------------------
(* Signals and the parent watchdog *)

\* request_shutdown: once; cancels only the stdio server's pipeline, clears
\* the pipeline lock whoever holds it, stops the servers, closes stdin.
RequestShutdown ==
    /\ ~shutdown
    /\ pc["main"] # "exited"
    /\ shutdown' = TRUE
    /\ cancelled' = (pc["main"] = "run")
    /\ lock' = FALSE
    /\ stopped' = {"watcher", "http"}
    /\ eof' = TRUE
    /\ UNCHANGED <<repoVars, pc, snap, autoTid, watchVars, jobVars, events>>

\* parent_watchdog_thread: _exit while the process is not shutting down.
ParentDied ==
    /\ ~shutdown
    /\ pc["main"] # "exited"
    /\ ProcessEnds

----------------------------------------------------------------------------
(* The auto-index thread *)

AutoDone(a) ==
    /\ FinishRun(a)
    /\ \/ Publish(a) /\ Goto(a, "register")
       \/ Fail /\ Goto(a, "done")
    /\ UNCHANGED <<repo, cancelled, stopVars, autoTid, watchVars, jobVars>>

\* After its run the thread registers the project with srv->watcher, which main
\* frees before it joins the thread and never clears: with the watcher gone it
\* locks a destroyed mutex in freed memory.  It gets through, the process dies,
\* or it waits for ever.
UseFreedWatcher(a) ==
    /\ pc[a] = "register" /\ watcherFreed
    /\ \/ ProcessEnds
       \/ /\ Goto(a, "done") \/ Goto(a, "stuck")
          /\ UNCHANGED <<repoVars, lock, snap, cancelled, stopVars, autoTid,
                         watchVars, jobVars, events>>

AutoRegister(a) ==
    /\ pc[a] = "register" /\ ~watcherFreed
    /\ Watch
    /\ Goto(a, "done")
    /\ UNCHANGED <<repoVars, lock, snap, cancelled, stopVars, autoTid,
                   jobVars, events>>

----------------------------------------------------------------------------
(* The watcher thread *)

WatcherStops ==
    /\ Ready("watcher")
    /\ "watcher" \in stopped
    /\ Goto("watcher", "done")
    /\ UNCHANGED <<repoVars, lock, snap, cancelled, stopVars, autoTid,
                   watchVars, jobVars, events>>

\* cbm_watcher_poll_once up to the unlock: release what unwatch deferred and
\* keep pointers to the watched states.
PollOnce ==
    /\ Ready("watcher")
    /\ "watcher" \notin stopped
    /\ alive' = alive \ pending
    /\ pending' = {}
    /\ polled' = watched
    /\ st' = Contents(alive \ pending)
    /\ pc' = IF watched = {} THEN pc ELSE [pc EXCEPT !["watcher"] = "project"]
    /\ UNCHANGED <<repoVars, lock, snap, cancelled, stopVars, autoTid,
                   watched, watcherFreed, jobVars, events>>

\* A bug: only HEAD is compared.
NeverDirty == FALSE

\* git status reports a working tree that differs from HEAD.
Dirty == repo.work # repo.head

\* init_baseline on the first poll of a state.
InitBaseline ==
    /\ pc["watcher"] = "project"
    /\ \E s \in polled :
         /\ ~st[s].baseline
         /\ st' = [st EXCEPT ![s] = [lastHead |-> repo.head, baseline |-> TRUE]]
    /\ polled' = {}
    /\ Goto("watcher", "idle")
    /\ UNCHANGED <<repoVars, lock, snap, cancelled, stopVars, autoTid,
                   watched, pending, alive, watcherFreed, jobVars, events>>

\* check_changes on a later poll: last_head is overwritten before anything
\* has been indexed.
CheckChanges ==
    /\ pc["watcher"] = "project"
    /\ \E s \in polled :
         LET changed == repo.head # st[s].lastHead \/ Dirty
         IN  /\ st[s].baseline
             /\ st' = [st EXCEPT ![s].lastHead = repo.head]
             /\ Goto("watcher", IF changed THEN "index" ELSE "idle")
             /\ polled' = IF changed THEN polled ELSE {}
    /\ UNCHANGED <<repoVars, lock, snap, cancelled, stopVars, autoTid,
                   watched, pending, alive, watcherFreed, jobVars, events>>

\* watcher_index_fn: nothing to do in a shutdown or while another pipeline
\* runs, both reported as success; otherwise a run under the lock.
WatcherSkips ==
    /\ pc["watcher"] = "index"
    /\ shutdown \/ lock
    /\ Goto("watcher", "after")
    /\ UNCHANGED <<repoVars, lock, snap, cancelled, stopVars, autoTid,
                   watchVars, jobVars, events>>

WatcherRuns ==
    /\ pc["watcher"] = "index"
    /\ ~shutdown
    /\ LockAndRead("watcher")
    /\ UNCHANGED <<repoVars, cancelled, stopVars, autoTid, watchVars,
                   jobVars, events>>

WatcherRunDone ==
    /\ FinishRun("watcher")
    /\ \/ Publish("watcher") /\ Goto("watcher", "after") /\ UNCHANGED polled
       \/ Fail /\ Goto("watcher", "idle") /\ polled' = {}
    /\ UNCHANGED <<repo, cancelled, stopVars, autoTid, watched, pending,
                   alive, st, watcherFreed, jobVars>>

\* poll_project after rc = 0: the current HEAD becomes last_head.
PollAfter ==
    /\ pc["watcher"] = "after"
    /\ st' = [s \in StateIds |-> IF s \in polled
                                 THEN [st[s] EXCEPT !.lastHead = repo.head]
                                 ELSE st[s]]
    /\ polled' = {}
    /\ Goto("watcher", "idle")
    /\ UNCHANGED <<repoVars, lock, snap, cancelled, stopVars, autoTid,
                   watched, pending, alive, watcherFreed, jobVars, events>>

\* A step of the poll on a state that has been freed under it.  The steps above
\* are what it does while the memory still holds the old state, or a new one;
\* with anything else in it the process dies, or the poll ends with nothing
\* done, or takes what it finds for a change.
PollFreed ==
    /\ pc["watcher"] \in {"project", "index", "after"}
    /\ ~(polled \subseteq alive)
    /\ \/ ProcessEnds
       \/ /\ \/ Goto("watcher", "idle") /\ polled' = {}
             \/ pc["watcher"] = "project" /\ Goto("watcher", "index") /\ UNCHANGED polled
          /\ UNCHANGED <<repoVars, lock, snap, cancelled, stopVars, autoTid, watched,
                         pending, alive, st, watcherFreed, jobVars, events>>

----------------------------------------------------------------------------
(* The HTTP server thread *)

HttpStops ==
    /\ Ready("http")
    /\ "http" \in stopped
    /\ Goto("http", "done")
    /\ UNCHANGED <<repoVars, lock, snap, cancelled, stopVars, autoTid,
                   watchVars, jobVars, events>>

\* DELETE /api/project: unlink without the pipeline lock.
HttpDeletes ==
    /\ Ready("http") /\ "http" \notin stopped
    /\ AnEvent
    /\ db # None
    /\ db' = None
    /\ UNCHANGED <<repo, lock, pc, snap, cancelled, stopVars, autoTid,
                   watchVars, jobVars>>

\* A slot is free unless its job is running.
FreeSlot(s) == jobs[s] # "running"

\* POST /api/index: the job thread forks; the child reads the tree.
StartJob ==
    /\ Ready("http") /\ "http" \notin stopped
    /\ AnEvent
    /\ \E s \in Slots :
         /\ FreeSlot(s)
         /\ \/ /\ jobs' = [jobs EXCEPT ![s] = "running"]
               /\ child' = [child EXCEPT ![s] = "running"]
               /\ snap' = [snap EXCEPT ![s] = repo.work]
            \/ /\ jobs' = [jobs EXCEPT ![s] = "error"]   \* no thread or fork
               /\ UNCHANGED <<child, snap>>
    /\ UNCHANGED <<repoVars, lock, pc, cancelled, stopVars, autoTid,
                   watchVars>>

\* The child indexes under the lock of its own process: it excludes nobody
\* here.
ChildEnds(s) ==
    /\ child[s] = "running"
    /\ snap' = [snap EXCEPT ![s] = None]
    /\ \/ child' = [child EXCEPT ![s] = "ok"] /\ Publish(s)
       \/ child' = [child EXCEPT ![s] = "failed"] /\ UNCHANGED <<db, events>>
    /\ UNCHANGED <<repo, lock, pc, cancelled, stopVars, autoTid, watchVars,
                   jobs>>

\* POST /api/process-kill accepts the child of a job that is running.
KillChild ==
    /\ Ready("http") /\ "http" \notin stopped
    /\ \E s \in Slots :
         /\ jobs[s] = "running" /\ child[s] = "running"
         /\ child' = [child EXCEPT ![s] = "failed"]
         /\ snap' = [snap EXCEPT ![s] = None]
    /\ UNCHANGED <<repoVars, lock, pc, cancelled, stopVars, autoTid,
                   watchVars, jobs, events>>

\* index_thread_fn: the WNOHANG loop reaps the child and drops its status in
\* an inner variable; the second waitpid has no child left, so the outer
\* wstatus keeps its initial 0 and every ended child counts as exit code 0.
JobReaped(s) ==
    /\ jobs[s] = "running"
    /\ child[s] # "running"
    /\ pc["main"] # "exited"
    /\ jobs' = [jobs EXCEPT ![s] = "done"]
    /\ child' = [child EXCEPT ![s] = "none"]
    /\ UNCHANGED <<repoVars, lock, pc, snap, cancelled, stopVars, autoTid,
                   watchVars, events>>

----------------------------------------------------------------------------
TakesLock(t) == IndexLock(t) \/ DeleteUnlink(t)

MainStep ==
    \/ TakesLock("main") \/ IndexDone("main")
    \/ DeleteUnwatch \/ LeaveLoop \/ JoinHttp \/ JoinWatcher \/ JoinAuto

WatcherStep ==
    \/ WatcherStops \/ PollOnce \/ InitBaseline \/ CheckChanges \/ WatcherSkips
    \/ WatcherRuns \/ WatcherRunDone \/ PollAfter \/ PollFreed

HttpStep ==
    \/ HttpStops \/ TakesLock("http") \/ IndexDone("http")

AutoStep(a) == IndexLock(a) \/ AutoDone(a) \/ AutoRegister(a) \/ UseFreedWatcher(a)
JobStep(s) == ChildEnds(s) \/ JobReaped(s)

\* What the user, the clients, the system and the parent may do, or not.
Outside ==
    \/ Edit \/ Commit \/ Initialize \/ EndOfInput \/ RequestShutdown
    \/ ParentDied \/ HttpDeletes \/ StartJob \/ KillChild
    \/ \E label \in {"lock", "delete"} : McpCall(label) \/ RpcCall(label)

Next ==
    \/ MainStep \/ WatcherStep \/ HttpStep \/ Outside
    \/ \E a \in AutoThreads : AutoStep(a)
    \/ \E s \in Slots : JobStep(s)

Spec == Init /\ [][Next]_vars

\* Threads are scheduled by the system and a pipeline run ends; nothing makes
\* a client, a user or a signal act.  A thread that waits for the lock tries it
\* every 100 ms (LOCK_SPIN_NS), and the watcher leaves it free for at least the
\* 5 s it sleeps between polls: taking the lock is strongly fair.
FairSpec ==
    /\ Spec
    /\ WF_vars(MainStep) /\ WF_vars(WatcherStep) /\ WF_vars(HttpStep)
    /\ \A t \in {"main", "http"} \cup AutoThreads : SF_vars(TakesLock(t))
    /\ \A a \in AutoThreads : WF_vars(AutoStep(a))
    /\ \A s \in Slots : WF_vars(JobStep(s))

----------------------------------------------------------------------------
(* Properties *)

\* pipeline.h: "Index lock (prevents concurrent pipeline runs on same DB)".
\* Among the threads of the process, until a shutdown clears the lock.
OneRunner ==
    ~shutdown => \A t, u \in Locals :
                   pc[t] = "run" /\ pc[u] = "run" => t = u

\* The watcher polls outside its mutex, and the state its snapshot points at is
\* freed under it by nothing but a registration that puts another in its place
\* (cbm_watcher_watch): not by a request or a delete, whose free is deferred
\* past the poll, and not by the shutdown, which joins the watcher first.
FreedUnderPoll(s) == s \in polled /\ s \in alive /\ s \in polled' /\ s \notin alive'

SnapshotFreedOnlyByWatch ==
    [][\A s \in StateIds :
         FreedUnderPoll(s) => watched = {s} /\ watched' \notin {{}, {s}}]_vars

\* watcher.c: "Defer free: the state may still be referenced by a poll_once
\* snapshot taken before we acquired the lock".  It holds of cbm_watcher_unwatch
\* alone.
PolledIsAlive == polled \subseteq alive

\* An index job's slot is not given to another job while its child runs.
SlotsAreExclusive == \A s \in Slots : child[s] = "running" => jobs[s] = "running"

\* Uncommitted edits of a watched project end up in its database, although
\* the watcher skips polls and other runs publish older trees in between.
Watching == watched # {} /\ ~shutdown /\ pc["main"] # "exited"
DirtyTreeIsIndexed ==
    <>[](Watching /\ repo.work # repo.head) => <>[](db = repo.work)

\* End of input, a signal or the parent's death ends the process, whichever
\* threads hold or wait for the pipeline lock, unless a thread is caught in the
\* watcher that main has freed.
ShutdownCompletes ==
    eof ~> (pc["main"] = "exited" \/ \E a \in AutoThreads : pc[a] = "stuck")

\* watcher.h: "Free the watcher. Precondition: cbm_watcher_stop() + thread join
\* must have completed."  The thread that is joined is the watcher's own.
FreedWatcherIsNotUsed ==
    [][\A a \in AutoThreads : ~UseFreedWatcher(a)]_vars

\* main.c, watcher_index_fn: "Watcher will retry on next poll cycle".  A
\* change the watcher saw while another pipeline held the lock is indexed
\* after all, by the watcher or by somebody else.
WatcherRetries ==
    (pc["watcher"] = "index" /\ lock /\ Watching)
      ~> (pc["watcher"] = "run" \/ db = repo.work \/ ~Watching)

\* /api/index-status reports a failed job as an error.
FailureIsReported ==
    [][\A s \in Slots : jobs[s] # "done" /\ jobs'[s] = "done" => child[s] = "ok"]_vars

============================================================================
