---------------------------- MODULE EventEngine ----------------------------
(***************************************************************************)
(* The event-sourced engine: cmd/pads ingests a directory (CodeGraph) and  *)
(* then, in a loop, tests every file the graph knows, commits one          *)
(* TEST_RESULT event per file to the log (L2), rebuilds the state of the   *)
(* nodes (L3, table graph_state) from the log and makes a task of every    *)
(* BROKEN node.  replay.Run and executor.Execute append events of their    *)
(* own.                                                                    *)
(*                                                                         *)
(* Every SQL statement is a step: only ClearFileNodes and the resolvers    *)
(* use transactions, a statement may fail, and the process may be killed   *)
(* between any two of them - Ctrl-C does just that, since main returns     *)
(* while the scheduler's goroutine is in the middle of a cycle.            *)
(*                                                                         *)
(* Bounds: MaxEdits edits of the disk, MaxCalls calls of the library       *)
(* between cycles, MaxMishaps kills and failing statements.                *)
(***************************************************************************)
EXTENDS CodeGraph, Sequences, FiniteSetsExt

CONSTANTS
    Passing,        \* the contents of a module whose tests pass
    MaxEdits, MaxCalls, MaxMishaps

ASSUME EngineAssumption ==
    /\ Passing \subseteq Contents
    /\ MaxEdits \in Nat /\ MaxCalls \in Nat /\ MaxMishaps \in Nat

VARIABLES
    log,            \* the events table, in sequence_id order
    links,          \* the event_nodes table
    view,           \* the graph_state table: node -> last event and its exit code
    at,             \* what the process does next
    toIngest,       \* the files main still has to ingest
    results,        \* per file tested in this cycle: hash, exit code, nodes
    todo,           \* the files, nodes or rows the current loop still has to do
    fresh,          \* the state the reducer has computed
    spent           \* the bounded environment: edits, calls, mishaps

local == <<toIngest, results, todo, fresh>>
vars == <<graphVars, log, links, view, at, local, spent>>

TestId(r) == <<"engine", r.file, r.hash, r.exit>>
Spend(what) == spent' = [spent EXCEPT ![what] = @ + 1]
Left(what, max) == spent[what] < max

Clean ==
    /\ toIngest' = {} /\ results' = << >> /\ todo' = {} /\ fresh' = << >>

Init ==
    /\ GraphInit
    /\ log = << >> /\ links = {} /\ view = << >>
    /\ at = "down"
    /\ toIngest = {} /\ results = << >> /\ todo = {} /\ fresh = << >>
    /\ spent = [edits |-> 0, calls |-> 0, mishaps |-> 0]

(***************************************************************************)
(* The log.  INSERT OR IGNORE: an event whose id is known is dropped, and  *)
(* the caller is not told.                                                 *)
(***************************************************************************)
Known(id) == \E i \in DOMAIN log : log[i].id = id

InsertEvent(id, type, exit) ==
    log' = IF Known(id) THEN log ELSE Append(log, [id |-> id, type |-> type, exit |-> exit])

(***************************************************************************)
(* The reducer.  Only test results (and OS_EXEC_RESULT, which nothing      *)
(* emits) say anything about a node, and the last one in the log counts.   *)
(***************************************************************************)
Concluded(n) ==
    {i \in DOMAIN log : log[i].type = "TEST_RESULT" /\ <<log[i].id, n>> \in links}

Judged == {n \in Ids : Concluded(n) # {}}
Verdict(n) == log[CHOOSE i \in Concluded(n) : \A j \in Concluded(n) : j <= i]
Reduce == [n \in Judged |-> [event |-> Verdict(n).id, exit |-> Verdict(n).exit]]

(***************************************************************************)
(* main: the directory is ingested first if -ingest is given.  A file that *)
(* cannot be ingested is skipped.                                          *)
(***************************************************************************)
Start(dir) ==
    /\ at = "down"
    /\ at' = "ingest" /\ toIngest' = dir
    /\ UNCHANGED <<graphVars, log, links, view, results, todo, fresh, spent>>

NextFile == Min(toIngest)

Ingests ==
    /\ at = "ingest" /\ toIngest # {}
    /\ Parse(NextFile)
    /\ toIngest' = toIngest \ {NextFile}
    /\ UNCHANGED <<log, links, view, at, results, todo, fresh, spent>>

SkipsFile ==
    /\ at = "ingest" /\ toIngest # {} /\ job = Idle
    /\ disk[NextFile] \notin Parsable
    /\ toIngest' = toIngest \ {NextFile}
    /\ UNCHANGED <<graphVars, log, links, view, at, results, todo, fresh, spent>>

JobStep ==
    /\ \/ HashParsed \/ ClearFileNodes \/ InsertNode \/ NodesDone
       \/ InsertEdge \/ ResolveOne \/ JobEnds
    /\ UNCHANGED <<log, links, view, at, local, spent>>

JobErrs ==
    /\ Left("mishaps", MaxMishaps) /\ Spend("mishaps")
    /\ JobFails \/ ResolveSkips
    /\ UNCHANGED <<log, links, view, at, local>>

\* A file that has gone since it was parsed has no hash.
FileGone ==
    /\ job.at = "hash" /\ disk[job.file] = NoContent /\ JobFails
    /\ UNCHANGED <<log, links, view, at, local, spent>>

IngestDone ==
    /\ at = "ingest" /\ toIngest = {} /\ job = Idle
    /\ at' = "snapshot"
    /\ UNCHANGED <<graphVars, log, links, view, local, spent>>

(***************************************************************************)
(* engine.RunOnce, phases 1 and 2.  Nobody else writes the graph: the      *)
(* snapshot of phase 1 is the nodes table.  The tests are those of the     *)
(* whole module, run once per file, on the disk as it is by then.          *)
(***************************************************************************)
BuildSnapshot ==
    /\ at = "snapshot"
    /\ at' = "hash" /\ results' = << >>
    /\ todo' = {nodes[n].file : n \in DOMAIN nodes}
    /\ UNCHANGED <<graphVars, log, links, view, toIngest, fresh, spent>>

Current == Min(todo)

HashFile ==
    /\ at = "hash" /\ todo # {} /\ disk[Current] # NoContent
    /\ results' = Append(results, [file |-> Current, hash |-> disk[Current],
                                   exit |-> 0, nodes |-> OwnedBy(Current)])
    /\ at' = "test"
    /\ UNCHANGED <<graphVars, log, links, view, toIngest, todo, fresh, spent>>

\* A file that cannot be read has no result.
SkipUnreadable ==
    /\ at = "hash" /\ todo # {} /\ disk[Current] = NoContent
    /\ todo' = todo \ {Current}
    /\ UNCHANGED <<graphVars, log, links, view, at, toIngest, results, fresh, spent>>

RunGoTest ==
    /\ at = "test"
    /\ LET passes == \A f \in Files : disk[f] \in Passing \union {NoContent}
       IN  results' = [results EXCEPT ![Len(results)].exit = IF passes THEN 0 ELSE 1]
    /\ todo' = todo \ {Current} /\ at' = "hash"
    /\ UNCHANGED <<graphVars, log, links, view, toIngest, fresh, spent>>

(***************************************************************************)
(* Phase 3, commitResults: four statements per result.                     *)
(***************************************************************************)
Commits ==
    /\ at = "hash" /\ todo = {}
    /\ at' = "clear" /\ todo' = DOMAIN results
    /\ UNCHANGED <<graphVars, log, links, view, toIngest, results, fresh, spent>>

Result == results[Min(todo)]

\* Mutant: the old rows stay until the table is rebuilt.
ClearStateOfFileLater ==
    /\ at = "clear" /\ todo # {}
    /\ at' = "event"
    /\ UNCHANGED <<graphVars, log, links, view, local, spent>>

\* Mutant: the links of the file's nodes go with their rows.
ClearStateAndLinks ==
    /\ at = "clear" /\ todo # {}
    /\ view' = Restrict(view, DOMAIN view \ OwnedBy(Result.file))
    /\ links' = {l \in links : l[2] \notin OwnedBy(Result.file)}
    /\ at' = "event"
    /\ UNCHANGED <<graphVars, log, local, spent>>

ClearStateOfFile ==
    /\ at = "clear" /\ todo # {}
    /\ view' = Restrict(view, DOMAIN view \ OwnedBy(Result.file))
    /\ at' = "event"
    /\ UNCHANGED <<graphVars, log, links, local, spent>>

CommitEvent ==
    /\ at = "event"
    /\ InsertEvent(TestId(Result), "TEST_RESULT", Result.exit)
    /\ at' = "link"
    /\ UNCHANGED <<graphVars, links, view, local, spent>>

Unlinked == {n \in Result.nodes : <<TestId(Result), n>> \notin links}

LinkNode ==
    /\ at = "link" /\ Unlinked # {}
    /\ links' = links \union {<<TestId(Result), NextOf(Unlinked)>>}
    /\ UNCHANGED <<graphVars, log, view, at, local, spent>>

UpdateFileHash ==
    /\ at = "link" /\ Unlinked = {}
    /\ nodes' = [n \in DOMAIN nodes |-> IF n \in OwnedBy(Result.file)
                                        THEN [nodes[n] EXCEPT !.hash = Result.hash] ELSE nodes[n]]
    /\ todo' = todo \ {Min(todo)} /\ at' = "clear"
    /\ UNCHANGED <<disk, edges, job, log, links, view, toIngest, results, fresh, spent>>

(***************************************************************************)
(* The reduction: the log is folded in memory, then the table is emptied   *)
(* and filled row by row, in the order of a Go map.                        *)
(***************************************************************************)
\* Mutant: only the nodes that are in the graph are reduced.
ReadLogOfGraph ==
    /\ at = "clear" /\ todo = {}
    /\ fresh' = Restrict(Reduce, Judged \cap DOMAIN nodes) /\ at' = "empty"
    /\ UNCHANGED <<graphVars, log, links, view, toIngest, results, todo, spent>>

ReadLog ==
    /\ at = "clear" /\ todo = {}
    /\ fresh' = Reduce /\ at' = "empty"
    /\ UNCHANGED <<graphVars, log, links, view, toIngest, results, todo, spent>>

ClearGraphState ==
    /\ at = "empty"
    /\ view' = << >> /\ todo' = DOMAIN fresh /\ at' = "fill"
    /\ UNCHANGED <<graphVars, log, links, toIngest, results, fresh, spent>>

UpsertState(n) ==
    /\ at = "fill" /\ n \in todo
    /\ view' = [i \in DOMAIN view \union {n} |-> IF i = n THEN fresh[n] ELSE view[i]]
    /\ todo' = todo \ {n}
    /\ UNCHANGED <<graphVars, log, links, at, toIngest, results, fresh, spent>>

Reduced ==
    /\ at = "fill" /\ todo = {}
    /\ at' = "reduced" /\ fresh' = << >>
    /\ UNCHANGED <<graphVars, log, links, view, toIngest, results, todo, spent>>

\* An error of any statement of RunOnce ends it; the scheduler logs it.
RunFails ==
    /\ at \in {"snapshot", "clear", "event", "link", "empty", "fill"}
    /\ Left("mishaps", MaxMishaps) /\ Spend("mishaps")
    /\ at' = "failed" /\ Clean
    /\ UNCHANGED <<graphVars, log, links, view>>

(***************************************************************************)
(* agent.RunOnce makes a task of every BROKEN row whose node is there.     *)
(* The agent of the daemon only logs; the tasks change nothing.            *)
(***************************************************************************)
BuildTasks == {n \in DOMAIN view \cap DOMAIN nodes : view[n].exit # 0}

AgentCycle ==
    /\ at \in {"reduced", "failed"}
    /\ at' = "sleep" /\ Clean /\ todo' = {}
    /\ UNCHANGED <<graphVars, log, links, view, spent>>

Wakes ==
    /\ at = "sleep" /\ job = Idle
    /\ at' = "snapshot"
    /\ UNCHANGED <<graphVars, log, links, view, local, spent>>

(***************************************************************************)
(* Between two cycles a caller of the library may resolve calls, replay a  *)
(* snapshot or execute a plan on the same database.                        *)
(***************************************************************************)
Resolves ==
    /\ at = "sleep" /\ (ListOpen \/ ResolveAll)
    /\ Left("calls", MaxCalls) /\ Spend("calls")
    /\ UNCHANGED <<log, links, view, at, local>>

\* The id of a replay is the hash of the files the graph knows.
ReplayId == <<"replay", [f \in {nodes[n].file : n \in DOMAIN nodes} |-> disk[f]]>>

\* replay.Run: the outcome is that of another workspace, with the files
\* flattened into one directory.
Replays(exit) ==
    /\ at = "sleep" /\ job = Idle
    /\ Left("calls", MaxCalls) /\ Spend("calls")
    /\ InsertEvent(ReplayId, "REPLAY_RESULT", exit)
    /\ at' = "replayed" /\ todo' = DOMAIN nodes
    /\ results' = <<[file |-> 0, hash |-> ReplayId, exit |-> exit, nodes |-> {}]>>
    /\ UNCHANGED <<graphVars, links, view, toIngest, fresh>>

LinkReplay ==
    /\ at = "replayed" /\ todo # {}
    /\ links' = links \union {<<results[1].hash, NextOf(todo)>>}
    /\ todo' = todo \ {NextOf(todo)}
    /\ UNCHANGED <<graphVars, log, view, at, toIngest, results, fresh, spent>>

ReplayEnds ==
    /\ at = "replayed" /\ (todo = {} \/ Left("mishaps", MaxMishaps))
    /\ at' = "sleep" /\ Clean
    /\ UNCHANGED <<graphVars, log, links, view, spent>>

\* executor.Execute writes a file and then audits the action, under an id
\* made of the kind, the target and the process.
Executes(f, c) ==
    /\ at = "sleep" /\ job = Idle
    /\ Left("calls", MaxCalls) /\ Spend("calls")
    /\ disk' = [disk EXCEPT ![f] = c]
    /\ at' = "executed" /\ todo' = {f}
    /\ UNCHANGED <<nodes, edges, job, log, links, view, toIngest, results, fresh>>

Audits ==
    /\ at = "executed"
    /\ \E f \in todo : InsertEvent(<<"exec", f>>, "EXECUTOR_ACTION", 0)
    /\ at' = "sleep" /\ todo' = {}
    /\ UNCHANGED <<graphVars, links, view, toIngest, results, fresh, spent>>

(***************************************************************************)
(* The environment.                                                        *)
(***************************************************************************)
Edit(f, c) ==
    /\ Left("edits", MaxEdits) /\ Spend("edits")
    /\ disk[f] # c /\ disk' = [disk EXCEPT ![f] = c]
    /\ UNCHANGED <<nodes, edges, job, log, links, view, at, local>>

Kill ==
    /\ at # "down" /\ Left("mishaps", MaxMishaps) /\ Spend("mishaps")
    /\ at' = "down" /\ job' = Idle /\ Clean
    /\ UNCHANGED <<disk, nodes, edges, log, links, view>>

Engine ==
    \/ Ingests \/ SkipsFile \/ JobStep \/ FileGone \/ IngestDone
    \/ BuildSnapshot \/ HashFile \/ SkipUnreadable \/ RunGoTest
    \/ Commits \/ ClearStateOfFile \/ CommitEvent \/ UpdateFileHash
    \/ ReadLog \/ ClearGraphState \/ Reduced \/ AgentCycle \/ Wakes
    \/ LinkNode \/ LinkReplay \/ ReplayEnds \/ Audits
    \/ \E n \in Ids : UpsertState(n)

Others ==
    \/ \E dir \in {{}, Files} : Start(dir)
    \/ JobErrs \/ RunFails \/ Resolves \/ Kill
    \/ \E exit \in {0, 1} : Replays(exit)
    \/ \E f \in Files, c \in Contents : Executes(f, c)
    \/ \E f \in Files, c \in Contents \union {NoContent} : Edit(f, c)

Next == Engine \/ Others

Spec == Init /\ [][Next]_vars

\* A running process keeps running: nothing in it waits for anything but
\* the disk, the database and the tests.
FairSpec == Spec /\ WF_vars(Engine)

(***************************************************************************)
(* Properties.                                                             *)
(***************************************************************************)
Rows == [event: {log[i].id : i \in DOMAIN log}, exit: {0, 1}]

\* The types of the tables and of the process.
TypeOK ==
    /\ GraphTypeOK
    /\ \A i \in DOMAIN log : log[i].exit \in {0, 1}
    /\ DOMAIN view \subseteq Ids /\ \A n \in DOMAIN view : view[n] \in Rows
    /\ \A l \in links : l[2] \in Ids
    /\ toIngest \subseteq Files

\* graph_state is a view of the log: at every moment, whatever was killed or
\* failed half-way, a row says what the last test result linked to its node
\* says, or the row is missing.  commitResults has to empty the rows of a file
\* before it touches the events, since the table is only rebuilt at the end.
ViewNeverStale ==
    \A n \in DOMAIN view :
        /\ n \in Judged
        /\ view[n].event = Verdict(n).id /\ view[n].exit = Verdict(n).exit

\* Rows that are missing come back: after whatever failed, each node some
\* test result is linked to has a row again, or the process is killed first.
ViewHeals == DOMAIN view # Judged ~> (DOMAIN view = Judged \/ at = "down")

\* A verdict names the test result it rests on and its exit code.
Verdicts == [event: {"engine"} \X Files \X Contents \X {0, 1}, exit: {0, 1}]

Table == INSTANCE MaterializedView
           WITH Nodes <- Ids, Verdicts <- Verdicts, truth <- Reduce, shown <- view

\* graph_state is a materialised view of the log: commitResults changes what the log says
\* of a node while its row is gone, and one node at a time; the reducer brings rows back
\* and overwrites none; and the log never forgets that a node was judged (engine.go:129-162,
\* loop.go:43-75).
ImplementsView == Table!Spec

\* engine.go:53, "Update L3 from the new events": after a cycle each node
\* shows what its file was just found to be.
CycleShown ==
    at = "reduced" =>
        \A i \in DOMAIN results : \A n \in results[i].nodes :
            n \in DOMAIN view /\ view[n].exit = results[i].exit
=============================================================================
