-------------------------- MODULE EventEngineProofs --------------------------
(***************************************************************************)
(* Proofs about EventEngine and the graph it writes, for every set of      *)
(* files and contents, whatever they declare, and every bound.             *)
(***************************************************************************)
EXTENDS EventEngine, FiniteSetTheorems, SequenceTheorems, TLAPS

-----------------------------------------------------------------------------
(* Least and greatest elements *)

\* A set of naturals has a least element: no initial segment of Nat has infinitely many
\* smaller ones.
LEMMA LeastNat ==
    ASSUME NEW T \in SUBSET Nat, T # {}
    PROVE  \E x \in T : \A y \in T : x <= y
<1> DEFINE Segments == {0 .. x : x \in T}
<1>1. Segments \subseteq FiniteSubsetsOf(Nat) /\ Segments # {}
  <2>1. ASSUME NEW x \in T
        PROVE  0 .. x \in FiniteSubsetsOf(Nat)
    <3>1. IsFiniteSet(0 .. x)
      BY FS_Interval
    <3> QED
      BY <3>1 DEF FiniteSubsetsOf
  <2> QED
    BY <2>1
<1>2. PICK s \in Segments : \A t \in Segments : ~ (<<t, s>> \in StrictSubsetOrdering(Nat))
  <2>1. IsWellFoundedOn(StrictSubsetOrdering(Nat), FiniteSubsetsOf(Nat))
    BY FS_StrictSubsetOrderingWellFounded
  <2> HIDE DEF Segments
  <2> QED
    BY <1>1, <2>1, WFMin
<1>3. PICK x \in T : s = 0 .. x
  BY <1>2
<1>4. ASSUME NEW y \in T, y < x
      PROVE  FALSE
  <2>1. /\ 0 .. y \in SUBSET Nat /\ 0 .. x \in SUBSET Nat
        /\ 0 .. y \subseteq 0 .. x /\ x \in 0 .. x /\ x \notin 0 .. y
    BY <1>4
  <2>2. <<0 .. y, s>> \in StrictSubsetOrdering(Nat)
    BY <1>3, <2>1 DEF StrictSubsetOrdering
  <2> QED
    BY <1>2, <2>2
<1> QED
  BY <1>4

LEMMA MinMember ==
    ASSUME NEW T \in SUBSET Nat, T # {}
    PROVE  Min(T) \in T
BY LeastNat DEF Min

\* So has a set with a bound a greatest one.
LEMMA GreatestUpTo ==
    ASSUME NEW N \in Nat, NEW T \in SUBSET (1 .. N), T # {}
    PROVE  \E x \in T : \A y \in T : y <= x
<1> DEFINE Mirror == {N - x : x \in T}
<1>1. Mirror \in SUBSET Nat /\ Mirror # {}
  OBVIOUS
<1>2. PICK m \in Mirror : \A y \in Mirror : m <= y
  BY <1>1, LeastNat
<1>3. PICK x \in T : m = N - x
  BY <1>2
<1>4. \A y \in T : N - x <= N - y
  BY <1>2, <1>3
<1> QED
  BY <1>4

-----------------------------------------------------------------------------
(* The inductive invariant: types *)

JobStates == {"none", "hash", "clear", "nodes", "edges", "resolve"}
Jobs == [at : JobStates, file : Files \cup {0}, parsed : Contents \cup {NoContent},
         hash : Contents \cup {NoContent}, todo : SUBSET (Ids \cup Edges)]

EventIds == ({"engine"} \X Files \X Contents \X {0, 1})
            \cup ({"replay"} \X UNION {[S -> Contents \cup {NoContent}] : S \in SUBSET Files})
            \cup ({"exec"} \X Files)
EventTypes == {"TEST_RESULT", "REPLAY_RESULT", "EXECUTOR_ACTION"}
LoggedEvents == [id : EventIds, type : EventTypes, exit : {0, 1}]
FileResults == [file : Files, hash : Contents, exit : {0, 1}, nodes : SUBSET Ids]

TablesTyped ==
    /\ GraphTypeOK /\ job \in Jobs
    /\ log \in Seq(LoggedEvents) /\ links \subseteq EventIds \X Ids
    /\ toIngest \subseteq Files

-----------------------------------------------------------------------------
(* The graph *)

\* What the ingestion or the resolution under way relies on: the nodes of the parsed
\* file that are not to do are in the table, and all of them once its edges go in; an
\* open call starts in a node.
JobInv ==
    /\ job.at \in {"hash", "clear", "nodes", "edges"} => job.file \in Files /\ job.parsed \in Contents
    /\ job.at \in {"clear", "nodes"} => job.hash \in Contents
    /\ job.at = "nodes" => /\ job.todo \subseteq Declares[job.parsed]
                           /\ Declares[job.parsed] \ job.todo \subseteq DOMAIN nodes
    /\ job.at = "edges" => /\ job.todo \subseteq FileEdges(job.file, job.parsed)
                           /\ Declares[job.parsed] \subseteq DOMAIN nodes
    /\ job.at = "resolve" => \A e \in job.todo :
         e \in Edges /\ e[1] \in DOMAIN nodes /\ \E n \in Names : e[2] = Unresolved[n]

GraphInv == JobInv /\ EdgesGrounded

-----------------------------------------------------------------------------
(* The cycle *)

\* The graph is only written while a directory is ingested and between two cycles.
QuietGraph == at \notin {"ingest", "sleep"} => job.at = "none"

\* What each phase of RunOnce, and of the library's calls, has to do.  Nobody moves a
\* node to another file while a cycle runs.
PhaseInv ==
    /\ at \in {"hash", "test"} => todo \subseteq Files
    /\ at = "test" => todo # {} /\ results # << >>
    /\ at \in {"hash", "test", "clear", "event", "link"} =>
         /\ results \in Seq(FileResults)
         /\ \A i \in DOMAIN results : results[i].nodes = OwnedBy(results[i].file)
    /\ at \in {"clear", "event", "link"} => todo \subseteq DOMAIN results
    /\ at \in {"event", "link"} => todo # {}
    /\ at = "replayed" => /\ results[1].hash \in EventIds /\ results[1].hash[1] = "replay"
                          /\ Known(results[1].hash) /\ todo \subseteq Ids
    /\ at = "executed" => todo \subseteq Files

\* Only an event of the log is linked, and a test result has the id of one.
LogInv ==
    /\ \A l \in links : Known(l[1])
    /\ \A i \in DOMAIN log : log[i].type = "TEST_RESULT" => log[i].id[1] = "engine"

\* The rows of the table are the reducer's; those of the file whose result is being
\* committed are gone; the fold in memory stays what the log says.
ViewInv ==
    /\ \A n \in DOMAIN view : n \in Judged /\ view[n] = Reduce[n]
    /\ at \in {"event", "link"} => DOMAIN view \cap Result.nodes = {}
    /\ at = "link" => Known(TestId(Result))
    /\ at \in {"empty", "fill"} => fresh = Reduce
    /\ at = "fill" => todo \subseteq DOMAIN fresh \ DOMAIN view

Inv == TablesTyped /\ GraphInv /\ QuietGraph /\ PhaseInv /\ LogInv /\ ViewInv

-----------------------------------------------------------------------------
(* The steps of the graph *)

LEMMA FilesAreNat == Files \subseteq Nat
BY GraphAssumption DEF Files

LEMMA NextOfMember ==
    ASSUME NEW S, S # {}
    PROVE  NextOf(S) \in S
BY DEF NextOf

\* What a content contributes is made of nodes it declares, and of marks.
LEMMA FileEdgesGrounded ==
    ASSUME NEW f \in Files, NEW c \in Contents, NEW e \in FileEdges(f, c)
    PROVE  /\ e \in Edges
           /\ e[3] = "CONTAINS" => e[2] \in Declares[c]
           /\ e[3] = "CALLS" => /\ e[1] \in Declares[c]
                                /\ e[2] \in Declares[c] \cup {Unresolved[n] : n \in Names}
<1>1. /\ Declares[c] \subseteq Ids /\ ImportsIn[c] \subseteq Paths /\ FileNode[f] \in Paths
      /\ CallsIn[c] \subseteq Ids \X Names
      /\ \A call \in CallsIn[c] : call[1] \in Declares[c]
      /\ \A n \in Names : Unresolved[n] \in Paths
  BY GraphAssumption
<1>2. CASE e \in {<<FileNode[f], id, "CONTAINS">> : id \in Declares[c]}
  BY <1>1, <1>2 DEF Edges, Ends
<1>3. CASE e \in {<<FileNode[f], p, "IMPORTS">> : p \in ImportsIn[c]}
  BY <1>1, <1>3 DEF Edges, Ends
<1>4. CASE e \in UNION {{<<call[1], t, "CALLS">> : t \in Callees(c, call[2])} : call \in CallsIn[c]}
  <2>1. PICK call \in CallsIn[c] : \E t \in Callees(c, call[2]) : e = <<call[1], t, "CALLS">>
    BY <1>4
  <2>2. PICK t \in Callees(c, call[2]) : e = <<call[1], t, "CALLS">>
    BY <2>1
  <2>3. call[2] \in Names /\ call[1] \in Declares[c]
    BY <1>1
  <2>4. t \in Declares[c] \cup {Unresolved[n] : n \in Names}
    BY <2>3 DEF Callees, Local
  <2>5. t \in Ends /\ call[1] \in Ends
    BY <1>1, <2>3, <2>4 DEF Ends
  <2> QED
    BY <2>2, <2>3, <2>4, <2>5 DEF Edges
<1> QED
  BY <1>2, <1>3, <1>4 DEF FileEdges

LEMMA MatchesAreNodes ==
    ASSUME NEW name
    PROVE  ByPattern(name) \subseteq DOMAIN nodes /\ ByTable(name) \subseteq DOMAIN nodes
BY DEF ByPattern, ByTable, Prefer, First

\* The steps of the ingestion keep the tables together.
GraphSafe == GraphTypeOK /\ job \in Jobs /\ GraphInv

LEMMA IdleIsSafe ==
    ASSUME GraphSafe, job' = Idle, UNCHANGED <<disk, nodes, edges>>
    PROVE  GraphSafe'
BY DEF GraphSafe, GraphTypeOK, GraphInv, JobInv, EdgesGrounded, Jobs, JobStates, Idle

LEMMA ParseSafe ==
    ASSUME NEW f \in Files, GraphSafe, Parse(f)
    PROVE  GraphSafe'
<1>1. job' = [Idle EXCEPT !.at = "hash", !.file = f, !.parsed = disk[f]]
      /\ UNCHANGED <<disk, nodes, edges>> /\ disk[f] \in Contents
  BY GraphAssumption DEF Parse
<1>2. job' \in Jobs
  BY <1>1 DEF Jobs, JobStates, Idle
<1> QED
  BY <1>1, <1>2 DEF GraphSafe, GraphTypeOK, GraphInv, JobInv, EdgesGrounded, Idle

LEMMA HashParsedSafe ==
    ASSUME GraphSafe, HashParsed
    PROVE  GraphSafe'
<1>1. /\ job' = [job EXCEPT !.at = "clear", !.hash = disk[job.file]] /\ job.at = "hash"
      /\ UNCHANGED <<disk, nodes, edges>> /\ disk[job.file] \in Contents
  BY DEF HashParsed, GraphSafe, GraphInv, JobInv, GraphTypeOK
<1>2. job' \in Jobs
  BY <1>1 DEF Jobs, JobStates, GraphSafe
<1> QED
  BY <1>1, <1>2 DEF GraphSafe, GraphTypeOK, GraphInv, JobInv, EdgesGrounded, Jobs

\* An edge that stays touches no node that goes.
LEMMA ClearFileNodesSafe ==
    ASSUME GraphSafe, ClearFileNodes
    PROVE  GraphSafe'
<1> DEFINE gone == OwnedBy(job.file)
<1>1. /\ job' = [job EXCEPT !.at = "nodes", !.todo = Declares[job.parsed]] /\ job.at = "clear"
      /\ edges' = {e \in edges : e[1] \notin gone /\ e[2] \notin gone}
      /\ nodes' = [n \in DOMAIN nodes \ gone |-> nodes[n]] /\ disk' = disk
  BY DEF ClearFileNodes, Restrict
<1>2. job.parsed \in Contents /\ job.file \in Files /\ job.hash \in Contents
      /\ Declares[job.parsed] \subseteq Ids
  BY <1>1, GraphAssumption DEF GraphSafe, GraphInv, JobInv
<1>3. job' \in Jobs
  BY <1>1, <1>2 DEF Jobs, JobStates, GraphSafe
<1> HIDE DEF gone
<1>4. GraphTypeOK'
  BY <1>1 DEF GraphSafe, GraphTypeOK, Jobs
<1>5. EdgesGrounded'
  <2> SUFFICES ASSUME NEW e \in edges'
               PROVE  /\ e[3] = "CONTAINS" => e[2] \in DOMAIN nodes'
                      /\ e[3] = "CALLS" => /\ e[1] \in DOMAIN nodes'
                                           /\ e[2] \in DOMAIN nodes' \union {Unresolved[n] : n \in Names}
    BY DEF EdgesGrounded
  <2>1. e \in edges /\ e[1] \notin gone /\ e[2] \notin gone
    BY <1>1
  <2> QED
    BY <1>1, <2>1 DEF GraphSafe, GraphInv, EdgesGrounded
<1>6. JobInv'
  BY <1>1, <1>2 DEF JobInv, GraphSafe, Jobs
<1> QED
  BY <1>3, <1>4, <1>5, <1>6 DEF GraphSafe, GraphInv

LEMMA InsertNodeSafe ==
    ASSUME GraphSafe, InsertNode
    PROVE  GraphSafe' /\ job.at # "none"
<1> DEFINE id == NextOf(job.todo)
<1>1. /\ job.at = "nodes" /\ id \in job.todo /\ UNCHANGED <<disk, edges>>
      /\ job' = [job EXCEPT !.todo = @ \ {id}]
      /\ nodes' = [i \in DOMAIN nodes \union {id} |->
                     IF i \in DOMAIN nodes THEN nodes[i] ELSE [file |-> job.file, hash |-> job.hash]]
  BY NextOfMember DEF InsertNode
<1> HIDE DEF id
<1>2. /\ job.parsed \in Contents /\ job.file \in Files /\ job.hash \in Contents
      /\ job.todo \subseteq Declares[job.parsed] /\ Declares[job.parsed] \subseteq Ids
  BY <1>1, GraphAssumption DEF GraphSafe, GraphInv, JobInv
<1>3. job' \in Jobs
  BY <1>1 DEF Jobs, GraphSafe
<1>4. GraphTypeOK'
  BY <1>1, <1>2 DEF GraphSafe, GraphTypeOK, Jobs
<1>5. EdgesGrounded'
  BY <1>1 DEF GraphSafe, GraphInv, EdgesGrounded
<1>6. JobInv'
  BY <1>1, <1>2 DEF JobInv, GraphSafe, GraphInv, Jobs
<1> QED
  BY <1>1, <1>3, <1>4, <1>5, <1>6 DEF GraphSafe, GraphInv

LEMMA NodesDoneSafe ==
    ASSUME GraphSafe, NodesDone
    PROVE  GraphSafe'
<1>1. /\ job.at = "nodes" /\ job.todo = {} /\ UNCHANGED <<disk, nodes, edges>>
      /\ job' = [job EXCEPT !.at = "edges", !.todo = FileEdges(job.file, job.parsed)]
  BY DEF NodesDone
<1>2. /\ job.parsed \in Contents /\ job.file \in Files
      /\ Declares[job.parsed] \subseteq DOMAIN nodes
  BY <1>1 DEF GraphSafe, GraphInv, JobInv
<1>3. FileEdges(job.file, job.parsed) \subseteq Edges
  BY <1>2, FileEdgesGrounded
<1>4. job' \in Jobs
  BY <1>1, <1>3 DEF Jobs, JobStates, GraphSafe
<1> QED
  BY <1>1, <1>2, <1>4 DEF GraphSafe, GraphTypeOK, GraphInv, JobInv, EdgesGrounded, Jobs

LEMMA InsertEdgeSafe ==
    ASSUME GraphSafe, InsertEdge
    PROVE  GraphSafe'
<1> DEFINE e == NextOf(job.todo)
<1>1. /\ job.at = "edges" /\ e \in job.todo /\ UNCHANGED <<disk, nodes>>
      /\ job' = [job EXCEPT !.todo = @ \ {e}] /\ edges' = edges \union {e}
  BY NextOfMember DEF InsertEdge
<1> HIDE DEF e
<1>2. /\ job.parsed \in Contents /\ job.file \in Files /\ e \in FileEdges(job.file, job.parsed)
      /\ Declares[job.parsed] \subseteq DOMAIN nodes
  BY <1>1 DEF GraphSafe, GraphInv, JobInv
<1>3. /\ e \in Edges
      /\ e[3] = "CONTAINS" => e[2] \in DOMAIN nodes
      /\ e[3] = "CALLS" => /\ e[1] \in DOMAIN nodes
                           /\ e[2] \in DOMAIN nodes \cup {Unresolved[n] : n \in Names}
  BY <1>2, FileEdgesGrounded
<1>4. job' \in Jobs
  BY <1>1 DEF Jobs, GraphSafe
<1>5. EdgesGrounded'
  BY <1>1, <1>3 DEF GraphSafe, GraphInv, EdgesGrounded
<1>6. JobInv'
  BY <1>1, <1>2 DEF JobInv, GraphSafe, GraphInv, Jobs
<1>7. GraphTypeOK'
  BY <1>1, <1>3 DEF GraphSafe, GraphTypeOK, Jobs
<1> QED
  BY <1>4, <1>5, <1>6, <1>7 DEF GraphSafe, GraphInv

\* A call that was resolved goes from a node to a node.
LEMMA ResolvedCall ==
    ASSUME GraphSafe, NEW e \in Edges, e[1] \in DOMAIN nodes, NEW id \in DOMAIN nodes
    PROVE  LET new == <<e[1], id, "CALLS">>
           IN  new \in Edges /\ new[1] \in DOMAIN nodes /\ new[2] \in DOMAIN nodes
               /\ new[3] = "CALLS"
BY DEF GraphSafe, GraphTypeOK, Edges, Ends

LEMMA ListOpenSafe ==
    ASSUME GraphSafe, ListOpen
    PROVE  GraphSafe'
<1>1. job' = [Idle EXCEPT !.at = "resolve", !.todo = Open] /\ UNCHANGED <<disk, nodes, edges>>
  BY DEF ListOpen
<1>2. \A e \in Open : e \in Edges /\ e[1] \in DOMAIN nodes /\ \E n \in Names : e[2] = Unresolved[n]
  BY DEF Open, GraphSafe, GraphTypeOK, GraphInv, EdgesGrounded
<1>3. job' \in Jobs
  BY <1>1, <1>2 DEF Jobs, JobStates, Idle
<1> QED
  BY <1>1, <1>2, <1>3 DEF GraphSafe, GraphTypeOK, GraphInv, JobInv, EdgesGrounded, Idle

LEMMA ResolveOneSafe ==
    ASSUME GraphSafe, ResolveOne
    PROVE  GraphSafe'
<1> DEFINE e == NextOf(job.todo)
<1>1. /\ job.at = "resolve" /\ e \in job.todo /\ UNCHANGED <<disk, nodes>>
      /\ job' = [job EXCEPT !.todo = @ \ {e}]
      /\ \/ \E id \in ByPattern(Called(e)) : edges' = ReplaceCall(e, id)
         \/ edges' = edges
  BY NextOfMember DEF ResolveOne
<1> HIDE DEF e
<1>2. e \in Edges /\ e[1] \in DOMAIN nodes
  BY <1>1 DEF GraphSafe, GraphInv, JobInv
<1>3. job' \in Jobs
  BY <1>1 DEF Jobs, GraphSafe
<1>4. edges' \subseteq Edges /\ EdgesGrounded'
  <2>1. CASE edges' = edges
    BY <1>1, <2>1 DEF GraphSafe, GraphTypeOK, GraphInv, EdgesGrounded
  <2>2. CASE \E id \in ByPattern(Called(e)) : edges' = ReplaceCall(e, id)
    <3>1. PICK id \in ByPattern(Called(e)) : edges' = (edges \ {e}) \union {<<e[1], id, "CALLS">>}
      BY <2>2 DEF ReplaceCall
    <3>2. id \in DOMAIN nodes
      BY <3>1, MatchesAreNodes
    <3> DEFINE new == <<e[1], id, "CALLS">>
    <3>3. new \in Edges /\ new[1] \in DOMAIN nodes /\ new[2] \in DOMAIN nodes /\ new[3] = "CALLS"
      BY <1>2, <3>2, ResolvedCall
    <3>4. edges' \subseteq edges \cup {new}
      BY <3>1
    <3> HIDE DEF new
    <3> QED
      BY <1>1, <3>3, <3>4 DEF GraphSafe, GraphTypeOK, GraphInv, EdgesGrounded
  <2> QED
    BY <1>1, <2>1, <2>2
<1>5. JobInv'
  BY <1>1 DEF JobInv, GraphSafe, GraphInv, Jobs
<1>6. GraphTypeOK'
  BY <1>1, <1>4 DEF GraphSafe, GraphTypeOK, Jobs
<1> QED
  BY <1>3, <1>4, <1>5, <1>6 DEF GraphSafe, GraphInv

LEMMA ResolveSkipsSafe ==
    ASSUME GraphSafe, ResolveSkips
    PROVE  GraphSafe'
BY DEF ResolveSkips, GraphSafe, GraphTypeOK, GraphInv, JobInv, EdgesGrounded, Jobs

LEMMA ResolveAllSafe ==
    ASSUME GraphSafe, ResolveAll
    PROVE  GraphSafe'
<1> DEFINE found == {e \in Open : ByTable(Called(e)) # {}}
           new == UNION {{<<e[1], id, "CALLS">> : id \in ByTable(Called(e))} : e \in found}
<1>1. edges' = (edges \ found) \union new /\ UNCHANGED <<disk, nodes, job>>
  BY DEF ResolveAll
<1>2. ASSUME NEW x \in new
      PROVE  x \in Edges /\ x[1] \in DOMAIN nodes /\ x[2] \in DOMAIN nodes /\ x[3] = "CALLS"
  <2>1. PICK e \in found : \E id \in ByTable(Called(e)) : x = <<e[1], id, "CALLS">>
    BY <1>2
  <2>2. PICK id \in ByTable(Called(e)) : x = <<e[1], id, "CALLS">>
    BY <2>1
  <2>3. id \in DOMAIN nodes /\ e \in Edges /\ e[1] \in DOMAIN nodes
    BY MatchesAreNodes DEF Open, GraphSafe, GraphTypeOK, GraphInv, EdgesGrounded
  <2> QED
    BY <2>2, <2>3, ResolvedCall
<1> HIDE DEF found, new
<1>3. edges' \subseteq Edges /\ EdgesGrounded'
  BY <1>1, <1>2 DEF GraphSafe, GraphTypeOK, GraphInv, EdgesGrounded
<1>4. JobInv'
  BY <1>1 DEF JobInv, GraphSafe, GraphInv
<1>5. GraphTypeOK' /\ job' \in Jobs
  BY <1>1, <1>3 DEF GraphSafe, GraphTypeOK, Jobs
<1> QED
  BY <1>3, <1>4, <1>5 DEF GraphSafe, GraphInv

\* The files on disk change whenever they like.
LEMMA DiskSafe ==
    ASSUME GraphSafe, NEW f \in Files, NEW c \in Contents \cup {NoContent},
           disk' = [disk EXCEPT ![f] = c], UNCHANGED <<nodes, edges, job>>
    PROVE  GraphSafe'
BY DEF GraphSafe, GraphTypeOK, GraphInv, JobInv, EdgesGrounded, Jobs

-----------------------------------------------------------------------------
(* The log and what is reduced from it *)

LEMMA VerdictLogged ==
    ASSUME log \in Seq(LoggedEvents), NEW n \in Judged
    PROVE  \E i \in Concluded(n) : Verdict(n) = log[i] /\ log[i] \in LoggedEvents
<1>1. Concluded(n) \in SUBSET (1 .. Len(log)) /\ Concluded(n) # {} /\ Len(log) \in Nat
  BY DEF Judged, Concluded
<1>2. \E i \in Concluded(n) : \A j \in Concluded(n) : j <= i
  BY <1>1, GreatestUpTo
<1>3. PICK i \in Concluded(n) : Verdict(n) = log[i]
  BY <1>2 DEF Verdict
<1> QED
  BY <1>1, <1>3

LEMMA LogFixed ==
    ASSUME UNCHANGED <<log, links>>
    PROVE  /\ Judged' = Judged /\ Reduce' = Reduce
           /\ \A id : Known(id)' <=> Known(id)
           /\ LogInv => LogInv'
<1>1. \A n : Concluded(n)' = Concluded(n) /\ Verdict(n)' = Verdict(n)
  BY DEF Concluded, Verdict
<1>2. Judged' = Judged
  BY <1>1 DEF Judged
<1>3. Reduce' = Reduce
  BY <1>1, <1>2 DEF Reduce
<1> QED
  BY <1>2, <1>3 DEF Known, LogInv

\* A new event has no links yet, and a known one is not inserted again: neither changes a
\* verdict.
LEMMA InsertKeeps ==
    ASSUME NEW id \in EventIds, NEW type \in EventTypes, NEW exit \in {0, 1},
           log \in Seq(LoggedEvents), LogInv, InsertEvent(id, type, exit), links' = links,
           type = "TEST_RESULT" => id[1] = "engine"
    PROVE  /\ log' \in Seq(LoggedEvents) /\ LogInv'
           /\ Known(id)' /\ \A x : Known(x) => Known(x)'
           /\ Judged' = Judged /\ Reduce' = Reduce
<1> DEFINE new == [id |-> id, type |-> type, exit |-> exit]
<1>1. CASE Known(id)
  <2>1. log' = log
    BY <1>1 DEF InsertEvent
  <2> QED
    BY <1>1, <2>1, LogFixed
<1>2. CASE ~ Known(id)
  <2>1. log' = Append(log, new) /\ new \in LoggedEvents
    BY <1>2 DEF InsertEvent, LoggedEvents
  <2>2. /\ log' \in Seq(LoggedEvents) /\ Len(log') = Len(log) + 1 /\ Len(log) \in Nat
        /\ log'[Len(log) + 1] = new /\ \A i \in 1 .. Len(log) : log'[i] = log[i]
        /\ DOMAIN log = 1 .. Len(log) /\ DOMAIN log' = 1 .. Len(log) + 1
    BY <2>1
  <2>3. Known(id)' /\ \A x : Known(x) => Known(x)'
    BY <2>2 DEF Known
  <2>4. LogInv'
    <3>1. \A l \in links' : Known(l[1])'
      BY <2>3 DEF LogInv
    <3>2. ASSUME NEW i \in DOMAIN log', log'[i].type = "TEST_RESULT"
          PROVE  log'[i].id[1] = "engine"
      <4>1. CASE i \in 1 .. Len(log)
        BY <2>2, <3>2, <4>1 DEF LogInv
      <4>2. CASE i = Len(log) + 1
        BY <2>2, <3>2, <4>2
      <4> QED
        BY <2>2, <4>1, <4>2
    <3> QED
      BY <3>1, <3>2 DEF LogInv
  <2>5. ASSUME NEW n
        PROVE  Concluded(n)' = Concluded(n)
    <3>1. <<id, n>> \notin links
      BY <1>2 DEF LogInv
    <3>2. Concluded(n) = {i \in 1 .. Len(log) : log[i].type = "TEST_RESULT" /\ <<log[i].id, n>> \in links}
      BY <2>2 DEF Concluded
    <3>3. Concluded(n)' = {i \in 1 .. Len(log) + 1 : log'[i].type = "TEST_RESULT" /\ <<log'[i].id, n>> \in links}
      BY <2>2 DEF Concluded
    <3>4. <<log'[Len(log) + 1].id, n>> \notin links
      BY <2>2, <3>1
    <3> QED
      BY <2>2, <3>2, <3>3, <3>4
  <2>6. Judged' = Judged
    BY <2>5 DEF Judged
  <2>7. ASSUME NEW n \in Judged
        PROVE  Verdict(n)' = Verdict(n)
    <3> DEFINE last == CHOOSE i \in Concluded(n) : \A j \in Concluded(n) : j <= i
    <3>1. Concluded(n) \in SUBSET (1 .. Len(log)) /\ Concluded(n) # {}
      BY <2>2 DEF Judged, Concluded
    <3>2. \E i \in Concluded(n) : \A j \in Concluded(n) : j <= i
      BY <2>2, <3>1, GreatestUpTo
    <3>3. last \in 1 .. Len(log)
      BY <3>1, <3>2
    <3>4. Verdict(n) = log[last] /\ Verdict(n)' = log'[last]
      BY <2>5 DEF Verdict
    <3> HIDE DEF last
    <3> QED
      BY <2>2, <3>3, <3>4
  <2>8. Reduce' = Reduce
    BY <2>6, <2>7 DEF Reduce
  <2> QED
    BY <2>2, <2>3, <2>4, <2>6, <2>8
<1> QED
  BY <1>1, <1>2

\* A link changes what the reducer says of its node, if of any.
LEMMA LinkKeeps ==
    ASSUME NEW id, NEW node, LogInv, Known(id), log' = log, links' = links \union {<<id, node>>}
    PROVE  /\ LogInv' /\ \A x : Known(x)' <=> Known(x)
           /\ \A n \in Judged \ {node} : n \in Judged' /\ Reduce'[n] = Reduce[n]
           /\ id[1] # "engine" => Judged' = Judged /\ Reduce' = Reduce
<1>1. \A x : Known(x)' <=> Known(x)
  BY DEF Known
<1>2. LogInv'
  <2>1. \A l \in links' : Known(l[1])'
    BY <1>1 DEF LogInv
  <2> QED
    BY <2>1 DEF LogInv
<1>3. ASSUME NEW n, n # node \/ id[1] # "engine"
      PROVE  Concluded(n)' = Concluded(n) /\ Verdict(n)' = Verdict(n)
  <2>1. \A i \in DOMAIN log : log[i].type = "TEST_RESULT" =>
          (<<log[i].id, n>> \in links' <=> <<log[i].id, n>> \in links)
    BY <1>3 DEF LogInv
  <2>2. Concluded(n)' = Concluded(n)
    BY <2>1 DEF Concluded
  <2> QED
    BY <2>2 DEF Verdict
<1>4. ASSUME NEW n \in Judged \ {node}
      PROVE  n \in Judged' /\ Reduce'[n] = Reduce[n]
  <2>1. n \in Judged'
    BY <1>3 DEF Judged
  <2> QED
    BY <1>3, <2>1 DEF Reduce
<1>5. ASSUME id[1] # "engine"
      PROVE  Judged' = Judged /\ Reduce' = Reduce
  <2>1. Judged' = Judged
    BY <1>3, <1>5 DEF Judged
  <2> QED
    BY <1>3, <1>5, <2>1 DEF Reduce
<1> QED
  BY <1>1, <1>2, <1>4, <1>5

-----------------------------------------------------------------------------
(* The steps of the engine *)

LEMMA GraphUnchanged == GraphSafe /\ UNCHANGED graphVars => GraphSafe'
BY DEF GraphSafe, graphVars, GraphTypeOK, GraphInv, JobInv, EdgesGrounded, Jobs

\* The parts of the invariant that are about the tables and the graph.
LEMMA SafeTables ==
    /\ Inv => GraphSafe /\ log \in Seq(LoggedEvents)
    /\ /\ GraphSafe' /\ log' \in Seq(LoggedEvents) /\ links' \subseteq EventIds \X Ids
       /\ toIngest' \subseteq Files
       => TablesTyped' /\ GraphInv'
BY DEF Inv, TablesTyped, GraphSafe

\* Where no phase has anything to say of what is to do.
Calm == {"down", "ingest", "snapshot", "sleep", "reduced", "failed"}

LEMMA CalmKeeps ==
    ASSUME Inv, GraphSafe', at' \in Calm, UNCHANGED <<log, links, view>>, toIngest' \subseteq Files,
           at' \notin {"ingest", "sleep"} => job'.at = "none"
    PROVE  Inv'
<1>1. TablesTyped' /\ GraphInv'
  BY SafeTables DEF Inv, TablesTyped
<1>2. QuietGraph'
  BY DEF QuietGraph
<1>3. PhaseInv'
  BY DEF PhaseInv, Calm
<1>4. LogInv' /\ ViewInv'
  BY LogFixed DEF Inv, ViewInv, Calm
<1> QED
  BY <1>1, <1>2, <1>3, <1>4 DEF Inv

LEMMA IngestionKeeps ==
    ASSUME Inv, (\E dir \in {{}, Files} : Start(dir)) \/ Ingests \/ SkipsFile \/ IngestDone
    PROVE  Inv'
<1>1. toIngest \subseteq Files /\ GraphSafe /\ Files \subseteq Nat
  BY SafeTables, FilesAreNat DEF Inv, TablesTyped
<1>2. CASE \E dir \in {{}, Files} : Start(dir)
  BY <1>1, <1>2, GraphUnchanged, CalmKeeps DEF Start, Calm
<1>3. CASE Ingests
  <2>1. NextFile \in Files
    BY <1>1, <1>3, MinMember DEF Ingests, NextFile
  <2>2. GraphSafe'
    BY <1>1, <1>3, <2>1, ParseSafe DEF Ingests
  <2> QED
    BY <1>1, <1>3, <2>2, CalmKeeps DEF Ingests, Calm
<1>4. CASE SkipsFile
  BY <1>1, <1>4, GraphUnchanged, CalmKeeps DEF SkipsFile, Calm
<1>5. CASE IngestDone
  <2>1. job'.at = "none"
    BY <1>5 DEF IngestDone, Idle, graphVars
  <2> QED
    BY <1>1, <1>5, <2>1, GraphUnchanged, CalmKeeps DEF IngestDone, Calm, local
<1> QED
  BY <1>2, <1>3, <1>4, <1>5

LEMMA JobKeeps ==
    ASSUME Inv, JobStep \/ JobErrs \/ FileGone
    PROVE  Inv'
<1>1. GraphSafe
  BY SafeTables
<1>2. job.at # "none" /\ UNCHANGED <<log, links, view, at, toIngest>>
  BY DEF JobStep, JobErrs, FileGone, HashParsed, ClearFileNodes, InsertNode, NodesDone, InsertEdge,
         ResolveOne, JobEnds, JobFails, ResolveSkips, local
<1>3. at' \in {"ingest", "sleep"}
  BY <1>2 DEF Inv, QuietGraph
<1>4. GraphSafe'
  <2>1. JobEnds \/ JobFails => GraphSafe'
    BY <1>1, IdleIsSafe DEF JobEnds, JobFails
  <2> QED
    BY <1>1, <2>1, HashParsedSafe, ClearFileNodesSafe, InsertNodeSafe, NodesDoneSafe,
       InsertEdgeSafe, ResolveOneSafe, ResolveSkipsSafe DEF JobStep, JobErrs, FileGone
<1> QED
  BY <1>2, <1>3, <1>4, CalmKeeps DEF Calm, Inv, TablesTyped

\* What stops, goes on, or begins with the graph at rest.
LEMMA CalmStepsKeep ==
    ASSUME Inv, RunFails \/ Reduced \/ AgentCycle \/ Wakes \/ ReplayEnds
    PROVE  Inv'
<1>1. GraphSafe' /\ UNCHANGED <<log, links, view, job>>
  BY SafeTables, GraphUnchanged DEF RunFails, Reduced, AgentCycle, Wakes, ReplayEnds, graphVars
<1>2. at' \in Calm /\ toIngest' \subseteq Files
  BY DEF RunFails, Reduced, AgentCycle, Wakes, ReplayEnds, Calm, Clean, local, Inv, TablesTyped
<1>3. at' \notin {"ingest", "sleep"} => job.at = "none"
  BY DEF RunFails, Reduced, AgentCycle, Wakes, ReplayEnds, Idle, Inv, QuietGraph
<1> QED
  BY <1>1, <1>2, <1>3, CalmKeeps

LEMMA ResolvesKeeps ==
    ASSUME Inv, Resolves
    PROVE  Inv'
<1>1. GraphSafe'
  BY SafeTables, ListOpenSafe, ResolveAllSafe DEF Resolves
<1> QED
  BY <1>1, CalmKeeps DEF Resolves, Calm, local, Inv, TablesTyped

LEMMA KillKeeps ==
    ASSUME Inv, Kill
    PROVE  Inv'
<1>1. GraphSafe' /\ job'.at = "none"
  BY SafeTables, IdleIsSafe DEF Kill, Idle
<1> QED
  BY <1>1, CalmKeeps DEF Kill, Clean, Calm

\* An edit, or nothing, whatever goes on.
LEMMA DiskOnlyKeeps ==
    ASSUME Inv, GraphSafe',
           UNCHANGED <<nodes, edges, job, log, links, view, at, local>>
    PROVE  Inv'
<1>1. TablesTyped' /\ GraphInv'
  BY SafeTables DEF Inv, TablesTyped, local
<1>2. QuietGraph'
  BY DEF Inv, QuietGraph
<1>3. PhaseInv'
  BY LogFixed DEF Inv, PhaseInv, OwnedBy, local
<1>4. LogInv' /\ ViewInv'
  BY LogFixed DEF Inv, ViewInv, Result, TestId, local
<1> QED
  BY <1>1, <1>2, <1>3, <1>4 DEF Inv

LEMMA EditKeeps ==
    ASSUME Inv, NEW f \in Files, NEW c \in Contents \cup {NoContent}, Edit(f, c)
    PROVE  Inv'
BY SafeTables, DiskSafe, DiskOnlyKeeps DEF Edit

-----------------------------------------------------------------------------
(* Phases 1 and 2: the results *)

\* The tables stay, and so does what the reducer says.
LEMMA TablesFixed ==
    ASSUME Inv, UNCHANGED <<graphVars, log, links>>, toIngest' = toIngest
    PROVE  /\ TablesTyped' /\ GraphInv' /\ LogInv'
           /\ Reduce' = Reduce /\ Judged' = Judged
           /\ at \notin {"ingest", "sleep"} => job'.at = "none"
           /\ \A f : OwnedBy(f)' = OwnedBy(f)
           /\ \A id : Known(id)' <=> Known(id)
<1>1. TablesTyped' /\ GraphInv'
  BY SafeTables, GraphUnchanged DEF Inv, TablesTyped
<1>2. at \notin {"ingest", "sleep"} => job'.at = "none"
  BY DEF Inv, QuietGraph, graphVars
<1>3. \A f : OwnedBy(f)' = OwnedBy(f)
  BY DEF OwnedBy, graphVars
<1> QED
  BY <1>1, <1>2, <1>3, LogFixed DEF Inv

LEMMA BuildSnapshotKeeps ==
    ASSUME Inv, BuildSnapshot
    PROVE  Inv'
<1>1. /\ TablesTyped' /\ GraphInv' /\ LogInv' /\ Reduce' = Reduce /\ Judged' = Judged
      /\ job'.at = "none" /\ at' = "hash" /\ view' = view
  BY TablesFixed DEF BuildSnapshot
<1>2. todo' \subseteq Files
  BY DEF BuildSnapshot, Inv, TablesTyped, GraphTypeOK
<1>3. PhaseInv'
  BY <1>1, <1>2 DEF BuildSnapshot, PhaseInv
<1> QED
  BY <1>1, <1>3 DEF Inv, QuietGraph, ViewInv

LEMMA HashFileKeeps ==
    ASSUME Inv, HashFile
    PROVE  Inv'
<1> DEFINE new == [file |-> Current, hash |-> disk[Current], exit |-> 0, nodes |-> OwnedBy(Current)]
<1>1. /\ TablesTyped' /\ GraphInv' /\ LogInv' /\ Reduce' = Reduce /\ Judged' = Judged
      /\ job'.at = "none" /\ at = "hash" /\ at' = "test" /\ UNCHANGED <<view, todo>>
      /\ results' = Append(results, new) /\ todo # {} /\ disk[Current] # NoContent
      /\ nodes' = nodes
  BY TablesFixed DEF HashFile, graphVars
<1>2. Current \in todo /\ todo \subseteq Files /\ results \in Seq(FileResults)
      /\ \A i \in DOMAIN results : results[i].nodes = OwnedBy(results[i].file)
  BY <1>1, FilesAreNat, MinMember DEF Current, Inv, PhaseInv
<1>3. disk[Current] \in Contents /\ OwnedBy(Current) \subseteq Ids
  BY <1>1, <1>2 DEF OwnedBy, Inv, TablesTyped, GraphTypeOK
<1>4. new \in FileResults
  BY <1>2, <1>3 DEF FileResults
<1>5. new.nodes = OwnedBy(new.file)
  OBVIOUS
<1> HIDE DEF new
<1>6. results' \in Seq(FileResults) /\ results' # << >>
  BY <1>1, <1>2, <1>4
<1>7. ASSUME NEW i \in DOMAIN results'
      PROVE  (results[i].nodes = OwnedBy(results[i].file))'
  <2>1. results'[i] = new \/ (i \in DOMAIN results /\ results'[i] = results[i])
    BY <1>1, <1>2
  <2>2. results'[i].nodes = OwnedBy(results'[i].file)
    BY <1>2, <1>5, <2>1
  <2> QED
    BY <1>1, <2>2 DEF OwnedBy
<1>8. PhaseInv'
  <2>1. at' = "test" /\ todo' \subseteq Files /\ todo' # {}
    BY <1>1, <1>2
  <2> QED
    BY <1>6, <1>7, <2>1 DEF PhaseInv
<1> QED
  BY <1>1, <1>8 DEF Inv, QuietGraph, ViewInv

LEMMA SkipUnreadableKeeps ==
    ASSUME Inv, SkipUnreadable
    PROVE  Inv'
<1>1. /\ TablesTyped' /\ GraphInv' /\ LogInv' /\ Reduce' = Reduce /\ Judged' = Judged
      /\ job'.at = "none" /\ at = "hash" /\ at' = "hash" /\ UNCHANGED <<view, results>>
      /\ todo' \subseteq todo /\ \A f : OwnedBy(f)' = OwnedBy(f)
  BY TablesFixed DEF SkipUnreadable
<1>2. PhaseInv'
  BY <1>1 DEF Inv, PhaseInv
<1> QED
  BY <1>1, <1>2 DEF Inv, QuietGraph, ViewInv

LEMMA RunGoTestKeeps ==
    ASSUME Inv, RunGoTest
    PROVE  Inv'
<1>1. /\ TablesTyped' /\ GraphInv' /\ LogInv' /\ Reduce' = Reduce /\ Judged' = Judged
      /\ job'.at = "none" /\ at = "test" /\ at' = "hash" /\ UNCHANGED <<view>>
      /\ todo' \subseteq todo /\ \A f : OwnedBy(f)' = OwnedBy(f)
  BY TablesFixed DEF RunGoTest
<1>2. PICK exit \in {0, 1} : results' = [results EXCEPT ![Len(results)].exit = exit]
  BY DEF RunGoTest
<1>3. /\ results \in Seq(FileResults) /\ results # << >> /\ todo \subseteq Files
      /\ \A i \in DOMAIN results : results[i].nodes = OwnedBy(results[i].file)
  BY <1>1 DEF Inv, PhaseInv
<1>4. results[Len(results)] \in FileResults
  BY <1>3
<1>5. [results[Len(results)] EXCEPT !.exit = exit] \in FileResults
  BY <1>2, <1>4 DEF FileResults
<1>6. results' = [results EXCEPT ![Len(results)] = [results[Len(results)] EXCEPT !.exit = exit]]
  BY <1>2
<1>7. results' \in Seq(FileResults) /\ DOMAIN results' = DOMAIN results
  BY <1>3, <1>5, <1>6
<1>8. \A i \in DOMAIN results : results'[i].nodes = results[i].nodes /\ results'[i].file = results[i].file
  BY <1>3, <1>4, <1>6 DEF FileResults
<1>9. PhaseInv'
  BY <1>1, <1>3, <1>7, <1>8 DEF PhaseInv
<1> QED
  BY <1>1, <1>9 DEF Inv, QuietGraph, ViewInv

-----------------------------------------------------------------------------
(* Phase 3: the commits *)

LEMMA CommitsKeeps ==
    ASSUME Inv, Commits
    PROVE  Inv'
<1>1. /\ TablesTyped' /\ GraphInv' /\ LogInv' /\ Reduce' = Reduce /\ Judged' = Judged
      /\ job'.at = "none" /\ at = "hash" /\ at' = "clear" /\ UNCHANGED <<view, results>>
      /\ todo' = DOMAIN results /\ \A f : OwnedBy(f)' = OwnedBy(f)
  BY TablesFixed DEF Commits
<1>2. PhaseInv'
  BY <1>1 DEF Inv, PhaseInv
<1> QED
  BY <1>1, <1>2 DEF Inv, QuietGraph, ViewInv

\* The result being committed is one of those of the cycle, and its nodes are still those
\* of its file.
LEMMA ResultTyped ==
    ASSUME Inv, at \in {"clear", "event", "link"}, todo # {}
    PROVE  /\ Result \in FileResults /\ Result.nodes = OwnedBy(Result.file)
           /\ TestId(Result) \in EventIds /\ TestId(Result)[1] = "engine"
<1>1. results \in Seq(FileResults) /\ todo \subseteq DOMAIN results
      /\ \A i \in DOMAIN results : results[i].nodes = OwnedBy(results[i].file)
  BY DEF Inv, PhaseInv
<1>2. todo \in SUBSET Nat
  BY <1>1
<1>3. Min(todo) \in DOMAIN results
  BY <1>1, <1>2, MinMember
<1>4. Result \in FileResults /\ Result.nodes = OwnedBy(Result.file)
  BY <1>1, <1>3 DEF Result
<1>5. TestId(Result) \in EventIds /\ TestId(Result)[1] = "engine"
  BY <1>4 DEF TestId, EventIds, FileResults
<1> QED
  BY <1>4, <1>5

LEMMA ClearStateKeeps ==
    ASSUME Inv, ClearStateOfFile
    PROVE  Inv'
<1>1. /\ TablesTyped' /\ GraphInv' /\ LogInv' /\ Reduce' = Reduce /\ Judged' = Judged
      /\ job'.at = "none" /\ at = "clear" /\ at' = "event" /\ UNCHANGED <<todo, results>>
      /\ todo # {} /\ \A f : OwnedBy(f)' = OwnedBy(f)
      /\ view' = [n \in DOMAIN view \ OwnedBy(Result.file) |-> view[n]]
  BY TablesFixed DEF ClearStateOfFile, local, Restrict
<1>2. PhaseInv'
  BY <1>1 DEF Inv, PhaseInv
<1>3. Result' = Result
  BY <1>1 DEF Result
<1>4. DOMAIN view' \cap Result'.nodes = {}
  BY <1>1, <1>3, ResultTyped
<1>5. ViewInv'
  BY <1>1, <1>4 DEF Inv, ViewInv
<1> QED
  BY <1>1, <1>2, <1>5 DEF Inv, QuietGraph

LEMMA CommitEventKeeps ==
    ASSUME Inv, CommitEvent
    PROVE  Inv' /\ Reduce' = Reduce
<1>1. /\ at = "event" /\ at' = "link" /\ UNCHANGED <<graphVars, links, view, local>>
      /\ InsertEvent(TestId(Result), "TEST_RESULT", Result.exit)
  BY DEF CommitEvent
<1>2. /\ TestId(Result) \in EventIds /\ TestId(Result)[1] = "engine" /\ Result.exit \in {0, 1}
  BY <1>1, ResultTyped DEF FileResults, Inv, PhaseInv
<1>3. /\ log' \in Seq(LoggedEvents) /\ LogInv' /\ Known(TestId(Result))'
      /\ Judged' = Judged /\ Reduce' = Reduce
  <2>1. log \in Seq(LoggedEvents) /\ LogInv /\ links' = links
    BY <1>1, SafeTables DEF Inv
  <2>2. "TEST_RESULT" \in EventTypes
    BY DEF EventTypes
  <2> HIDE DEF LogInv
  <2>3. /\ log' \in Seq(LoggedEvents) /\ LogInv' /\ Judged' = Judged /\ Reduce' = Reduce
        /\ \E i \in DOMAIN log' : log'[i].id = TestId(Result)
    BY <1>1, <1>2, <2>1, <2>2, InsertKeeps DEF Known
  <2> QED
    BY <1>1, <2>3 DEF Known, Result, TestId, local
<1>4. TablesTyped' /\ GraphInv'
  BY <1>1, <1>3, SafeTables, GraphUnchanged DEF Inv, TablesTyped, local
<1>5. PhaseInv'
  BY <1>1 DEF Inv, PhaseInv, local, graphVars, OwnedBy
<1>6. Result' = Result /\ job'.at = "none"
  BY <1>1 DEF Result, local, graphVars, Inv, QuietGraph
<1>7. ViewInv'
  BY <1>1, <1>3, <1>6 DEF Inv, ViewInv
<1> QED
  BY <1>1, <1>3, <1>4, <1>5, <1>6, <1>7 DEF Inv, QuietGraph

LEMMA LinkNodeKeeps ==
    ASSUME Inv, LinkNode
    PROVE  Inv'
<1> DEFINE node == NextOf(Unlinked)
           id == TestId(Result)
<1>1. /\ at = "link" /\ at' = "link" /\ UNCHANGED <<graphVars, log, view, local>>
      /\ links' = links \union {<<id, node>>} /\ node \in Unlinked
  BY NextOfMember DEF LinkNode
<1>2. Result.nodes \subseteq Ids /\ id \in EventIds /\ node \in Result.nodes /\ Known(id)
  BY <1>1, ResultTyped DEF FileResults, Inv, PhaseInv, ViewInv, Unlinked
<1>3. Result' = Result /\ id' = id /\ job'.at = "none"
  BY <1>1 DEF Result, TestId, local, graphVars, Inv, QuietGraph
<1>4. DOMAIN view \cap Result.nodes = {}
  BY <1>1 DEF Inv, ViewInv
<1> HIDE DEF node
<1>5. /\ LogInv' /\ \A x : Known(x)' <=> Known(x)
      /\ \A n \in Judged \ {node} : n \in Judged' /\ Reduce'[n] = Reduce[n]
  BY <1>1, <1>2, LinkKeeps DEF Inv
<1>6. TablesTyped' /\ GraphInv'
  BY <1>1, <1>2, SafeTables, GraphUnchanged DEF Inv, TablesTyped, local
<1>7. PhaseInv'
  BY <1>1 DEF Inv, PhaseInv, local, graphVars, OwnedBy
<1>8. Known(TestId(Result))'
  BY <1>2, <1>3, <1>5
<1>9. ViewInv'
  <2>1. \A n \in DOMAIN view' : n \in Judged' /\ view'[n] = Reduce'[n]
    BY <1>1, <1>2, <1>4, <1>5 DEF Inv, ViewInv
  <2> QED
    BY <1>1, <1>3, <1>4, <1>8, <2>1 DEF ViewInv
<1> QED
  BY <1>1, <1>3, <1>5, <1>6, <1>7, <1>9 DEF Inv, QuietGraph

LEMMA UpdateFileHashKeeps ==
    ASSUME Inv, UpdateFileHash
    PROVE  Inv'
<1>1. /\ at = "link" /\ at' = "clear" /\ UNCHANGED <<disk, edges, job, log, links, view, toIngest, results>>
      /\ todo' = todo \ {Min(todo)}
      /\ nodes' = [n \in DOMAIN nodes |-> IF n \in OwnedBy(Result.file)
                     THEN [nodes[n] EXCEPT !.hash = Result.hash] ELSE nodes[n]]
  BY DEF UpdateFileHash
<1>2. Result.hash \in Contents /\ GraphSafe /\ job.at = "none"
  BY <1>1, ResultTyped, SafeTables DEF FileResults, Inv, PhaseInv, QuietGraph
<1>3. \A n \in DOMAIN nodes : nodes'[n] \in [file : Files, hash : Contents] /\ nodes'[n].file = nodes[n].file
  BY <1>1, <1>2 DEF GraphSafe, GraphTypeOK
<1>4. DOMAIN nodes' = DOMAIN nodes
  BY <1>1
<1>5. GraphSafe'
  BY <1>1, <1>2, <1>3, <1>4 DEF GraphSafe, GraphTypeOK, GraphInv, JobInv, EdgesGrounded
<1>6. TablesTyped' /\ GraphInv'
  BY <1>1, <1>5, SafeTables DEF Inv, TablesTyped
<1>7. \A f : OwnedBy(f)' = OwnedBy(f)
  BY <1>3, <1>4 DEF OwnedBy
<1>8. PhaseInv'
  BY <1>1, <1>7 DEF Inv, PhaseInv
<1>9. LogInv' /\ ViewInv'
  BY <1>1, LogFixed DEF Inv, ViewInv
<1> QED
  BY <1>1, <1>2, <1>6, <1>8, <1>9 DEF Inv, QuietGraph

-----------------------------------------------------------------------------
(* The reduction *)

LEMMA ReadLogKeeps ==
    ASSUME Inv, ReadLog \/ ClearGraphState
    PROVE  Inv'
<1>1. /\ TablesTyped' /\ GraphInv' /\ LogInv' /\ Reduce' = Reduce /\ Judged' = Judged
      /\ job'.at = "none" /\ at' \in {"empty", "fill"} /\ fresh' = Reduce
      /\ at' = "fill" => todo' = DOMAIN fresh
      /\ view' = view \/ view' = << >>
  BY TablesFixed DEF ReadLog, ClearGraphState, Inv, ViewInv
<1>2. PhaseInv'
  BY <1>1 DEF PhaseInv
<1>3. ViewInv'
  <2>1. at' = "fill" => todo' \subseteq DOMAIN fresh' \ DOMAIN view'
    BY <1>1 DEF ReadLog, ClearGraphState
  <2>2. \A n \in DOMAIN view' : n \in Judged /\ view'[n] = Reduce[n]
    BY <1>1 DEF Inv, ViewInv
  <2> QED
    BY <1>1, <2>1, <2>2 DEF ViewInv
<1> QED
  BY <1>1, <1>2, <1>3 DEF Inv, QuietGraph

LEMMA UpsertKeeps ==
    ASSUME Inv, NEW n \in Ids, UpsertState(n)
    PROVE  Inv'
<1>1. /\ TablesTyped' /\ GraphInv' /\ LogInv' /\ Reduce' = Reduce /\ Judged' = Judged
      /\ job'.at = "none" /\ at = "fill" /\ at' = "fill" /\ fresh' = fresh /\ fresh = Reduce
      /\ todo' = todo \ {n} /\ n \in todo /\ todo \subseteq DOMAIN fresh \ DOMAIN view
      /\ view' = [i \in DOMAIN view \union {n} |-> IF i = n THEN fresh[n] ELSE view[i]]
  BY TablesFixed DEF UpsertState, Inv, ViewInv
<1>2. PhaseInv'
  BY <1>1 DEF PhaseInv
<1>3. n \in Judged
  BY <1>1 DEF Reduce
<1>4. ViewInv'
  <2>1. \A i \in DOMAIN view' : i \in Judged /\ view'[i] = Reduce[i]
    BY <1>1, <1>3 DEF Inv, ViewInv
  <2>2. todo' \subseteq DOMAIN fresh' \ DOMAIN view'
    BY <1>1
  <2> QED
    BY <1>1, <2>1, <2>2 DEF ViewInv
<1> QED
  BY <1>1, <1>2, <1>4 DEF Inv, QuietGraph

-----------------------------------------------------------------------------
(* The library's calls *)

LEMMA ReplaysKeeps ==
    ASSUME Inv, NEW exit \in {0, 1}, Replays(exit)
    PROVE  Inv' /\ Reduce' = Reduce
<1>1. /\ at = "sleep" /\ job = Idle /\ at' = "replayed" /\ todo' = DOMAIN nodes
      /\ results' = <<[file |-> 0, hash |-> ReplayId, exit |-> exit, nodes |-> {}]>>
      /\ InsertEvent(ReplayId, "REPLAY_RESULT", exit)
      /\ UNCHANGED <<graphVars, links, view, toIngest>>
  BY DEF Replays
<1>2. ReplayId \in EventIds /\ ReplayId[1] = "replay"
  <2> DEFINE known == {nodes[n].file : n \in DOMAIN nodes}
             content == [f \in known |-> disk[f]]
  <2>1. known \in SUBSET Files
    BY DEF Inv, TablesTyped, GraphTypeOK
  <2>2. content \in [known -> Contents \cup {NoContent}]
    BY <2>1 DEF Inv, TablesTyped, GraphTypeOK
  <2>3. ReplayId = <<"replay", content>>
    BY DEF ReplayId
  <2> HIDE DEF known, content
  <2> QED
    BY <2>1, <2>2, <2>3 DEF EventIds
<1> HIDE DEF ReplayId
<1>3. /\ log' \in Seq(LoggedEvents) /\ LogInv' /\ Known(ReplayId)'
      /\ Judged' = Judged /\ Reduce' = Reduce
  <2>1. "REPLAY_RESULT" \in EventTypes
    BY DEF EventTypes
  <2>2. log \in Seq(LoggedEvents) /\ LogInv /\ links' = links
    BY <1>1, SafeTables DEF Inv
  <2>3. ReplayId' = ReplayId
    BY <1>1 DEF ReplayId, graphVars
  <2>4. /\ log' \in Seq(LoggedEvents) /\ LogInv' /\ Judged' = Judged /\ Reduce' = Reduce
        /\ \E i \in DOMAIN log' : log'[i].id = ReplayId
    BY <1>1, <1>2, <2>1, <2>2, InsertKeeps DEF Known
  <2> QED
    BY <2>3, <2>4 DEF Known
<1>4. TablesTyped' /\ GraphInv'
  BY <1>1, <1>3, SafeTables, GraphUnchanged DEF Inv, TablesTyped
<1>5. job'.at = "none"
  BY <1>1 DEF graphVars, Idle
<1>6. PhaseInv'
  <2>1. results'[1].hash = ReplayId /\ todo' \subseteq Ids /\ ReplayId' = ReplayId
    BY <1>1 DEF Inv, TablesTyped, GraphTypeOK, ReplayId, graphVars
  <2>2. Known(results[1].hash)'
    BY <1>3, <2>1
  <2> QED
    BY <1>1, <1>2, <2>1, <2>2 DEF PhaseInv
<1>7. ViewInv'
  BY <1>1, <1>3 DEF Inv, ViewInv
<1> QED
  BY <1>1, <1>3, <1>4, <1>5, <1>6, <1>7 DEF Inv, QuietGraph

LEMMA LinkReplayKeeps ==
    ASSUME Inv, LinkReplay
    PROVE  Inv' /\ Reduce' = Reduce
<1> DEFINE node == NextOf(todo)
           id == results[1].hash
<1>1. /\ at = "replayed" /\ at' = "replayed" /\ node \in todo
      /\ links' = links \union {<<id, node>>} /\ todo' \subseteq todo
      /\ UNCHANGED <<graphVars, log, view, toIngest, results>>
  BY NextOfMember DEF LinkReplay
<1>2. id \in EventIds /\ id[1] = "replay" /\ Known(id) /\ node \in Ids
  BY <1>1 DEF Inv, PhaseInv
<1> HIDE DEF node
<1>3. id' = id /\ job'.at = "none"
  BY <1>1 DEF graphVars, Inv, QuietGraph
<1>4. /\ LogInv' /\ \A x : Known(x)' <=> Known(x)
      /\ Judged' = Judged /\ Reduce' = Reduce
  BY <1>1, <1>2, LinkKeeps DEF Inv
<1>5. TablesTyped' /\ GraphInv'
  BY <1>1, <1>2, SafeTables, GraphUnchanged DEF Inv, TablesTyped
<1>6. Known(id)'
  BY <1>2, <1>3, <1>4
<1>7. PhaseInv'
  BY <1>1, <1>2, <1>6 DEF Inv, PhaseInv
<1>8. ViewInv'
  BY <1>1, <1>4 DEF Inv, ViewInv
<1> QED
  BY <1>1, <1>3, <1>4, <1>5, <1>7, <1>8 DEF Inv, QuietGraph

LEMMA ExecutesKeeps ==
    ASSUME Inv, NEW f \in Files, NEW c \in Contents, Executes(f, c)
    PROVE  Inv'
<1>1. /\ disk' = [disk EXCEPT ![f] = c] /\ at' = "executed" /\ todo' = {f} /\ job = Idle
      /\ UNCHANGED <<nodes, edges, job, log, links, view, toIngest>>
  BY DEF Executes
<1>2. GraphSafe' /\ job'.at = "none"
  BY <1>1, SafeTables, DiskSafe DEF Idle
<1>3. TablesTyped' /\ GraphInv'
  BY <1>1, <1>2, SafeTables DEF Inv, TablesTyped
<1>4. PhaseInv'
  BY <1>1 DEF PhaseInv
<1>5. LogInv' /\ ViewInv'
  BY <1>1, LogFixed DEF Inv, ViewInv
<1> QED
  BY <1>2, <1>3, <1>4, <1>5 DEF Inv, QuietGraph

LEMMA AuditsKeeps ==
    ASSUME Inv, Audits
    PROVE  Inv' /\ Reduce' = Reduce
<1>1. /\ at = "executed" /\ at' = "sleep" /\ UNCHANGED <<graphVars, links, view, toIngest>>
  BY DEF Audits
<1>2. PICK f \in todo : InsertEvent(<<"exec", f>>, "EXECUTOR_ACTION", 0)
  BY DEF Audits
<1>3. <<"exec", f>> \in EventIds /\ "EXECUTOR_ACTION" \in EventTypes
  BY <1>1 DEF Inv, PhaseInv, EventIds, EventTypes
<1>4. log' \in Seq(LoggedEvents) /\ LogInv' /\ Judged' = Judged /\ Reduce' = Reduce
  BY <1>1, <1>2, <1>3, SafeTables, InsertKeeps DEF Inv
<1>5. TablesTyped' /\ GraphInv'
  BY <1>1, <1>4, SafeTables, GraphUnchanged DEF Inv, TablesTyped
<1>6. PhaseInv'
  BY <1>1 DEF PhaseInv
<1>7. ViewInv'
  BY <1>1, <1>4 DEF Inv, ViewInv
<1> QED
  BY <1>1, <1>4, <1>5, <1>6, <1>7 DEF Inv, QuietGraph

-----------------------------------------------------------------------------
(* The steps of the abstract view *)

\* The verdict on a judged node is one of the log's test results.
VerdictsTyped == \A n \in Judged : Reduce[n] \in Verdicts

LEMMA ReduceTyped ==
    ASSUME Inv
    PROVE  VerdictsTyped
<1> SUFFICES ASSUME NEW n \in Judged  PROVE Reduce[n] \in Verdicts
  BY DEF VerdictsTyped
<1>1. log \in Seq(LoggedEvents) /\ LogInv
  BY DEF Inv, TablesTyped
<1>2. PICK i \in Concluded(n) : Verdict(n) = log[i] /\ log[i] \in LoggedEvents
  BY <1>1, VerdictLogged
<1>3. log[i].id \in EventIds /\ log[i].id[1] = "engine" /\ log[i].exit \in {0, 1}
  BY <1>1, <1>2 DEF Concluded, LogInv, LoggedEvents
<1>4. log[i].id \in {"engine"} \X Files \X Contents \X {0, 1}
  BY <1>3 DEF EventIds
<1> QED
  BY <1>2, <1>3, <1>4 DEF Reduce, Verdicts

LEMMA ViewBegins == Init => Table!Init
<1> SUFFICES ASSUME Init  PROVE Table!Init
  OBVIOUS
<1>1. Judged = {}
  BY DEF Init, Judged, Concluded
<1>2. Reduce = << >>
  BY <1>1 DEF Reduce
<1> QED
  BY <1>2 DEF Init, Table!Init

\* A link judges its node, whose row is withdrawn, and no other.
LEMMA LinkJudges ==
    ASSUME Inv, VerdictsTyped', LinkNode
    PROVE  [Table!Next]_(Table!vars)
<1> DEFINE node == NextOf(Unlinked)
           id == TestId(Result)
<1>1. /\ at = "link" /\ UNCHANGED <<log, view>>
      /\ links' = links \union {<<id, node>>} /\ node \in Unlinked
  BY NextOfMember DEF LinkNode
<1>2. node \in Ids /\ node \in Result.nodes /\ Known(id) /\ node \notin DOMAIN view
  BY <1>1, ResultTyped DEF FileResults, Inv, PhaseInv, ViewInv, Unlinked
<1> HIDE DEF node, id
<1>3. \A n \in Judged \ {node} : n \in Judged' /\ Reduce'[n] = Reduce[n]
  BY <1>1, <1>2, LinkKeeps DEF Inv
<1>4. \A n \in Judged' \ {node} : n \in Judged
  BY <1>1 DEF Judged, Concluded
<1>5. node \in Judged => node \in Judged'
  BY <1>1 DEF Judged, Concluded
<1>6. /\ DOMAIN Reduce = Judged /\ DOMAIN Reduce' = Judged'
      /\ Reduce = [n \in Judged |-> Reduce[n]] /\ Reduce' = [n \in Judged' |-> Reduce'[n]]
  BY DEF Reduce
<1>7. CASE node \in Judged'
  <2>1. PICK v \in Verdicts : v = Reduce'[node]
    BY <1>7 DEF VerdictsTyped, Verdicts
  <2>2. Judged' = Judged \union {node}
    BY <1>3, <1>4, <1>7
  <2>3. Reduce' = [m \in DOMAIN Reduce \union {node} |-> IF m = node THEN v ELSE Reduce[m]]
    BY <1>3, <1>6, <2>1, <2>2
  <2>4. Table!Judge(node)
    BY <1>1, <1>2, <2>3 DEF Table!Judge
  <2> QED
    BY <1>2, <2>4 DEF Table!Next
<1>8. CASE node \notin Judged'
  <2>1. Judged' = Judged
    BY <1>3, <1>4, <1>5, <1>8
  <2>2. Reduce' = Reduce
    BY <1>3, <1>5, <1>6, <1>8, <2>1
  <2> QED
    BY <1>1, <2>2 DEF Table!vars
<1> QED
  BY <1>7, <1>8

\* Rows go and come, but a verdict stays: the clearing of a file or of the whole table, and
\* a row of the reducer.
LEMMA ViewSteps ==
    ASSUME Inv, ClearStateOfFile \/ ClearGraphState \/ \E n \in Ids : UpsertState(n)
    PROVE  [Table!Next]_(Table!vars)
<1>1. Reduce' = Reduce
  BY LogFixed DEF ClearStateOfFile, ClearGraphState, UpsertState
<1>2. CASE ClearStateOfFile
  <2>1. PICK S : S = OwnedBy(Result.file)
    OBVIOUS
  <2>2. S \in SUBSET Ids
    BY <2>1 DEF OwnedBy, Inv, TablesTyped, GraphTypeOK
  <2>3. view' = [n \in DOMAIN view \ S |-> view[n]]
    BY <1>2, <2>1 DEF ClearStateOfFile, Restrict
  <2> QED
    BY <1>1, <2>2, <2>3 DEF Table!Next, Table!Withdraw
<1>3. CASE ClearGraphState
  <2>1. DOMAIN view \ Ids = {}
    BY DEF Inv, ViewInv, Judged
  <2>2. view' = [n \in DOMAIN view \ Ids |-> view[n]]
    BY <1>3, <2>1 DEF ClearGraphState
  <2> QED
    BY <1>1, <2>2 DEF Table!Next, Table!Withdraw
<1>4. ASSUME NEW n \in Ids, UpsertState(n)
      PROVE  [Table!Next]_(Table!vars)
  <2>1. /\ n \in DOMAIN Reduce
        /\ view' = [m \in DOMAIN view \union {n} |-> IF m = n THEN Reduce[n] ELSE view[m]]
    BY <1>4 DEF UpsertState, Inv, ViewInv
  <2>2. n \notin DOMAIN view
    BY <1>4 DEF UpsertState, Inv, ViewInv
  <2> QED
    BY <1>1, <2>1, <2>2 DEF Table!Next, Table!Show
<1> QED
  BY <1>2, <1>3, <1>4

\* Every other step leaves verdicts and rows alone.  An event is no verdict before it is
\* linked, and what the library logs never is one.
LEMMA StepMaps ==
    ASSUME Inv, VerdictsTyped', [Next]_vars
    PROVE  [Table!Next]_(Table!vars)
<1>1. CASE CommitEvent \/ (\E exit \in {0, 1} : Replays(exit)) \/ LinkReplay \/ Audits
  <2>1. Reduce' = Reduce
    BY <1>1, CommitEventKeeps, ReplaysKeeps, LinkReplayKeeps, AuditsKeeps
  <2>2. view' = view
    BY <1>1 DEF CommitEvent, Replays, LinkReplay, Audits
  <2> QED
    BY <2>1, <2>2 DEF Table!vars
<1>2. CASE LinkNode
  BY <1>2, LinkJudges
<1>3. CASE ClearStateOfFile \/ ClearGraphState \/ \E n \in Ids : UpsertState(n)
  BY <1>3, ViewSteps
<1>4. CASE UNCHANGED <<log, links, view>>
  BY <1>4, LogFixed DEF Table!vars
<1>5. CASE Engine
  <2>1. CASE Ingests \/ SkipsFile \/ JobStep \/ FileGone \/ IngestDone \/ BuildSnapshot \/ HashFile
    BY <2>1, <1>4 DEF Ingests, SkipsFile, JobStep, FileGone, IngestDone, BuildSnapshot, HashFile
  <2>2. CASE SkipUnreadable \/ RunGoTest \/ Commits \/ UpdateFileHash \/ ReadLog \/ Reduced
             \/ AgentCycle \/ Wakes \/ ReplayEnds
    BY <2>2, <1>4 DEF SkipUnreadable, RunGoTest, Commits, UpdateFileHash, ReadLog, Reduced,
       AgentCycle, Wakes, ReplayEnds
  <2> QED
    BY <1>1, <1>2, <1>3, <1>5, <2>1, <2>2 DEF Engine
<1>6. CASE Others
  <2>1. CASE (\E dir \in {{}, Files} : Start(dir)) \/ JobErrs \/ RunFails \/ Resolves \/ Kill
    BY <2>1, <1>4 DEF Start, JobErrs, RunFails, Resolves, Kill
  <2>2. CASE \/ \E f \in Files, c \in Contents : Executes(f, c)
             \/ \E f \in Files, c \in Contents \union {NoContent} : Edit(f, c)
    BY <2>2, <1>4 DEF Executes, Edit
  <2> QED
    BY <1>1, <1>6, <2>1, <2>2 DEF Others
<1>7. CASE UNCHANGED vars
  BY <1>7, <1>4 DEF vars
<1> QED
  BY <1>5, <1>6, <1>7 DEF Next

-----------------------------------------------------------------------------
(* The theorems *)

LEMMA InitInv == Init => Inv
<1> SUFFICES ASSUME Init  PROVE Inv
  OBVIOUS
<1>1. GraphTypeOK /\ job \in Jobs /\ GraphInv
  BY GraphAssumption DEF Init, GraphInit, GraphTypeOK, GraphInv, JobInv, EdgesGrounded, Idle, Jobs,
     JobStates
<1>2. TablesTyped
  BY <1>1 DEF Init, TablesTyped
<1>3. LogInv /\ QuietGraph /\ PhaseInv /\ ViewInv
  BY DEF Init, LogInv, QuietGraph, PhaseInv, ViewInv, GraphInit, Idle
<1> QED
  BY <1>1, <1>2, <1>3 DEF Inv

LEMMA NextInv == Inv /\ [Next]_vars => Inv'
<1> SUFFICES ASSUME Inv, [Next]_vars  PROVE Inv'
  OBVIOUS
<1>1. CASE Engine
  BY <1>1, IngestionKeeps, JobKeeps, BuildSnapshotKeeps, HashFileKeeps, SkipUnreadableKeeps,
     RunGoTestKeeps, CommitsKeeps, ClearStateKeeps, CommitEventKeeps, UpdateFileHashKeeps,
     ReadLogKeeps, CalmStepsKeep, LinkNodeKeeps, LinkReplayKeeps, AuditsKeeps, UpsertKeeps
     DEF Engine
<1>2. CASE Others
  BY <1>2, IngestionKeeps, JobKeeps, CalmStepsKeep, ResolvesKeeps, KillKeeps, ReplaysKeeps,
     ExecutesKeeps, EditKeeps DEF Others
<1>3. CASE UNCHANGED vars
  <2>1. GraphSafe'
    BY <1>3, SafeTables, GraphUnchanged DEF vars
  <2> QED
    BY <1>3, <2>1, DiskOnlyKeeps DEF vars, graphVars
<1> QED
  BY <1>1, <1>2, <1>3 DEF Next

\* The invariant holds in every state of the engine.
THEOREM Inductive == Spec => []Inv
<1>1. Init => Inv
  BY InitInv
<1>2. Inv /\ [Next]_vars => Inv'
  BY NextInv
<1> QED
  BY <1>1, <1>2, PTL DEF Spec

\* The tables and the process keep their types; a row of graph_state names an event of
\* the log.
THEOREM TypeCorrect == Spec => []TypeOK
<1>1. Inv => TypeOK
  <2> SUFFICES ASSUME Inv  PROVE TypeOK
    OBVIOUS
  <2>1. GraphTypeOK /\ log \in Seq(LoggedEvents) /\ links \subseteq EventIds \X Ids /\ toIngest \subseteq Files
    BY DEF Inv, TablesTyped
  <2>2. ASSUME NEW i \in DOMAIN log
        PROVE  log[i].exit \in {0, 1}
    <3>1. log[i] \in LoggedEvents
      BY <2>1
    <3> QED
      BY <3>1 DEF LoggedEvents
  <2>3. ASSUME NEW n \in DOMAIN view
        PROVE  n \in Ids /\ view[n] \in Rows
    <3>1. n \in Judged /\ view[n] = [event |-> Verdict(n).id, exit |-> Verdict(n).exit]
      BY DEF Inv, ViewInv, Reduce
    <3>2. PICK i \in Concluded(n) : Verdict(n) = log[i] /\ log[i] \in LoggedEvents
      BY <2>1, <3>1, VerdictLogged
    <3>3. i \in DOMAIN log /\ log[i].exit \in {0, 1}
      BY <3>2 DEF Concluded, LoggedEvents
    <3> QED
      BY <3>1, <3>2, <3>3 DEF Rows, Judged
  <2> QED
    BY <2>1, <2>2, <2>3 DEF TypeOK
<1> QED
  BY <1>1, Inductive, PTL

\* No edge dangles, whatever is ingested again, resolved, failed or killed, and however
\* the files change meanwhile.
THEOREM Grounded == Spec => []EdgesGrounded
<1>1. Inv => EdgesGrounded
  BY DEF Inv, GraphInv
<1> QED
  BY <1>1, Inductive, PTL

\* Whatever was killed or failed half-way: a row of graph_state says what the last test
\* result linked to its node says.
THEOREM NeverStale == Spec => []ViewNeverStale
<1>1. Inv => ViewNeverStale
  <2> SUFFICES ASSUME Inv, NEW n \in DOMAIN view
               PROVE  /\ n \in Judged
                      /\ view[n].event = Verdict(n).id /\ view[n].exit = Verdict(n).exit
    BY DEF ViewNeverStale
  <2>1. n \in Judged /\ view[n] = [event |-> Verdict(n).id, exit |-> Verdict(n).exit]
    BY DEF Inv, ViewInv, Reduce
  <2> QED
    BY <2>1
<1> QED
  BY <1>1, Inductive, PTL

\* The engine implements the materialised view, through every failure and kill: a verdict
\* is reached only while its row is withdrawn, rows come back and are never overwritten,
\* and a judged node stays judged (engine.go:129-162, loop.go:43-75).
THEOREM Refinement == Spec => ImplementsView
<1>1. Init => Table!Init
  BY ViewBegins
<1>2. Inv => VerdictsTyped
  BY ReduceTyped
<1>3. Inv /\ VerdictsTyped' /\ [Next]_vars => [Table!Next]_(Table!vars)
  BY StepMaps
<1> QED
  BY <1>1, <1>2, <1>3, Inductive, PTL DEF Spec, ImplementsView, Table!Spec
================================================================================
