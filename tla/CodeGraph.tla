----------------------------- MODULE CodeGraph -----------------------------
(***************************************************************************)
(* The graph of the code (layer L1): the declarations of the ingested Go   *)
(* files as nodes, what they contain, import and call as edges.            *)
(* compiler.IngestFile replaces what a file contributed, statement by      *)
(* statement; two resolvers replace the calls IngestFile left open.        *)
(*                                                                         *)
(* One process writes the graph and does one thing at a time; the files    *)
(* on disk change whenever they like.  What a Go file declares, calls and  *)
(* imports is a constant of its content.  Hashes do not collide: the hash  *)
(* of a content is the content.  Signatures, which nothing reads back, are *)
(* left out.                                                               *)
(***************************************************************************)
EXTENDS Naturals, FiniteSets, Functions

CONSTANTS
    NumFiles,       \* the files of the ingested directory, in path order
    Contents,       \* what a file may hold
    Disks,          \* what the files may hold at first
    Parsable,       \* the contents that are Go
    NoContent,      \* the content of a file that is not there
    Ids,            \* node ids: pkg.Name, pkg.Receiver.Name
    Names,          \* the identifiers that are called
    NameOf,         \* the last component of an id
    Methods,        \* the ids with a receiver
    TypeIds,        \* the ids of structs and interfaces
    Rank,           \* the order of the ids in the database
    LikeName,       \* the names an SQL LIKE with a name as its pattern finds
    Paths,          \* import paths
    Declares, CallsIn, ImportsIn,   \* what a content declares, calls, imports
    FileNode,       \* pkg/path, the source of a file's CONTAINS and IMPORTS
    Unresolved      \* unresolved:name, the target of an open call

Files == 1..NumFiles

ASSUME GraphAssumption ==
    /\ NumFiles \in Nat /\ Disks \subseteq [Files -> Contents]
    /\ Parsable \subseteq Contents /\ NoContent \notin Contents
    /\ Methods \subseteq Ids /\ TypeIds \subseteq Ids
    /\ NameOf \in [Ids -> Names] /\ Rank \in [Ids -> Nat]
    /\ LikeName \in [Names -> SUBSET Names]
    /\ \A n \in Names : n \in LikeName[n]
    /\ Declares \in [Contents -> SUBSET Ids]
    /\ ImportsIn \in [Contents -> SUBSET Paths]
    /\ CallsIn \in [Contents -> SUBSET (Ids \X Names)]
    /\ \A c \in Contents : \A call \in CallsIn[c] : call[1] \in Declares[c]
    /\ FileNode \in [Files -> Paths] /\ Unresolved \in [Names -> Paths]
    /\ Ids \cap Paths = {}
    /\ \A f \in Files, n \in Names : FileNode[f] # Unresolved[n]
    /\ \A n, m \in Names : Unresolved[n] = Unresolved[m] => n = m

VARIABLES
    disk,       \* the files as they are now
    nodes,      \* the nodes table: id -> file path and file hash
    edges,      \* the edges table: source, target, relation
    job         \* the ingestion or resolution under way

graphVars == <<disk, nodes, edges, job>>

Ends == Ids \union Paths
Edges == Ends \X Ends \X {"CONTAINS", "CALLS", "IMPORTS"}
Idle == [at |-> "none", file |-> 0, parsed |-> NoContent, hash |-> NoContent, todo |-> {}]

GraphInit ==
    /\ disk \in Disks
    /\ nodes = << >>
    /\ edges = {}
    /\ job = Idle

(***************************************************************************)
(* What a file contributes.                                                *)
(***************************************************************************)
\* A call is local only if the file itself declares a function of that name:
\* methods are keyed with their receiver, and types are not in the table.
Local(c, name) ==
    {id \in Declares[c] \ (Methods \union TypeIds) : NameOf[id] = name}

Callees(c, name) ==
    IF Local(c, name) = {} THEN {Unresolved[name]} ELSE Local(c, name)

FileEdges(f, c) ==
    {<<FileNode[f], id, "CONTAINS">> : id \in Declares[c]}
    \union {<<FileNode[f], p, "IMPORTS">> : p \in ImportsIn[c]}
    \union UNION {{<<call[1], t, "CALLS">> : t \in Callees(c, call[2])} : call \in CallsIn[c]}

NextOf(S) == CHOOSE x \in S : TRUE

OwnedBy(f) == {id \in DOMAIN nodes : nodes[id].file = f}

(***************************************************************************)
(* IngestFile.  The file is read twice, for its declarations and for its   *)
(* hash.  Only the clearing is a transaction.  Nodes and edges go in one   *)
(* by one, in a fixed order (the code sorts them).                         *)
(***************************************************************************)
Parse(f) ==
    /\ job = Idle /\ disk[f] \in Parsable
    /\ job' = [Idle EXCEPT !.at = "hash", !.file = f, !.parsed = disk[f]]
    /\ UNCHANGED <<disk, nodes, edges>>

\* Mutant: the error of the second read is dropped.
HashParsedUnchecked ==
    /\ job.at = "hash"
    /\ job' = [job EXCEPT !.at = "clear", !.hash = disk[job.file]]
    /\ UNCHANGED <<disk, nodes, edges>>

HashParsed ==
    /\ job.at = "hash" /\ disk[job.file] # NoContent
    /\ job' = [job EXCEPT !.at = "clear", !.hash = disk[job.file]]
    /\ UNCHANGED <<disk, nodes, edges>>

\* Mutant: only the edges that start in the file are deleted.
ClearFileNodesOutgoing ==
    /\ job.at = "clear"
    /\ edges' = {e \in edges : e[1] \notin OwnedBy(job.file)}
    /\ nodes' = Restrict(nodes, DOMAIN nodes \ OwnedBy(job.file))
    /\ job' = [job EXCEPT !.at = "nodes", !.todo = Declares[job.parsed]]
    /\ UNCHANGED disk

\* The file node is not in the nodes table: IMPORTS edges are never cleared,
\* and a call from another file goes with its target.
ClearFileNodes ==
    /\ job.at = "clear"
    /\ edges' = {e \in edges : e[1] \notin OwnedBy(job.file) /\ e[2] \notin OwnedBy(job.file)}
    /\ nodes' = Restrict(nodes, DOMAIN nodes \ OwnedBy(job.file))
    /\ job' = [job EXCEPT !.at = "nodes", !.todo = Declares[job.parsed]]
    /\ UNCHANGED disk

\* INSERT OR IGNORE: the id is the key, whichever file it came from first.
InsertNode ==
    /\ job.at = "nodes" /\ job.todo # {}
    /\ nodes' = [i \in DOMAIN nodes \union {NextOf(job.todo)} |->
                   IF i \in DOMAIN nodes THEN nodes[i]
                   ELSE [file |-> job.file, hash |-> job.hash]]
    /\ job' = [job EXCEPT !.todo = @ \ {NextOf(job.todo)}]
    /\ UNCHANGED <<disk, edges>>

NodesDone ==
    /\ job.at = "nodes" /\ job.todo = {}
    /\ job' = [job EXCEPT !.at = "edges", !.todo = FileEdges(job.file, job.parsed)]
    /\ UNCHANGED <<disk, nodes, edges>>

InsertEdge ==
    /\ job.at = "edges" /\ job.todo # {}
    /\ edges' = edges \union {NextOf(job.todo)}
    /\ job' = [job EXCEPT !.todo = @ \ {NextOf(job.todo)}]
    /\ UNCHANGED <<disk, nodes>>

(***************************************************************************)
(* The resolvers.                                                          *)
(***************************************************************************)
Open == {e \in edges : e[3] = "CALLS" /\ \E n \in Names : e[2] = Unresolved[n]}
Called(e) == CHOOSE n \in Names : e[2] = Unresolved[n]

First(ids) == {id \in ids : \A other \in ids : Rank[id] <= Rank[other]}
Prefer(plain, methods) == First(IF plain # {} THEN plain ELSE methods)

\* resolver: LIKE pkg.name, then LIKE pkg.%.name.  LIKE is blind to case.
ByPattern(name) ==
    LET like == {id \in DOMAIN nodes : NameOf[id] \in LikeName[name]}
    IN  Prefer(like \ Methods, like \cap Methods)

\* symbol: the table holds the names as they are; functions and types first.
ByTable(name) ==
    LET same == {id \in DOMAIN nodes : NameOf[id] = name}
    IN  Prefer(same \ Methods, same \cap Methods)

\* resolver.ResolveCalls: the open calls are listed once; each is looked up
\* and replaced in a transaction of its own.  One that has no match, or
\* whose transaction fails, stays open.
ListOpen ==
    /\ job = Idle /\ Open # {}
    /\ job' = [Idle EXCEPT !.at = "resolve", !.todo = Open]
    /\ UNCHANGED <<disk, nodes, edges>>

ReplaceCall(e, id) == (edges \ {e}) \union {<<e[1], id, "CALLS">>}

ResolveOne ==
    /\ job.at = "resolve" /\ job.todo # {}
    /\ LET e == NextOf(job.todo)
       IN  /\ \/ \E id \in ByPattern(Called(e)) : edges' = ReplaceCall(e, id)
              \/ ByPattern(Called(e)) = {} /\ UNCHANGED edges
           /\ job' = [job EXCEPT !.todo = @ \ {e}]
    /\ UNCHANGED <<disk, nodes>>

ResolveSkips ==
    /\ job.at = "resolve" /\ job.todo # {}
    /\ job' = [job EXCEPT !.todo = @ \ {NextOf(job.todo)}]
    /\ UNCHANGED <<disk, nodes, edges>>

\* symbol.ResolveCalls: the table is built first, and all the replacements
\* go into one transaction.
ResolveAll ==
    LET found == {e \in Open : ByTable(Called(e)) # {}}
    IN  /\ job = Idle /\ found # {}
        /\ edges' = (edges \ found) \union
                    UNION {{<<e[1], id, "CALLS">> : id \in ByTable(Called(e))} : e \in found}
        /\ UNCHANGED <<disk, nodes, job>>

\* The last statement of either operation, or an error of any statement.
JobEnds ==
    /\ job.at \in {"edges", "resolve"} /\ job.todo = {}
    /\ job' = Idle
    /\ UNCHANGED <<disk, nodes, edges>>

JobFails ==
    /\ job.at # "none"
    /\ job' = Idle
    /\ UNCHANGED <<disk, nodes, edges>>

(***************************************************************************)
(* Properties of the graph.                                                *)
(***************************************************************************)
GraphTypeOK ==
    /\ disk \in [Files -> Contents \union {NoContent}]
    /\ DOMAIN nodes \subseteq Ids
    /\ \A id \in DOMAIN nodes : nodes[id] \in [file: Files, hash: Contents]
    /\ edges \subseteq Edges
    /\ job.at \in {"none", "hash", "clear", "nodes", "edges", "resolve"}

\* No edge dangles: whatever contains, calls or is called is in the nodes
\* table or is marked as open, after any sequence of re-ingestions of any of
\* the files, resolutions, errors and kills (nodes.go has no foreign keys:
\* only the order of the statements of IngestFile and the two deletions of
\* ClearFileNodes keep the two tables together).
EdgesGrounded ==
    \A e \in edges :
        /\ e[3] = "CONTAINS" => e[2] \in DOMAIN nodes
        /\ e[3] = "CALLS" => /\ e[1] \in DOMAIN nodes
                             /\ e[2] \in DOMAIN nodes \union {Unresolved[n] : n \in Names}
=============================================================================
