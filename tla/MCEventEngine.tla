--------------------------- MODULE MCEventEngine ---------------------------
(***************************************************************************)
(* Two files of one package.  "caller" declares A, which calls run;        *)
(* "callee" declares run and the method T.run; "both" declares A and run   *)
(* and does not import.  Tests fail while a file holds "both".             *)
(***************************************************************************)
EXTENDS EventEngine

MCContents == {"caller", "callee", "both"}
MCDisks == {<<"caller", "callee">>}
MCParsable == MCContents
MCIds == {"main.A", "main.run", "main.T.run"}
MCNames == {"A", "run"}
MCNameOf == [id \in MCIds |-> IF id = "main.A" THEN "A" ELSE "run"]
MCMethods == {"main.T.run"}
MCRank == [id \in MCIds |-> CASE id = "main.A" -> 1 [] id = "main.T.run" -> 2 [] OTHER -> 3]
MCLike == [n \in MCNames |-> {n}]
MCPaths == {"main/a.go", "main/b.go", "fmt", "unresolved:A", "unresolved:run"}
MCDeclares == [c \in MCContents |-> CASE c = "caller" -> {"main.A"}
                                      [] c = "callee" -> {"main.run", "main.T.run"}
                                      [] OTHER -> {"main.A", "main.run"}]
MCCallsIn == [c \in MCContents |-> IF c = "callee" THEN {} ELSE {<<"main.A", "run">>}]
MCImportsIn == [c \in MCContents |-> IF c = "caller" THEN {"fmt"} ELSE {}]
MCFileNode == <<"main/a.go", "main/b.go">>
MCUnresolved == [n \in MCNames |-> IF n = "A" THEN "unresolved:A" ELSE "unresolved:run"]
MCPassing == {"caller", "callee"}
=============================================================================
