------------------------------ MODULE JsonLines ------------------------------
(***************************************************************************)
(* The append-only files of JSON lines that the evolution service keeps:   *)
(* event_queue.log, evolution.wal and evolution.log.  A file is a sequence *)
(* of chunks, one per Write call.  A chunk is a whole line, with its       *)
(* newline, or Torn: the part of a line, without its newline, that a short *)
(* write leaves, or a process killed inside the call.                      *)
(*                                                                         *)
(* The readers scan for newlines and skip the lines that do not decode, so *)
(* a line written behind a torn chunk is glued to it and skipped with it,  *)
(* unless the scan starts between the two.                                 *)
(***************************************************************************)
EXTENDS Naturals, Sequences, FiniteSets

CONSTANT Torn

\* The chunk at i is read as the tail of a line that a torn chunk began.
Glued(f, i) == i > 1 /\ f[i - 1] = Torn

\* The positions of the lines that a scan starting behind chunk `from` decodes.
Readable(f, from) ==
  { i \in from + 1 .. Len(f) : f[i] # Torn /\ (i > from + 1 => ~Glued(f, i)) }

\* The member of S that has k - 1 smaller ones.
Nth(S, k) == CHOOSE i \in S : Cardinality({ j \in S : j < i }) = k - 1

\* What a reader of the whole file gets.
Decoded(f) ==
  LET lines == Readable(f, 0)
  IN  [k \in 1 .. Cardinality(lines) |-> f[Nth(lines, k)]]

\* What an append of `line` may leave: all of it, a part, or nothing.
Written(f, line) == Append(f, line)
CutShort(f) == {Append(f, Torn), f}
==============================================================================
