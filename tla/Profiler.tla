------------------------------ MODULE Profiler ------------------------------
(***************************************************************************)
(* The two benchmark programs: edge/profiler.py, which appends to its CSV  *)
(* file, and scripts/test_server.py, which starts the file anew.  Each     *)
(* sends a fixed sequence of requests to an Ollama endpoint, keeps one row *)
(* per request in memory and writes them all at the end.                   *)
(*                                                                         *)
(* A file is the sequence of what was written to it: a line that is not    *)
(* whole has lost its end and its newline, and what is written next goes   *)
(* on in the same line of text.                                            *)
(***************************************************************************)
EXTENDS Integers, SequencesExt

CONSTANTS Requests,      \* how many: workloads times RUNS_PER_WORKLOAD
          EarlierLines,  \* what an earlier version of the program left in the file
          MaxSessions    \* bound: runs of the program

ASSUME RequestsAssumption == Requests \in Nat \ {0} /\ MaxSessions \in Nat \ {0}

\* A header, or a row; the columns are the fieldnames of this version ("new") or of an
\* earlier one.
Columns == {"new", "old"}
Line == [columns : Columns, kind : {"header"}, whole : BOOLEAN]
        \cup [columns : Columns, kind : {"row"}, session : Nat, run : Nat, success : BOOLEAN,
              whole : BOOLEAN]

\* Line k begins a line of text.
StartsLine(file, k) == k = 1 \/ file[k - 1].whole

\* A file as a completed save leaves it: a header, and no line without its end.
Complete(file) ==
  /\ file # <<>> /\ file[1].kind = "header"
  /\ \A k \in DOMAIN file : file[k].whole

ASSUME EarlierLinesAssumption == EarlierLines \in Seq(Line) /\ Complete(EarlierLines)

VARIABLES appends,   \* which program: one opens the file with "a", the other with "w"
          pc,        \* requesting, header or rows (what is to be written), done, crashed
          session,   \* number of the run
          results,   \* rows in memory
          exists,    \* the file exists
          lines,     \* what was written to it
          torn       \* history: a save since its creation was interrupted
vars == <<appends, pc, session, results, exists, lines, torn>>

\* ok: tokens and their rate; empty: an answer without tokens, or without the time
\* they took; garbled: no JSON; the rest are exceptions of requests.
Replies == {"ok", "empty", "garbled", "timeout", "error"}

Header == [columns |-> "new", kind |-> "header", whole |-> TRUE]
Row(number, success) ==
  [columns |-> "new", kind |-> "row", session |-> session, run |-> number, success |-> success,
   whole |-> TRUE]

Init ==
  /\ appends \in BOOLEAN
  /\ pc = "requesting"
  /\ session = 1
  /\ results = <<>>
  /\ exists \in BOOLEAN
  /\ lines = IF exists THEN EarlierLines ELSE <<>>
  /\ torn = FALSE

\* benchmark_request.  The message that reports a success formats the generation rate,
\* which is None for an empty answer: a TypeError nobody catches.
BenchmarkRequest(reply) ==
  /\ pc = "requesting" /\ Len(results) < Requests
  /\ IF reply = "empty"
     THEN pc' = "crashed" /\ UNCHANGED results
     ELSE results' = Append(results, Row(Len(results) + 1, reply = "ok")) /\ UNCHANGED pc
  /\ UNCHANGED <<appends, session, exists, lines, torn>>

\* Faulty: the file is looked for when open has created it already.
NeedsHeaderTestedLate == ~appends

\* What is written: the header when the file is new, then the rows.
NeedsHeader == ~appends \/ ~exists

\* Faulty: opened with "w", or with "a", whatever the program.
OpenResultsAppending ==
  /\ pc = "requesting" /\ Len(results) = Requests
  /\ pc' = IF NeedsHeader THEN "header" ELSE "rows"
  /\ exists' = TRUE
  /\ UNCHANGED <<appends, session, results, lines, torn>>
OpenResultsTruncating ==
  /\ pc = "requesting" /\ Len(results) = Requests
  /\ pc' = IF NeedsHeader THEN "header" ELSE "rows"
  /\ exists' = TRUE
  /\ lines' = <<>>
  /\ UNCHANGED <<appends, session, results, torn>>

\* save_results: open; "w" empties the file at once.
OpenResults ==
  /\ pc = "requesting" /\ Len(results) = Requests
  /\ pc' = IF NeedsHeader THEN "header" ELSE "rows"
  /\ exists' = TRUE
  /\ IF appends THEN UNCHANGED <<lines, torn>> ELSE lines' = <<>> /\ torn' = FALSE
  /\ UNCHANGED <<appends, session, results>>

Output == IF pc = "header" THEN <<Header>> \o results ELSE results

WriteResults ==
  /\ pc \in {"header", "rows"}
  /\ lines' = lines \o Output
  /\ pc' = "done"
  /\ UNCHANGED <<appends, session, results, exists, torn>>

\* Killed at any point, or the disk is full: of what was being written any part may have
\* got to the disk, down to some of a line.
Killed ==
  /\ pc \in {"requesting", "header", "rows"}
  /\ IF pc = "requesting"
     THEN UNCHANGED <<lines, torn>>
     ELSE /\ \E n \in 0..Len(Output) :
               \/ lines' = lines \o SubSeq(Output, 1, n)
               \/ /\ n # 0
                  /\ lines' = lines \o [SubSeq(Output, 1, n) EXCEPT ![n].whole = FALSE]
          /\ torn' = TRUE
  /\ pc' = "crashed"
  /\ UNCHANGED <<appends, session, results, exists>>

Restart ==
  /\ pc \in {"done", "crashed"} /\ session < MaxSessions
  /\ session' = session + 1
  /\ pc' = "requesting"
  /\ results' = <<>>
  /\ UNCHANGED <<appends, exists, lines, torn>>

Next ==
  \/ \E reply \in Replies : BenchmarkRequest(reply)
  \/ OpenResults \/ WriteResults
  \/ Killed \/ Restart

Spec == Init /\ [][Next]_vars

-----------------------------------------------------------------------------
\* "previous benchmark runs are preserved" (profiler.py:284-285), also by a run that
\* is interrupted while it saves: no line ever leaves the edge file.
EarlierRunsPreserved == [][appends => IsPrefix(lines, lines')]_vars

\* When the program says the results are saved, the file ends with a complete row for
\* every request of this run, in their order, whatever failed in between.  Only the first
\* of them may stand in the same line of text as what is before it, and the file may
\* begin without its header, and either only after a save that was interrupted.
SavedRowPerRequest ==
  pc = "done" =>
    /\ Len(lines) >= Requests
    /\ \A i \in 1..Requests :
         LET k == Len(lines) - Requests + i
         IN  /\ lines[k].kind = "row" /\ lines[k].session = session /\ lines[k].run = i
             /\ lines[k].whole
             /\ i > 1 \/ ~torn => StartsLine(lines, k)
    /\ ~torn => lines[1].kind = "header"

\* "This creates a fresh benchmark file for this run" (test_server.py:403): no row of
\* another run remains, an interrupted one included, and the header comes first.
FreshFile ==
  pc = "done" /\ ~appends => lines = <<Header>> \o results
=============================================================================
