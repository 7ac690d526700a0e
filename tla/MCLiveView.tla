------------------------------ MODULE MCLiveView -----------------------------
(***************************************************************************)
(* LiveView with history variables:                                        *)
(*   got     frames tail_file parsed since the server started              *)
(*   torn    frames of the current file a poll ended inside of since then  *)
(*   stale   last_size when the current file appeared or the server started*)
(***************************************************************************)
EXTENDS LiveView, FiniteSets

VARIABLES got, torn, stale
mcVars == <<vars, got, torn, stale>>

MCInit == Init /\ got = {} /\ torn = {} /\ stale = 0

\* The frame whose JSON object a position cuts in two.
CutAt(position) == {n \in (base + 1)..Logged : position = Start(n) + 1}

MCTailReads ==
  /\ TailReads
  /\ got' = got \cup Range(batch')
  /\ torn' = torn \cup CutAt(visible)
  /\ UNCHANGED stale

MCNewFile == NewFile /\ torn' = {} /\ stale' = last_size /\ UNCHANGED got

MCServerRestarts == ServerRestarts /\ got' = {} /\ torn' = {} /\ stale' = 0

MCOther ==
  /\ \/ \E hidden \in BOOLEAN : Log(hidden)
     \/ Sync \/ TailFinds \/ TailDies \/ TailAppends
     \/ \E n \in (posted + 1)..Logged : Ingest(n)
     \/ \E q \in Refreshes : PageStep(q)
  /\ UNCHANGED <<got, torn, stale>>

MCNext == MCTailReads \/ MCNewFile \/ MCServerRestarts \/ MCOther

MCSpec == MCInit /\ [][MCNext]_mcVars /\ Fairness

-----------------------------------------------------------------------------
\* The records kept are in the order the frames were logged and none is kept twice:
\* lines that are read in two parts, files that are replaced and restarts of the
\* server, which reads the file again from its beginning, all included.
RecordsInOrder ==
  \A i, k \in DOMAIN records : i < k => records[i] < records[k]

\* tail_file passes over a line only if one of its polls ended inside that line, or if
\* the file replaced another one and had not outgrown it: the position kept from the
\* old file then hides the beginning of the new one.
OnlyTornLinesAreLost ==
  \A n \in (base + 1)..Logged :
    Start(n) + 2 <= last_size => n \in got \cup torn \/ Start(n) < stale

\* The page comes to show what is kept and stays with it, however its overlapping
\* calls of refresh() overtook each other or failed before, once no private frame is
\* among the records kept (its infinite cost makes the response unreadable).
PageCatchesUp ==
  <>[]IsJson(records) => <>[](records # <<>> => page = records)

\* Every frame of an undisturbed session reaches the page: followed from one file, no
\* poll ending inside a line, the newest frame logged is in the end the last one on
\* display, unless a private frame is kept.
LogReachesPage ==
  feed = "tail" /\ [](base = 0 /\ torn = {}) /\ <>[]IsJson(records)
    => <>[](Logged > 0 => page # <<>> /\ Last(page) = Logged)
=============================================================================
