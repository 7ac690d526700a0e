------------------------------- MODULE LiveView ------------------------------
(***************************************************************************)
(* The live view of a session: edge/logger.py writes one line per frame,   *)
(* dashboard/app.py follows the file (tail_file) or is sent the records    *)
(* (/ingest) and serves the last ones (/api/records), and the page         *)
(* dashboard.html asks for them every second.                              *)
(*                                                                         *)
(* Frame n is the n-th one logged; of its record only the privacy matters, *)
(* which makes cloud_cost infinite.  The file tail_file opens is a copy on *)
(* another machine (network mount, synced folder): it may be absent, may   *)
(* end anywhere in a line, and may be replaced by that of a new session.   *)
(* A line is three pieces: the beginning of the JSON object, the rest of   *)
(* it, and the newline; file positions count pieces.                       *)
(***************************************************************************)
EXTENDS Integers, Sequences, SequencesExt

CONSTANTS MAX_RECORDS,    \* maxlen of _records
          Refreshes,      \* bound: calls of refresh() that run at the same time
          MaxFrames,      \* bound on the frames logged
          MaxUpsets       \* bound on restarts of the server and replacements of the file

ASSUME MaxRecordsAssumption == MAX_RECORDS \in Nat \ {0}
ASSUME ViewBoundsAssumption == MaxFrames \in Nat /\ MaxUpsets \in Nat

VARIABLES
  private,     \* per frame logged so far, whether it was private
  base,        \* the frames that are not in the current file
  present,     \* the copy exists
  visible,     \* pieces of the current file the copy has
  feed,        \* how records get to the server: "tail" or "push"
  tail,        \* where the tail_file thread is
  last_size,
  batch,       \* frames read in this poll, not yet appended
  posted,      \* the last frame sent to /ingest
  records,     \* _records
  refresh,     \* per call of refresh(), where it is
  body,        \* per call, the response
  page,        \* the records on display
  upsets       \* restarts of the server and replacements of the file so far
fileVars == <<private, base, present, visible, upsets>>
tailVars == <<tail, last_size, batch>>
serverVars == <<feed, tailVars, posted, records>>
pageVars == <<refresh, body, page>>
vars == <<fileVars, serverVars, pageVars>>

Logged == Len(private)

\* The position of the first piece of frame n in the current file.
Start(n) == 3 * (n - base - 1)

Init ==
  /\ private = <<>> /\ base = 0 /\ present = FALSE /\ visible = 0
  /\ feed \in {"tail", "push"}
  /\ tail = "sleep" /\ last_size = 0 /\ batch = <<>>
  /\ posted = 0 /\ records = <<>> /\ upsets = 0
  /\ refresh = [q \in Refreshes |-> "idle"]
  /\ body = [q \in Refreshes |-> <<>>]
  /\ page = <<>>

-----------------------------------------------------------------------------
(* The Pi and the copy of its log.                                         *)

\* FrameLogger.log, with a line-buffered file opened for appending.
Log(hidden) ==
  /\ Logged < MaxFrames
  /\ private' = Append(private, hidden)
  /\ UNCHANGED <<base, present, visible, upsets, serverVars, pageVars>>

\* The copy catches up by any number of pieces; it appears empty.
Sync ==
  /\ feed = "tail"
  /\ IF present
     THEN \E pieces \in (visible + 1)..(3 * (Logged - base)) :
            visible' = pieces /\ UNCHANGED present
     ELSE present' = TRUE /\ UNCHANGED visible
  /\ UNCHANGED <<private, base, upsets, serverVars, pageVars>>

\* The next session starts with a new file; the old copy goes away first.
NewFile ==
  /\ feed = "tail" /\ present /\ Logged > base
  /\ upsets < MaxUpsets
  /\ upsets' = upsets + 1
  /\ base' = Logged /\ present' = FALSE /\ visible' = 0
  /\ UNCHANGED <<private, serverVars, pageVars>>

-----------------------------------------------------------------------------
(* The dashboard server.                                                   *)

\* Faulty: no maxlen.
KeptAll(n) == Append(records, n)

\* _records.append on a full deque drops the oldest one.
Kept(n) ==
  IF Len(records) < MAX_RECORDS THEN Append(records, n) ELSE Append(Tail(records), n)

\* Faulty: the file opened without looking whether it is there.
TailFindsUntested ==
  /\ feed = "tail" /\ tail = "sleep"
  /\ tail' = "open"
  /\ UNCHANGED <<fileVars, feed, last_size, batch, posted, records, pageVars>>

\* os.path.exists(path); otherwise sleep again.
TailFinds ==
  /\ feed = "tail" /\ tail = "sleep" /\ present
  /\ tail' = "open"
  /\ UNCHANGED <<fileVars, feed, last_size, batch, posted, records, pageVars>>

\* The copy went away between the test and open(): the exception ends the thread.
TailDies ==
  /\ tail = "open" /\ ~present
  /\ tail' = "dead"
  /\ UNCHANGED <<fileVars, feed, last_size, batch, posted, records, pageVars>>

\* The frames from one to another, in the order of their lines.
FromTo(first, last) == [i \in 1..(last - first + 1) |-> first + i - 1]

\* The first frame whose line does not begin before a position.
FirstFrom(from) == base + 1 + (from + 2) \div 3

\* Faulty: a line is taken only with its newline.
ParsedWithNewline(from, to) == FromTo(FirstFrom(from), base + to \div 3)

\* The lines between two positions that parse: both parts of the JSON object are
\* there.  The newline need not be; alone it is an empty line.
Parsed(from, to) == FromTo(FirstFrom(from), base + (to + 1) \div 3)

\* Faulty: the position after the last newline.
ToldAtNewline(from, to) == IF from <= to THEN 3 * (to \div 3) ELSE from

\* f.tell() after the last line: a position beyond the end stays where it is.
Told(from, to) == IF from <= to THEN to ELSE from

TailReads ==
  /\ tail = "open" /\ present
  /\ batch' = Parsed(last_size, visible)
  /\ last_size' = Told(last_size, visible)
  /\ tail' = "append"
  /\ UNCHANGED <<fileVars, feed, posted, records, pageVars>>

TailAppends ==
  /\ tail = "append"
  /\ IF batch = <<>>
     THEN tail' = "sleep" /\ UNCHANGED <<batch, records>>
     ELSE /\ records' = Kept(Head(batch))
          /\ batch' = Tail(batch)
          /\ UNCHANGED tail
  /\ UNCHANGED <<fileVars, feed, last_size, posted, pageVars>>

TailStep == TailFinds \/ TailDies \/ TailReads \/ TailAppends

\* /ingest: the Pi posts the records one after the other; a post may be lost.
Ingest(n) ==
  /\ feed = "push"
  /\ posted' = n
  /\ records' = Kept(n)
  /\ UNCHANGED <<fileVars, feed, tailVars, pageVars>>

\* /api/records for a call of refresh(): a copy of the deque under the lock.  The timer
\* makes calls whether the earlier ones have ended or not; one that is not answered
\* yet or fails has left no trace.
api_records(q) ==
  /\ refresh[q] = "idle"
  /\ body' = [body EXCEPT ![q] = records]
  /\ refresh' = [refresh EXCEPT ![q] = "answered"]
  /\ UNCHANGED <<fileVars, serverVars, page>>

\* A new process: nothing kept, the file followed from its beginning.
ServerRestarts ==
  /\ upsets < MaxUpsets
  /\ upsets' = upsets + 1
  /\ tail' = "sleep" /\ last_size' = 0 /\ batch' = <<>> /\ records' = <<>>
  /\ UNCHANGED <<private, base, present, visible, feed, posted, pageVars>>

-----------------------------------------------------------------------------
(* The page.                                                               *)

\* An infinite cost is serialised as Infinity, which is no JSON: res.json() throws.
IsJson(shown) == \A i \in DOMAIN shown : ~private[shown[i]]

\* Faulty: the next refresh is set up only at the end of a successful one.
RenderThenSchedule(q) ==
  /\ refresh[q] = "answered"
  /\ IF IsJson(body[q])
     THEN /\ page' = IF body[q] # <<>> THEN body[q] ELSE page
          /\ body' = [body EXCEPT ![q] = <<>>]
          /\ refresh' = [refresh EXCEPT ![q] = "idle"]
     ELSE UNCHANGED pageVars
  /\ UNCHANGED <<fileVars, serverVars>>

\* A failed call changes nothing, and the timer makes the next one all the same.
Render(q) ==
  /\ refresh[q] = "answered"
  /\ page' = IF body[q] # <<>> /\ IsJson(body[q]) THEN body[q] ELSE page
  /\ body' = [body EXCEPT ![q] = <<>>]
  /\ refresh' = [refresh EXCEPT ![q] = "idle"]
  /\ UNCHANGED <<fileVars, serverVars>>

PageStep(q) == api_records(q) \/ Render(q)

-----------------------------------------------------------------------------
Next ==
  \/ \E hidden \in BOOLEAN : Log(hidden)
  \/ Sync
  \/ NewFile
  \/ TailStep
  \/ \E n \in (posted + 1)..Logged : Ingest(n)
  \/ ServerRestarts
  \/ \E q \in Refreshes : PageStep(q)

\* The copy catches up, the thread polls every half second, the timer fires every
\* second and every request is answered.  Nobody has to log.
Fairness ==
  /\ WF_vars(Sync)
  /\ WF_vars(TailStep)
  /\ \A q \in Refreshes : WF_vars(PageStep(q))

Spec == Init /\ [][Next]_vars /\ Fairness

-----------------------------------------------------------------------------
Displays == {shown \in Seq(1..Logged) : Len(shown) <= MAX_RECORDS}

\* Types of the file, the server and the page; what is kept and what is shown never
\* exceeds the deque.
ViewTypeOK ==
  /\ private \in Seq(BOOLEAN) /\ Logged <= MaxFrames
  /\ base \in 0..Logged /\ visible \in 0..(3 * (Logged - base))
  /\ present \in BOOLEAN /\ feed \in {"tail", "push"}
  /\ tail \in {"sleep", "open", "append", "dead"}
  /\ last_size \in 0..(3 * MaxFrames) /\ posted \in 0..Logged
  /\ upsets \in 0..MaxUpsets
  /\ refresh \in [Refreshes -> {"idle", "answered"}]
  /\ records \in Displays /\ page \in Displays /\ body \in [Refreshes -> Displays]
  /\ batch \in Seq(1..Logged)
=============================================================================
