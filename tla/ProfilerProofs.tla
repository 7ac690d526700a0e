--------------------------- MODULE ProfilerProofs ---------------------------
(***************************************************************************)
(* Theorems about the two benchmark programs for every number of requests, *)
(* every file an earlier version left and any number of runs.              *)
(***************************************************************************)
EXTENDS Profiler, TLAPS

\* The rows in memory are those of this run, one for each request so far.
RowsOfThisRun ==
  /\ Len(results) <= Requests
  /\ \A i \in DOMAIN results :
       /\ results[i].kind = "row" /\ results[i].session = session /\ results[i].run = i
       /\ results[i].whole

\* Nothing is written before every request has its row; the program that starts its
\* file anew has emptied it by then and writes the header.
SavedAtTheEnd ==
  /\ pc \in {"header", "rows", "done"} => Len(results) = Requests
  /\ pc \in {"header", "rows"} => exists
  /\ pc = "header" => lines = <<>>
  /\ ~appends => pc # "rows"

\* What was saved last is what the file ends with.
EndsWithResults ==
  pc = "done" =>
    /\ Len(lines) >= Requests
    /\ \A i \in 1..Requests : lines[Len(lines) - Requests + i] = results[i]

\* Until a save is interrupted no line has lost its end, and the header is written by
\* whoever creates the file.
Intact ==
  /\ ~exists => lines = <<>> /\ ~torn
  /\ ~torn =>
       /\ \A k \in DOMAIN lines : lines[k].whole
       /\ lines # <<>> => lines[1].kind = "header"
       /\ exists /\ pc # "header" => lines # <<>>

\* Inductive, and what the file's properties follow from.
ProfilerInv ==
  /\ appends \in BOOLEAN /\ exists \in BOOLEAN /\ torn \in BOOLEAN
  /\ pc \in {"requesting", "header", "rows", "done", "crashed"}
  /\ session \in Nat
  /\ results \in Seq(Line) /\ lines \in Seq(Line)
  /\ RowsOfThisRun /\ SavedAtTheEnd /\ Intact /\ EndsWithResults /\ FreshFile

-----------------------------------------------------------------------------
(* Sequences.                                                              *)

\* What a sequence begins with stays when another one is written behind it.
LEMMA PrefixOfConcat ==
  ASSUME NEW S, NEW s \in Seq(S), NEW t \in Seq(S)
  PROVE  /\ s \o t \in Seq(S) /\ IsPrefix(s, s \o t) /\ IsPrefix(s, s)
         /\ Len(s \o t) = Len(s) + Len(t)
         /\ \A i \in 1..Len(s) : (s \o t)[i] = s[i]
         /\ \A i \in 1..Len(t) : (s \o t)[Len(s) + i] = t[i]
<1> DEFINE w == s \o t
<1>1. w \in Seq(S) /\ Len(w) = Len(s) + Len(t) /\ Len(s) \in Nat /\ Len(t) \in Nat
  OBVIOUS
<1>2. \A i \in 1..Len(t) : w[Len(s) + i] = t[i]
  OBVIOUS
<1>3. \A i \in 1..Len(s) : w[i] = s[i]
  OBVIOUS
<1>4. SubSeq(s, 1, Len(s)) = [i \in 1..Len(s) |-> s[i]]
  BY <1>1
<1>5. SubSeq(w, 1, Len(s)) = [i \in 1..Len(s) |-> w[i]]
  BY <1>1
<1> HIDE DEF w
<1>6. SubSeq(s, 1, Len(s)) = SubSeq(w, 1, Len(s))
  BY <1>3, <1>4, <1>5
<1> QED
  BY <1>1, <1>2, <1>3, <1>6 DEF IsPrefix, w

\* What is written behind whole lines is in lines of its own.
LEMMA WholeConcat ==
  ASSUME NEW s \in Seq(Line), NEW t \in Seq(Line), s # <<>>,
         \A k \in DOMAIN s : s[k].whole, \A k \in DOMAIN t : t[k].whole
  PROVE  (\A k \in DOMAIN (s \o t) : (s \o t)[k].whole) /\ (s \o t)[1] = s[1]
<1> DEFINE w == s \o t
<1>1. /\ w \in Seq(Line) /\ Len(w) = Len(s) + Len(t)
      /\ \A i \in 1..Len(s) : w[i] = s[i]
      /\ \A i \in 1..Len(t) : w[Len(s) + i] = t[i]
  BY PrefixOfConcat
<1>2. Len(s) \in Nat \ {0} /\ Len(t) \in Nat /\ DOMAIN s = 1..Len(s) /\ DOMAIN t = 1..Len(t)
  OBVIOUS
<1> HIDE DEF w
<1>3. ASSUME NEW k \in DOMAIN w PROVE w[k].whole
  <2>1. k \in 1..(Len(s) + Len(t))
    BY <1>1
  <2>2. CASE k <= Len(s)
    BY <1>1, <1>2, <2>1, <2>2
  <2>3. CASE k > Len(s)
    <3>1. k - Len(s) \in 1..Len(t) /\ k = Len(s) + (k - Len(s))
      BY <1>2, <2>1, <2>3
    <3>2. w[k] = t[k - Len(s)]
      BY <1>1, <3>1
    <3> QED
      BY <1>2, <3>1, <3>2
  <2> QED
    BY <1>2, <2>1, <2>2, <2>3
<1> QED
  BY <1>1, <1>2, <1>3 DEF w

\* The part of a write that got to the disk is a sequence of lines, also when the last of
\* them has lost its end.
LEMMA PartOfWrite ==
  ASSUME NEW s \in Seq(Line), NEW n \in 0..Len(s)
  PROVE  /\ SubSeq(s, 1, n) \in Seq(Line)
         /\ n # 0 => [SubSeq(s, 1, n) EXCEPT ![n].whole = FALSE] \in Seq(Line)
<1> DEFINE part == SubSeq(s, 1, n)
<1>1. part \in Seq(Line) /\ Len(part) = n /\ DOMAIN part = 1..n
  OBVIOUS
<1> HIDE DEF part
<1>2. ASSUME n # 0 PROVE [part EXCEPT ![n].whole = FALSE] \in Seq(Line)
  <2>1. n \in DOMAIN part /\ part[n] \in Line
    BY <1>1, <1>2
  <2>2. [part[n] EXCEPT !.whole = FALSE] \in Line
    BY <2>1 DEF Line
  <2> QED
    BY <1>1, <2>1, <2>2
<1> QED
  BY <1>1, <1>2 DEF part

\* Headers and rows are lines.
LEMMA LinesTyped ==
  /\ Header \in Line /\ Header.kind = "header" /\ Header.whole
  /\ \A n \in Nat, ok \in BOOLEAN : session \in Nat =>
       /\ Row(n, ok) \in Line /\ Row(n, ok).kind = "row"
       /\ Row(n, ok).session = session /\ Row(n, ok).run = n /\ Row(n, ok).whole
BY DEF Header, Row, Line, Columns

-----------------------------------------------------------------------------
(* The invariant.                                                          *)

\* The first state of a run on any earlier file.
LEMMA ProfilerInitially == Init => ProfilerInv
<1> SUFFICES ASSUME Init PROVE ProfilerInv
  OBVIOUS
<1>1. lines \in Seq(Line) /\ Intact
  BY EarlierLinesAssumption DEF Init, Intact, Complete
<1>2. results \in Seq(Line) /\ RowsOfThisRun /\ SavedAtTheEnd /\ EndsWithResults /\ FreshFile
  BY RequestsAssumption DEF Init, RowsOfThisRun, SavedAtTheEnd, EndsWithResults, FreshFile
<1> QED
  BY <1>1, <1>2 DEF Init, ProfilerInv

\* What save_results writes is lines.
LEMMA OutputTyped ==
  ASSUME ProfilerInv
  PROVE  /\ Output \in Seq(Line)
         /\ pc = "rows" => Output = results
         /\ pc = "header" => Output = <<Header>> \o results
<1>1. <<Header>> \in Seq(Line) /\ results \in Seq(Line)
  BY LinesTyped DEF ProfilerInv
<1>2. <<Header>> \o results \in Seq(Line)
  BY <1>1
<1> QED
  BY <1>1, <1>2 DEF Output

\* A request adds its own row, or none when the program crashes.
LEMMA RequestKeeps ==
  ASSUME ProfilerInv, NEW reply \in Replies, BenchmarkRequest(reply)
  PROVE  ProfilerInv'
<1>1. pc = "requesting" /\ Len(results) < Requests /\ Len(results) \in Nat
      /\ UNCHANGED <<appends, session, exists, lines, torn>>
  BY DEF BenchmarkRequest, ProfilerInv
<1>2. CASE reply = "empty"
  <2>1. pc' = "crashed" /\ results' = results
    BY <1>2 DEF BenchmarkRequest
  <2> QED
    BY <1>1, <2>1
    DEF ProfilerInv, RowsOfThisRun, SavedAtTheEnd, Intact, EndsWithResults, FreshFile
<1>3. CASE reply # "empty"
  <2> DEFINE row == Row(Len(results) + 1, reply = "ok")
             more == Append(results, row)
  <2>1. results' = more /\ pc' = pc
    BY <1>3 DEF BenchmarkRequest
  <2>2. /\ row \in Line /\ row.kind = "row" /\ row.session = session
        /\ row.run = Len(results) + 1 /\ row.whole
    <3>1. (reply = "ok") \in BOOLEAN /\ Len(results) + 1 \in Nat /\ session \in Nat
      BY <1>1 DEF ProfilerInv
    <3> QED
      BY <3>1, LinesTyped
  <2> HIDE DEF row
  <2>3. more \in Seq(Line) /\ Len(more) = Len(results) + 1
        /\ \A i \in DOMAIN more : \/ i \in DOMAIN results /\ more[i] = results[i]
                                  \/ i = Len(results) + 1 /\ more[i] = row
    BY <2>2 DEF ProfilerInv
  <2> HIDE DEF more
  <2>4. RowsOfThisRun'
    <3>1. Len(more) <= Requests
      BY <1>1, <2>3, RequestsAssumption
    <3>2. \A i \in DOMAIN more :
            /\ more[i].kind = "row" /\ more[i].session = session /\ more[i].run = i
            /\ more[i].whole
      BY <2>2, <2>3 DEF ProfilerInv, RowsOfThisRun
    <3> QED
      BY <1>1, <2>1, <3>1, <3>2 DEF RowsOfThisRun
  <2> QED
    BY <1>1, <2>1, <2>3, <2>4
    DEF ProfilerInv, SavedAtTheEnd, Intact, EndsWithResults, FreshFile
<1> QED
  BY <1>2, <1>3

\* Opening empties the file, or leaves it as it is and knows whether it is new.
LEMMA OpenKeeps ==
  ASSUME ProfilerInv, OpenResults
  PROVE  ProfilerInv' /\ (appends => IsPrefix(lines, lines'))
<1>1. /\ pc = "requesting" /\ Len(results) = Requests /\ exists' = TRUE
      /\ UNCHANGED <<appends, session, results>>
  BY DEF OpenResults
<1>2. IsPrefix(lines, lines)
  BY PrefixOfConcat DEF ProfilerInv
<1>3. CASE appends
  <2>1. UNCHANGED <<lines, torn>> /\ pc' = IF exists THEN "rows" ELSE "header"
    BY <1>3 DEF OpenResults, NeedsHeader
  <2>2. SavedAtTheEnd' /\ Intact'
    BY <1>1, <1>3, <2>1 DEF ProfilerInv, SavedAtTheEnd, Intact
  <2> QED
    BY <1>1, <1>2, <2>1, <2>2 DEF ProfilerInv, RowsOfThisRun, EndsWithResults, FreshFile
<1>4. CASE ~appends
  <2>1. lines' = <<>> /\ torn' = FALSE /\ pc' = "header"
    BY <1>4 DEF OpenResults, NeedsHeader
  <2>2. SavedAtTheEnd' /\ Intact' /\ EndsWithResults' /\ FreshFile'
    BY <1>1, <1>4, <2>1 DEF SavedAtTheEnd, Intact, EndsWithResults, FreshFile
  <2>3. RowsOfThisRun' /\ lines' \in Seq(Line)
    BY <1>1, <2>1 DEF ProfilerInv, RowsOfThisRun
  <2> QED
    BY <1>1, <1>4, <2>1, <2>2, <2>3 DEF ProfilerInv
<1> QED
  BY <1>3, <1>4

\* Saving writes the rows at the end of the file, behind the header of a fresh one.
LEMMA WriteKeeps ==
  ASSUME ProfilerInv, WriteResults
  PROVE  ProfilerInv' /\ IsPrefix(lines, lines')
<1> DEFINE head == IF pc = "header" THEN lines \o <<Header>> ELSE lines
<1>1. /\ pc \in {"header", "rows"} /\ pc' = "done" /\ UNCHANGED <<appends, session, results, exists, torn>>
      /\ lines' = lines \o Output
  BY DEF WriteResults
<1>2. lines \in Seq(Line) /\ results \in Seq(Line) /\ <<Header>> \in Seq(Line)
      /\ Len(results) = Requests
  BY <1>1, LinesTyped DEF ProfilerInv, SavedAtTheEnd
<1>3. head \in Seq(Line) /\ lines' = head \o results
  <2>1. CASE pc = "header"
    <3>1. lines \o (<<Header>> \o results) = (lines \o <<Header>>) \o results
      BY <1>2
    <3>2. Output = <<Header>> \o results
      BY <2>1, OutputTyped
    <3> QED
      BY <1>1, <1>2, <2>1, <3>1, <3>2
  <2>2. CASE pc = "rows"
    <3>1. Output = results
      BY <2>2, OutputTyped
    <3> QED
      BY <1>1, <1>2, <2>2, <3>1
  <2> QED
    BY <1>1, <2>1, <2>2
<1>4. IsPrefix(lines, lines')
  BY <1>1, <1>2, OutputTyped, PrefixOfConcat
<1>0. ~torn => head # <<>> /\ (\A k \in DOMAIN head : head[k].whole) /\ head[1].kind = "header"
  <2>1. CASE pc = "header"
    <3>1. head = <<Header>>
      BY <1>2, <2>1 DEF ProfilerInv, SavedAtTheEnd
    <3> QED
      BY <3>1, LinesTyped
  <2>2. CASE pc = "rows"
    BY <2>2 DEF ProfilerInv, SavedAtTheEnd, Intact
  <2> QED
    BY <1>1, <2>1, <2>2
<1> HIDE DEF head
<1>5. /\ lines' \in Seq(Line) /\ Len(lines') = Len(head) + Requests /\ Len(head) \in Nat
      /\ \A i \in 1..Requests : lines'[Len(head) + i] = results[i]
  BY <1>2, <1>3, PrefixOfConcat
<1>6. EndsWithResults'
  <2>1. Len(lines') - Requests = Len(head)
    BY <1>2, <1>5, RequestsAssumption
  <2>2. Len(lines') >= Requests
    BY <1>5, RequestsAssumption
  <2> QED
    BY <1>1, <1>5, <2>1, <2>2 DEF EndsWithResults
<1>7. FreshFile'
  <2> SUFFICES ASSUME ~appends PROVE lines' = <<Header>> \o results
    BY <1>1 DEF FreshFile
  <2>1. pc = "header" /\ lines = <<>>
    BY <1>1 DEF ProfilerInv, SavedAtTheEnd
  <2>2. lines' = <<>> \o (<<Header>> \o results) /\ <<Header>> \o results \in Seq(Line)
    BY <1>1, <1>2, <2>1, OutputTyped
  <2> QED
    BY <2>2
<1>8. Intact'
  <2>1. exists' /\ lines' # <<>>
    BY <1>1, <1>2, <1>5, RequestsAssumption DEF ProfilerInv, SavedAtTheEnd
  <2> SUFFICES ASSUME ~torn
               PROVE  (\A k \in DOMAIN lines' : lines'[k].whole) /\ lines'[1].kind = "header"
    BY <1>1, <2>1 DEF Intact
  <2>2. \A k \in DOMAIN results : results[k].whole
    BY DEF ProfilerInv, RowsOfThisRun
  <2>3. head # <<>> /\ (\A k \in DOMAIN head : head[k].whole) /\ head[1].kind = "header"
    BY <1>0
  <2> QED
    BY <1>2, <1>3, <2>2, <2>3, WholeConcat
<1> QED
  BY <1>1, <1>2, <1>4, <1>5, <1>6, <1>7, <1>8 DEF ProfilerInv, RowsOfThisRun, SavedAtTheEnd

\* An interruption leaves what was there and part of what was being written.
LEMMA KilledKeeps ==
  ASSUME ProfilerInv, Killed
  PROVE  ProfilerInv' /\ IsPrefix(lines, lines')
<1>1. pc' = "crashed" /\ UNCHANGED <<appends, session, results, exists>>
  BY DEF Killed
<1>2. CASE pc = "requesting"
  <2>1. UNCHANGED <<lines, torn>>
    BY <1>2 DEF Killed
  <2>2. IsPrefix(lines, lines)
    BY PrefixOfConcat DEF ProfilerInv
  <2> QED
    BY <1>1, <1>2, <2>1, <2>2
    DEF ProfilerInv, RowsOfThisRun, SavedAtTheEnd, Intact, EndsWithResults, FreshFile
<1>3. CASE pc \in {"header", "rows"}
  <2>1. PICK part \in Seq(Line) : lines' = lines \o part
    <3>1. PICK n \in 0..Len(Output) :
            \/ lines' = lines \o SubSeq(Output, 1, n)
            \/ n # 0 /\ lines' = lines \o [SubSeq(Output, 1, n) EXCEPT ![n].whole = FALSE]
      BY <1>3 DEF Killed
    <3>2. /\ SubSeq(Output, 1, n) \in Seq(Line)
          /\ n # 0 => [SubSeq(Output, 1, n) EXCEPT ![n].whole = FALSE] \in Seq(Line)
      BY OutputTyped, PartOfWrite
    <3> QED
      BY <3>1, <3>2
  <2>2. lines' \in Seq(Line) /\ IsPrefix(lines, lines')
    BY <2>1, PrefixOfConcat DEF ProfilerInv
  <2>3. torn' = TRUE /\ exists
    BY <1>3 DEF Killed, ProfilerInv, SavedAtTheEnd
  <2> QED
    BY <1>1, <2>2, <2>3
    DEF ProfilerInv, RowsOfThisRun, SavedAtTheEnd, Intact, EndsWithResults, FreshFile
<1> QED
  BY <1>2, <1>3 DEF Killed

\* ProfilerInv is inductive, and no step of the appending program takes a line away.
LEMMA ProfilerStep ==
  ProfilerInv /\ [Next]_vars => ProfilerInv' /\ (appends => IsPrefix(lines, lines'))
<1> SUFFICES ASSUME ProfilerInv, [Next]_vars
             PROVE  ProfilerInv' /\ (appends => IsPrefix(lines, lines'))
  OBVIOUS
<1>0. IsPrefix(lines, lines)
  BY PrefixOfConcat DEF ProfilerInv
<1>1. CASE \E reply \in Replies : BenchmarkRequest(reply)
  BY <1>0, <1>1, RequestKeeps DEF BenchmarkRequest
<1>2. CASE OpenResults
  BY <1>2, OpenKeeps
<1>3. CASE WriteResults
  BY <1>3, WriteKeeps
<1>4. CASE Killed
  BY <1>4, KilledKeeps
<1>5. CASE Restart
  BY <1>0, <1>5, RequestsAssumption
  DEF Restart, ProfilerInv, RowsOfThisRun, SavedAtTheEnd, Intact, EndsWithResults, FreshFile
<1>6. CASE UNCHANGED vars
  BY <1>0, <1>6
  DEF vars, ProfilerInv, RowsOfThisRun, SavedAtTheEnd, Intact, EndsWithResults, FreshFile
<1> QED
  BY <1>1, <1>2, <1>3, <1>4, <1>5, <1>6 DEF Next

\* The invariant of both benchmark programs, from their first run on.
LEMMA ProfilerInvariant == Spec => []ProfilerInv
BY ProfilerInitially, ProfilerStep, PTL DEF Spec

-----------------------------------------------------------------------------
(* The theorems.                                                           *)

\* No line ever leaves the file of the edge benchmark, whenever a run is interrupted.
THEOREM EarlierRuns == Spec => EarlierRunsPreserved
<1>1. ProfilerInv /\ [Next]_vars => [appends => IsPrefix(lines, lines')]_vars
  BY ProfilerStep
<1> QED
  BY <1>1, ProfilerInvariant, PTL DEF Spec, EarlierRunsPreserved

\* A run that reports success has one complete row per request at the end of the file, in
\* order.  Every one but the first begins a line, and so does the first one in a file
\* that has its header unless a save was interrupted.
THEOREM SavedRows == Spec => []SavedRowPerRequest
<1>1. ProfilerInv => SavedRowPerRequest
  <2> SUFFICES ASSUME ProfilerInv, pc = "done" PROVE SavedRowPerRequest
    BY DEF SavedRowPerRequest
  <2>1. /\ Len(lines) >= Requests /\ Len(lines) \in Nat /\ Requests \in Nat \ {0}
        /\ DOMAIN lines = 1..Len(lines) /\ lines # <<>>
        /\ \A i \in 1..Requests : lines[Len(lines) - Requests + i] = results[i]
    BY RequestsAssumption DEF ProfilerInv, EndsWithResults
  <2>2. \A i \in 1..Requests :
          /\ results[i].kind = "row" /\ results[i].session = session /\ results[i].run = i
          /\ results[i].whole
    <3>1. DOMAIN results = 1..Requests
      BY <2>1 DEF ProfilerInv, SavedAtTheEnd
    <3> QED
      BY <3>1 DEF ProfilerInv, RowsOfThisRun
  <2>3. ~torn => (\A k \in DOMAIN lines : lines[k].whole) /\ lines[1].kind = "header"
    BY <2>1 DEF ProfilerInv, Intact
  <2>4. ASSUME NEW i \in 1..Requests, i > 1 \/ ~torn
        PROVE  StartsLine(lines, Len(lines) - Requests + i)
    <3> DEFINE k == Len(lines) - Requests + i
    <3>1. CASE i > 1
      <4>1. i - 1 \in 1..Requests /\ k - 1 = Len(lines) - Requests + (i - 1)
        BY <2>1, <3>1
      <4>2. lines[Len(lines) - Requests + (i - 1)] = results[i - 1] /\ results[i - 1].whole
        BY <2>1, <2>2, <4>1, Zenon
      <4> QED
        BY <4>1, <4>2, Zenon DEF StartsLine
    <3>2. CASE ~torn
      <4>1. k = 1 \/ k - 1 \in DOMAIN lines
        BY <2>1
      <4> QED
        BY <2>3, <3>2, <4>1 DEF StartsLine
    <3> QED
      BY <2>4, <3>1, <3>2
  <2> DEFINE At(i) == lines[Len(lines) - Requests + i]
  <2>5. ASSUME NEW i \in 1..Requests
        PROVE  /\ At(i).kind = "row" /\ At(i).session = session /\ At(i).run = i
               /\ At(i).whole
    <3>1. At(i) = results[i]
      BY <2>1
    <3> QED
      BY <2>2, <3>1
  <2> QED
    BY <2>1, <2>3, <2>4, <2>5, Zenon DEF SavedRowPerRequest
<1> QED
  BY <1>1, ProfilerInvariant, PTL

\* The server benchmark leaves no line of another run in its file.
THEOREM Fresh == Spec => []FreshFile
<1>1. ProfilerInv => FreshFile
  BY DEF ProfilerInv
<1> QED
  BY <1>1, ProfilerInvariant, PTL
=============================================================================
