--------------------------- MODULE LiveViewProofs ---------------------------
(***************************************************************************)
(* Theorems about the dashboard for every size of the record buffer, every *)
(* number of overlapping refreshes and every number of frames, restarts    *)
(* and replaced files.                                                     *)
(***************************************************************************)
EXTENDS MCLiveView, SequenceTheorems, TLAPS

Ascending(s) == \A i, k \in DOMAIN s : i < k => s[i] < s[k]

\* What was read of the current file lies before last_size; all the rest kept is of
\* earlier files.
Behind(n) == n <= base \/ Start(n) + 2 <= last_size

\* Frames get to the server in the order of their lines, by either way.
InOrder ==
  /\ Ascending(records) /\ Ascending(batch)
  /\ \A i \in DOMAIN records, k \in DOMAIN batch : records[i] < batch[k]
  /\ tail # "append" => batch = <<>>
  /\ feed = "tail" => /\ \A i \in DOMAIN records : Behind(records[i])
                      /\ \A k \in DOMAIN batch : Behind(batch[k])
  /\ feed = "push" => /\ tail = "sleep"
                      /\ \A i \in DOMAIN records : records[i] <= posted

ViewInv == ViewTypeOK /\ InOrder

\* A position beyond the copy is the one left over from the file before, and a line
\* whose beginning was passed is parsed, torn or hidden by such a position.
Passed ==
  /\ got \subseteq Nat /\ torn \subseteq Nat /\ stale \in Nat
  /\ last_size > visible => last_size = stale
  /\ \A n \in (base + 1)..Logged : Start(n) < last_size => n \in got \cup torn \/ Start(n) < stale

-----------------------------------------------------------------------------
(* The lines between two positions. *)

\* Division by three, as every position is told.
LEMMA Thirds ==
  ASSUME NEW a \in Int
  PROVE  a \div 3 \in Int /\ 3 * (a \div 3) <= a /\ a < 3 * (a \div 3) + 3
BY SMT

\* What tail_file reads between two positions: exactly the frames whose JSON object lies
\* between them, in the order of their lines.
LEMMA LinesParsed ==
  ASSUME base \in Nat, NEW from \in Nat, NEW to \in Nat
  PROVE  /\ \A high \in Nat : base + (to + 1) \div 3 <= high => Parsed(from, to) \in Seq(1..high)
         /\ Ascending(Parsed(from, to))
         /\ \A i \in DOMAIN Parsed(from, to) :
              /\ Parsed(from, to)[i] \in Int /\ Parsed(from, to)[i] > base
              /\ from <= Start(Parsed(from, to)[i]) /\ Start(Parsed(from, to)[i]) + 2 <= to
         /\ \A n \in Int : from <= Start(n) /\ Start(n) + 2 <= to => n \in Range(Parsed(from, to))
<1> DEFINE below == (from + 2) \div 3
<1> DEFINE above == (to + 1) \div 3
<1> DEFINE lines == Parsed(from, to)
<1>1. below \in Int /\ 3 * below <= from + 2 /\ from + 2 < 3 * below + 3
  BY Thirds, from + 2 \in Int
<1>2. above \in Int /\ 3 * above <= to + 1 /\ to + 1 < 3 * above + 3
  BY Thirds, to + 1 \in Int
<1>3. lines = [i \in 1..(base + above - (base + 1 + below) + 1) |-> base + 1 + below + i - 1]
  BY DEF Parsed, FromTo, FirstFrom
<1> HIDE DEF below, above, lines
<1>4. lines = [i \in 1..(above - below) |-> base + below + i]
  BY <1>1, <1>2, <1>3
<1>5. DOMAIN lines = 1..(above - below)
  BY <1>4
<1>6. \A i \in DOMAIN lines : lines[i] = base + below + i
  BY <1>4, <1>5
<1>7. below >= 0 /\ above >= 0
  BY <1>1, <1>2
<1>8. ASSUME NEW high \in Nat, base + above <= high PROVE lines \in Seq(1..high)
  <2> DEFINE len == IF above >= below THEN above - below ELSE 0
  <2>1. len \in Nat /\ 1..(above - below) = 1..len
    BY <1>1, <1>2
  <2> HIDE DEF len
  <2>2. \A i \in 1..(above - below) : base + below + i \in 1..high
    BY <1>1, <1>2, <1>7, <1>8
  <2>3. lines \in [1..len -> 1..high]
    BY <1>4, <2>1, <2>2
  <2> QED
    BY <2>1, <2>3
<1>9. Ascending(lines)
  BY <1>1, <1>2, <1>5, <1>6 DEF Ascending
<1>10. ASSUME NEW i \in DOMAIN lines
       PROVE  /\ lines[i] \in Int /\ lines[i] > base
              /\ from <= Start(lines[i]) /\ Start(lines[i]) + 2 <= to
  <2>1. lines[i] = base + below + i /\ i \in 1..(above - below)
    BY <1>5, <1>6
  <2>2. Start(lines[i]) = 3 * (below + i - 1)
    BY <2>1, <1>1 DEF Start
  <2> QED
    BY <2>1, <2>2, <1>1, <1>2, <1>7
<1>11. ASSUME NEW n \in Int, from <= Start(n), Start(n) + 2 <= to PROVE n \in Range(lines)
  <2>1. Start(n) = 3 * (n - base - 1)
    BY DEF Start
  <2>2. n - base - below \in 1..(above - below)
    BY <2>1, <1>1, <1>2, <1>11
  <2>3. lines[n - base - below] = n
    BY <2>2, <1>4, <1>1
  <2> QED
    BY <2>2, <2>3, <1>5 DEF Range
<1> QED
  BY <1>8, <1>9, <1>10, <1>11 DEF lines, above

-----------------------------------------------------------------------------
(* The record buffer. *)

\* A frame appended after the others comes last.
LEMMA AppendLast ==
  ASSUME NEW S, NEW s \in Seq(S), NEW n \in S
  PROVE  /\ Append(s, n) \in Seq(S) /\ Len(Append(s, n)) = Len(s) + 1
         /\ \A i \in DOMAIN Append(s, n) : Append(s, n)[i] = n \/ (i \in DOMAIN s /\ Append(s, n)[i] = s[i])
         /\ S \subseteq Int /\ Ascending(s) /\ (\A i \in DOMAIN s : s[i] < n) => Ascending(Append(s, n))
<1> DEFINE longer == Append(s, n)
<1>1. longer \in Seq(S) /\ Len(longer) = Len(s) + 1 /\ DOMAIN longer = 1..(Len(s) + 1)
      /\ Len(s) \in Nat /\ DOMAIN s = 1..Len(s)
  OBVIOUS
<1>2. longer[Len(s) + 1] = n /\ \A i \in DOMAIN s : longer[i] = s[i]
  OBVIOUS
<1> HIDE DEF longer
<1>3. \A i \in DOMAIN longer : i \in DOMAIN s \/ i = Len(s) + 1
  BY <1>1
<1>4. ASSUME S \subseteq Int, Ascending(s), \A i \in DOMAIN s : s[i] < n PROVE Ascending(longer)
  <2> SUFFICES ASSUME NEW i \in DOMAIN longer, NEW k \in DOMAIN longer, i < k PROVE longer[i] < longer[k]
    BY DEF Ascending
  <2>1. i \in DOMAIN s
    BY <1>1
  <2>2. CASE k \in DOMAIN s
    BY <2>1, <2>2, <1>2, <1>4 DEF Ascending
  <2>3. CASE k = Len(s) + 1
    BY <2>1, <2>3, <1>2, <1>4
  <2> QED
    BY <2>2, <2>3, <1>3
<1>5. /\ longer \in Seq(S) /\ Len(longer) = Len(s) + 1
      /\ \A i \in DOMAIN longer : longer[i] = n \/ (i \in DOMAIN s /\ longer[i] = s[i])
  BY <1>1, <1>2, <1>3
<1> QED
  BY <1>4, <1>5 DEF longer

\* Without the oldest one the others keep their order.
LEMMA TailRest ==
  ASSUME NEW S, NEW s \in Seq(S), s # <<>>
  PROVE  /\ Head(s) \in S /\ Head(s) = s[1] /\ 1 \in DOMAIN s
         /\ Tail(s) \in Seq(S) /\ Len(Tail(s)) = Len(s) - 1
         /\ \A i \in DOMAIN Tail(s) : i + 1 \in DOMAIN s /\ Tail(s)[i] = s[i + 1]
         /\ Ascending(s) => /\ Ascending(Tail(s))
                            /\ \A i \in DOMAIN Tail(s) : Head(s) < Tail(s)[i]
<1> DEFINE rest == Tail(s)
<1>1. /\ rest \in Seq(S) /\ Len(rest) = Len(s) - 1 /\ DOMAIN rest = 1..(Len(s) - 1)
      /\ Len(s) \in Nat /\ Len(s) >= 1 /\ DOMAIN s = 1..Len(s)
  OBVIOUS
<1>2. \A i \in 1..(Len(s) - 1) : rest[i] = s[i + 1]
  OBVIOUS
<1>3. Head(s) = s[1] /\ Head(s) \in S
  OBVIOUS
<1> HIDE DEF rest
<1>4. \A i \in DOMAIN rest : i + 1 \in DOMAIN s /\ rest[i] = s[i + 1] /\ i \in Int /\ 1 < i + 1
  BY <1>1, <1>2
<1>5. ASSUME Ascending(s) PROVE Ascending(rest) /\ \A i \in DOMAIN rest : Head(s) < rest[i]
  <2>1. ASSUME NEW i \in DOMAIN rest, NEW k \in DOMAIN rest, i < k PROVE rest[i] < rest[k]
    <3>1. i + 1 < k + 1
      BY <2>1, <1>4
    <3> QED
      BY <3>1, <1>4, <1>5 DEF Ascending
  <2>2. ASSUME NEW i \in DOMAIN rest PROVE Head(s) < rest[i]
    BY <1>1, <1>3, <1>4, <1>5 DEF Ascending
  <2> QED
    BY <2>1, <2>2 DEF Ascending
<1> QED
  BY <1>1, <1>3, <1>4, <1>5 DEF rest

\* The deque after _records.append: never longer than its maxlen, its frames those kept
\* before and the new one, in order if the new one is the latest.
LEMMA KeptRecords ==
  ASSUME NEW S, records \in Seq(S), Len(records) <= MAX_RECORDS, NEW n \in S
  PROVE  /\ Kept(n) \in Seq(S) /\ Len(Kept(n)) <= MAX_RECORDS
         /\ \A i \in DOMAIN Kept(n) :
              Kept(n)[i] = n \/ \E k \in DOMAIN records : Kept(n)[i] = records[k]
         /\ S \subseteq Int /\ Ascending(records) /\ (\A i \in DOMAIN records : records[i] < n)
              => Ascending(Kept(n))
<1>1. MAX_RECORDS \in Nat /\ MAX_RECORDS >= 1 /\ Len(records) \in Nat
  BY MaxRecordsAssumption
<1>2. CASE Len(records) < MAX_RECORDS
  <2>1. Kept(n) = Append(records, n)
    BY <1>2 DEF Kept
  <2> QED
    BY <2>1, <1>1, <1>2, AppendLast
<1>3. CASE ~(Len(records) < MAX_RECORDS)
  <2> DEFINE rest == Tail(records)
  <2>1. Kept(n) = Append(rest, n)
    BY <1>3 DEF Kept
  <2>2. records # <<>>
    BY <1>1, <1>3
  <2>3. /\ rest \in Seq(S) /\ Len(rest) = Len(records) - 1
        /\ \A i \in DOMAIN rest : i + 1 \in DOMAIN records /\ rest[i] = records[i + 1]
        /\ Ascending(records) => Ascending(rest)
    BY <2>2, TailRest
  <2> HIDE DEF rest
  <2>4. /\ Append(rest, n) \in Seq(S) /\ Len(Append(rest, n)) = Len(rest) + 1
        /\ \A i \in DOMAIN Append(rest, n) :
             Append(rest, n)[i] = n \/ (i \in DOMAIN rest /\ Append(rest, n)[i] = rest[i])
        /\ S \subseteq Int /\ Ascending(rest) /\ (\A i \in DOMAIN rest : rest[i] < n)
             => Ascending(Append(rest, n))
    BY <2>3, AppendLast
  <2> QED
    BY <2>1, <2>3, <2>4, <1>1
<1> QED
  BY <1>2, <1>3

-----------------------------------------------------------------------------
(* Types. *)

\* What is logged later does not change what is a frame.
LEMMA MoreLogged ==
  ASSUME NEW low \in Nat, NEW high \in Nat, low <= high
  PROVE  Seq(1..low) \subseteq Seq(1..high)
<1>1. 1..low \subseteq 1..high
  OBVIOUS
<1> QED
  BY <1>1

\* An action of the server or of the page that leaves the file alone.
LEMMA FileUntouched ==
  ASSUME ViewTypeOK, UNCHANGED fileVars
  PROVE  /\ Logged' = Logged /\ Displays' = Displays
         /\ (private \in Seq(BOOLEAN) /\ Logged <= MaxFrames)'
         /\ (base \in 0..Logged /\ visible \in 0..(3 * (Logged - base)))'
         /\ (present \in BOOLEAN)' /\ (upsets \in 0..MaxUpsets)'
BY DEF ViewTypeOK, fileVars, Logged, Displays

\* The deque is typed after an append.
LEMMA KeptTyped ==
  ASSUME ViewTypeOK, NEW n \in 1..Logged
  PROVE  Kept(n) \in Displays
<1>1. records \in Seq(1..Logged) /\ Len(records) <= MAX_RECORDS
  BY DEF ViewTypeOK, Displays
<1>2. Kept(n) \in Seq(1..Logged) /\ Len(Kept(n)) <= MAX_RECORDS
  BY <1>1, KeptRecords
<1> QED
  BY <1>2 DEF Displays

\* Every step keeps the types.
LEMMA ViewStep == ViewTypeOK /\ [Next]_vars => ViewTypeOK'
<1> SUFFICES ASSUME ViewTypeOK, [Next]_vars PROVE ViewTypeOK'
  OBVIOUS
<1>0. /\ base \in Nat /\ visible \in Nat /\ last_size \in Nat /\ Logged \in Nat /\ base <= Logged
      /\ visible <= 3 * (Logged - base) /\ Logged <= MaxFrames /\ MaxFrames \in Nat /\ MaxUpsets \in Nat
  BY ViewBoundsAssumption DEF ViewTypeOK, Logged
<1>1. ASSUME NEW hidden \in BOOLEAN, Log(hidden) PROVE ViewTypeOK'
  <2>1. private' \in Seq(BOOLEAN) /\ Logged' = Logged + 1 /\ Logged' <= MaxFrames
    BY <1>1, <1>0 DEF Log, ViewTypeOK, Logged
  <2>2. Seq(1..Logged) \subseteq Seq(1..Logged')
    BY <2>1, <1>0, MoreLogged
  <2>3. Displays \subseteq Displays'
    BY <2>2 DEF Displays
  <2>4. base \in 0..Logged' /\ visible \in 0..(3 * (Logged' - base)) /\ posted \in 0..Logged'
    BY <2>1, <1>0 DEF ViewTypeOK
  <2> QED
    BY <1>1, <2>1, <2>2, <2>3, <2>4
    DEF Log, ViewTypeOK, serverVars, tailVars, pageVars
<1>2. ASSUME Sync PROVE ViewTypeOK'
  <2>1. Logged' = Logged /\ Displays' = Displays
    BY <1>2 DEF Sync, Logged, Displays
  <2>2. visible' \in 0..(3 * (Logged - base)) /\ present' \in BOOLEAN
    <3>1. CASE present
      <4>1. PICK pieces \in (visible + 1)..(3 * (Logged - base)) : visible' = pieces /\ present' = present
        BY <1>2, <3>1 DEF Sync
      <4>2. visible' \in 0..(3 * (Logged - base))
        BY <4>1, <1>0
      <4> QED
        BY <4>1, <4>2 DEF ViewTypeOK
    <3>2. CASE ~present
      BY <1>2, <3>2 DEF Sync, ViewTypeOK
    <3> QED
      BY <3>1, <3>2
  <2> QED
    BY <1>2, <2>1, <2>2 DEF Sync, ViewTypeOK, serverVars, tailVars, pageVars
<1>3. ASSUME NewFile PROVE ViewTypeOK'
  <2>1. Logged' = Logged /\ Displays' = Displays
    BY <1>3 DEF NewFile, Logged, Displays
  <2>2. base' \in 0..Logged /\ visible' \in 0..(3 * (Logged - base')) /\ upsets' \in 0..MaxUpsets
    BY <1>3, <1>0 DEF NewFile, ViewTypeOK
  <2> QED
    BY <1>3, <2>1, <2>2 DEF NewFile, ViewTypeOK, serverVars, tailVars, pageVars
<1>4. ASSUME TailFinds \/ TailDies PROVE ViewTypeOK'
  <2>1. UNCHANGED fileVars /\ tail' \in {"open", "dead"}
    BY <1>4 DEF TailFinds, TailDies
  <2> QED
    BY <1>4, <2>1, FileUntouched DEF TailFinds, TailDies, ViewTypeOK, pageVars
<1>5. ASSUME TailReads PROVE ViewTypeOK'
  <2>1. UNCHANGED fileVars /\ tail' = "append"
    BY <1>5 DEF TailReads
  <2>2. base + (visible + 1) \div 3 <= Logged
    <3>1. visible + 1 \in Int
      BY <1>0
    <3> QED
      BY <3>1, <1>0, Thirds
  <2>3. batch' \in Seq(1..Logged)
    BY <1>5, <2>2, <1>0, LinesParsed DEF TailReads
  <2>4. last_size' \in 0..(3 * MaxFrames)
    BY <1>5, <1>0 DEF TailReads, Told, ViewTypeOK
  <2> QED
    BY <1>5, <2>1, <2>3, <2>4, FileUntouched DEF TailReads, ViewTypeOK, pageVars
<1>6. ASSUME TailAppends PROVE ViewTypeOK'
  <2>1. UNCHANGED fileVars
    BY <1>6 DEF TailAppends
  <2>2. CASE batch = <<>>
    BY <1>6, <2>1, <2>2, FileUntouched DEF TailAppends, ViewTypeOK, pageVars
  <2>3. CASE batch # <<>>
    <3>1. Head(batch) \in 1..Logged /\ Tail(batch) \in Seq(1..Logged)
      BY <2>3, TailRest DEF ViewTypeOK
    <3>2. Kept(Head(batch)) \in Displays
      BY <3>1, KeptTyped
    <3> QED
      BY <1>6, <2>1, <2>3, <3>1, <3>2, FileUntouched DEF TailAppends, ViewTypeOK, pageVars
  <2> QED
    BY <2>2, <2>3
<1>7. ASSUME NEW n \in (posted + 1)..Logged, Ingest(n) PROVE ViewTypeOK'
  <2>1. UNCHANGED fileVars /\ n \in 1..Logged
    BY <1>7, <1>0 DEF Ingest, ViewTypeOK
  <2>2. Kept(n) \in Displays /\ n \in 0..Logged
    BY <2>1, <1>0, KeptTyped
  <2> QED
    BY <1>7, <2>1, <2>2, FileUntouched DEF Ingest, ViewTypeOK, tailVars, pageVars
<1>8. ASSUME ServerRestarts PROVE ViewTypeOK'
  <2>1. Logged' = Logged /\ Displays' = Displays
    BY <1>8 DEF ServerRestarts, Logged, Displays
  <2>2. <<>> \in Displays /\ <<>> \in Seq(1..Logged) /\ 0 \in 0..(3 * MaxFrames)
    BY <1>0, MaxRecordsAssumption DEF Displays
  <2>3. upsets' \in 0..MaxUpsets
    BY <1>8, <1>0 DEF ServerRestarts, ViewTypeOK
  <2> QED
    BY <1>8, <2>1, <2>2, <2>3 DEF ServerRestarts, ViewTypeOK, pageVars
<1>9. ASSUME NEW q \in Refreshes, PageStep(q) PROVE ViewTypeOK'
  <2>1. UNCHANGED fileVars /\ UNCHANGED serverVars
    BY <1>9 DEF PageStep, api_records, Render
  <2>2. <<>> \in Displays
    BY <1>0, MaxRecordsAssumption DEF Displays
  <2>3. body[q] \in Displays /\ records \in Displays /\ page \in Displays
    BY DEF ViewTypeOK
  <2>4. page' \in Displays
    BY <1>9, <2>3 DEF PageStep, api_records, Render
  <2>5. body' \in [Refreshes -> Displays]
    BY <1>9, <2>2, <2>3 DEF PageStep, api_records, Render, ViewTypeOK
  <2>6. refresh' \in [Refreshes -> {"idle", "answered"}]
    BY <1>9 DEF PageStep, api_records, Render, ViewTypeOK
  <2> QED
    BY <2>1, <2>4, <2>5, <2>6, FileUntouched DEF ViewTypeOK, serverVars, tailVars
<1>10. CASE UNCHANGED vars
  BY <1>10, FileUntouched DEF vars, serverVars, tailVars, pageVars, ViewTypeOK
<1> QED
  BY <1>1, <1>2, <1>3, <1>4, <1>5, <1>6, <1>7, <1>8, <1>9, <1>10 DEF Next, TailStep

\* Nothing is logged, kept or shown at first.
LEMMA ViewStart == Init => ViewTypeOK
<1> SUFFICES ASSUME Init PROVE ViewTypeOK
  OBVIOUS
<1>1. Logged = 0 /\ MaxFrames \in Nat /\ MaxUpsets \in Nat
  BY ViewBoundsAssumption DEF Init, Logged
<1>2. <<>> \in Displays
  BY <1>1, MaxRecordsAssumption DEF Displays
<1>3. body \in [Refreshes -> Displays] /\ records \in Displays /\ page \in Displays
  BY <1>2 DEF Init
<1>4. refresh \in [Refreshes -> {"idle", "answered"}]
  BY DEF Init
<1>5. base \in 0..Logged /\ visible \in 0..(3 * (Logged - base)) /\ last_size \in 0..(3 * MaxFrames)
      /\ posted \in 0..Logged /\ upsets \in 0..MaxUpsets /\ Logged <= MaxFrames
  BY <1>1 DEF Init
<1>6. private \in Seq(BOOLEAN) /\ batch \in Seq(1..Logged)
  BY DEF Init
<1> QED
  BY <1>3, <1>4, <1>5, <1>6 DEF Init, ViewTypeOK

\* The types of LiveView: the records kept and those on display are logged frames, at
\* most MAX_RECORDS of them, whatever the file and the refreshes did (dashboard/app.py).
THEOREM ViewTypes == Spec => []ViewTypeOK
BY ViewStart, ViewStep, PTL DEF Spec

-----------------------------------------------------------------------------
(* The order of the records. *)

\* Numbers of frames and positions.
LEMMA ViewNumbers ==
  ASSUME ViewTypeOK
  PROVE  /\ base \in Nat /\ visible \in Nat /\ last_size \in Nat /\ posted \in Nat /\ Logged \in Nat
         /\ base <= Logged /\ visible <= 3 * (Logged - base)
         /\ 1..Logged \subseteq Int
         /\ records \in Seq(1..Logged) /\ Len(records) <= MAX_RECORDS
         /\ batch \in Seq(1..Logged)
         /\ \A i \in DOMAIN records : records[i] \in 1..Logged
         /\ \A k \in DOMAIN batch : batch[k] \in 1..Logged
<1>1. records \in Seq(1..Logged) /\ Len(records) <= MAX_RECORDS /\ batch \in Seq(1..Logged)
  BY DEF ViewTypeOK, Displays
<1>2. /\ \A i \in DOMAIN records : records[i] \in 1..Logged
      /\ \A k \in DOMAIN batch : batch[k] \in 1..Logged
  <2>1. ASSUME NEW S, NEW s \in Seq(S) PROVE \A i \in DOMAIN s : s[i] \in S
    OBVIOUS
  <2> QED
    BY <1>1, <2>1
<1>3. Logged \in Nat /\ 1..Logged \subseteq Int
  BY DEF ViewTypeOK, Logged
<1>4. /\ base \in Nat /\ visible \in Nat /\ last_size \in Nat /\ posted \in Nat
      /\ base <= Logged /\ visible <= 3 * (Logged - base)
  BY <1>3 DEF ViewTypeOK
<1> QED
  BY <1>1, <1>2, <1>3, <1>4

\* Nothing InOrder speaks of changes.
LEMMA OrderUntouched ==
  ASSUME InOrder, UNCHANGED <<base, feed, tail, last_size, batch, posted, records>>
  PROVE  InOrder'
BY DEF InOrder, Ascending, Behind, Start

\* What a poll reads comes after all that is kept.
LEMMA ReadsInOrder ==
  ASSUME ViewInv, feed = "tail", TailReads
  PROVE  InOrder'
<1> DEFINE lines == Parsed(last_size, visible)
<1>1. ViewTypeOK /\ InOrder
  BY DEF ViewInv
<1>2. /\ base \in Nat /\ visible \in Nat /\ last_size \in Nat
      /\ \A i \in DOMAIN records : records[i] \in 1..Logged
  BY <1>1, ViewNumbers
<1>3. /\ Ascending(lines)
      /\ \A i \in DOMAIN lines :
           /\ lines[i] \in Int /\ lines[i] > base
           /\ last_size <= Start(lines[i]) /\ Start(lines[i]) + 2 <= visible
  BY <1>2, LinesParsed
<1>4. /\ batch' = lines /\ last_size' = Told(last_size, visible) /\ tail' = "append"
      /\ base' = base /\ feed' = feed /\ records' = records /\ posted' = posted
  BY DEF TailReads, fileVars
<1> HIDE DEF lines
<1>5. last_size' \in Int /\ last_size' >= last_size /\ last_size' >= visible
  BY <1>2, <1>4 DEF Told
<1>6. \A i \in DOMAIN records : Behind(records[i])
  BY <1>1 DEF InOrder
<1>7. ASSUME NEW i \in DOMAIN records, NEW k \in DOMAIN lines PROVE records[i] < lines[k]
  <2>1. records[i] \in Int /\ lines[k] \in Int /\ lines[k] > base /\ last_size <= Start(lines[k])
    BY <1>2, <1>3
  <2>2. CASE records[i] <= base
    BY <2>1, <2>2, <1>2
  <2>3. CASE Start(records[i]) + 2 <= last_size
    BY <2>1, <2>3, <1>2 DEF Start
  <2> QED
    BY <2>2, <2>3, <1>6 DEF Behind
<1>8. ASSUME NEW i \in DOMAIN records PROVE Behind(records[i])'
  <2>1. records[i] \in Int /\ Behind(records[i])
    BY <1>2, <1>6
  <2> QED
    BY <2>1, <1>2, <1>4, <1>5 DEF Behind, Start
<1>9. ASSUME NEW k \in DOMAIN lines PROVE 3 * (lines[k] - base' - 1) + 2 <= last_size'
  <2>1. lines[k] \in Int /\ Start(lines[k]) + 2 <= visible
    BY <1>3
  <2> QED
    BY <2>1, <1>2, <1>4, <1>5 DEF Start
<1>10. Ascending(records')
  BY <1>1, <1>4 DEF InOrder
<1> QED
  BY <1>3, <1>4, <1>7, <1>8, <1>9, <1>10 DEF InOrder, Behind, Start, Ascending

\* Every step keeps the order.
LEMMA OrderStep == ViewInv /\ [Next]_vars => InOrder'
<1> SUFFICES ASSUME ViewInv, [Next]_vars PROVE InOrder'
  OBVIOUS
<1>0. ViewTypeOK /\ InOrder
  BY DEF ViewInv
<1>1. /\ base \in Nat /\ visible \in Nat /\ last_size \in Nat /\ posted \in Nat /\ Logged \in Nat
      /\ 1..Logged \subseteq Int
      /\ records \in Seq(1..Logged) /\ Len(records) <= MAX_RECORDS /\ batch \in Seq(1..Logged)
      /\ \A i \in DOMAIN records : records[i] \in 1..Logged
      /\ \A k \in DOMAIN batch : batch[k] \in 1..Logged
  BY <1>0, ViewNumbers
<1>2. ASSUME NEW hidden \in BOOLEAN, Log(hidden) PROVE InOrder'
  BY <1>2, <1>0, OrderUntouched DEF Log, serverVars, tailVars
<1>3. ASSUME Sync PROVE InOrder'
  BY <1>3, <1>0, OrderUntouched DEF Sync, serverVars, tailVars
<1>4. ASSUME NewFile PROVE InOrder'
  <2>1. /\ base' = Logged /\ feed = "tail"
        /\ UNCHANGED <<feed, tail, last_size, batch, posted, records>>
    BY <1>4 DEF NewFile, serverVars, tailVars
  <2>2. /\ \A i \in DOMAIN records : records[i] <= base'
        /\ \A k \in DOMAIN batch : batch[k] <= base'
    BY <2>1, <1>1
  <2> QED
    BY <2>1, <2>2, <1>0 DEF InOrder, Ascending, Behind
<1>5. ASSUME TailFinds \/ TailDies PROVE InOrder'
  <2>1. /\ UNCHANGED <<base, feed, last_size, batch, posted, records>>
        /\ tail' # "append"
    BY <1>5 DEF TailFinds, TailDies, fileVars
  <2>2. feed # "push"
    BY <1>5, <1>0 DEF TailFinds, TailDies, InOrder
  <2>3. batch = <<>>
    BY <1>5, <1>0 DEF TailFinds, TailDies, InOrder
  <2> QED
    BY <2>1, <2>2, <2>3, <1>0 DEF InOrder, Ascending, Behind, Start
<1>6. ASSUME TailReads PROVE InOrder'
  <2>1. feed = "tail"
    BY <1>6, <1>0 DEF TailReads, InOrder, ViewTypeOK
  <2> QED
    BY <1>6, <2>1, ReadsInOrder
<1>7. ASSUME TailAppends PROVE InOrder'
  <2>1. UNCHANGED <<base, feed, last_size, posted>> /\ tail = "append" /\ feed = "tail"
    BY <1>7, <1>0 DEF TailAppends, fileVars, InOrder, ViewTypeOK
  <2>2. CASE batch = <<>>
    BY <1>7, <2>1, <2>2, <1>0 DEF TailAppends, InOrder, Ascending, Behind, Start
  <2>3. CASE batch # <<>>
    <3> DEFINE first == Head(batch)
    <3> DEFINE rest == Tail(batch)
    <3> DEFINE kept == Kept(first)
    <3>1. records' = kept /\ batch' = rest /\ tail' = tail
      BY <1>7, <2>3 DEF TailAppends
    <3>2. /\ first \in 1..Logged /\ first = batch[1] /\ 1 \in DOMAIN batch
          /\ \A k \in DOMAIN rest : k + 1 \in DOMAIN batch /\ rest[k] = batch[k + 1]
          /\ Ascending(rest) /\ \A k \in DOMAIN rest : first < rest[k]
      BY <2>3, <1>0, <1>1, TailRest DEF InOrder
    <3>3. \A i \in DOMAIN records : records[i] < first
      BY <3>2, <1>0 DEF InOrder
    <3>4. /\ \A i \in DOMAIN kept : kept[i] = first \/ \E k \in DOMAIN records : kept[i] = records[k]
          /\ Ascending(kept)
      <4>1. /\ records \in Seq(1..Logged) /\ Len(records) <= MAX_RECORDS
            /\ 1..Logged \subseteq Int /\ Ascending(records)
        BY <1>0, <1>1 DEF InOrder
      <4>2. ASSUME NEW n \in 1..Logged, \A i \in DOMAIN records : records[i] < n
            PROVE  /\ \A i \in DOMAIN Kept(n) :
                        Kept(n)[i] = n \/ \E k \in DOMAIN records : Kept(n)[i] = records[k]
                   /\ Ascending(Kept(n))
        BY <4>1, <4>2, KeptRecords
      <4> QED
        BY <3>2, <3>3, <4>2
    <3> HIDE DEF first, rest, kept
    <3>5. /\ \A i \in DOMAIN records : Behind(records[i])
          /\ \A k \in DOMAIN batch : Behind(batch[k])
          /\ \A i \in DOMAIN records, k \in DOMAIN batch : records[i] < batch[k]
      BY <2>1, <1>0 DEF InOrder
    <3>6. \A i \in DOMAIN kept : Behind(kept[i])
      BY <3>2, <3>4, <3>5
    <3>7. \A k \in DOMAIN rest : Behind(rest[k])
      BY <3>2, <3>5
    <3>8. \A i \in DOMAIN kept, k \in DOMAIN rest : kept[i] < rest[k]
      BY <3>2, <3>4, <3>5
    <3> QED
      BY <2>1, <3>1, <3>2, <3>4, <3>6, <3>7, <3>8 DEF InOrder, Ascending, Behind, Start
  <2> QED
    BY <2>2, <2>3
<1>8. ASSUME NEW n \in (posted + 1)..Logged, Ingest(n) PROVE InOrder'
  <2> DEFINE kept == Kept(n)
  <2>1. /\ feed = "push" /\ posted' = n /\ records' = kept
        /\ UNCHANGED <<base, feed, tail, last_size, batch>>
    BY <1>8 DEF Ingest, fileVars, tailVars
  <2>2. tail = "sleep" /\ batch = <<>> /\ \A i \in DOMAIN records : records[i] <= posted
    BY <2>1, <1>0 DEF InOrder
  <2>3. n \in 1..Logged /\ n > posted /\ \A i \in DOMAIN records : records[i] < n
    BY <2>2, <1>1
  <2>4. /\ \A i \in DOMAIN kept : kept[i] = n \/ \E k \in DOMAIN records : kept[i] = records[k]
        /\ Ascending(kept)
    BY <2>3, <1>0, <1>1, KeptRecords DEF InOrder
  <2> HIDE DEF kept
  <2>5. \A i \in DOMAIN kept : kept[i] <= n
    BY <2>3, <2>4, <1>1
  <2> QED
    BY <2>1, <2>2, <2>4, <2>5 DEF InOrder, Ascending
<1>9. ASSUME ServerRestarts PROVE InOrder'
  BY <1>9, <1>0 DEF ServerRestarts, InOrder, Ascending
<1>10. ASSUME NEW q \in Refreshes, PageStep(q) PROVE InOrder'
  BY <1>10, <1>0, OrderUntouched DEF PageStep, api_records, Render, fileVars, serverVars, tailVars
<1>11. CASE UNCHANGED vars
  BY <1>11, <1>0, OrderUntouched DEF vars, fileVars, serverVars, tailVars
<1> QED
  BY <1>2, <1>3, <1>4, <1>5, <1>6, <1>7, <1>8, <1>9, <1>10, <1>11 DEF Next, TailStep

\* ViewInv holds in every reachable state.
LEMMA ViewInvariant == Spec => []ViewInv
<1>1. Init => ViewInv
  BY ViewStart DEF Init, ViewInv, InOrder, Ascending
<1>2. ViewInv /\ [Next]_vars => ViewInv'
  BY ViewStep, OrderStep DEF ViewInv
<1> QED
  BY <1>1, <1>2, PTL DEF Spec

\* The history variables only watch.
LEMMA WatchedSteps == [MCNext]_mcVars => [Next]_vars
BY DEF MCNext, MCTailReads, MCNewFile, MCServerRestarts, MCOther, Next, TailStep, mcVars

\* A run of the watched dashboard is one of the dashboard.
LEMMA WatchedRuns == MCSpec => Spec
BY WatchedSteps, PTL DEF MCSpec, Spec, MCInit

\* The records kept are in the order of the frames and none is kept twice, whatever was
\* read in parts, replaced, restarted or lost on the way (tail_file, /ingest).
THEOREM RecordOrder == MCSpec => []RecordsInOrder
<1>1. ViewInv => RecordsInOrder
  BY DEF ViewInv, InOrder, Ascending, RecordsInOrder
<1> QED
  BY <1>1, ViewInvariant, WatchedRuns, PTL

-----------------------------------------------------------------------------
(* The lines passed over. *)

\* A line that begins before the new position is read by the poll, torn by it, or was
\* passed before.
LEMMA PollPasses ==
  ASSUME ViewTypeOK, Passed, MCTailReads
  PROVE  Passed'
<1>1. /\ base \in Nat /\ visible \in Nat /\ last_size \in Nat /\ Logged \in Nat
      /\ base <= Logged /\ visible <= 3 * (Logged - base)
  BY ViewNumbers
<1> DEFINE lines == Parsed(last_size, visible)
<1>2. /\ UNCHANGED <<private, base, visible, stale>>
      /\ last_size' = Told(last_size, visible)
      /\ got' = got \cup Range(lines) /\ torn' = torn \cup CutAt(visible)
  BY DEF MCTailReads, TailReads, fileVars
<1>3. /\ \A i \in DOMAIN lines : lines[i] \in Int /\ lines[i] > base
      /\ \A n \in Int : last_size <= Start(n) /\ Start(n) + 2 <= visible => n \in Range(lines)
  BY <1>1, LinesParsed
<1> HIDE DEF lines
<1>4. Range(lines) \subseteq Nat
  BY <1>1, <1>3 DEF Range
<1>5. CutAt(visible) \subseteq Nat
  BY <1>1 DEF CutAt
<1>6. got' \subseteq Nat /\ torn' \subseteq Nat /\ stale' \in Nat
  BY <1>2, <1>4, <1>5 DEF Passed
<1>7. last_size' > visible' => last_size' = stale'
  BY <1>1, <1>2 DEF Passed, Told
<1>8. ASSUME NEW n \in (base + 1)..Logged, Start(n) < last_size'
      PROVE  n \in got' \cup torn' \/ Start(n) < stale
  <2>1. n \in Int /\ Start(n) = 3 * (n - base - 1)
    BY <1>1 DEF Start
  <2>2. CASE Start(n) < last_size
    BY <2>2, <1>2 DEF Passed
  <2>3. CASE last_size <= Start(n) /\ last_size <= visible
    <3>1. Start(n) < visible
      BY <2>3, <1>1, <1>2, <1>8 DEF Told
    <3>2. CASE Start(n) + 2 <= visible
      BY <2>1, <2>3, <3>2, <1>2, <1>3
    <3>3. CASE visible = Start(n) + 1
      BY <3>3, <1>2 DEF CutAt
    <3> QED
      BY <2>1, <3>1, <3>2, <3>3, <1>1
  <2>4. CASE last_size <= Start(n) /\ ~(last_size <= visible)
    BY <2>1, <2>4, <1>1, <1>2, <1>8 DEF Told
  <2> QED
    BY <2>1, <2>2, <2>3, <2>4, <1>1
<1>9. \A n \in (base' + 1)..Logged' : Start(n)' < last_size' => n \in got' \cup torn' \/ Start(n)' < stale'
  BY <1>2, <1>8 DEF Start, Logged
<1> QED
  BY <1>6, <1>7, <1>9 DEF Passed

\* Every step of the watched dashboard keeps Passed.
LEMMA PassedStep == ViewTypeOK /\ Passed /\ [MCNext]_mcVars => Passed'
<1> SUFFICES ASSUME ViewTypeOK, Passed, [MCNext]_mcVars PROVE Passed'
  OBVIOUS
<1>0. /\ base \in Nat /\ visible \in Nat /\ last_size \in Nat /\ Logged \in Nat
      /\ base <= Logged /\ visible <= 3 * (Logged - base)
  BY ViewNumbers
<1>1. CASE MCTailReads
  BY <1>1, PollPasses
<1>2. CASE MCNewFile
  <2>1. /\ base' = Logged /\ Logged' = Logged /\ visible' = 0 /\ last_size' = last_size
        /\ torn' = {} /\ stale' = last_size /\ got' = got
    BY <1>2 DEF MCNewFile, NewFile, serverVars, tailVars, Logged
  <2>2. (base' + 1)..Logged' = {}
    BY <2>1, <1>0
  <2> QED
    BY <2>1, <2>2, <1>0 DEF Passed
<1>3. CASE MCServerRestarts
  <2>1. /\ base' = base /\ Logged' = Logged /\ visible' = visible /\ last_size' = 0
        /\ torn' = {} /\ stale' = 0 /\ got' = {}
    BY <1>3 DEF MCServerRestarts, ServerRestarts, Logged
  <2>2. \A n \in (base + 1)..Logged : ~(3 * (n - base - 1) < 0)
    BY <1>0
  <2> QED
    BY <2>1, <2>2, <1>0 DEF Passed, Start
<1>4. CASE MCOther
  <2>1. UNCHANGED <<got, torn, stale>>
    BY <1>4 DEF MCOther
  <2>2. ASSUME NEW hidden \in BOOLEAN, Log(hidden) PROVE Passed'
    <3>1. UNCHANGED <<base, visible, last_size>> /\ Logged' = Logged + 1
      BY <2>2 DEF Log, serverVars, tailVars, Logged, ViewTypeOK
    <3>2. ASSUME NEW n \in (base + 1)..Logged', 3 * (n - base - 1) < last_size
          PROVE  n \in got \cup torn \/ 3 * (n - base - 1) < stale
      <4>1. CASE n \in (base + 1)..Logged
        BY <4>1, <3>2 DEF Passed, Start
      <4>2. CASE n = Logged + 1
        BY <4>2, <3>2, <1>0 DEF Passed
      <4> QED
        BY <4>1, <4>2, <3>1, <1>0
    <3> QED
      BY <2>1, <3>1, <3>2 DEF Passed, Start
  <2>3. ASSUME Sync PROVE Passed'
    <3>1. UNCHANGED <<base, last_size, private>>
      BY <2>3 DEF Sync, serverVars, tailVars
    <3>2. visible' \in Nat /\ visible' >= visible
      BY <2>3, <1>0 DEF Sync
    <3> QED
      BY <2>1, <3>1, <3>2, <1>0 DEF Passed, Start, Logged
  <2>4. ASSUME UNCHANGED <<fileVars, last_size>> PROVE Passed'
    BY <2>1, <2>4 DEF Passed, Start, Logged, fileVars
  <2>5. ASSUME NEW n, Ingest(n) PROVE Passed'
    BY <2>4, <2>5 DEF Ingest, tailVars
  <2>6. ASSUME NEW q, PageStep(q) PROVE Passed'
    BY <2>4, <2>6 DEF PageStep, api_records, Render, serverVars, tailVars
  <2>7. ASSUME TailFinds \/ TailDies \/ TailAppends PROVE Passed'
    BY <2>4, <2>7 DEF TailFinds, TailDies, TailAppends
  <2> QED
    BY <1>4, <2>2, <2>3, <2>5, <2>6, <2>7 DEF MCOther
<1>5. CASE UNCHANGED mcVars
  BY <1>5 DEF Passed, Start, Logged, mcVars, vars, fileVars, serverVars, tailVars
<1> QED
  BY <1>1, <1>2, <1>3, <1>4, <1>5 DEF MCNext

\* tail_file loses a line only when a poll ended inside it or when the file replaced one
\* that was longer, for every number of frames and of files (dashboard/app.py).
THEOREM OnlyTorn == MCSpec => []OnlyTornLinesAreLost
<1>1. MCInit => Passed
  <2> SUFFICES ASSUME MCInit PROVE Passed
    OBVIOUS
  <2>1. /\ base = 0 /\ Logged = 0 /\ visible = 0 /\ last_size = 0
        /\ got = {} /\ torn = {} /\ stale = 0
    BY DEF MCInit, Init, Logged
  <2> QED
    BY <2>1 DEF Passed
<1>2. ViewTypeOK /\ Passed => OnlyTornLinesAreLost
  <2> SUFFICES ASSUME ViewTypeOK, Passed, NEW n \in (base + 1)..Logged, Start(n) + 2 <= last_size
               PROVE  n \in got \cup torn \/ Start(n) < stale
    BY DEF OnlyTornLinesAreLost
  <2>1. Start(n) \in Int /\ last_size \in Int
    BY ViewNumbers DEF Start
  <2> QED
    BY <2>1 DEF Passed
<1>3. MCSpec => []ViewTypeOK
  BY ViewTypes, WatchedRuns, PTL
<1> QED
  BY <1>1, <1>2, <1>3, PassedStep, PTL DEF MCSpec

=============================================================================
