------------------------ MODULE CloudExchangeProofs ------------------------
(***************************************************************************)
(* Theorems about the client and the server of the cloud path, for every   *)
(* number of connections, every set of frames and every backlog.           *)
(***************************************************************************)
EXTENDS CloudExchange, FiniteSetTheorems, TLAPS

Counted == {"prefix", "jpeg", "infer", "finish"}

-----------------------------------------------------------------------------
(* The invariant.                                                          *)

\* A connection waits for accept() once, and has no thread yet; the one that is being
\* opened is not with the server at all.
QueueWaits ==
  /\ \A i \in DOMAIN queue : handler[queue[i]] = "none"
  /\ \A i, j \in DOMAIN queue : queue[i] = queue[j] => i = j
  /\ phase = "connect" => ~Held(conn)

\* What a connection carried is gone when the server has let go of it.
ReleasedIsEmpty == \A c \in Conns : ~Held(c) => toServer[c] = <<>>

\* What the running call has sent and the server has not read: the prefix, and as the
\* last item its own frame, once it is waiting for the reply.
OwnItem(i) ==
  \/ toServer[conn][i] = Prefix
  \/ toServer[conn][i] = Jpeg(call) /\ i = Len(toServer[conn]) /\ phase = "recv"

\* The server answers the running call after it read the frame, and once it has
\* nothing of that frame is on the connection or in the model any more.
OwnFrame ==
  phase # "idle" =>
    /\ \A i \in DOMAIN toServer[conn] : OwnItem(i)
    /\ phase # "recv" => handler[conn] \in {"none", "started", "prefix", "jpeg"}
    /\ handler[conn] \in {"infer", "finish", "close"} =>
         \A i \in DOMAIN toServer[conn] : toServer[conn][i] = Prefix
    /\ handler[conn] = "infer" => received[conn] = call

OwnReply ==
  phase # "idle" =>
    \A i \in DOMAIN toClient[conn] : toClient[conn][i].kind = "reply" =>
      /\ phase = "recv"
      /\ handler[conn] \in {"finish", "close"} \/ ~Held(conn)
      /\ toClient[conn][i].direction \in {call, None} \/ disturbed

\* A call that began without an abandoned frame in the server never meets one.
Undisturbed ==
  phase # "idle" /\ ~disturbed =>
    /\ \A c \in Conns : ~Stray(c)
    /\ handler[conn] = "infer" => overlapped[conn] = {}

\* What the answers of send_frame rest on; inductive.
ExchangeInv ==
  /\ ExchangeTypeOK /\ QueueWaits /\ ReleasedIsEmpty
  /\ OwnFrame /\ OwnReply /\ Undisturbed

-----------------------------------------------------------------------------
(* Sequences.                                                              *)

\* Reading takes the first item and leaves the others in order.
LEMMA TailItems ==
  ASSUME NEW S, NEW s \in Seq(S), s # <<>>
  PROVE  /\ Tail(s) \in Seq(S) /\ Len(Tail(s)) = Len(s) - 1
         /\ 1 \in DOMAIN s /\ Head(s) = s[1] /\ Head(s) \in S
         /\ \A i \in DOMAIN Tail(s) : i + 1 \in DOMAIN s /\ Tail(s)[i] = s[i + 1]
  OBVIOUS

\* Sending adds an item behind the others.
LEMMA AppendItems ==
  ASSUME NEW S, NEW s \in Seq(S), NEW x \in S
  PROVE  /\ Append(s, x) \in Seq(S) /\ Len(Append(s, x)) = Len(s) + 1
         /\ s \o <<x>> = Append(s, x)
         /\ \A i \in DOMAIN Append(s, x) :
              \/ i \in DOMAIN s /\ Append(s, x)[i] = s[i]
              \/ i = Len(s) + 1 /\ Append(s, x)[i] = x
  OBVIOUS

\* A send of one item, or of none.
LEMMA OneItem ==
  ASSUME NEW S, NEW x \in S
  PROVE  <<x>> \in Seq(S) /\ <<>> \in Seq(S)
  OBVIOUS

-----------------------------------------------------------------------------
(* Types.                                                                  *)

\* Readings, items and stages are told apart.
LEMMA Items ==
  /\ None \in Readings /\ NoCall \notin Readings
  /\ Prefix \in ToServerItems /\ Part \in ToServerItems /\ Fin \in ToServerItems
  /\ Fin \in ToClientItems
  /\ \A d \in Readings : Jpeg(d) \in ToServerItems /\ Reply(d) \in ToClientItems
  /\ \A x \in ToServerItems : x.kind = "jpeg" => x.frame \in Readings /\ x = Jpeg(x.frame)
  /\ \A x \in ToClientItems : x.kind = "reply" => x.direction \in Readings
<1>1. None \in Readings /\ NoCall \notin Readings
  BY FramesAssumption DEF Readings
<1>2. /\ Prefix \in ToServerItems /\ Part \in ToServerItems /\ Fin \in ToServerItems
      /\ Fin \in ToClientItems
      /\ \A d \in Readings : Jpeg(d) \in ToServerItems /\ Reply(d) \in ToClientItems
  BY DEF ToServerItems, ToClientItems
<1>3. \A x \in ToServerItems : x.kind = "jpeg" => x.frame \in Readings /\ x = Jpeg(x.frame)
  BY DEF ToServerItems, Prefix, Part, Fin, Jpeg
<1>4. \A x \in ToClientItems : x.kind = "reply" => x.direction \in Readings
  BY DEF ToClientItems, Fin, Reply
<1> QED
  BY <1>1, <1>2, <1>3, <1>4

\* What send and close put on the wire is typed.
LEMMA ToServerTyped ==
  ASSUME ExchangeTypeOK, NEW items \in Seq(ToServerItems), NEW c \in Conns
  PROVE  ToServer(c, items) \in [Conns -> Seq(ToServerItems)]
<1>1. toServer[c] \o items \in Seq(ToServerItems)
  BY DEF ExchangeTypeOK
<1> QED
  BY <1>1 DEF ToServer, ExchangeTypeOK

\* What the server sends is appended to a well-typed queue, and so is what the network adds.
LEMMA ToClientTyped ==
  ASSUME ExchangeTypeOK, NEW item \in ToClientItems, NEW c \in Conns
  PROVE  ToClient(c, item) \in [Conns -> Seq(ToClientItems)]
<1>1. Append(toClient[c], item) \in Seq(ToClientItems)
  BY DEF ExchangeTypeOK
<1> QED
  BY <1>1 DEF ToClient, ExchangeTypeOK

\* The ends of a call keep the types.
LEMMA CloseTyped ==
  ASSUME ExchangeTypeOK, phase # "idle", NEW direction \in Readings,
         NEW sent \in {<<>>, <<Part>>}, CloseAndReturn(direction, sent)
  PROVE  ExchangeTypeOK'
<1>1. conn \in Conns
  BY DEF ExchangeTypeOK
<1>2. sent \o <<Fin>> \in Seq(ToServerItems)
  <2>1. sent \in Seq(ToServerItems) /\ <<Fin>> \in Seq(ToServerItems)
    BY Items, OneItem
  <2> QED
    BY <2>1
<1>3. toServer' \in [Conns -> Seq(ToServerItems)]
  BY <1>1, <1>2, ToServerTyped DEF CloseAndReturn
<1>4. toClient' \in [Conns -> Seq(ToClientItems)]
  BY DEF CloseAndReturn, ExchangeTypeOK
<1> QED
  BY <1>3, <1>4, Items, ConnsAssumption DEF CloseAndReturn, ExchangeTypeOK, serverVars

\* Every way send_frame ends keeps them.
LEMMA ClientEnds ==
  ASSUME ExchangeTypeOK,
         ConnectFails \/ SendFails \/ RecvReply \/ RecvOnce \/ RecvEof \/ RecvTimesOut
  PROVE  \E direction \in Readings, sent \in {<<>>, <<Part>>} :
           /\ phase # "idle"
           /\ CloseAndReturn(direction, sent)
           /\ direction = None \/
                /\ phase = "recv" /\ sent = <<>>
                /\ NextIs(toClient, conn, "reply") /\ direction = Head(toClient[conn]).direction
<1>1. CASE ConnectFails \/ SendFails \/ RecvEof \/ RecvTimesOut
  BY <1>1, Items DEF ConnectFails, SendFails, RecvEof, RecvTimesOut
<1>2. CASE RecvReply \/ (RecvOnce /\ ~RecvEof)
  <2>1. phase = "recv" /\ NextIs(toClient, conn, "reply")
    BY <1>2 DEF RecvReply, RecvOnce
  <2>2. PICK direction \in {Head(toClient[conn]).direction, None} : CloseAndReturn(direction, <<>>)
    BY <1>2 DEF RecvReply, RecvOnce
  <2>3. Head(toClient[conn]).direction \in Readings
    <3>1. toClient[conn] \in Seq(ToClientItems) /\ toClient[conn] # <<>>
      BY <2>1 DEF ExchangeTypeOK, NextIs
    <3>2. Head(toClient[conn]) \in ToClientItems
      BY <3>1
    <3> QED
      BY <2>1, <3>2, Items DEF NextIs
  <2> QED
    BY <2>1, <2>2, <2>3, Items
<1> QED
  BY <1>1, <1>2

\* The client's own steps and the network keep the types.
LEMMA ClientTyped ==
  ASSUME ExchangeTypeOK,
         \/ SendFrame \/ ClientStep \/ UNCHANGED vars
         \/ \E c \in Conns : Cut(c)
  PROVE  ExchangeTypeOK'
<1>1. ASSUME NEW c \in Conns, NEW frame \in Readings, Connect(c, frame) PROVE ExchangeTypeOK'
  BY <1>1, Items, ConnsAssumption DEF Connect, ExchangeTypeOK, serverVars
<1>2. CASE Establish
  <2>1. conn \in Conns
    BY <1>2 DEF Establish, ExchangeTypeOK
  <2>2. queue' \in Seq(Conns) /\ Len(queue') <= MaxConcurrent + 1
    BY <1>2, <2>1, MaxConcurrentAssumption DEF Establish, ExchangeTypeOK
  <2> QED
    BY <1>2, <2>2 DEF Establish, ExchangeTypeOK, wireVars
<1>3. CASE SendPrefix
  <2>1. toServer' \in [Conns -> Seq(ToServerItems)]
    BY <1>3, ToServerTyped, Items, OneItem DEF SendPrefix, ExchangeTypeOK
  <2> QED
    BY <1>3, <2>1 DEF SendPrefix, ExchangeTypeOK, serverVars
<1>4. CASE SendJpeg
  <2>1. toServer' \in [Conns -> Seq(ToServerItems)]
    BY <1>4, ToServerTyped, Items, OneItem DEF SendJpeg, ExchangeTypeOK
  <2> QED
    BY <1>4, <2>1 DEF SendJpeg, ExchangeTypeOK, serverVars
<1>5. CASE ConnectFails \/ SendFails \/ RecvReply \/ RecvOnce \/ RecvEof \/ RecvTimesOut
  BY <1>5, ClientEnds, CloseTyped
<1>6. ASSUME NEW c \in Conns, Cut(c) PROVE ExchangeTypeOK'
  BY <1>6 DEF Cut, ExchangeTypeOK, clientVars, serverVars
<1>7. CASE UNCHANGED vars
  BY <1>7 DEF vars, clientVars, wireVars, serverVars, ExchangeTypeOK
<1> QED
  BY <1>1, <1>2, <1>3, <1>4, <1>5, <1>6, <1>7 DEF SendFrame, ClientStep

\* So do the accept loop, the handler threads and the server process.
LEMMA HandleTyped ==
  ASSUME ExchangeTypeOK, NEW c \in Conns, Handle(c)
  PROVE  ExchangeTypeOK'
<1> USE DEF ExchangeTypeOK, clientVars, wireVars, serverVars
<1>1. CASE ConnectionStarted(c)
  BY <1>1 DEF ConnectionStarted
<1>2. ASSUME toServer[c] # <<>>
      PROVE  /\ Head(toServer[c]) \in ToServerItems
             /\ Taken(toServer, c) \in [Conns -> Seq(ToServerItems)]
  <2>1. toServer[c] \in Seq(ToServerItems)
    OBVIOUS
  <2>2. Head(toServer[c]) \in ToServerItems /\ Tail(toServer[c]) \in Seq(ToServerItems)
    BY <1>2, <2>1
  <2> QED
    BY <2>2 DEF Taken
<1>3. CASE ReadPrefix(c)
  BY <1>2, <1>3 DEF ReadPrefix, NextIs
<1>4. CASE ReadPart(c)
  BY <1>2, <1>4 DEF ReadPart, NextIs
<1>5. CASE ReadJpeg(c)
  <2>1. toServer' \in [Conns -> Seq(ToServerItems)] /\ Head(toServer[c]).frame \in Readings
    BY <1>2, <1>5, Items DEF ReadJpeg, NextIs
  <2>2. received' \in [Conns -> Readings] /\ overlapped' \in [Conns -> SUBSET Readings]
    BY <1>5, <2>1 DEF ReadJpeg
  <2> QED
    BY <1>5, <2>1, <2>2 DEF ReadJpeg
<1>6. CASE ReadEof(c)
  BY <1>6 DEF ReadEof
<1>7. CASE Infer(c)
  <2>1. PICK direction \in {received[c], None} \cup overlapped[c] :
          toClient' = ToClient(c, Reply(direction))
    BY <1>7 DEF Infer
  <2>2. toClient' \in [Conns -> Seq(ToClientItems)]
    BY <2>1, Items, ToClientTyped
  <2> QED
    BY <1>7, <2>2, Items DEF Infer
<1>8. CASE ConnectionFinished(c)
  BY <1>8 DEF ConnectionFinished
<1>9. CASE CloseConn(c)
  <2>1. toClient' \in [Conns -> Seq(ToClientItems)]
    BY <1>9, Items, ToClientTyped DEF CloseConn
  <2>2. toServer' \in [Conns -> Seq(ToServerItems)]
    BY <1>9 DEF CloseConn
  <2>3. handler' \in [Conns -> {"none", "started", "prefix", "jpeg", "infer", "finish", "close"}]
    BY <1>9 DEF CloseConn
  <2> QED
    BY <1>9, <2>1, <2>2, <2>3 DEF CloseConn
<1> QED
  BY <1>1, <1>3, <1>4, <1>5, <1>6, <1>7, <1>8, <1>9 DEF Handle

\* accept(), the end of the process and its new start keep the types (run_server).
LEMMA ServerTyped ==
  ASSUME ExchangeTypeOK, Accept \/ ServerStops \/ ServerStarts
  PROVE  ExchangeTypeOK'
<1> USE DEF ExchangeTypeOK, clientVars, wireVars
<1>1. CASE Accept
  <2>1. Head(queue) \in Conns /\ Tail(queue) \in Seq(Conns) /\ Len(Tail(queue)) = Len(queue) - 1
    BY <1>1 DEF Accept
  <2> QED
    BY <1>1, <2>1, MaxConcurrentAssumption DEF Accept
<1>2. CASE ServerStops
  <2>1. toClient' \in [Conns -> Seq(ToClientItems)]
    BY <1>2, Items, ToClientTyped DEF ServerStops
  <2>2. /\ toServer' \in [Conns -> Seq(ToServerItems)]
        /\ queue' \in Seq(Conns) /\ Len(queue') <= MaxConcurrent + 1
    BY <1>2, MaxConcurrentAssumption DEF ServerStops
  <2>3. /\ handler' \in [Conns -> {"none", "started", "prefix", "jpeg", "infer", "finish", "close"}]
        /\ received' \in [Conns -> Readings] /\ overlapped' \in [Conns -> SUBSET Readings]
    BY <1>2, Items DEF ServerStops
  <2> QED
    BY <1>2, <2>1, <2>2, <2>3 DEF ServerStops
<1>3. CASE ServerStarts
  BY <1>3 DEF ServerStarts
<1> QED
  BY <1>1, <1>2, <1>3

\* The first state is typed.
LEMMA ExchangeInitially == Init => ExchangeTypeOK
<1> SUFFICES ASSUME Init PROVE ExchangeTypeOK
  OBVIOUS
<1> USE DEF Init
<1>1. /\ toServer \in [Conns -> Seq(ToServerItems)] /\ toClient \in [Conns -> Seq(ToClientItems)]
      /\ cut \in [Conns -> BOOLEAN]
      /\ queue \in Seq(Conns) /\ Len(queue) <= MaxConcurrent + 1
  BY MaxConcurrentAssumption
<1>2. /\ handler \in [Conns -> {"none", "started", "prefix", "jpeg", "infer", "finish", "close"}]
      /\ received \in [Conns -> Readings] /\ overlapped \in [Conns -> SUBSET Readings]
  BY Items
<1> QED
  BY <1>1, <1>2, Items DEF ExchangeTypeOK

\* Every step keeps the types.
LEMMA ExchangeTypesKept == ExchangeTypeOK /\ [Next]_vars => ExchangeTypeOK'
  BY ClientTyped, HandleTyped, ServerTyped DEF Next

\* The variables of both ends and of the wire keep their types, the accept queue its
\* bound, and a call has a connection exactly while it runs.
THEOREM ExchangeTypes == Spec => []ExchangeTypeOK
  BY ExchangeInitially, ExchangeTypesKept, PTL DEF Spec

-----------------------------------------------------------------------------
(* The accept queue and the load counter.                                  *)

\* A connection that accept() has not returned has no thread, and none is queued twice.
LEMMA QueueKept == ExchangeTypeOK /\ QueueWaits /\ [Next]_vars => QueueWaits'
<1> SUFFICES ASSUME ExchangeTypeOK, QueueWaits, [Next]_vars PROVE QueueWaits'
  OBVIOUS
<1> USE DEF QueueWaits, ExchangeTypeOK
<1>1. ASSUME queue' = queue, \A i \in DOMAIN queue : handler'[queue[i]] = handler[queue[i]],
             phase' # "connect"
      PROVE  QueueWaits'
  BY <1>1
<1>2. ASSUME UNCHANGED <<queue, handler, conn>>, phase' = "connect" => phase = "connect"
      PROVE  QueueWaits'
  BY <1>2 DEF Held
<1>3. ASSUME NEW c \in Conns, NEW frame \in Readings, Connect(c, frame) PROVE QueueWaits'
  BY <1>3 DEF Connect, serverVars, Idle, Held
<1>4. CASE Establish
  <2>1. conn \in Conns /\ handler[conn] = "none" /\ \A i \in DOMAIN queue : queue[i] # conn
    BY <1>4 DEF Establish, Held
  <2> DEFINE longer == Append(queue, conn)
  <2>2. queue' = longer /\ handler' = handler /\ phase' = "prefix"
    BY <1>4 DEF Establish
  <2>3. \A i \in DOMAIN longer : \/ i \in DOMAIN queue /\ longer[i] = queue[i]
                                 \/ i = Len(queue) + 1 /\ longer[i] = conn
    <3>1. queue \in Seq(Conns)
      OBVIOUS
    <3> QED
      BY <2>1, <3>1, AppendItems
  <2>4. \A i \in DOMAIN longer : handler[longer[i]] = "none"
    BY <2>1, <2>3
  <2>5. \A i, j \in DOMAIN longer : longer[i] = longer[j] => i = j
    BY <2>1, <2>3
  <2> HIDE DEF longer
  <2> QED
    BY <2>2, <2>4, <2>5
<1>5. CASE SendPrefix \/ SendJpeg \/ UNCHANGED vars \/ ServerStarts \/ \E c \in Conns : Cut(c)
  BY <1>2, <1>5
  DEF SendPrefix, SendJpeg, ServerStarts, Cut, serverVars, clientVars, vars
<1>6. CASE ConnectFails \/ SendFails \/ RecvReply \/ RecvOnce \/ RecvEof \/ RecvTimesOut
  BY <1>1, <1>6, ClientEnds DEF CloseAndReturn, serverVars
<1>7. CASE Accept
  <2>1. queue # <<>> /\ queue' = Tail(queue)
        /\ handler' = [handler EXCEPT ![Head(queue)] = "started"]
        /\ phase' = phase /\ conn' = conn
    BY <1>7 DEF Accept, clientVars
  <2>2. 1 \in DOMAIN queue /\ Head(queue) = queue[1] /\ Head(queue) \in Conns
        /\ \A i \in DOMAIN queue' : i + 1 \in DOMAIN queue /\ queue'[i] = queue[i + 1]
                                    /\ i \in Nat \ {0} /\ queue'[i] \in Conns
    BY <2>1, SMTT(30)
  <2>3. \A i \in DOMAIN queue' : queue'[i] # Head(queue) /\ handler'[queue'[i]] = "none"
    BY <2>1, <2>2, SMTT(30)
  <2>4. \A i, j \in DOMAIN queue' : queue'[i] = queue'[j] => i = j
    <3> SUFFICES ASSUME NEW i \in DOMAIN queue', NEW j \in DOMAIN queue',
                        queue'[i] = queue'[j]
                 PROVE  i = j
      OBVIOUS
    <3>1. i + 1 = j + 1
      BY <2>2
    <3> QED
      BY <2>2, <3>1
  <2>5. phase' = "connect" => ~Held(conn)'
    <3> SUFFICES ASSUME phase = "connect" PROVE ~Held(conn)'
      BY <2>1
    <3>1. conn \in Conns /\ handler[conn] = "none" /\ \A i \in DOMAIN queue : queue[i] # conn
      BY DEF Held
    <3> QED
      BY <2>1, <2>2, <3>1 DEF Held
  <2> QED
    BY <2>3, <2>4, <2>5
<1>8. ASSUME NEW c \in Conns, Handle(c) PROVE QueueWaits'
  <2>1. /\ UNCHANGED <<queue, conn, phase>> /\ handler[c] # "none"
        /\ \A o \in Conns \ {c} : handler'[o] = handler[o]
    BY <1>8
    DEF Handle, ConnectionStarted, ReadPrefix, ReadPart, ReadJpeg, ReadEof, Infer,
        ConnectionFinished, CloseConn, clientVars, serverVars
  <2>2. \A i \in DOMAIN queue : queue[i] \in Conns \ {c}
    BY <2>1
  <2>3. phase = "connect" => conn \in Conns \ {c}
    BY <2>1 DEF Held
  <2> QED
    BY <2>1, <2>2, <2>3 DEF Held
<1>9. CASE ServerStops
  BY <1>9 DEF ServerStops, clientVars, Held
<1> QED
  BY <1>3, <1>4, <1>5, <1>6, <1>7, <1>8, <1>9 DEF Next, SendFrame, ClientStep

Busy(stages) == {c \in Conns : stages[c] \in Counted}

\* A thread that moves to another stage changes the number of counted threads by what
\* it is counted for before and after.
LEMMA CountMoves ==
  ASSUME NEW before, NEW after, NEW c \in Conns,
         \A o \in Conns \ {c} : after[o] = before[o]
  PROVE  /\ Cardinality(Busy(before)) \in Nat /\ Cardinality(Busy(after)) \in Nat
         /\ (before[c] \in Counted <=> after[c] \in Counted)
              => Cardinality(Busy(after)) = Cardinality(Busy(before))
         /\ before[c] \notin Counted /\ after[c] \in Counted
              => Cardinality(Busy(after)) = Cardinality(Busy(before)) + 1
         /\ before[c] \in Counted /\ after[c] \notin Counted
              => Cardinality(Busy(before)) = Cardinality(Busy(after)) + 1
<1>1. IsFiniteSet(Busy(before)) /\ IsFiniteSet(Busy(after))
  BY ConnsAssumption, FS_Subset DEF Busy
<1>2. Cardinality(Busy(before)) \in Nat /\ Cardinality(Busy(after)) \in Nat
  BY <1>1, FS_CardinalityType
<1>3. ASSUME (before[c] \in Counted <=> after[c] \in Counted)
      PROVE  Busy(after) = Busy(before)
  BY <1>3 DEF Busy
<1>4. ASSUME before[c] \notin Counted, after[c] \in Counted
      PROVE  Cardinality(Busy(after)) = Cardinality(Busy(before)) + 1
  <2>1. Busy(after) = Busy(before) \cup {c} /\ c \notin Busy(before)
    BY <1>4 DEF Busy
  <2> QED
    BY <1>1, <2>1, FS_AddElement
<1>5. ASSUME before[c] \in Counted, after[c] \notin Counted
      PROVE  Cardinality(Busy(before)) = Cardinality(Busy(after)) + 1
  <2>1. Busy(before) = Busy(after) \cup {c} /\ c \notin Busy(after)
    BY <1>5 DEF Busy
  <2> QED
    BY <1>1, <2>1, FS_AddElement
<1> QED
  BY <1>2, <1>3, <1>4, <1>5

\* The counter follows the threads through every step.
LEMMA LoadKept ==
  ExchangeTypeOK /\ QueueWaits /\ LoadCountsHandlers /\ [Next]_vars => LoadCountsHandlers'
<1> SUFFICES ASSUME ExchangeTypeOK, QueueWaits, LoadCountsHandlers, [Next]_vars
             PROVE  LoadCountsHandlers'
  OBVIOUS
<1>1. active = Cardinality(Busy(handler))
      /\ (LoadCountsHandlers' <=> active' = Cardinality(Busy(handler')))
  BY DEF LoadCountsHandlers, Busy, Counted
<1>2. ASSUME UNCHANGED <<handler, active>> PROVE LoadCountsHandlers'
  BY <1>1, <1>2
<1>3. CASE \/ SendFrame \/ ServerStarts \/ UNCHANGED vars
           \/ Establish \/ SendPrefix \/ SendJpeg
           \/ \E c \in Conns : Cut(c)
  BY <1>2, <1>3
  DEF SendFrame, Connect, Establish, SendPrefix, SendJpeg, ServerStarts, Cut, serverVars,
      vars
<1>4. CASE ConnectFails \/ SendFails \/ RecvReply \/ RecvOnce \/ RecvEof \/ RecvTimesOut
  BY <1>2, <1>4, ClientEnds DEF CloseAndReturn, serverVars
<1>5. CASE Accept
  <2> DEFINE c == Head(queue)
  <2>1. queue # <<>> /\ handler' = [handler EXCEPT ![c] = "started"] /\ active' = active
    BY <1>5 DEF Accept
  <2>2. 1 \in DOMAIN queue /\ c = queue[1] /\ c \in Conns
    BY <2>1 DEF ExchangeTypeOK
  <2>3. handler[c] = "none"
    BY <2>2 DEF QueueWaits
  <2>4. handler'[c] = "started" /\ \A o \in Conns \ {c} : handler'[o] = handler[o]
    BY <2>1, <2>2 DEF ExchangeTypeOK
  <2>5. handler[c] \notin Counted /\ handler'[c] \notin Counted
    BY <2>3, <2>4 DEF Counted
  <2> HIDE DEF c
  <2>6. Cardinality(Busy(handler')) = Cardinality(Busy(handler))
    BY <2>2, <2>4, <2>5, CountMoves
  <2> QED
    BY <1>1, <2>1, <2>6
<1>6. ASSUME NEW c \in Conns, Handle(c) PROVE LoadCountsHandlers'
  <2>1. \A o \in Conns \ {c} : handler'[o] = handler[o]
    BY <1>6
    DEF Handle, ConnectionStarted, ReadPrefix, ReadPart, ReadJpeg, ReadEof, Infer,
        ConnectionFinished, CloseConn, serverVars, ExchangeTypeOK
  <2>2. CASE ConnectionStarted(c)
    <3>1. active' = active + 1 /\ handler[c] \notin Counted /\ handler'[c] \in Counted
      BY <2>2 DEF ConnectionStarted, Counted, ExchangeTypeOK
    <3> QED
      BY <1>1, <2>1, <3>1, CountMoves
  <2>3. CASE ConnectionFinished(c)
    <3>1. active' = (IF active > 0 THEN active - 1 ELSE 0)
          /\ handler[c] \in Counted /\ handler'[c] \notin Counted
      BY <2>3 DEF ConnectionFinished, Counted, ExchangeTypeOK
    <3>2. Cardinality(Busy(handler')) \in Nat
          /\ Cardinality(Busy(handler)) = Cardinality(Busy(handler')) + 1
      BY <2>1, <3>1, CountMoves
    <3> QED
      BY <1>1, <3>1, <3>2
  <2>4. CASE ReadPrefix(c) \/ ReadPart(c) \/ ReadJpeg(c) \/ ReadEof(c) \/ Infer(c) \/ CloseConn(c)
    <3>1. active' = active /\ (handler[c] \in Counted <=> handler'[c] \in Counted)
      BY <2>4
      DEF ReadPrefix, ReadPart, ReadJpeg, ReadEof, Infer, CloseConn, serverVars, Counted,
          ExchangeTypeOK
    <3>2. Cardinality(Busy(handler')) = Cardinality(Busy(handler))
      BY <2>1, <3>1, CountMoves
    <3> QED
      BY <1>1, <3>1, <3>2
  <2> QED
    BY <1>6, <2>2, <2>3, <2>4 DEF Handle
<1>7. CASE ServerStops
  <2>1. active' = 0 /\ Busy(handler') = {}
    BY <1>7 DEF ServerStops, Busy, Counted
  <2> QED
    BY <1>1, <2>1, FS_EmptySet
<1> QED
  BY <1>3, <1>4, <1>5, <1>6, <1>7 DEF Next, ClientStep

\* The load figure is the number of threads between connection_started and
\* connection_finished, however each of them ends.
THEOREM LoadFigure == Spec => []LoadCountsHandlers
<1>1. Init => QueueWaits /\ LoadCountsHandlers
  <2> SUFFICES ASSUME Init PROVE QueueWaits /\ LoadCountsHandlers
    OBVIOUS
  <2>1. {c \in Conns : handler[c] \in {"prefix", "jpeg", "infer", "finish"}} = {}
    BY DEF Init
  <2>2. LoadCountsHandlers
    BY <2>1, FS_EmptySet DEF Init, LoadCountsHandlers
  <2> QED
    BY <2>2 DEF Init, QueueWaits
<1>2. ExchangeTypeOK /\ QueueWaits /\ LoadCountsHandlers /\ [Next]_vars
        => QueueWaits' /\ LoadCountsHandlers'
  BY QueueKept, LoadKept
<1> QED
  BY <1>1, <1>2, ExchangeTypes, PTL DEF Spec

-----------------------------------------------------------------------------
(* Where a frame is.                                                       *)

\* A thread touches its own connection and nothing of the client.
LEMMA HandleLocal ==
  ASSUME ExchangeTypeOK, NEW c \in Conns, Handle(c)
  PROVE  /\ UNCHANGED <<conn, phase, call, answer, disturbed, cut, queue>>
         /\ handler[c] # "none"
         /\ \A o \in Conns \ {c} : /\ handler'[o] = handler[o] /\ received'[o] = received[o]
                                   /\ toServer'[o] = toServer[o] /\ toClient'[o] = toClient[o]
<1> USE DEF ExchangeTypeOK, clientVars, wireVars, serverVars
<1>1. CASE ConnectionStarted(c)
  BY <1>1 DEF ConnectionStarted
<1>2. CASE ReadPrefix(c) \/ ReadPart(c) \/ ReadEof(c)
  BY <1>2 DEF ReadPrefix, ReadPart, ReadEof, Taken
<1>3. CASE ReadJpeg(c)
  BY <1>3 DEF ReadJpeg, Taken
<1>4. CASE Infer(c)
  BY <1>4 DEF Infer, ToClient
<1>5. CASE ConnectionFinished(c)
  BY <1>5 DEF ConnectionFinished
<1>6. CASE CloseConn(c)
  BY <1>6 DEF CloseConn, ToClient
<1> QED
  BY <1>1, <1>2, <1>3, <1>4, <1>5, <1>6 DEF Handle

\* accept() hands the oldest connection over; the server holds the same ones after it.
LEMMA AcceptLocal ==
  ASSUME ExchangeTypeOK, QueueWaits, Accept
  PROVE  /\ Head(queue) \in Conns /\ handler[Head(queue)] = "none" /\ Held(Head(queue))
         /\ handler'[Head(queue)] = "started"
         /\ \A o \in Conns \ {Head(queue)} : handler'[o] = handler[o]
         /\ \A o \in Conns : Held(o)' = Held(o)
<1> USE DEF ExchangeTypeOK
<1>1. queue # <<>> /\ queue' = Tail(queue)
      /\ handler' = [handler EXCEPT ![Head(queue)] = "started"]
  BY DEF Accept
<1>2. 1 \in DOMAIN queue /\ Head(queue) = queue[1] /\ Head(queue) \in Conns
      /\ (\A i \in DOMAIN Tail(queue) : i + 1 \in DOMAIN queue /\ Tail(queue)[i] = queue[i + 1])
      /\ (\A i \in DOMAIN queue : i # 1 =>
            i - 1 \in DOMAIN Tail(queue) /\ Tail(queue)[i - 1] = queue[i])
  BY <1>1
<1>3. handler[Head(queue)] = "none"
  BY <1>2 DEF QueueWaits
<1>4. handler'[Head(queue)] = "started" /\ \A o \in Conns \ {Head(queue)} : handler'[o] = handler[o]
  BY <1>1, <1>2
<1>5. ASSUME NEW o \in Conns PROVE Held(o)' = Held(o)
  <2>1. CASE o = Head(queue)
    BY <1>2, <1>4, <2>1 DEF Held
  <2>2. CASE o # Head(queue)
    <3>1. (\E i \in DOMAIN Tail(queue) : Tail(queue)[i] = o) <=> (\E i \in DOMAIN queue : queue[i] = o)
      <4>1. ASSUME NEW i \in DOMAIN Tail(queue), Tail(queue)[i] = o
            PROVE  \E k \in DOMAIN queue : queue[k] = o
        BY <1>2, <4>1
      <4>2. ASSUME NEW i \in DOMAIN queue, queue[i] = o
            PROVE  \E k \in DOMAIN Tail(queue) : Tail(queue)[k] = o
        <5>1. i # 1
          BY <1>2, <2>2, <4>2
        <5> QED
          BY <1>2, <4>2, <5>1
      <4> QED
        BY <4>1, <4>2
    <3> QED
      BY <1>1, <1>4, <2>2, <3>1 DEF Held
  <2> QED
    BY <2>1, <2>2
<1> QED
  BY <1>2, <1>3, <1>4, <1>5 DEF Held

\* What the server does, and a cut, only takes abandoned frames away.
LEMMA StrayShrinks ==
  ASSUME ExchangeTypeOK, QueueWaits, NEW o \in Conns, Stray(o)',
         \/ Accept \/ ServerStops \/ ServerStarts
         \/ \E c \in Conns : Handle(c) \/ Cut(c)
  PROVE  Stray(o) /\ UNCHANGED <<conn, phase, call, answer, disturbed>>
<1>1. CASE Accept
  <2>1. handler'[o] = "infer" => handler[o] = "infer"
    BY <1>1, AcceptLocal
  <2> QED
    BY <1>1, <2>1 DEF Accept, Stray, clientVars, wireVars
<1>2. CASE ServerStops
  BY <1>2 DEF ServerStops, Stray, clientVars
<1>3. CASE ServerStarts
  BY <1>3 DEF ServerStarts, Stray, clientVars, wireVars
<1>4. ASSUME NEW c \in Conns, Cut(c) PROVE Stray(o) /\ UNCHANGED <<conn, phase, call, answer, disturbed>>
  <2>1. cut[o] => cut'[o]
    BY <1>4 DEF Cut, ExchangeTypeOK
  <2> QED
    BY <1>4, <2>1 DEF Cut, Stray, clientVars, serverVars
<1>5. ASSUME NEW c \in Conns, Handle(c)
      PROVE  Stray(o) /\ UNCHANGED <<conn, phase, call, answer, disturbed>>
  <2>1. UNCHANGED <<conn, phase, call, answer, disturbed, cut>>
    BY <1>5, HandleLocal
  <2>2. CASE o # c
    BY <1>5, <2>1, <2>2, HandleLocal DEF Stray
  <2>3. CASE o = c /\ (ReadPrefix(c) \/ ReadPart(c))
    <3>1. toServer[c] \in Seq(ToServerItems) /\ toServer[c] # <<>>
          /\ toServer'[c] = Tail(toServer[c]) /\ handler'[c] # "infer"
      BY <2>3 DEF ReadPrefix, ReadPart, NextIs, Taken, ExchangeTypeOK, serverVars
    <3>2. \A i \in DOMAIN toServer'[c] : i + 1 \in DOMAIN toServer[c]
                                          /\ toServer'[c][i] = toServer[c][i + 1]
      BY <3>1
    <3> QED
      BY <2>1, <2>3, <3>1, <3>2 DEF Stray
  <2>4. CASE o = c /\ ReadJpeg(c)
    <3>1. toServer[c] \in Seq(ToServerItems) /\ toServer[c] # <<>> /\ ~cut[c]
          /\ Head(toServer[c]).kind = "jpeg"
      BY <2>4 DEF ReadJpeg, NextIs, ExchangeTypeOK
    <3>2. 1 \in DOMAIN toServer[c] /\ toServer[c][1] = Head(toServer[c])
      BY <3>1
    <3> QED
      BY <2>1, <2>4, <3>1, <3>2 DEF Stray
  <2>5. CASE o = c /\ ~(ReadPrefix(c) \/ ReadPart(c) \/ ReadJpeg(c))
    <3>1. (toServer'[c] = toServer[c] \/ toServer'[c] = <<>>) /\ handler'[c] # "infer"
      BY <1>5, <2>5
      DEF Handle, ConnectionStarted, ReadEof, Infer, ConnectionFinished, CloseConn,
          ExchangeTypeOK, wireVars
    <3> QED
      BY <2>1, <2>5, <3>1 DEF Stray
  <2> QED
    BY <2>1, <2>2, <2>3, <2>4, <2>5
<1> QED
  BY <1>1, <1>2, <1>3, <1>4, <1>5

-----------------------------------------------------------------------------
(* The invariant is inductive.                                             *)

\* Nothing is left of what a released connection carried.
LEMMA ReleasedKept ==
  ExchangeTypeOK /\ QueueWaits /\ ReleasedIsEmpty /\ [Next]_vars => ReleasedIsEmpty'
<1> SUFFICES ASSUME ExchangeTypeOK, QueueWaits, ReleasedIsEmpty, [Next]_vars,
                    NEW o \in Conns, ~Held(o)'
             PROVE  toServer'[o] = <<>>
  BY DEF ReleasedIsEmpty
<1>1. ~Held(o) => toServer[o] = <<>>
  BY DEF ReleasedIsEmpty
<1>2. CASE SendFrame
  BY <1>1, <1>2 DEF SendFrame, Connect, Held, serverVars, ExchangeTypeOK
<1>3. CASE Establish
  <2>1. conn \in Conns /\ queue' = Append(queue, conn) /\ handler' = handler /\ toServer' = toServer
    BY <1>3 DEF Establish, ExchangeTypeOK, wireVars
  <2>2. \A i \in DOMAIN queue : i \in DOMAIN queue' /\ queue'[i] = queue[i]
    BY <2>1 DEF ExchangeTypeOK
  <2> QED
    BY <1>1, <2>1, <2>2 DEF Held
<1>4. CASE SendPrefix \/ SendJpeg
  BY <1>1, <1>4 DEF SendPrefix, SendJpeg, ToServer, Held, serverVars, ExchangeTypeOK
<1>5. CASE ConnectFails \/ SendFails \/ RecvReply \/ RecvOnce \/ RecvEof \/ RecvTimesOut
  <2>1. PICK direction \in Readings, sent \in {<<>>, <<Part>>} : CloseAndReturn(direction, sent)
    BY <1>5, ClientEnds
  <2> QED
    BY <1>1, <2>1 DEF CloseAndReturn, ToServer, Held, serverVars, ExchangeTypeOK
<1>6. CASE Accept
  BY <1>1, <1>6, AcceptLocal DEF Accept, wireVars
<1>7. ASSUME NEW c \in Conns, Handle(c) PROVE toServer'[o] = <<>>
  <2>1. CASE o # c
    BY <1>1, <1>7, <2>1, HandleLocal DEF Held
  <2>2. CASE o = c
    <3>1. handler'[c] = "none"
      BY <2>2 DEF Held
    <3>2. CloseConn(c)
      BY <1>7, <3>1
      DEF Handle, ConnectionStarted, ReadPrefix, ReadPart, ReadJpeg, ReadEof, Infer,
          ConnectionFinished, ExchangeTypeOK, serverVars
    <3> QED
      BY <2>2, <3>2 DEF CloseConn, ExchangeTypeOK
  <2> QED
    BY <2>1, <2>2
<1>8. CASE ServerStops
  BY <1>8 DEF ServerStops
<1>9. CASE ServerStarts \/ UNCHANGED vars \/ \E c \in Conns : Cut(c)
  BY <1>1, <1>9 DEF ServerStarts, Cut, Held, vars, clientVars, wireVars, serverVars
<1> QED
  BY <1>2, <1>3, <1>4, <1>5, <1>6, <1>7, <1>8, <1>9 DEF Next, ClientStep

\* A thread of the running call reads only that call's frame.
LEMMA OwnFrameHandled ==
  ASSUME ExchangeTypeOK, QueueWaits, ReleasedIsEmpty, OwnFrame,
         NEW c \in Conns, Handle(c)
  PROVE  OwnFrame'
<1> SUFFICES ASSUME phase # "idle" PROVE OwnFrame'
  BY HandleLocal DEF OwnFrame
<1>1. UNCHANGED <<conn, phase, call>> /\ conn \in Conns
  BY HandleLocal DEF ExchangeTypeOK
<1>2. CASE c # conn
  <2>1. toServer'[conn] = toServer[conn] /\ handler'[conn] = handler[conn]
        /\ received'[conn] = received[conn]
    BY <1>1, <1>2, HandleLocal
  <2> QED
    BY <1>1, <2>1 DEF OwnFrame, OwnItem
<1>3. CASE c = conn
  <2> DEFINE s == toServer[conn]
  <2>1. s \in Seq(ToServerItems) /\ \A i \in DOMAIN s : OwnItem(i)
    BY <1>1 DEF ExchangeTypeOK, OwnFrame
  <2>2. s # <<>> => /\ 1 \in DOMAIN s /\ Head(s) = s[1] /\ Len(Tail(s)) = Len(s) - 1
                    /\ \A i \in DOMAIN Tail(s) : i + 1 \in DOMAIN s /\ Tail(s)[i] = s[i + 1]
                                                  /\ i \in Int
    BY <2>1
  <2>3. CASE ConnectionStarted(c)
    <3>1. toServer' = toServer /\ handler'[conn] = "prefix"
      BY <1>3, <2>3 DEF ConnectionStarted, wireVars, ExchangeTypeOK
    <3> QED
      BY <1>1, <3>1 DEF OwnFrame, OwnItem
  <2>4. CASE ReadPrefix(c)
    <3>1. s # <<>> /\ toServer'[conn] = Tail(s) /\ handler'[conn] = "jpeg"
      BY <1>3, <2>4 DEF ReadPrefix, NextIs, Taken, ExchangeTypeOK
    <3>2. ASSUME NEW i \in DOMAIN Tail(s)
          PROVE  Tail(s)[i] = Prefix \/ (Tail(s)[i] = Jpeg(call) /\ i = Len(Tail(s)) /\ phase = "recv")
      <4>1. i + 1 \in DOMAIN s /\ Tail(s)[i] = s[i + 1] /\ Len(Tail(s)) = Len(s) - 1 /\ i \in Int
        BY <2>2, <3>1
      <4>2. s[i + 1] = Prefix \/ (s[i + 1] = Jpeg(call) /\ i + 1 = Len(s) /\ phase = "recv")
        BY <2>1, <4>1 DEF OwnItem
      <4> QED
        BY <2>1, <4>1, <4>2
    <3> QED
      BY <1>1, <3>1, <3>2 DEF OwnFrame, OwnItem
  <2>5. CASE ReadPart(c) \/ ReadEof(c)
    <3>1. s # <<>> /\ Head(s).kind \in {"part", "fin"}
      BY <1>3, <2>5 DEF ReadPart, ReadEof, NextIs
    <3>2. OwnItem(1)
      BY <2>1, <2>2, <3>1
    <3> QED
      BY <2>2, <3>1, <3>2 DEF OwnItem, Prefix, Jpeg
  <2>6. CASE ReadJpeg(c)
    <3>1. /\ s # <<>> /\ Head(s).kind = "jpeg" /\ handler'[conn] = "infer"
          /\ toServer'[conn] = Tail(s) /\ received'[conn] = Head(s).frame
      BY <1>3, <2>6 DEF ReadJpeg, NextIs, Taken, ExchangeTypeOK
    <3>2. s[1] = Jpeg(call) /\ 1 = Len(s) /\ phase = "recv"
      <4>1. OwnItem(1) /\ s[1].kind = "jpeg"
        BY <2>1, <2>2, <3>1
      <4> QED
        BY <4>1 DEF OwnItem, Prefix
    <3>3. Tail(s) = <<>> /\ received'[conn] = call
      BY <2>1, <2>2, <3>1, <3>2 DEF Jpeg
    <3> QED
      BY <1>1, <3>1, <3>2, <3>3 DEF OwnFrame
  <2>7. CASE Infer(c) \/ ConnectionFinished(c)
    <3>1. toServer' = toServer /\ handler'[conn] \in {"finish", "close"}
          /\ handler[conn] \in {"infer", "finish"}
      BY <1>3, <2>7 DEF Infer, ConnectionFinished, wireVars, ExchangeTypeOK
    <3> QED
      BY <1>1, <3>1 DEF OwnFrame, OwnItem
  <2>8. CASE CloseConn(c)
    <3>1. toServer'[conn] = <<>> /\ handler'[conn] = "none" /\ handler[conn] = "close"
      BY <1>3, <2>8 DEF CloseConn, ExchangeTypeOK
    <3> QED
      BY <1>1, <3>1 DEF OwnFrame
  <2> QED
    BY <2>3, <2>4, <2>5, <2>6, <2>7, <2>8 DEF Handle
<1> QED
  BY <1>2, <1>3

\* Neither does any other step put another frame on its connection.
LEMMA OwnFrameKept ==
  ExchangeTypeOK /\ QueueWaits /\ ReleasedIsEmpty /\ OwnFrame /\ [Next]_vars => OwnFrame'
<1> SUFFICES ASSUME ExchangeTypeOK, QueueWaits, ReleasedIsEmpty, OwnFrame, [Next]_vars
             PROVE  OwnFrame'
  OBVIOUS
<1>1. ASSUME NEW c \in Conns, NEW frame \in Readings, Connect(c, frame) PROVE OwnFrame'
  <2>1. conn' = c /\ phase' = "connect" /\ toServer'[c] = <<>> /\ handler'[c] = "none"
    BY <1>1 DEF Connect, Idle, Held, serverVars, ExchangeTypeOK
  <2> QED
    BY <2>1 DEF OwnFrame
<1>2. CASE Establish
  BY <1>2 DEF Establish, wireVars, OwnFrame, OwnItem
<1>3. ASSUME SendPrefix \/ SendJpeg PROVE OwnFrame'
  <2> DEFINE x == IF phase = "prefix" THEN Prefix ELSE Jpeg(call)
  <2>1. /\ phase \in {"prefix", "jpeg"} /\ phase' = (IF phase = "prefix" THEN "jpeg" ELSE "recv")
        /\ UNCHANGED <<conn, call, handler, received>>
        /\ toServer' = ToServer(conn, <<x>>)
    BY <1>3 DEF SendPrefix, SendJpeg, serverVars
  <2>2. conn \in Conns /\ call \in Readings /\ toServer[conn] \in Seq(ToServerItems)
    BY <2>1 DEF ExchangeTypeOK
  <2>3. x \in ToServerItems
    BY <2>2, Items
  <2>4. \A i \in DOMAIN toServer[conn] : toServer[conn][i] = Prefix
    BY <2>1 DEF OwnFrame, OwnItem
  <2>5. handler[conn] \in {"none", "started", "prefix", "jpeg"}
    BY <2>1 DEF OwnFrame
  <2>6. toServer'[conn] = toServer[conn] \/ toServer'[conn] = toServer[conn] \o <<x>>
    BY <2>1, <2>2 DEF ToServer, ExchangeTypeOK
  <2>7. CASE toServer'[conn] = toServer[conn]
    BY <2>1, <2>4, <2>5, <2>7 DEF OwnFrame, OwnItem
  <2>8. CASE toServer'[conn] = toServer[conn] \o <<x>>
    <3> DEFINE longer == Append(toServer[conn], x)
    <3> HIDE DEF x
    <3>1. /\ toServer'[conn] = longer /\ Len(longer) = Len(toServer[conn]) + 1
          /\ \A i \in DOMAIN longer : longer[i] = Prefix \/ (i = Len(longer) /\ longer[i] = x)
      <4>1. /\ Len(longer) = Len(toServer[conn]) + 1 /\ toServer[conn] \o <<x>> = longer
            /\ \A i \in DOMAIN longer : \/ i \in DOMAIN toServer[conn] /\ longer[i] = toServer[conn][i]
                                        \/ i = Len(toServer[conn]) + 1 /\ longer[i] = x
        BY <2>2, <2>3, AppendItems
      <4> HIDE DEF longer
      <4> QED
        BY <2>4, <2>8, <4>1
    <3> HIDE DEF longer
    <3>2. \A i \in DOMAIN longer : longer[i] = Prefix \/ (i = Len(longer) /\ longer[i] = Jpeg(call)
                                                           /\ phase' = "recv")
      <4>1. x = Prefix \/ (x = Jpeg(call) /\ phase' = "recv")
        BY <2>1 DEF x
      <4> QED
        BY <3>1, <4>1
    <3> QED
      BY <2>1, <2>5, <3>1, <3>2 DEF OwnFrame, OwnItem
  <2> QED
    BY <2>6, <2>7, <2>8
<1>4. CASE ConnectFails \/ SendFails \/ RecvReply \/ RecvOnce \/ RecvEof \/ RecvTimesOut
  BY <1>4, ClientEnds DEF CloseAndReturn, OwnFrame
<1>5. CASE Accept
  <2>1. UNCHANGED <<conn, phase, call, toServer, received>>
    BY <1>5 DEF Accept, clientVars, wireVars
  <2>2. phase # "idle" => handler'[conn] = handler[conn]
                          \/ (handler'[conn] = "started" /\ handler[conn] = "none")
    BY <1>5, AcceptLocal DEF ExchangeTypeOK
  <2> SUFFICES ASSUME phase # "idle" PROVE OwnFrame'
    BY <2>1 DEF OwnFrame
  <2> QED
    BY <2>1, <2>2 DEF OwnFrame, OwnItem
<1>6. CASE \E c \in Conns : Handle(c)
  BY <1>6, OwnFrameHandled
<1>7. CASE ServerStops
  BY <1>7 DEF ServerStops, clientVars, OwnFrame, ExchangeTypeOK
<1>8. CASE ServerStarts \/ UNCHANGED vars \/ \E c \in Conns : Cut(c)
  BY <1>8 DEF ServerStarts, Cut, vars, clientVars, wireVars, serverVars, OwnFrame, OwnItem
<1> QED
  BY <1>1, <1>2, <1>3, <1>4, <1>5, <1>6, <1>7, <1>8 DEF Next, SendFrame, ClientStep

\* A thread answers the running call last of all, with its frame's direction or, if
\* another frame met it in the model, with that one's.
LEMMA OwnReplyHandled ==
  ASSUME ExchangeInv, NEW c \in Conns, Handle(c)
  PROVE  OwnReply'
<1> USE DEF ExchangeInv
<1> SUFFICES ASSUME phase # "idle" PROVE OwnReply'
  BY HandleLocal DEF OwnReply
<1>1. UNCHANGED <<conn, phase, call, disturbed, queue>> /\ conn \in Conns /\ handler[c] # "none"
  BY HandleLocal DEF ExchangeTypeOK
<1>2. CASE c # conn
  <2>1. toClient'[conn] = toClient[conn] /\ handler'[conn] = handler[conn]
    BY <1>1, <1>2, HandleLocal
  <2> QED
    BY <1>1, <2>1 DEF OwnReply, Held
<1>3. CASE c = conn
  <2> DEFINE s == toClient[conn]
  <2>1. s \in Seq(ToClientItems)
    BY <1>1 DEF ExchangeTypeOK
  <2>2. Held(conn)
    BY <1>1, <1>3 DEF Held
  <2>3. CASE handler[conn] \in {"started", "prefix", "jpeg"}
    <3>1. toClient' = toClient
      BY <1>3, <2>3
      DEF Handle, ConnectionStarted, ReadPrefix, ReadPart, ReadJpeg, ReadEof, Infer,
          ConnectionFinished, CloseConn, wireVars
    <3>2. \A i \in DOMAIN s : s[i].kind # "reply"
      BY <2>2, <2>3 DEF OwnReply
    <3> QED
      BY <1>1, <3>1, <3>2 DEF OwnReply
  <2>4. CASE handler[conn] = "infer"
    <3>1. Infer(c)
      BY <1>3, <2>4
      DEF Handle, ConnectionStarted, ReadPrefix, ReadPart, ReadJpeg, ReadEof,
          ConnectionFinished, CloseConn
    <3>2. PICK direction \in {received[c], None} \cup overlapped[c] :
            toClient' = ToClient(c, Reply(direction))
      BY <3>1 DEF Infer
    <3>3. direction \in Readings /\ (direction \in {call, None} \/ disturbed)
      BY <1>3, <2>4, Items DEF OwnFrame, Undisturbed, ExchangeTypeOK
    <3>4. handler'[conn] = "finish"
      BY <1>3, <3>1 DEF Infer, ExchangeTypeOK
    <3>5. phase = "recv" /\ \A i \in DOMAIN s : s[i].kind # "reply"
      BY <2>2, <2>4 DEF OwnFrame, OwnReply
    <3>6. CASE toClient'[conn] = s
      BY <1>1, <3>5, <3>6 DEF OwnReply
    <3>7. CASE toClient'[conn] # s
      <4> DEFINE x == Reply(direction)
                 longer == Append(s, x)
      <4>1. x \in ToClientItems /\ x.direction = direction
        BY <3>3, Items DEF Reply
      <4> HIDE DEF x
      <4>2. toClient'[conn] = longer
        BY <1>3, <3>2, <3>7 DEF ToClient, ExchangeTypeOK, x
      <4>3. \A i \in DOMAIN longer : (i \in DOMAIN s /\ longer[i] = s[i]) \/ longer[i] = x
        BY <2>1, <4>1, AppendItems
      <4> HIDE DEF longer
      <4>4. \A i \in DOMAIN longer : longer[i].kind = "reply" => longer[i].direction = direction
        BY <3>5, <4>1, <4>3
      <4> QED
        BY <1>1, <3>3, <3>4, <3>5, <4>2, <4>4 DEF OwnReply
    <3> QED
      BY <3>6, <3>7
  <2>5. CASE handler[conn] = "finish"
    <3>1. toClient' = toClient /\ handler'[conn] = "close"
      BY <1>3, <2>5
      DEF Handle, ConnectionStarted, ReadPrefix, ReadPart, ReadJpeg, ReadEof, Infer,
          ConnectionFinished, CloseConn, wireVars, ExchangeTypeOK
    <3> QED
      BY <1>1, <2>2, <3>1 DEF OwnReply
  <2>6. CASE handler[conn] = "close"
    <3>1. toClient' = ToClient(c, Fin) /\ handler'[conn] = "none"
      BY <1>3, <2>6
      DEF Handle, ConnectionStarted, ReadPrefix, ReadPart, ReadJpeg, ReadEof, Infer,
          ConnectionFinished, CloseConn, ExchangeTypeOK
    <3>2. ~Held(conn)'
      BY <1>1, <1>3, <3>1 DEF Held, QueueWaits
    <3>3. \A i \in DOMAIN s : s[i].kind = "reply" =>
            phase = "recv" /\ (s[i].direction \in {call, None} \/ disturbed)
      BY DEF OwnReply
    <3>4. CASE toClient'[conn] = s
      BY <1>1, <3>2, <3>3, <3>4 DEF OwnReply
    <3>5. CASE toClient'[conn] # s
      <4> DEFINE longer == Append(s, Fin)
      <4>1. toClient'[conn] = longer
        BY <1>3, <3>1, <3>5 DEF ToClient, ExchangeTypeOK
      <4>2. \A i \in DOMAIN longer : (i \in DOMAIN s /\ longer[i] = s[i]) \/ longer[i] = Fin
        BY <2>1, Items, AppendItems
      <4>3. Fin.kind # "reply"
        BY DEF Fin
      <4> HIDE DEF longer
      <4> QED
        BY <1>1, <3>2, <3>3, <4>1, <4>2, <4>3 DEF OwnReply
    <3> QED
      BY <3>4, <3>5
  <2> QED
    BY <1>1, <1>3, <2>3, <2>4, <2>5, <2>6 DEF ExchangeTypeOK
<1> QED
  BY <1>2, <1>3

\* The end of the server process sends no reply either.
LEMMA OwnReplyKept == ExchangeInv /\ [Next]_vars => OwnReply'
<1> SUFFICES ASSUME ExchangeInv, [Next]_vars PROVE OwnReply'
  OBVIOUS
<1> USE DEF ExchangeInv
<1>1. ASSUME NEW c \in Conns, NEW frame \in Readings, Connect(c, frame) PROVE OwnReply'
  <2>1. conn' = c /\ toClient'[c] = <<>>
    BY <1>1 DEF Connect, ExchangeTypeOK
  <2> QED
    BY <2>1 DEF OwnReply
<1>2. CASE Establish \/ SendPrefix \/ SendJpeg
  <2>1. /\ phase \in {"connect", "prefix", "jpeg"}
        /\ UNCHANGED <<conn, call, toClient, disturbed>>
    BY <1>2 DEF Establish, SendPrefix, SendJpeg, wireVars
  <2>2. \A i \in DOMAIN toClient[conn] : toClient[conn][i].kind # "reply"
    BY <2>1 DEF OwnReply
  <2> QED
    BY <2>1, <2>2 DEF OwnReply
<1>3. CASE ConnectFails \/ SendFails \/ RecvReply \/ RecvOnce \/ RecvEof \/ RecvTimesOut
  BY <1>3, ClientEnds DEF CloseAndReturn, OwnReply
<1>4. CASE Accept
  <2>1. UNCHANGED <<conn, phase, call, toClient, disturbed>>
    BY <1>4 DEF Accept, clientVars, wireVars
  <2> SUFFICES ASSUME phase # "idle" PROVE OwnReply'
    BY <2>1 DEF OwnReply
  <2>2. conn \in Conns /\ (Held(conn)' <=> Held(conn))
    <3>1. conn \in Conns
      BY DEF ExchangeTypeOK
    <3>2. \A o \in Conns : Held(o)' = Held(o)
      BY <1>4, AcceptLocal
    <3> QED
      BY <2>1, <3>1, <3>2 DEF Held
  <2>3. CASE conn = Head(queue)
    <3>1. handler[conn] = "none" /\ Held(conn)
      BY <1>4, <2>3, AcceptLocal
    <3> QED
      BY <2>1, <3>1 DEF OwnReply
  <2>4. CASE conn # Head(queue)
    <3>1. handler'[conn] = handler[conn]
      BY <1>4, <2>2, <2>4, AcceptLocal
    <3>2. ~Held(conn) => ~Held(conn)'
      BY <2>2
    <3> HIDE DEF ExchangeInv
    <3>3. OwnReply
      BY DEF ExchangeInv
    <3> QED
      BY <2>1, <3>1, <3>2, <3>3 DEF OwnReply
  <2> QED
    BY <2>3, <2>4
<1>5. CASE \E c \in Conns : Handle(c)
  BY <1>5, OwnReplyHandled
<1>6. CASE ServerStops
  <2>1. UNCHANGED <<conn, phase, call, disturbed>>
    BY <1>6 DEF ServerStops, clientVars
  <2> SUFFICES ASSUME phase # "idle" PROVE OwnReply'
    BY <2>1 DEF OwnReply
  <2> DEFINE s == toClient[conn]
             longer == Append(s, Fin)
  <2>2. conn \in Conns /\ s \in Seq(ToClientItems)
    BY DEF ExchangeTypeOK
  <2>3. ~Held(conn)'
    BY <1>6, <2>1, <2>2 DEF ServerStops, Held
  <2>4. \A i \in DOMAIN s : s[i].kind = "reply" =>
          phase = "recv" /\ (s[i].direction \in {call, None} \/ disturbed)
    BY DEF OwnReply
  <2>5. toClient'[conn] = s \/ toClient'[conn] = longer
    BY <1>6, <2>2 DEF ServerStops, ToClient, ExchangeTypeOK
  <2>6. \A i \in DOMAIN longer : (i \in DOMAIN s /\ longer[i] = s[i]) \/ longer[i] = Fin
    BY <2>2, Items, AppendItems
  <2>7. Fin.kind # "reply"
    BY DEF Fin
  <2> HIDE DEF longer
  <2> QED
    BY <2>1, <2>3, <2>4, <2>5, <2>6, <2>7 DEF OwnReply
<1>7. CASE ServerStarts \/ UNCHANGED vars \/ \E c \in Conns : Cut(c)
  BY <1>7 DEF ServerStarts, Cut, vars, clientVars, wireVars, serverVars, OwnReply, Held
<1> QED
  BY <1>1, <1>2, <1>3, <1>4, <1>5, <1>6, <1>7 DEF Next, SendFrame, ClientStep

\* What could be abandoned when a call begins is known then, and nothing joins it.
LEMMA UndisturbedKept == ExchangeInv /\ [Next]_vars => Undisturbed'
<1> SUFFICES ASSUME ExchangeInv, [Next]_vars, phase' # "idle", ~disturbed'
             PROVE  /\ \A o \in Conns : ~Stray(o)'
                    /\ handler'[conn'] = "infer" => overlapped'[conn'] = {}
  BY DEF Undisturbed
<1> USE DEF ExchangeInv
<1>1. ASSUME NEW c \in Conns, NEW frame \in Readings, Connect(c, frame)
      PROVE  /\ \A o \in Conns : ~Stray(o)'
             /\ handler'[conn'] = "infer" => overlapped'[conn'] = {}
  <2>1. conn' = c /\ handler' = handler /\ handler[c] = "none" /\ conn = NoConn
    BY <1>1 DEF Connect, Idle, Held, serverVars, ExchangeTypeOK
  <2>2. \A o \in Conns \ {c} : toServer'[o] = toServer[o] /\ cut'[o] = cut[o] /\ ~Stray(o)
    BY <1>1 DEF Connect, ExchangeTypeOK
  <2>3. ~Stray(c)'
    BY <2>1 DEF Stray
  <2> QED
    BY <2>1, <2>2, <2>3, ConnsAssumption DEF Stray
<1>2. CASE Establish \/ SendPrefix \/ SendJpeg
  <2>1. /\ phase # "idle" /\ ~disturbed /\ UNCHANGED <<conn, handler, overlapped, cut>>
        /\ \A o \in Conns \ {conn} : toServer'[o] = toServer[o]
    BY <1>2
    DEF Establish, SendPrefix, SendJpeg, wireVars, serverVars, ToServer, ExchangeTypeOK
  <2> QED
    BY <2>1 DEF Undisturbed, Stray
<1>3. CASE ConnectFails \/ SendFails \/ RecvReply \/ RecvOnce \/ RecvEof \/ RecvTimesOut
  BY <1>3, ClientEnds DEF CloseAndReturn
<1>4. ASSUME \/ Accept \/ ServerStops \/ ServerStarts
             \/ \E c \in Conns : Handle(c) \/ Cut(c)
      PROVE  /\ \A o \in Conns : ~Stray(o)'
             /\ handler'[conn'] = "infer" => overlapped'[conn'] = {}
  <2>1. UNCHANGED <<conn, phase, disturbed>>
    <3>1. CASE Accept \/ ServerStops \/ ServerStarts \/ \E c \in Conns : Cut(c)
      BY <3>1 DEF Accept, ServerStops, ServerStarts, Cut, clientVars
    <3>2. CASE \E c \in Conns : Handle(c)
      BY <3>2, HandleLocal
    <3> QED
      BY <1>4, <3>1, <3>2
  <2>2. \A o \in Conns : ~Stray(o)
    BY <2>1 DEF Undisturbed
  <2>3. \A o \in Conns : ~Stray(o)'
    BY <1>4, <2>2, StrayShrinks
  <2>4. conn \in Conns
    BY <2>1 DEF ExchangeTypeOK
  <2>5. CASE Accept \/ ServerStarts \/ \E c \in Conns : Cut(c)
    <3>1. handler'[conn] = "infer" => handler[conn] = "infer"
      BY <2>4, <2>5, AcceptLocal DEF ServerStarts, Cut, serverVars
    <3>2. overlapped' = overlapped
      BY <2>5 DEF Accept, ServerStarts, Cut, serverVars
    <3> QED
      BY <2>1, <2>3, <3>1, <3>2 DEF Undisturbed
  <2>6. CASE ServerStops
    BY <2>1, <2>3, <2>4, <2>6 DEF ServerStops
  <2>7. ASSUME NEW c \in Conns, Handle(c)
        PROVE  handler'[conn'] = "infer" => overlapped'[conn'] = {}
    <3>1. CASE ReadJpeg(c)
      <4>1. c = conn
        <5> SUFFICES ASSUME c # conn PROVE FALSE
          OBVIOUS
        <5>1. toServer[c] \in Seq(ToServerItems) /\ toServer[c] # <<>> /\ ~cut[c]
              /\ Head(toServer[c]).kind = "jpeg"
          BY <3>1 DEF ReadJpeg, NextIs, ExchangeTypeOK
        <5>2. 1 \in DOMAIN toServer[c] /\ toServer[c][1] = Head(toServer[c])
          BY <5>1
        <5> QED
          BY <2>2, <5>1, <5>2 DEF Stray
      <4>2. \A o \in Conns : handler[o] # "infer"
        BY <2>2, <3>1, <4>1 DEF Stray, ReadJpeg
      <4>3. overlapped'[c] = {received[o] : o \in {other \in Conns : handler[other] = "infer"}}
        BY <3>1 DEF ReadJpeg, ExchangeTypeOK
      <4>4. overlapped'[c] = {}
        BY <4>2, <4>3
      <4> QED
        BY <2>1, <4>1, <4>4
    <3>2. CASE Infer(c)
      BY <2>1, <2>4, <3>2 DEF Infer, Undisturbed, ExchangeTypeOK
    <3>3. CASE ~ReadJpeg(c) /\ ~Infer(c)
      <4>1. overlapped' = overlapped /\ (handler'[conn] = "infer" => handler[conn] = "infer")
        BY <2>4, <2>7, <3>3
        DEF Handle, ConnectionStarted, ReadPrefix, ReadPart, ReadEof, ConnectionFinished,
            CloseConn, serverVars, ExchangeTypeOK
      <4> QED
        BY <2>1, <4>1 DEF Undisturbed
    <3> QED
      BY <3>1, <3>2, <3>3
  <2> QED
    BY <1>4, <2>3, <2>5, <2>6, <2>7
<1>5. CASE UNCHANGED vars
  BY <1>5 DEF vars, clientVars, wireVars, serverVars, Undisturbed, Stray
<1> QED
  BY <1>1, <1>2, <1>3, <1>4, <1>5 DEF Next, SendFrame, ClientStep

\* ExchangeInv is inductive.
LEMMA ExchangeInvariant == Spec => []ExchangeInv
<1>1. Init => ExchangeInv
  <2>1. Init => ExchangeTypeOK
    BY ExchangeInitially
  <2> QED
    BY <2>1 DEF Init, ExchangeInv, QueueWaits, ReleasedIsEmpty, OwnFrame, OwnReply, Undisturbed
<1>2. ExchangeInv /\ [Next]_vars => ExchangeInv'
  BY ExchangeTypesKept, QueueKept, ReleasedKept, OwnFrameKept, OwnReplyKept, UndisturbedKept
  DEF ExchangeInv
<1> QED
  BY <1>1, <1>2, PTL DEF Spec

-----------------------------------------------------------------------------
(* FrameService.                                                           *)

AnyStray == \E c \in Conns : Stray(c)

\* A call that ends gives up, or returns an answer that it may return.
LEMMA EndsImplement ==
  ASSUME ExchangeInv, NEW direction \in Readings, NEW sent \in {<<>>, <<Part>>},
         phase # "idle", CloseAndReturn(direction, sent),
         direction = None \/ (/\ phase = "recv" /\ sent = <<>>
                              /\ NextIs(toClient, conn, "reply")
                              /\ direction = Head(toClient[conn]).direction)
  PROVE  Service!Ends
<1> USE DEF ExchangeInv
<1>1. call # NoCall /\ conn \in Conns
  BY DEF ExchangeTypeOK
<1>2. conn' = NoConn /\ call' = NoCall /\ answer' = direction /\ disturbed' = FALSE
      /\ UNCHANGED <<cut, handler>>
  BY DEF CloseAndReturn, serverVars
<1>3. \A c \in Conns \ {conn} : Stray(c)' <=> Stray(c)
  <2>1. \A c \in Conns \ {conn} : toServer'[c] = toServer[c]
    BY <1>1 DEF CloseAndReturn, ToServer, ExchangeTypeOK
  <2> QED
    BY <1>1, <1>2, <2>1, ConnsAssumption DEF Stray
<1>4. ~Stray(conn)
  BY DEF Stray
<1>5. CASE direction = None
  <2>1. AnyStray => AnyStray'
    BY <1>3, <1>4 DEF AnyStray
  <2>2. Service!GiveUp
    BY <1>1, <1>2, <1>5, <2>1 DEF Service!GiveUp, AnyStray
  <2> QED
    BY <2>2 DEF Service!Ends
<1>6. CASE direction # None
  <2> DEFINE s == toClient[conn]
             w == toServer[conn]
  <2>1. /\ phase = "recv" /\ sent = <<>> /\ s \in Seq(ToClientItems) /\ s # <<>>
        /\ Head(s).kind = "reply" /\ direction = Head(s).direction
    BY <1>1, <1>6 DEF NextIs, ExchangeTypeOK
  <2>2. 1 \in DOMAIN s /\ s[1] = Head(s)
    BY <2>1
  <2>3. /\ handler[conn] \in {"finish", "close"} \/ ~Held(conn)
        /\ direction \in {call, None} \/ disturbed
    BY <2>1, <2>2 DEF OwnReply
  <2>4. \A c \in Conns : c = conn => ~Stray(c)'
    <3>1. handler[conn] # "infer"
      BY <2>3 DEF Held
    <3>2. w \in Seq(ToServerItems) /\ \A i \in DOMAIN w : w[i] = Prefix
      BY <1>1, <2>1, <2>3 DEF OwnFrame, ReleasedIsEmpty, ExchangeTypeOK
    <3> DEFINE longer == Append(w, Fin)
    <3>3. toServer'[conn] = w \/ toServer'[conn] = longer
      <4>1. toServer'[conn] = w \/ toServer'[conn] = w \o (<<>> \o <<Fin>>)
        BY <1>1, <2>1 DEF CloseAndReturn, ToServer, ExchangeTypeOK
      <4>2. <<>> \o <<Fin>> = <<Fin>>
        OBVIOUS
      <4>3. w \o <<Fin>> = longer
        BY <3>2, Items, AppendItems
      <4> QED
        BY <4>1, <4>2, <4>3
    <3>4. \A i \in DOMAIN longer : (i \in DOMAIN w /\ longer[i] = w[i]) \/ longer[i] = Fin
      BY <3>2, Items, AppendItems
    <3>5. Prefix.kind # "jpeg" /\ Fin.kind # "jpeg"
      BY DEF Prefix, Fin
    <3> HIDE DEF longer
    <3> QED
      BY <1>2, <3>1, <3>2, <3>3, <3>4, <3>5 DEF Stray
  <2>5. AnyStray' <=> AnyStray
    BY <1>3, <1>4, <2>4 DEF AnyStray
  <2>6. Service!Return(direction)
    BY <1>1, <1>2, <2>3, <2>5 DEF Service!Return, AnyStray
  <2> QED
    BY <2>6 DEF Service!Ends, Readings
<1> QED
  BY <1>5, <1>6

\* Every step of the client, of the server and of the network is a step of
\* FrameService or leaves what it promises alone.
LEMMA StepImplements == ExchangeInv /\ [Next]_vars => [Service!ServiceNext]_(Service!serviceVars)
<1> SUFFICES ASSUME ExchangeInv, [Next]_vars
             PROVE  Service!ServiceNext \/ UNCHANGED <<call, answer, AnyStray, disturbed>>
  BY DEF Service!serviceVars, AnyStray
<1> USE DEF ExchangeInv
<1>1. ASSUME NEW c \in Conns, NEW frame \in Readings, Connect(c, frame)
      PROVE  Service!ServiceNext
  <2>1. /\ call = NoCall /\ call' = frame /\ answer' = answer /\ handler' = handler
        /\ disturbed' = (\E other \in Conns \ {c} : Stray(other))
        /\ conn' = c /\ conn = NoConn
        /\ ~Held(c)
    BY <1>1 DEF Connect, Idle, serverVars, ExchangeTypeOK
  <2>2. \A o \in Conns \ {c} : Stray(o)' <=> Stray(o)
    BY <1>1, <2>1, ConnsAssumption DEF Connect, Stray, ExchangeTypeOK
  <2>3. ~Stray(c)
    BY <2>1 DEF Stray, Held, ReleasedIsEmpty
  <2>4. ~Stray(c)'
    BY <2>1 DEF Stray
  <2>5. (disturbed' <=> AnyStray) /\ (AnyStray' <=> AnyStray)
    BY <2>1, <2>2, <2>3, <2>4 DEF AnyStray
  <2>6. Service!Call(frame)
    BY <2>1, <2>5 DEF Service!Call, AnyStray
  <2> QED
    BY <2>6 DEF Service!ServiceNext, Readings
<1>2. CASE Establish \/ SendPrefix \/ SendJpeg
  <2>1. /\ UNCHANGED <<conn, call, answer, disturbed, handler, cut>>
        /\ \A o \in Conns \ {conn} : toServer'[o] = toServer[o]
    BY <1>2
    DEF Establish, SendPrefix, SendJpeg, wireVars, serverVars, ToServer, ExchangeTypeOK
  <2>2. \A o \in Conns : Stray(o)' <=> Stray(o)
    BY <2>1 DEF Stray
  <2>3. AnyStray' <=> AnyStray
    BY <2>2 DEF AnyStray
  <2> QED
    BY <2>1, <2>3 DEF AnyStray
<1>3. CASE ConnectFails \/ SendFails \/ RecvReply \/ RecvOnce \/ RecvEof \/ RecvTimesOut
  <2>1. Service!Ends
    BY <1>3, ClientEnds, EndsImplement
  <2> QED
    BY <2>1 DEF Service!ServiceNext
<1>4. ASSUME \/ Accept \/ ServerStops \/ ServerStarts
             \/ \E c \in Conns : Handle(c) \/ Cut(c)
      PROVE  Service!ServiceNext \/ UNCHANGED <<call, answer, AnyStray, disturbed>>
  <2>1. UNCHANGED <<call, answer, disturbed>>
    <3>1. CASE Accept \/ ServerStops \/ ServerStarts \/ \E c \in Conns : Cut(c)
      BY <3>1 DEF Accept, ServerStops, ServerStarts, Cut, clientVars
    <3>2. CASE \E c \in Conns : Handle(c)
      BY <3>2, HandleLocal
    <3> QED
      BY <1>4, <3>1, <3>2
  <2>2. AnyStray' => AnyStray
    BY <1>4, StrayShrinks DEF AnyStray
  <2>3. CASE AnyStray /\ ~AnyStray'
    <3>1. Service!StrayEnds
      BY <2>1, <2>3 DEF Service!StrayEnds, AnyStray
    <3> QED
      BY <3>1 DEF Service!ServiceNext
  <2> QED
    BY <2>1, <2>2, <2>3 DEF AnyStray
<1>5. CASE UNCHANGED vars
  BY <1>5 DEF vars, clientVars, wireVars, serverVars, AnyStray, Stray
<1> QED
  BY <1>1, <1>2, <1>3, <1>4, <1>5 DEF Next, SendFrame, ClientStep

\* The safety half of KeepsServicePromise: client, network and server together take no
\* step that FrameService does not allow, whatever fails and however many abandoned
\* connections the server still works on.
THEOREM ImplementsService ==
  Spec => Service!ServiceInit /\ [][Service!ServiceNext]_(Service!serviceVars)
<1>1. Init => Service!ServiceInit
  BY DEF Init, Service!ServiceInit, Stray
<1> QED
  BY <1>1, StepImplements, ExchangeInvariant, PTL DEF Spec

=============================================================================
