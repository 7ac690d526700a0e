---------------------------- MODULE CloudExchange ---------------------------
(***************************************************************************)
(* One Pi and the cloud server: send_frame of edge/cloud_client.py, or     *)
(* send_frame_to_cloud of edge/router/network_client.c in its place, on    *)
(* one side, the accept loop, the handler threads and the load counter of  *)
(* cloud/server.py and cloud/load_agent.py on the other, TCP in between.   *)
(*                                                                         *)
(* Every call opens a connection of its own.  The client gives up after    *)
(* its timeouts and closes; the server has none and may still be working   *)
(* on the abandoned connection while the next call runs.  A connection may *)
(* be cut (Wi-Fi lost, NAT entry dropped): nothing sent on it arrives any  *)
(* more, the closing FIN included.                                         *)
(*                                                                         *)
(* A frame is what the model says of it when it sees it alone.             *)
(***************************************************************************)
EXTENDS Integers, Sequences, FiniteSets

CONSTANTS Conns,            \* bound: connections that can exist at a time
          NoConn,
          Frames,           \* directions the model can see in a frame
          None,             \* no direction
          NoCall,
          MaxConcurrent     \* max_concurrent_connections, also the listen backlog

ASSUME ConnsAssumption == IsFiniteSet(Conns) /\ NoConn \notin Conns
ASSUME FramesAssumption == None \notin Frames /\ NoCall \notin Frames \cup {None}
ASSUME MaxConcurrentAssumption == MaxConcurrent \in Nat \ {0}

VARIABLES
  \* client
  conn,        \* the connection of the running call, or NoConn
  phase,       \* where send_frame is
  call,        \* its frame, or NoCall
  answer,      \* what the last call returned
  disturbed,   \* history: an abandoned frame could reach the model when it began
  \* network
  toServer,    \* per connection, what the server has not read yet
  toClient,
  cut,         \* per connection, whether it is cut
  \* server
  serverUp,    \* the server process runs
  queue,       \* established connections accept() has not returned yet
  handler,     \* per connection, where its thread is
  received,    \* per connection, the frame its thread read
  overlapped,  \* per connection in the model, the frames that were in it too
  active       \* load_agent._active_connections
clientVars == <<conn, phase, call, answer, disturbed>>
wireVars == <<toServer, toClient, cut>>
serverVars == <<serverUp, queue, handler, received, overlapped, active>>
vars == <<clientVars, wireVars, serverVars>>

Readings == Frames \cup {None}

\* What travels: the length prefix, the JPEG or a part of it, the reply, FIN or RST.
Prefix == [kind |-> "prefix"]
Part == [kind |-> "part"]
Jpeg(frame) == [kind |-> "jpeg", frame |-> frame]
Reply(direction) == [kind |-> "reply", direction |-> direction]
Fin == [kind |-> "fin"]

\* The server has the connection: in its accept queue or in a thread.
Held(c) == handler[c] # "none" \/ \E i \in DOMAIN queue : queue[i] = c

\* What reaches the other end: nothing over a cut connection, nor to one that is gone.
ToServer(c, items) ==
  [toServer EXCEPT ![c] = IF cut[c] \/ ~Held(c) THEN @ ELSE @ \o items]
ToClient(c, x) ==
  [toClient EXCEPT ![c] = IF cut[c] \/ c # conn THEN @ ELSE Append(@, x)]
Taken(wire, c) == [wire EXCEPT ![c] = Tail(@)]

\* An item of this kind is the next one to be read on c.
NextIs(wire, c, kind) == ~cut[c] /\ wire[c] # <<>> /\ Head(wire[c]).kind = kind

\* An abandoned frame that is in the model or can still get there.
Stray(c) ==
  /\ c # conn
  /\ \/ handler[c] = "infer"
     \/ ~cut[c] /\ \E i \in DOMAIN toServer[c] : toServer[c][i].kind = "jpeg"

Idle(c) == c # conn /\ ~Held(c)

Init ==
  /\ conn = NoConn /\ phase = "idle" /\ call = NoCall /\ answer = None /\ disturbed = FALSE
  /\ toServer = [c \in Conns |-> <<>>] /\ toClient = [c \in Conns |-> <<>>]
  /\ cut = [c \in Conns |-> FALSE]
  /\ serverUp = TRUE /\ queue = <<>> /\ active = 0
  /\ handler = [c \in Conns |-> "none"]
  /\ received = [c \in Conns |-> None]
  /\ overlapped = [c \in Conns |-> {}]

-----------------------------------------------------------------------------
(* send_frame.                                                             *)

Connect(c, frame) ==
  /\ phase = "idle"
  /\ Idle(c)
  /\ conn' = c /\ call' = frame /\ phase' = "connect"
  /\ disturbed' = \E other \in Conns \ {c} : Stray(other)
  /\ toServer' = [toServer EXCEPT ![c] = <<>>]
  /\ toClient' = [toClient EXCEPT ![c] = <<>>]
  /\ cut' = [cut EXCEPT ![c] = FALSE]
  /\ UNCHANGED <<answer, serverVars>>

\* The kernel completes the handshake while its accept queue has room.
Establish ==
  /\ phase = "connect"
  /\ serverUp /\ ~cut[conn] /\ Len(queue) <= MaxConcurrent
  /\ queue' = Append(queue, conn)
  /\ phase' = "prefix"
  /\ UNCHANGED <<conn, call, answer, disturbed, wireVars,
                 serverUp, handler, received, overlapped, active>>

SendPrefix ==
  /\ phase = "prefix"
  /\ toServer' = ToServer(conn, <<Prefix>>)
  /\ phase' = "jpeg"
  /\ UNCHANGED <<conn, call, answer, disturbed, toClient, cut, serverVars>>

SendJpeg ==
  /\ phase = "jpeg"
  /\ toServer' = ToServer(conn, <<Jpeg(call)>>)
  /\ phase' = "recv"
  /\ UNCHANGED <<conn, call, answer, disturbed, toClient, cut, serverVars>>

\* Leaving the with block closes the socket; items left unread are gone.
CloseAndReturn(direction, sent) ==
  /\ toServer' = ToServer(conn, sent \o <<Fin>>)
  /\ toClient' = [toClient EXCEPT ![conn] = <<>>]
  /\ conn' = NoConn /\ phase' = "idle" /\ call' = NoCall
  /\ answer' = direction /\ disturbed' = FALSE
  /\ UNCHANGED <<cut, serverVars>>

\* Refused, unreachable, or CONNECT_TIMEOUT_S.
ConnectFails == phase = "connect" /\ CloseAndReturn(None, <<>>)

\* IO_TIMEOUT_S in a sendall, or a reset by a server that died: part of the frame
\* may have gone.
SendFails ==
  \/ phase = "prefix" /\ CloseAndReturn(None, <<>>)
  \/ phase = "jpeg" /\ \E sent \in {<<>>, <<Part>>} : CloseAndReturn(None, sent)

RecvReply ==
  /\ phase = "recv" /\ NextIs(toClient, conn, "reply")
  /\ CloseAndReturn(Head(toClient[conn]).direction, <<>>)

\* Faulty: the empty reply is returned as it is.
RecvEofUnparsed == phase = "recv" /\ NextIs(toClient, conn, "fin") /\ CloseAndReturn("", <<>>)

\* End of stream before a line: json.loads("") raises, None is returned.
RecvEof == phase = "recv" /\ NextIs(toClient, conn, "fin") /\ CloseAndReturn(None, <<>>)

\* Faulty: no settimeout on the socket.
RecvNeverTimesOut == phase = "recv" /\ FALSE /\ UNCHANGED vars

\* network_client.c makes the same calls in the same order with the same failures (-1),
\* but a single recv: of a reply that comes in parts it returns the first one, out of
\* which no direction can be read, and at the end of the stream 0 bytes.
RecvOnce ==
  \/ /\ phase = "recv" /\ NextIs(toClient, conn, "reply")
     /\ \E direction \in {Head(toClient[conn]).direction, None} : CloseAndReturn(direction, <<>>)
  \/ RecvEof

RecvTimesOut == phase = "recv" /\ CloseAndReturn(None, <<>>)

-----------------------------------------------------------------------------
(* The server.                                                             *)

Accept ==
  /\ serverUp /\ queue # <<>>
  /\ handler' = [handler EXCEPT ![Head(queue)] = "started"]
  /\ queue' = Tail(queue)
  /\ UNCHANGED <<clientVars, wireVars, serverUp, received, overlapped, active>>

ConnectionStarted(c) ==
  /\ handler[c] = "started"
  /\ active' = active + 1
  /\ handler' = [handler EXCEPT ![c] = "prefix"]
  /\ UNCHANGED <<clientVars, wireVars, serverUp, queue, received, overlapped>>

ReadPrefix(c) ==
  /\ handler[c] = "prefix" /\ NextIs(toServer, c, "prefix")
  /\ toServer' = Taken(toServer, c)
  /\ handler' = [handler EXCEPT ![c] = "jpeg"]
  /\ UNCHANGED <<clientVars, toClient, cut, serverUp, queue, received, overlapped, active>>

ReadPart(c) ==
  /\ handler[c] = "jpeg" /\ NextIs(toServer, c, "part")
  /\ toServer' = Taken(toServer, c)
  /\ UNCHANGED <<clientVars, toClient, cut, serverVars>>

\* The frame goes to the model, next to those that are in it.
ReadJpeg(c) ==
  /\ handler[c] = "jpeg" /\ NextIs(toServer, c, "jpeg")
  /\ toServer' = Taken(toServer, c)
  /\ handler' = [handler EXCEPT ![c] = "infer"]
  /\ LET frame == Head(toServer[c]).frame
         inside == {other \in Conns : handler[other] = "infer"}
     IN  /\ received' = [received EXCEPT ![c] = frame]
         /\ overlapped' = [other \in Conns |->
              IF other = c THEN {received[o] : o \in inside}
              ELSE IF other \in inside THEN overlapped[other] \cup {frame}
              ELSE overlapped[other]]
  /\ UNCHANGED <<clientVars, toClient, cut, serverUp, queue, active>>

\* Faulty: an early return outside the try block; a loop that ignores an empty chunk.
ReadEofUncounted(c) ==
  /\ handler[c] \in {"prefix", "jpeg"} /\ NextIs(toServer, c, "fin")
  /\ handler' = [handler EXCEPT ![c] = "close"]
  /\ UNCHANGED <<clientVars, wireVars, serverUp, queue, received, overlapped, active>>
ReadEofAtPrefixOnly(c) ==
  /\ handler[c] = "prefix" /\ NextIs(toServer, c, "fin")
  /\ handler' = [handler EXCEPT ![c] = "finish"]
  /\ UNCHANGED <<clientVars, wireVars, serverUp, queue, received, overlapped, active>>

\* End of stream in recv_exact: return without a reply.
ReadEof(c) ==
  /\ handler[c] \in {"prefix", "jpeg"} /\ NextIs(toServer, c, "fin")
  /\ handler' = [handler EXCEPT ![c] = "finish"]
  /\ UNCHANGED <<clientVars, wireVars, serverUp, queue, received, overlapped, active>>

\* A frame alone in the model gets its own direction.  The model is shared without
\* a lock: frames in it together may get one another's.  Any exception is replied
\* as a null direction.  A reply to a client that closed is lost.
Infer(c) ==
  /\ handler[c] = "infer"
  /\ \E direction \in {received[c], None} \cup overlapped[c] :
       toClient' = ToClient(c, Reply(direction))
  /\ handler' = [handler EXCEPT ![c] = "finish"]
  /\ received' = [received EXCEPT ![c] = None]
  /\ overlapped' = [overlapped EXCEPT ![c] = {}]
  /\ UNCHANGED <<clientVars, toServer, cut, serverUp, queue, active>>

\* finally: connection_finished(), then close().
ConnectionFinished(c) ==
  /\ handler[c] = "finish"
  /\ active' = IF active > 0 THEN active - 1 ELSE 0
  /\ handler' = [handler EXCEPT ![c] = "close"]
  /\ UNCHANGED <<clientVars, wireVars, serverUp, queue, received, overlapped>>

CloseConn(c) ==
  /\ handler[c] = "close"
  /\ handler' = [handler EXCEPT ![c] = "none"]
  /\ toClient' = ToClient(c, Fin)
  /\ toServer' = [toServer EXCEPT ![c] = <<>>]
  /\ UNCHANGED <<clientVars, cut, serverUp, queue, received, overlapped, active>>

\* The process ends: stopped, or by an exception of accept() or Thread.start() when it
\* is out of descriptors or threads.  Its threads are daemons and the kernel closes
\* every socket.
ServerStops ==
  /\ serverUp
  /\ serverUp' = FALSE
  /\ queue' = <<>> /\ active' = 0
  /\ handler' = [c \in Conns |-> "none"]
  /\ received' = [c \in Conns |-> None]
  /\ overlapped' = [c \in Conns |-> {}]
  /\ toServer' = [c \in Conns |-> <<>>]
  /\ toClient' = IF phase # "idle" /\ Held(conn) THEN ToClient(conn, Fin) ELSE toClient
  /\ UNCHANGED <<clientVars, cut>>

ServerStarts ==
  /\ ~serverUp
  /\ serverUp' = TRUE
  /\ UNCHANGED <<clientVars, wireVars, queue, handler, received, overlapped, active>>

-----------------------------------------------------------------------------
Cut(c) ==
  /\ ~cut[c] /\ ~Idle(c)
  /\ cut' = [cut EXCEPT ![c] = TRUE]
  /\ UNCHANGED <<clientVars, toServer, toClient, serverVars>>

SendFrame == \E c \in Conns, frame \in Readings : Connect(c, frame)

ClientStep ==
  \/ Establish \/ SendPrefix \/ SendJpeg
  \/ ConnectFails \/ SendFails
  \/ RecvReply \/ RecvOnce \/ RecvEof \/ RecvTimesOut

Handle(c) ==
  \/ ConnectionStarted(c)
  \/ ReadPrefix(c) \/ ReadPart(c) \/ ReadJpeg(c) \/ ReadEof(c)
  \/ Infer(c)
  \/ ConnectionFinished(c) \/ CloseConn(c)

Next ==
  \/ SendFrame
  \/ ClientStep
  \/ Accept
  \/ \E c \in Conns : Handle(c) \/ Cut(c)
  \/ ServerStops \/ ServerStarts

\* Each client call is bounded by a timeout; the accept loop and every thread that
\* is not blocked in recv run.
Fairness ==
  /\ WF_vars(ClientStep)
  /\ WF_vars(Accept)
  /\ \A c \in Conns : WF_vars(Handle(c))

Spec == Init /\ [][Next]_vars /\ Fairness

-----------------------------------------------------------------------------
ToServerItems == {Prefix, Part, Fin} \cup {Jpeg(d) : d \in Readings}
ToClientItems == {Fin} \cup {Reply(d) : d \in Readings}

\* Types of both ends and of the wire; the accept queue is no longer than the backlog
\* allows, and a call has a connection exactly while it runs.
ExchangeTypeOK ==
  /\ conn \in Conns \cup {NoConn}
  /\ phase \in {"idle", "connect", "prefix", "jpeg", "recv"}
  /\ call \in Readings \cup {NoCall}
  /\ (call = NoCall) = (phase = "idle") /\ (conn = NoConn) = (phase = "idle")
  /\ answer \in Readings
  /\ disturbed \in BOOLEAN /\ serverUp \in BOOLEAN
  /\ cut \in [Conns -> BOOLEAN]
  /\ toServer \in [Conns -> Seq(ToServerItems)]
  /\ toClient \in [Conns -> Seq(ToClientItems)]
  /\ queue \in Seq(Conns) /\ Len(queue) <= MaxConcurrent + 1
  /\ handler \in [Conns -> {"none", "started", "prefix", "jpeg", "infer", "finish", "close"}]
  /\ received \in [Conns -> Readings]
  /\ overlapped \in [Conns -> SUBSET Readings]
  /\ active \in Nat

\* The load figure counts exactly the threads between connection_started and
\* connection_finished, whichever way each of them ends (reply, error, early end of
\* stream, client gone): the counter neither leaks nor is clamped at 0.
LoadCountsHandlers ==
  active = Cardinality({c \in Conns : handler[c] \in {"prefix", "jpeg", "infer", "finish"}})

\* FrameService as this module implements it.
Service == INSTANCE FrameService WITH stray <- \E c \in Conns : Stray(c)

\* send_frame, TCP and the server together keep the promise of FrameService: every
\* call ends, and its answer is that of its own frame unless an abandoned frame was
\* still on its way into the model when it began.
KeepsServicePromise == Service!ServiceSpec

\* As long as no connection is cut, every connection the server accepted is closed,
\* whatever the client did with its end.
HandlersEndUncut ==
  ([](\A c \in Conns : ~cut[c])) =>
    \A c \in Conns : handler[c] = "started" ~> handler[c] = "none"

-----------------------------------------------------------------------------
(* What the repository says and the code does not do.                      *)

\* docs/protocol_spec.md:35 the server "never leaves the connection hanging": every
\* connection the server accepted is closed.
HandlersEnd == \A c \in Conns : handler[c] = "started" ~> handler[c] = "none"
=============================================================================
