------------------------------ MODULE Delivery ------------------------------
(***************************************************************************)
(* From an agent to the store and back: the embedded client and the        *)
(* sidecar (src/src/client.rs, src/src/provider.rs,                        *)
(* src/src/bin/meta-agent-sidecar.rs), the four transports (src/src/http.rs,*)
(* tcp.rs, udp.rs with auth.rs) and the daemon that runs them (daemon.rs,  *)
(* web.rs, main.rs), over the store of module Store.                       *)
(*                                                                         *)
(* A call is one connection or one datagram.  EventClient::send opens one  *)
(* per call, writes one frame and waits for one reply, every operation     *)
(* under a timeout; it never retries, so the calls of a program that does  *)
(* are separate calls with the same event id, on any transport and even at *)
(* the same time.  The sidecar makes one call per input line.  Other       *)
(* agents may write several frames on a TCP or WebSocket connection before *)
(* they read a reply, or never read one.                                   *)
(*                                                                         *)
(* A handler awaits between taking a frame and having written its reply,   *)
(* so these are two steps; shutdown, a crash and the peer's departure can  *)
(* fall between them.                                                      *)
(***************************************************************************)
EXTENDS Store

CONSTANTS
  Envelope,           \* the event behind each id: kind, agent, occurred_at
  MaxCalls,           \* calls are numbered in the order in which they start
  Offers,             \* what callers send: peer, transport, frames
  Lines,              \* the sidecar's input, one observation per line
  SidecarTransport,   \* its --transport
  WriteCap,           \* replies a socket takes before its writer has to wait
  MaxTcpConnections,  \* max_tcp_connections
  MaxFaults, MaxRestarts  \* bounds of the exploration

UdpEventKinds == {"heartbeat", "progress_updated", "reflection_recorded",
                  "error_observed", "agent_status_changed"}
Streams == {"http", "websocket", "tcp"}
Defects == {"none", "oversized", "not_utf8", "malformed", "unauthorized", "invalid",
            "unfinished"}
Frames  == [event_id : EventIds, defect : Defects]

(* The observations of a provider adapter and the events they become.      *)
Updates == {"progress", "reflection", "tool_call", "completion", "error"}
Normalized(update) ==
  CASE update = "progress"   -> "progress_updated"
    [] update = "reflection" -> "reflection_recorded"
    [] update = "tool_call"  -> "task_started"
    [] update = "completion" -> "task_completed"
    [] update = "error"      -> "error_observed"

(* A client validates an event before it sends it, and writes one whole    *)
(* frame.  Only over HTTP does a frame that its sender never finishes hold *)
(* the daemon: there it is a request.                                      *)
ASSUME CallAssumption ==
  /\ Transports = Streams \cup {"udp"} /\ SidecarTransport \in Transports
  /\ Envelope \in [EventIds -> [kind : EventKinds, agent : Agents, occurred_at : Times]]
  /\ \A o \in Offers :
       /\ o \in [peer : {"client", "agent"}, transport : Transports, frames : Seq(Frames)]
       /\ o.peer = "client" \/ o.transport \in {"http", "udp"} => Len(o.frames) = 1
       /\ o.peer = "client" =>
            o.frames[1].defect \notin {"not_utf8", "malformed", "invalid", "unfinished"}
       /\ o.transport # "http" =>
            \A i \in DOMAIN o.frames : o.frames[i].defect # "unfinished"
  /\ Lines \in Seq([update : Updates, hidden : BOOLEAN, event_id : EventIds])
  /\ \A i \in DOMAIN Lines :
       Envelope[Lines[i].event_id].kind = Normalized(Lines[i].update)
  /\ {MaxCalls, WriteCap, MaxTcpConnections} \subseteq Nat \ {0}
  /\ MaxFaults \in Nat /\ MaxRestarts \in Nat

(* EventEnvelope::new gives every observation the sidecar normalizes a new *)
(* random id, which is no one else's.                                      *)
ASSUME FreshAssumption ==
  /\ \A i, j \in DOMAIN Lines : Lines[i].event_id = Lines[j].event_id => i = j
  /\ \A o \in Offers : \A n \in DOMAIN o.frames, i \in DOMAIN Lines :
       o.frames[n].event_id # Lines[i].event_id

Calls == 1..MaxCalls

VARIABLES
  daemon,     \* up, stopping (cancelled) or down
  restarts, faults,
  call,       \* the calls; the fields of one are below
  line,       \* the sidecar's next input line
  current,    \* its call in progress or last made, 0 before the first
  effects,    \* history: how often each event was accepted as new
  confirmed   \* history: the events whose sender has read that they were accepted

process == <<daemon, restarts, faults>>
sidecar == <<line, current>>
dvars   == <<vars, process, call, sidecar, effects, confirmed>>

Reply == [accepted : BOOLEAN, event_id : EventIds, transport : Transports, frame : Nat]

ASSUME NoneAssumption == None \notin Reply /\ None \notin Transports

(* peer: what the calling side is doing; via, sent: its transport and the  *)
(* frames it has written; link: the daemon's side (open while a handler    *)
(* runs, awaiting the rest of an HTTP request, ended when it returned by   *)
(* itself, cancelled by shutdown, lost when it was cut off); read: frames  *)
(* the handler has taken; reply: what it is about to write; outbox:        *)
(* replies written and not read yet; told: replies read.                   *)
Call ==
  [peer : {"new", "waiting", "ok", "failed", "agent", "gone"},
   via : Transports \cup {None}, sent : Seq(Frames),
   link : {"none", "backlog", "open", "awaiting", "ended", "cancelled", "lost",
           "datagram"},
   read : Nat, reply : Reply \cup {None}, outbox : Seq(Reply), told : Nat]

Unanswered(who, tr, frames, side) ==
  [peer |-> who, via |-> tr, sent |-> frames, link |-> side,
   read |-> 0, reply |-> None, outbox |-> <<>>, told |-> 0]

DeliveryInit ==
  /\ Init
  /\ daemon = "up" /\ restarts = 0 /\ faults = 0
  /\ call = [c \in Calls |-> Unanswered("new", None, <<>>, "none")]
  /\ line = 1 /\ current = 0
  /\ effects = [id \in EventIds |-> 0] /\ confirmed = {}

-----------------------------------------------------------------------------
(* The calling side.                                                       *)

PeerClosed(c) == call[c].peer \in {"ok", "failed", "gone"}

(* A call starts.  Over UDP the client itself refuses an event of a        *)
(* privileged kind.  A connection to a daemon that is down is refused, one *)
(* to a daemon that is stopping waits in the backlog for good.             *)
SentBy(who, tr, frames) ==
  IF tr = "udp"
    THEN IF who = "waiting" /\ Envelope[frames[1].event_id].kind \notin UdpEventKinds
           THEN Unanswered("failed", tr, frames, "none")
           ELSE Unanswered(who, tr, frames, "datagram")
    ELSE Unanswered(who, tr, frames, IF daemon = "down" THEN "lost" ELSE "backlog")

Starts(c, who, tr, frames) ==
  /\ call[c].peer = "new" /\ \A d \in Calls : d < c => call[d].peer # "new"
  /\ call' = [call EXCEPT ![c] = SentBy(who, tr, frames)]
  /\ UNCHANGED <<vars, process, effects, confirmed>>

(* EventClient::send up to its last write.                                 *)
ClientSends(c) ==
  /\ \E o \in Offers : o.peer = "client" /\ Starts(c, "waiting", o.transport, o.frames)
  /\ UNCHANGED sidecar

AgentConnects(c) ==
  /\ \E o \in Offers : o.peer = "agent" /\ Starts(c, "agent", o.transport, o.frames)
  /\ UNCHANGED sidecar

(* Mutant of Ready: a failed delivery is logged and the next line read.    *)
ReadyAfterFailure == current \in Calls => PeerClosed(current)

(* The sidecar goes on to its next line when the last one was accepted.    *)
Ready == current \in Calls => call[current].peer = "ok"

(* One line of the sidecar's loop.  Hidden reasoning in it, or a failed    *)
(* delivery of the line before, has ended the run.                         *)
SidecarSends(c) ==
  /\ line \in DOMAIN Lines /\ ~Lines[line].hidden
  /\ Ready
  /\ Starts(c, "waiting", SidecarTransport,
            <<[event_id |-> Lines[line].event_id, defect |-> "none"]>>)
  /\ line' = line + 1 /\ current' = c

(* Mutant of Validated: any well-formed reply will do.                     *)
ValidatedAny(c, ack) == TRUE

(* decode_ack and validate_ack.                                            *)
Validated(c, ack) ==
  /\ ack.accepted
  /\ ack.event_id = call[c].sent[1].event_id
  /\ ack.transport = call[c].via

(* An HTTP response ends where the connection does (read_to_end).          *)
Readable(c) ==
  /\ call[c].outbox # <<>>
  /\ call[c].via = "http" => call[c].link \in {"ended", "cancelled", "lost"}

Took(k, who) == [k EXCEPT !.peer = who, !.outbox = Tail(@), !.told = @ + 1]

ClientReads(c) ==
  /\ call[c].peer = "waiting" /\ Readable(c)
  /\ \/ /\ Validated(c, Head(call[c].outbox))
        /\ call' = [call EXCEPT ![c] = Took(@, "ok")]
        /\ confirmed' = confirmed \cup {call[c].sent[1].event_id}
     \/ /\ ~Validated(c, Head(call[c].outbox))
        /\ call' = [call EXCEPT ![c] = Took(@, "failed")]
        /\ UNCHANGED confirmed
  /\ UNCHANGED <<vars, process, sidecar, effects>>

(* The timeout of the operation that waits, or a closed or reset           *)
(* connection.                                                             *)
ClientFails(c) ==
  /\ call[c].peer = "waiting"
  /\ call' = [call EXCEPT ![c].peer = "failed"]
  /\ UNCHANGED <<vars, process, sidecar, effects, confirmed>>

AgentReads(c) ==
  /\ call[c].peer = "agent" /\ call[c].outbox # <<>>
  /\ call' = [call EXCEPT ![c] = Took(@, "agent")]
  /\ confirmed' = IF Head(call[c].outbox).accepted
                    THEN confirmed \cup {Head(call[c].outbox).event_id} ELSE confirmed
  /\ UNCHANGED <<vars, process, sidecar, effects>>

AgentLeaves(c) ==
  /\ call[c].peer = "agent"
  /\ call' = [call EXCEPT ![c].peer = "gone"]
  /\ UNCHANGED <<vars, process, sidecar, effects, confirmed>>

-----------------------------------------------------------------------------
(* The transports.                                                         *)

OpenTcp == {c \in Calls : call[c].via = "tcp" /\ call[c].link = "open"}

(* A WebSocket call shows its token and its origin in the handshake.       *)
HandshakeRefused(c) ==
  /\ call[c].via = "websocket"
  /\ \E i \in DOMAIN call[c].sent : call[c].sent[i].defect = "unauthorized"

(* listener.accept: a TCP connection beyond the limit is dropped.          *)
AcceptConnection(c) ==
  /\ daemon = "up" /\ call[c].link = "backlog"
  /\ \/ /\ HandshakeRefused(c)
        /\ RecordRejection("websocket")
        /\ call' = [call EXCEPT ![c].link = "lost"]
     \/ /\ ~HandshakeRefused(c)
        /\ call' = [call EXCEPT ![c].link =
                      IF call[c].via = "tcp" /\ Cardinality(OpenTcp) >= MaxTcpConnections
                        THEN "lost" ELSE "open"]
        /\ UNCHANGED vars
  /\ UNCHANGED <<process, sidecar, effects, confirmed>>

(* Store::ingest of a frame's event.                                       *)
Ingested(id, tr) ==
  \/ /\ IngestNew(id, Envelope[id].kind, Envelope[id].agent, Envelope[id].occurred_at, tr)
     /\ effects' = [effects EXCEPT ![id] = @ + 1]
  \/ IngestDuplicate(id) /\ UNCHANGED effects

(* Mutant of Answered: the acknowledgement leaves out its transport.       *)
AnsweredBarely(k, i, ok) ==
  [k EXCEPT !.read = i,
     !.reply = [accepted |-> ok, event_id |-> k.sent[i].event_id,
                transport |-> None, frame |-> i]]

(* Frame i of a call is taken and its reply is ready to be written.        *)
Answered(k, i, ok) ==
  [k EXCEPT !.read = i,
     !.reply = [accepted |-> ok, event_id |-> k.sent[i].event_id,
                transport |-> k.via, frame |-> i]]

(* What the decoder of lines and the reader of WebSocket text messages     *)
(* report as an error of the stream, not as a frame.                       *)
Undecodable(k, i) ==
  i \in DOMAIN k.sent /\ k.sent[i].defect \in {"oversized", "not_utf8"}

(* The framed reader of lines yields nothing more after such an error.     *)
Spent(c) == call[c].via = "tcp" /\ Undecodable(call[c], call[c].read)

Takes(c, i, defects) ==
  /\ daemon # "down" /\ call[c].link = "open" /\ call[c].reply = None /\ ~Spent(c)
  /\ i = call[c].read + 1 /\ i \in DOMAIN call[c].sent
  /\ call[c].sent[i].defect \in defects

(* ingest_event, handle_agent_socket and handle_connection take a frame:   *)
(* its event is ingested, or it is counted as rejected and answered with   *)
(* an error.                                                               *)
TakeGood(c, i) ==
  /\ Takes(c, i, {"none"})
  /\ Ingested(call[c].sent[i].event_id, call[c].via)
  /\ call' = [call EXCEPT ![c] = Answered(@, i, TRUE)]
  /\ UNCHANGED <<process, sidecar, confirmed>>

TakeBad(c, i) ==
  /\ Takes(c, i, Defects \ {"none", "unfinished"})
  /\ ~(call[c].via = "websocket" /\ Undecodable(call[c], i))
  /\ RecordRejection(call[c].via)
  /\ call' = [call EXCEPT ![c] = Answered(@, i, FALSE)]
  /\ UNCHANGED <<process, sidecar, effects, confirmed>>

(* Such a WebSocket message ends its handler without a word.               *)
TakeUndecodable(c, i) ==
  /\ Takes(c, i, {"oversized", "not_utf8"})
  /\ call[c].via = "websocket"
  /\ call' = [call EXCEPT ![c].link = "ended"]
  /\ UNCHANGED <<vars, process, sidecar, effects, confirmed>>

(* A reply is written when the socket has room for it; the peer's side     *)
(* keeps it until it is read.                                              *)
Wrote(k) == [k EXCEPT !.outbox = Append(@, k.reply), !.reply = None]

WriteReply(c) ==
  /\ daemon # "down" /\ call[c].reply # None
  /\ call[c].via = "udp" \/ (call[c].link = "open" /\ Len(call[c].outbox) < WriteCap)
  /\ call' = [call EXCEPT ![c] = Wrote(@)]
  /\ UNCHANGED <<vars, process, sidecar, effects, confirmed>>

(* The handler returns: end of input, or the one request is answered.      *)
EndOfStream(c) ==
  /\ call[c].link = "open" /\ call[c].reply = None
  /\ \/ PeerClosed(c) /\ call[c].read = Len(call[c].sent)
     \/ Spent(c)
     \/ call[c].via = "http" /\ call[c].read = 1
  /\ call' = [call EXCEPT ![c].link = "ended"]
  /\ UNCHANGED <<vars, process, sidecar, effects, confirmed>>

(* A connection is cut off, with what the handler was about to write.      *)
Cut(k) == [k EXCEPT !.link = "lost", !.reply = None]

(* Reading from or writing to a peer that has left fails.  A broken link   *)
(* is the same to the daemon, and a timeout to the peer.                   *)
PeerLost(c) ==
  /\ call[c].link = "open" /\ PeerClosed(c)
  /\ call' = [call EXCEPT ![c] = Cut(@)]
  /\ UNCHANGED <<vars, process, sidecar, effects, confirmed>>

(* The beginning of a request arrives, its head or the head and a part of  *)
(* the body, and the connection waits for the rest without a timeout.      *)
AwaitRequest(c) ==
  /\ daemon # "down" /\ call[c].link = "open"
  /\ call[c].via = "http" /\ call[c].read = 0
  /\ call[c].sent[1].defect = "unfinished"
  /\ call' = [call EXCEPT ![c].link = "awaiting"]
  /\ UNCHANGED <<vars, process, sidecar, effects, confirmed>>

(* Its peer leaves: a handler that was reading the body counts a rejected  *)
(* event, one that never had the whole head does not exist.                *)
RequestBroken(c) ==
  /\ call[c].link = "awaiting" /\ PeerClosed(c)
  /\ RecordRejection("http") \/ UNCHANGED vars
  /\ call' = [call EXCEPT ![c] = Cut(@)]
  /\ UNCHANGED <<process, sidecar, effects, confirmed>>

(* Mutants of Cancelled: the whole handler is raced against the shutdown,  *)
(* its pending reply included; the handler does not watch for it at all.   *)
CancelledMidway(c) ==
  /\ daemon = "stopping" /\ call[c].link = "open"
  /\ call[c].via = "tcp" \/ (call[c].via = "http" /\ call[c].read = 0)
  /\ call' = [call EXCEPT ![c].link = "cancelled", ![c].reply = None]
  /\ UNCHANGED <<vars, process, sidecar, effects, confirmed>>
CancelledNever(c) == FALSE /\ UNCHANGED dvars

(* Shutdown ends a TCP handler between two frames and an HTTP connection   *)
(* on which no request has begun; one that has is waited for.  A WebSocket *)
(* handler is detached and never told.                                     *)
Cancelled(c) ==
  /\ daemon = "stopping" /\ call[c].link = "open" /\ call[c].reply = None
  /\ call[c].via = "tcp" \/ (call[c].via = "http" /\ call[c].read = 0)
  /\ call' = [call EXCEPT ![c].link = "cancelled"]
  /\ UNCHANGED <<vars, process, sidecar, effects, confirmed>>

(* One socket and one loop serve all datagrams.  A datagram may arrive     *)
(* late, never or (a fault) again.                                         *)
UdpArrives(c) ==
  /\ daemon # "down" /\ call[c].link = "datagram"
  /\ \A d \in Calls : call[d].via = "udp" => call[d].reply = None
  /\ \/ call[c].read = 0 /\ UNCHANGED faults
     \/ call[c].read = 1 /\ faults < MaxFaults /\ faults' = faults + 1
  /\ UNCHANGED <<daemon, restarts, sidecar, confirmed>>

AllowedOverUdp(f) == Envelope[f.event_id].kind \in UdpEventKinds

UdpIngest(c) ==
  /\ UdpArrives(c)
  /\ call[c].sent[1].defect = "none" /\ AllowedOverUdp(call[c].sent[1])
  /\ Ingested(call[c].sent[1].event_id, "udp")
  /\ call' = [call EXCEPT ![c] = Answered(@, 1, TRUE)]

(* A datagram too long, not to be decoded or not authorized is dropped     *)
(* without a reply; a privileged or invalid event is answered.             *)
UdpRefuse(c) ==
  /\ UdpArrives(c)
  /\ RecordRejection("udp")
  /\ \/ /\ call[c].sent[1].defect \in {"oversized", "not_utf8", "malformed", "unauthorized"}
        /\ call' = [call EXCEPT ![c].read = 1]
     \/ /\ \/ call[c].sent[1].defect = "invalid"
           \/ call[c].sent[1].defect = "none" /\ ~AllowedOverUdp(call[c].sent[1])
        /\ call' = [call EXCEPT ![c] = Answered(@, 1, FALSE)]
  /\ UNCHANGED effects

-----------------------------------------------------------------------------
(* The process.                                                            *)

(* SIGINT or SIGTERM cancels the token.                                    *)
Stop ==
  /\ daemon = "up" /\ daemon' = "stopping"
  /\ UNCHANGED <<vars, restarts, faults, call, sidecar, effects, confirmed>>

(* With the process go its connections; what was written stays written.    *)
Severed ==
  [c \in Calls |->
     IF call[c].link \in {"backlog", "open", "awaiting"} THEN Cut(call[c])
     ELSE [call[c] EXCEPT !.reply = None]]

(* Daemon::serve returns when all three servers have: no TCP or HTTP       *)
(* handler is left and the UDP loop is not writing a reply.                *)
Stopped ==
  /\ daemon = "stopping"
  /\ \A c \in Calls : /\ call[c].via \in {"tcp", "http"} =>
                           call[c].link \notin {"open", "awaiting"}
                      /\ call[c].via = "udp" => call[c].reply = None
  /\ daemon' = "down" /\ call' = Severed
  /\ UNCHANGED <<vars, restarts, faults, sidecar, effects, confirmed>>

(* A kill, or the failure of one server, which ends the others at once     *)
(* (try_join!).                                                            *)
Crash ==
  /\ faults < MaxFaults /\ faults' = faults + 1
  /\ daemon # "down" /\ daemon' = "down" /\ call' = Severed
  /\ UNCHANGED <<vars, restarts, sidecar, effects, confirmed>>

(* Daemon::bind makes a new, empty store.                                  *)
Start ==
  /\ daemon = "down" /\ daemon' = "up"
  /\ restarts < MaxRestarts /\ restarts' = restarts + 1
  /\ Reset
  /\ UNCHANGED <<faults, call, sidecar, effects, confirmed>>

Handler(c) ==
  \/ \E i \in DOMAIN call[c].sent : TakeGood(c, i) \/ TakeBad(c, i) \/ TakeUndecodable(c, i)
  \/ WriteReply(c) \/ EndOfStream(c) \/ PeerLost(c)
  \/ AwaitRequest(c) \/ RequestBroken(c) \/ Cancelled(c)

DeliveryNext ==
  \/ \E c \in Calls :
       \/ ClientSends(c) \/ AgentConnects(c) \/ SidecarSends(c)
       \/ ClientReads(c) \/ ClientFails(c) \/ AgentReads(c) \/ AgentLeaves(c)
       \/ AcceptConnection(c) \/ Handler(c)
       \/ UdpIngest(c) \/ UdpRefuse(c)
  \/ Stop \/ Stopped \/ Crash \/ Start

(* The runtime keeps polling a task that can go on, a waiting client has a *)
(* timeout, and main returns when serve does.  Nothing makes an agent read *)
(* or leave, a datagram arrive or a daemon start.                          *)
DeliverySpec ==
  /\ DeliveryInit /\ [][DeliveryNext]_dvars
  /\ \A c \in Calls : WF_dvars(Handler(c)) /\ WF_dvars(ClientReads(c) \/ ClientFails(c))
  /\ WF_dvars(Stopped)

-----------------------------------------------------------------------------
(* Properties.                                                             *)

(* Every variable of the delivery keeps its type.                          *)
DeliveryTypeOK ==
  /\ daemon \in {"up", "stopping", "down"} /\ restarts \in Nat /\ faults \in Nat
  /\ call \in [Calls -> Call]
  /\ line \in 1..(Len(Lines) + 1) /\ current \in 0..MaxCalls
  /\ effects \in [EventIds -> Nat] /\ confirmed \subseteq EventIds

A == INSTANCE AtMostOnce WITH
       Ids <- EventIds, Window <- IdempotencyCap, remembered <- Keys(seen)

(* docs/protocol.md:78-82: while its id is remembered an event takes       *)
(* effect at most once, however often, over whichever transports and how   *)
(* late it is sent again, and one whose sender was told that it was        *)
(* accepted has taken effect (Store::ingest, the four transports and       *)
(* validate_ack together).                                                 *)
Implements == A!Spec

(* Nothing is left for a handler that returned by itself: it has taken all *)
(* frames, or the decoder's error on the last one it read ended it.        *)
AllTaken(k) ==
  \/ k.read = Len(k.sent)
  \/ k.via = "tcp" /\ Undecodable(k, k.read)
  \/ k.via = "websocket" /\ Undecodable(k, k.read + 1)

(* Nothing was taken beyond an error of the decoder.                       *)
NoneAfter(k) ==
  \A i \in 1..k.read :
    Undecodable(k, i) => k.via = "http" \/ (k.via = "tcp" /\ i = k.read)

(* The replies a connection has received are those to the frames its       *)
(* handler took, one each, in their order, and say accepted exactly when   *)
(* the frame was well-formed and allowed; shutdown between two frames      *)
(* keeps this.  A handler takes no frame behind one that could not be      *)
(* decoded, and when it returns by itself no other reason made it leave a  *)
(* frame (handle_connection, handle_agent_socket, ingest_event).           *)
RepliesMatchFrames ==
  \A c \in Calls :
    LET k == call[c]
    IN  k.via \in Streams /\ k.link \in {"open", "awaiting", "ended", "cancelled"} =>
          /\ k.read = k.told + Len(k.outbox) + (IF k.reply = None THEN 0 ELSE 1)
          /\ k.link # "open" => k.reply = None
          /\ \A i \in DOMAIN k.outbox :
               /\ k.outbox[i].frame = k.told + i
               /\ k.outbox[i].accepted <=> k.sent[k.told + i].defect = "none"
          /\ NoneAfter(k)
          /\ k.link = "ended" => AllTaken(k)

(* docs/protocol.md:70 (one acknowledgement or error line per input frame) *)
(* and :57 (a reply once per message): when the handler of a TCP or        *)
(* WebSocket connection has returned by itself, every frame the peer wrote *)
(* has its reply.  Not so: a line or message over the limit, or not UTF-8, *)
(* ends the connection, with the frames behind it and, over WebSocket, the *)
(* message itself unanswered.                                              *)
EveryFrameAnswered ==
  \A c \in Calls :
    call[c].via \in {"tcp", "websocket"} /\ call[c].link = "ended" =>
      call[c].told + Len(call[c].outbox) = Len(call[c].sent)

(* The events of the sidecar's input take effect in the order of its       *)
(* lines: one has only when the sidecar was told that the one before it    *)
(* was accepted, whatever is lost, late or restarted (the loop of run and  *)
(* EventClient::send).  Its events have fresh ids, which no one else       *)
(* sends.                                                                  *)
SidecarInOrder ==
  \A i \in DOMAIN Lines :
    i > 1 /\ effects[Lines[i].event_id] > 0 => Lines[i - 1].event_id \in confirmed

(* A shutdown completes, unless an agent holds it up: one that does not    *)
(* read its replies keeps a TCP handler waiting to write one (write_all    *)
(* has no timeout), and one that does not finish its HTTP request keeps    *)
(* the server waiting for it (with_graceful_shutdown has none either).     *)
HeldUp ==
  \E c \in Calls :
    /\ call[c].peer = "agent"
    /\ \/ call[c].link = "awaiting"
       \/ /\ call[c].link = "open" /\ call[c].reply # None
          /\ Len(call[c].outbox) >= WriteCap
ShutdownCompletes == []<>(daemon # "stopping" \/ HeldUp)
=============================================================================
