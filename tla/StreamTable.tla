---------------------------- MODULE StreamTable ----------------------------
(***************************************************************************)
(* The functions of nghttp2_session.c that every handler is built from:    *)
(* opening, closing and retaining streams, and queueing control frames.    *)
(* Each C function f(session, ...) is an operator from a session record to *)
(* the updated record.  The fields of a session s are                      *)
(*   streams    the map of streams: stream id -> stream record             *)
(*   closed     ids on the closed-stream list, oldest first                *)
(*   idle       ids on the idle-stream list, oldest first                  *)
(*   out, in    num_outgoing_streams, num_incoming_streams                 *)
(*   resv       num_incoming_reserved_streams                              *)
(*   nextId     next_stream_id                                             *)
(*   lastRecv, lastProc    last_recv_stream_id, last_proc_stream_id        *)
(*   goaway     goaway_flags                                               *)
(*   localLast, remoteLast local_last_stream_id, remote_last_stream_id     *)
(*   reg, syn   the outbound queues ob_reg and ob_syn                      *)
(*   notified   number of on_stream_close_callback calls per id (a history *)
(*              of what the application was told)                          *)
(* A stream record has the stream's state, its shut_flags (rd, wr), the    *)
(* PUSH flag, the attached outbound item and whether that item is deferred *)
(* by the application.  The CLOSED flag is membership in closed.           *)
(* Priorities are abstracted here (module DepTree) and so are settings in  *)
(* flight: the limits and enable_push are fixed.                           *)
(***************************************************************************)
EXTENDS Integers, Sequences, FiniteSets, SequencesExt

AllIds == 1..9   \* stand for 1..2^31 - 1

VARIABLE setup   \* what is fixed when the session is created, see Setup

Setup ==
  [server:      BOOLEAN,          \* made by nghttp2_session_server_new
   maxId:       AllIds,           \* the largest id
   localMax:    Nat,   \* local_settings.max_concurrent_streams
   pendingMax:  Nat,   \* pending_local_max_concurrent_stream
   remoteMax:   Nat,   \* remote_settings.max_concurrent_streams
   reservedMax: Nat,   \* max_incoming_reserved_streams
   localPush:   BOOLEAN,   \* local_settings.enable_push
   pendingPush: BOOLEAN,   \* pending_enable_push
   remotePush:  BOOLEAN,   \* remote_settings.enable_push
   app:         SUBSET STRING,   \* the calls the application makes
   peer:        SUBSET STRING,   \* the types of frame the peer sends
   deps:        SUBSET Nat,      \* stream dependencies in those (0: root)
   maxQueue:    Nat,     \* bound on frames the application has queued
   early:       BOOLEAN] \* may it submit frames for a request whose header
                         \* block is still being received?

Server      == setup.server
MaxId       == setup.maxId
LocalMax    == setup.localMax
PendingMax  == setup.pendingMax
RemoteMax   == setup.remoteMax
ReservedMax == setup.reservedMax
LocalPush   == setup.localPush
PendingPush == setup.pendingPush
RemotePush  == setup.remotePush

Ids == 1..MaxId

IsMyStreamId(id) == id # 0 /\ id % 2 = (IF Server THEN 0 ELSE 1)

NoItem == [type |-> "none"]

\* nghttp2_stream_init and the shutdown of a reserved stream's closed half
NewStream(id, state) ==
  [state    |-> state,
   rd       |-> state = "reserved" /\ IsMyStreamId(id),
   wr       |-> state = "reserved" /\ ~IsMyStreamId(id),
   push     |-> state = "reserved",
   item     |-> NoItem,
   deferred |-> FALSE]

NewSession ==
  [streams   |-> [id \in {} |-> NewStream(id, "idle")],
   closed    |-> <<>>,
   idle      |-> <<>>,
   out       |-> 0,
   in        |-> 0,
   resv      |-> 0,
   nextId    |-> IF Server THEN 2 ELSE 1,
   lastRecv  |-> 0,
   lastProc  |-> 0,
   goaway    |-> {},
   localLast |-> MaxId,
   remoteLast |-> MaxId,
   reg       |-> <<>>,
   syn       |-> <<>>,
   notified  |-> [id \in Ids |-> 0]]

-----------------------------------------------------------------------------
\* nghttp2_session_get_stream_raw finds closed and idle streams as well.
HasStreamRaw(s, id) == id \in DOMAIN s.streams

\* nghttp2_session_get_stream(session, id) # NULL
HasStream(s, id) == /\ HasStreamRaw(s, id)
                    /\ ~Contains(s.closed, id)
                    /\ s.streams[id].state # "idle"

StateOf(s, id) == IF HasStream(s, id) THEN s.streams[id].state ELSE "none"

IsNewPeerStreamId(s, id) ==
  id # 0 /\ ~IsMyStreamId(id) /\ s.lastRecv < id

DetectIdleStream(s, id) ==
  IF IsMyStreamId(id) THEN s.nextId <= id ELSE IsNewPeerStreamId(s, id)

\* Mutant: one stream too many.
PendingMaxOffByOne(s) == PendingMax < s.in

IncomingMax(s)        == LocalMax <= s.in
IncomingPendingMax(s) == PendingMax <= s.in
OutgoingMax(s)        == RemoteMax <= s.out

\* session_is_closing
IsClosing(s) == "term" \in s.goaway

-----------------------------------------------------------------------------
\* Drop the n oldest entries of a retained list ("closed" or "idle") with
\* their streams: nghttp2_session_destroy_stream in a loop.
Destroy(s, ids) ==
  [s EXCEPT !.streams = [id \in DOMAIN @ \ ids |-> @[id]]]

SmallerOf(a, b) == IF a <= b THEN a ELSE b
LargerOf(a, b)  == IF a >= b THEN a ELSE b

\* Mutant: no room is made for the stream that is about to open.
AdjustClosedNoOffset(s, offset) ==
  LET excess == Len(s.closed) + s.in - SmallerOf(LocalMax, PendingMax)
      n      == SmallerOf(LargerOf(excess, 0), Len(s.closed))
  IN  [Destroy(s, {s.closed[i] : i \in 1..n})
         EXCEPT !.closed = SubSeq(@, n + 1, Len(@))]

\* nghttp2_session_adjust_closed_stream
AdjustClosedStream(s, offset) ==
  LET excess == Len(s.closed) + s.in + offset - SmallerOf(LocalMax, PendingMax)
      n      == SmallerOf(LargerOf(excess, 0), Len(s.closed))
  IN  [Destroy(s, {s.closed[i] : i \in 1..n})
         EXCEPT !.closed = SubSeq(@, n + 1, Len(@))]

\* nghttp2_session_adjust_idle_stream
AdjustIdleStream(s) ==
  LET max == LargerOf(2, SmallerOf(LocalMax, PendingMax))
      n   == LargerOf(Len(s.idle) - max, 0)
  IN  [Destroy(s, {s.idle[i] : i \in 1..n})
         EXCEPT !.idle = SubSeq(@, n + 1, Len(@))]

\* Mutant: the idle list is not trimmed.
KeepIdleUntrimmed(s, id) == [s EXCEPT !.idle = Append(@, id)]

KeepClosedStream(s, id) ==
  AdjustClosedStream([s EXCEPT !.closed = Append(@, id)], 0)

KeepIdleStream(s, id) ==
  AdjustIdleStream([s EXCEPT !.idle = Append(@, id)])

\* Mutant: an idle stream that opens stays on the idle list.
DetachNothing(s, id) == s

DetachIdleStream(s, id) ==
  [s EXCEPT !.idle = SelectSeq(@, LAMBDA i : i # id)]

InsertStream(s, id, state) ==
  [s EXCEPT !.streams = (id :> NewStream(id, state)) @@ @]

\* nghttp2_session_open_stream for an anchor of the dependency tree
OpenIdleStream(s, id) == KeepIdleStream(InsertStream(s, id, "idle"), id)

\* A dependency on an idle stream that is not in memory creates that stream.
OpenDependency(s, dep) ==
  IF Server /\ dep # 0 /\ ~HasStreamRaw(s, dep) /\ DetectIdleStream(s, dep)
    THEN OpenIdleStream(s, dep)
    ELSE s

\* nghttp2_session_open_stream
OpenStream(s, id, state, dep) ==
  LET s1 == IF HasStreamRaw(s, id) THEN DetachIdleStream(s, id)
            ELSE IF Server /\ state # "idle" /\ ~IsMyStreamId(id)
              THEN AdjustClosedStream(s, 1)
            ELSE s
      s2 == InsertStream(OpenDependency(s1, dep), id, state)
  IN  CASE state = "idle"     -> KeepIdleStream(s2, id)
        [] state = "reserved" -> IF IsMyStreamId(id) THEN s2
                                 ELSE [s2 EXCEPT !.resv = @ + 1]
        [] OTHER              -> IF IsMyStreamId(id)
                                   THEN [s2 EXCEPT !.out = @ + 1]
                                   ELSE [s2 EXCEPT !.in = @ + 1]


\* Mutant: a stream that is being reset keeps its place in the counters.
CloseStreamUncounted(s, id) ==
  LET s1 == [s EXCEPT !.notified[id] = @ + 1, !.streams[id].item = NoItem]
  IN  IF ~HasStream(s, id) THEN s
      ELSE IF Server THEN KeepClosedStream(s1, id)
      ELSE Destroy(s1, {id})

\* Mutant: a stream that is being reset goes without a word.
CloseStreamSilently(s, id) ==
  LET st == s.streams[id]
      s1 == [s EXCEPT
               !.notified[id] = IF st.state = "closing" THEN @ ELSE @ + 1,
               !.streams[id].item = NoItem,
               !.streams[id].deferred = FALSE,
               !.resv = @ - (IF st.push /\ ~IsMyStreamId(id) THEN 1 ELSE 0),
               !.out  = @ - (IF ~st.push /\ IsMyStreamId(id) THEN 1 ELSE 0),
               !.in   = @ - (IF ~st.push /\ ~IsMyStreamId(id) THEN 1 ELSE 0)]
  IN  IF ~HasStream(s, id) THEN s
      ELSE IF Server THEN KeepClosedStream(s1, id)
      ELSE Destroy(s1, {id})

\* nghttp2_session_close_stream; on a client the stream is destroyed at once.
CloseStream(s, id) ==
  LET st == s.streams[id]
      s1 == [s EXCEPT
               !.notified[id] = @ + 1,
               !.streams[id].item = NoItem,
               !.streams[id].deferred = FALSE,
               !.resv = @ - (IF st.push /\ ~IsMyStreamId(id) THEN 1 ELSE 0),
               !.out  = @ - (IF ~st.push /\ IsMyStreamId(id) THEN 1 ELSE 0),
               !.in   = @ - (IF ~st.push /\ ~IsMyStreamId(id) THEN 1 ELSE 0)]
  IN  IF ~HasStream(s, id) THEN s
      ELSE IF Server THEN KeepClosedStream(s1, id)
      ELSE Destroy(s1, {id})

\* nghttp2_session_close_stream_if_shut_rdwr
CloseStreamIfShutRdWr(s, id) ==
  IF s.streams[id].rd /\ s.streams[id].wr THEN CloseStream(s, id) ELSE s

\* Mutant: closes the streams of the other side.
StreamsOfOtherSide(s, last, incoming) ==
  {id \in DOMAIN s.streams : /\ HasStream(s, id)
                             /\ IsMyStreamId(id) = incoming
                             /\ id > last}

\* session_close_stream_on_goaway closes, in the order in which it walks the
\* map, the open streams of one side above the announced id.
StreamsOnGoaway(s, last, incoming) ==
  {id \in DOMAIN s.streams : /\ HasStream(s, id)
                             /\ IsMyStreamId(id) # incoming
                             /\ id > last}

CloseStreams(s, order) == FoldLeft(CloseStream, s, order)

-----------------------------------------------------------------------------
\* nghttp2_session_add_item for the frames of the regular queue
PushReg(s, item) == [s EXCEPT !.reg = Append(@, item)]

\* Is the request HEADERS of stream id queued and not yet cancelled?
\* (the search loop of nghttp2_session_add_rst_stream)
QueuedRequest(s, id) ==
  {i \in 1..Len(s.syn) : s.syn[i].id = id /\ ~s.syn[i].canceled}

\* nghttp2_session_add_rst_stream
AddRstStream(s, id) ==
  IF StateOf(s, id) = "closing" THEN s
  ELSE IF ~Server /\ IsMyStreamId(id) /\ QueuedRequest(s, id) # {}
    THEN [s EXCEPT !.syn = [i \in DOMAIN @ |->
            IF i \in QueuedRequest(s, id) THEN [@[i] EXCEPT !.canceled = TRUE]
            ELSE @[i]]]
  ELSE LET s1 == PushReg(s, [type |-> "RST_STREAM", id |-> id])
       IN  IF HasStream(s, id)
             THEN [s1 EXCEPT !.streams[id].state = "closing"]
             ELSE s1

\* nghttp2_session_add_goaway: the id is capped by the one last transmitted.
AddGoaway(s, last, kind) ==
  PushReg(s, [type |-> "GOAWAY",
              last |-> SmallerOf(last, s.localLast),
              kind |-> kind])

\* session_terminate_session: what every connection error does
TerminateSession(s) ==
  IF IsClosing(s) THEN s
  ELSE [AddGoaway(s, s.lastProc, "term") EXCEPT !.goaway = @ \cup {"term"}]

\* nghttp2_session_add_item with a DATA item, or with a HEADERS item that
\* is to be attached to its stream; an error leaves the session unchanged.
AttachItem(s, id, item) ==
  IF HasStream(s, id) /\ s.streams[id].item = NoItem
    THEN [s EXCEPT !.streams[id].item = item]
    ELSE s

DetachItem(s, id) ==
  IF HasStreamRaw(s, id)
    THEN [s EXCEPT !.streams[id].item = NoItem, !.streams[id].deferred = FALSE]
    ELSE s

=============================================================================
