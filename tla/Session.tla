------------------------------ MODULE Session ------------------------------
(***************************************************************************)
(* One endpoint of an HTTP/2 connection: nghttp2_session driven by three   *)
(* parties that interleave freely.                                         *)
(*   The application calls nghttp2_submit_* (Submit...).                   *)
(*   The peer sends frames, in any order a peer may produce (Recv...).     *)
(*     A header block and a DATA payload take more than one read, so the   *)
(*     frame under way is kept in iframe between its first handler and the *)
(*     handler of its end, and other parties move in between.              *)
(*   The transport takes frames out (Pop..., Sent...): the frame being     *)
(*     written is aob, and a partial write leaves it there.                *)
(* Which calls the application makes and which frames the peer sends is    *)
(* part of the setup, so that an instance can leave out what its question  *)
(* does not need.                                                          *)
(***************************************************************************)
EXTENDS StreamTable

CONSTANT Setups   \* the sessions that occur

ASSUME SessionAssumption == Setups \subseteq Setup

App           == setup.app
Peer          == setup.peer
Deps          == setup.deps
MaxQueue      == setup.maxQueue
EarlyResponse == setup.early

VARIABLES session,   \* the record of module StreamTable
          aob,       \* the frame being transmitted (session->aob.item)
          iframe,    \* the frame being received (session->iframe)
          wire       \* history: what the peer has been sent for each stream

vars == <<setup, session, aob, iframe, wire>>

NoFrame == [type |-> "none"]
DataItem == [type |-> "DATA"]

Init == /\ setup \in Setups
        /\ session = NewSession
        /\ aob = NoItem
        /\ iframe = NoFrame
        /\ wire = [id \in Ids |-> "idle"]

-----------------------------------------------------------------------------
(***************************************************************************)
(* The application.  nghttp2_session_want_read and _want_write both return *)
(* 0 once a terminating GOAWAY was sent: the connection is dropped then.   *)
(***************************************************************************)
Alive == "termSent" \notin session.goaway

CanQueue == Alive /\ Len(session.reg) + Len(session.syn) < MaxQueue

\* Streams the application may act on: it was told of them by a callback
Known(id) == /\ HasStream(session, id)
             /\ iframe.type = "request" /\ iframe.id = id => EarlyResponse

Headers(id, cat, end, data) ==
  [type |-> "HEADERS", id |-> id, cat |-> cat, end |-> end, data |-> data,
   canceled |-> FALSE, attached |-> FALSE]

\* A request or response with a body needs DATA frames to be in the run.
HasBody(data) == data => "data" \in App

\* nghttp2_submit_request: the queue is drained only as the peer's
\* SETTINGS_MAX_CONCURRENT_STREAMS allows, so the stream opens later.
SubmitRequest(data) ==
  /\ "request" \in App /\ CanQueue /\ HasBody(data)
  /\ ~Server /\ session.nextId <= MaxId
  /\ session' = [session EXCEPT
       !.nextId = @ + 2,
       !.syn = Append(@, Headers(session.nextId, "request", ~data, data))]
  /\ UNCHANGED <<setup, aob, iframe, wire>>

\* nghttp2_submit_response attaches the HEADERS to the stream, unless the
\* stream is reserved: then it waits for a free concurrent stream.
SubmitResponse(id, data) ==
  /\ "response" \in App /\ CanQueue /\ HasBody(data)
  /\ Server /\ Known(id)
  /\ LET item == Headers(id, "headers", ~data, data)
     IN  session' = IF StateOf(session, id) = "reserved"
                      THEN [session EXCEPT !.syn = Append(@, item)]
                      ELSE AttachItem(session, id,
                                      [item EXCEPT !.attached = TRUE])
  /\ UNCHANGED <<setup, aob, iframe, wire>>

\* nghttp2_submit_trailer
SubmitTrailer(id) ==
  /\ "trailer" \in App /\ CanQueue
  /\ Known(id)
  /\ LET item == Headers(id, "headers", TRUE, FALSE)
     IN  session' = IF StateOf(session, id) = "reserved"
                      THEN [session EXCEPT !.syn = Append(@, item)]
                      ELSE PushReg(session, item)
  /\ UNCHANGED <<setup, aob, iframe, wire>>

\* nghttp2_submit_data
SubmitData(id) ==
  /\ "data" \in App /\ CanQueue
  /\ Known(id)
  /\ session' = AttachItem(session, id, DataItem)
  /\ UNCHANGED <<setup, aob, iframe, wire>>

\* nghttp2_submit_push_promise
SubmitPushPromise(id) ==
  /\ "push" \in App /\ CanQueue
  /\ Server /\ Known(id) /\ ~IsMyStreamId(id) /\ session.nextId <= MaxId
  /\ session' = [PushReg(session, [type |-> "PUSH_PROMISE", id |-> id,
                                   promised |-> session.nextId])
                   EXCEPT !.nextId = @ + 2]
  /\ UNCHANGED <<setup, aob, iframe, wire>>

\* nghttp2_submit_rst_stream, for an open stream or a request still queued
SubmitRstStream(id) ==
  /\ "rst" \in App /\ CanQueue
  /\ Known(id) \/ \E i \in DOMAIN session.syn : session.syn[i].id = id
  /\ session' = AddRstStream(session, id)
  /\ UNCHANGED <<setup, aob, iframe, wire>>

\* nghttp2_submit_goaway
SubmitGoaway(last) ==
  /\ "goaway" \in App /\ CanQueue
  /\ ~IsClosing(session) /\ ~IsMyStreamId(last)
  /\ session' = AddGoaway(session, last, "none")
  /\ UNCHANGED <<setup, aob, iframe, wire>>

\* nghttp2_submit_shutdown_notice
SubmitShutdownNotice ==
  /\ "notice" \in App /\ CanQueue
  /\ Server /\ session.goaway = {}
  /\ session' = AddGoaway(session, MaxId, "notice")
  /\ UNCHANGED <<setup, aob, iframe, wire>>

\* nghttp2_session_terminate_session
SubmitTerminate ==
  /\ "terminate" \in App /\ Alive
  /\ ~IsClosing(session)
  /\ session' = TerminateSession(session)
  /\ UNCHANGED <<setup, aob, iframe, wire>>

\* nghttp2_session_resume_data
ResumeData(id) ==
  /\ Alive /\ HasStream(session, id) /\ session.streams[id].deferred
  /\ session' = [session EXCEPT !.streams[id].deferred = FALSE]
  /\ UNCHANGED <<setup, aob, iframe, wire>>

-----------------------------------------------------------------------------
(***************************************************************************)
(* Frames from the peer.  A handler either finishes with the frame, or     *)
(* leaves it in iframe for the handler of its end.                         *)
(***************************************************************************)
CanRecv(type) == Alive /\ type \in Peer /\ iframe = NoFrame

Processed(s) == session' = s /\ UNCHANGED <<setup, aob, iframe, wire>>

\* The frame's header block or payload will be read by a later step.
Reading(s, frame) == session' = s /\ iframe' = frame /\ UNCHANGED <<setup, aob, wire>>

\* nghttp2_session_on_request_headers_received
OnRequestHeaders(id, dep, end) ==
  LET s == [session EXCEPT !.lastRecv = id]
  IN  IF ~Server \/ ~IsNewPeerStreamId(session, id)
        THEN Processed(IF DetectIdleStream(session, id)
                         THEN TerminateSession(session)
                         ELSE session)
      ELSE IF "sent" \in s.goaway THEN Processed(s)
      ELSE IF IncomingMax(s) \/ dep = id THEN Processed(TerminateSession(s))
      ELSE IF IncomingPendingMax(s) THEN Processed(AddRstStream(s, id))
      ELSE Reading([OpenStream(s, id, "opening", dep) EXCEPT !.lastProc = id],
                   [type |-> "request", id |-> id, end |-> end])

\* nghttp2_session_on_response_headers_received
OnResponseHeaders(id, end) ==
  IF session.streams[id].rd
    THEN Processed(AddRstStream(session, id))
    ELSE Reading([session EXCEPT !.streams[id].state = "opened"],
                 [type |-> "response", id |-> id, end |-> end])

\* nghttp2_session_on_push_response_headers_received
OnPushResponseHeaders(id, end) ==
  IF session.goaway # {} THEN Processed(session)
  ELSE IF IncomingMax(session) THEN Processed(TerminateSession(session))
  ELSE IF IncomingPendingMax(session) THEN Processed(AddRstStream(session, id))
  ELSE Reading([session EXCEPT !.streams[id].state = "opened",
                               !.streams[id].push = FALSE,
                               !.resv = @ - 1,
                               !.in = @ + 1],
               [type |-> "response", id |-> id, end |-> end])

\* nghttp2_session_on_headers_received
OnHeaders(id, end) ==
  LET st == session.streams[id]
  IN  CASE st.state = "reserved" -> Processed(TerminateSession(session))
        [] st.state # "reserved" /\ st.rd ->
             Processed(AddRstStream(session, id))
        [] ~st.rd /\ st.state = "closing" -> Processed(session)
        [] ~st.rd /\ st.state \in {"initial", "opening"} /\ IsMyStreamId(id) ->
             Processed(AddRstStream(session, id))
        [] OTHER -> Reading(session, [type |-> "headers", id |-> id, end |-> end])

\* session_process_headers_frame
RecvHeaders(id, dep, end) ==
  /\ CanRecv("HEADERS")
  /\ LET state == StateOf(session, id)
     IN  CASE state = "none" -> OnRequestHeaders(id, dep, end)
           [] state = "opening" /\ IsMyStreamId(id) -> OnResponseHeaders(id, end)
           [] state = "reserved" /\ ~IsMyStreamId(id) ->
                OnPushResponseHeaders(id, end)
           [] OTHER -> OnHeaders(id, end)

\* nghttp2_session_on_push_promise_received
RecvPushPromise(id, promised) ==
  /\ CanRecv("PUSH_PROMISE")
  /\ LET s == [session EXCEPT !.lastRecv = promised]
     IN  IF Server \/ ~LocalPush THEN Processed(TerminateSession(session))
         ELSE IF session.goaway # {} THEN Processed(session)
         ELSE IF ~IsMyStreamId(id) \/ ~IsNewPeerStreamId(session, promised)
           THEN Processed(TerminateSession(session))
         ELSE IF ~HasStream(s, id) /\ DetectIdleStream(s, id)
           THEN Processed(TerminateSession(s))
         ELSE IF \/ StateOf(s, id) \in {"none", "closing"}
                 \/ ~PendingPush
                 \/ s.resv >= ReservedMax
                 \/ s.streams[id].rd
           THEN Processed(AddRstStream(s, promised))
         ELSE Reading([OpenStream(s, promised, "reserved", id)
                         EXCEPT !.lastProc = promised],
                      [type |-> "push", id |-> id, promised |-> promised])

\* The end of a header block: session_after_header_block_received.  valid is
\* the verdict of the HTTP messaging rules; END_STREAM is processed whatever
\* it is, and the two branches differ in whether the stream may close.
EndHeaders(valid) ==
  /\ Alive /\ iframe.type \in {"request", "response", "headers", "push"}
  /\ LET id      == iframe.id
         subject == IF iframe.type = "push" THEN iframe.promised ELSE id
         s       == IF valid \/ ~HasStream(session, subject) THEN session
                    ELSE AddRstStream(session, subject)
         shut    == [s EXCEPT !.streams[id].rd = TRUE]
     IN  session' = IF StateOf(session, id) \in {"none", "closing"} THEN session
                    ELSE IF iframe.type = "push" \/ ~iframe.end THEN s
                    ELSE IF iframe.type = "request" THEN shut
                    ELSE CloseStreamIfShutRdWr(shut, id)
  /\ iframe' = NoFrame
  /\ UNCHANGED <<setup, aob, wire>>

\* inflate_header_block fails: a header the HTTP rules forbid or a callback
\* that refuses the stream (RST_STREAM), or a compression error, which also
\* ends the connection.  The rest of the block is ignored.
FailHeaders(compression) ==
  /\ Alive /\ iframe.type \in {"request", "response", "headers", "push"}
  /\ LET subject == IF iframe.type = "push" THEN iframe.promised ELSE iframe.id
     IN  session' = IF ~compression THEN AddRstStream(session, subject)
                    ELSE IF StateOf(session, subject) = "none"
                      THEN TerminateSession(session)
                    ELSE TerminateSession(AddRstStream(session, subject))
  /\ iframe' = NoFrame
  /\ UNCHANGED <<setup, aob, wire>>

\* session_on_data_received_fail_fast
RecvData(id, end) ==
  /\ CanRecv("DATA")
  /\ LET state == StateOf(session, id)
         mine  == IsMyStreamId(id)
     IN  IF state = "none"
           THEN Processed(IF DetectIdleStream(session, id)
                            THEN TerminateSession(session)
                            ELSE session)
         ELSE IF session.streams[id].rd THEN Processed(TerminateSession(session))
         ELSE IF state = "closing" THEN Processed(session)
         ELSE IF (mine /\ state # "opened") \/ state = "reserved"
           THEN Processed(TerminateSession(session))
         ELSE Reading(session, [type |-> "data", id |-> id, end |-> end])

\* Mutant: the END_STREAM of a DATA frame does not close the stream.
EndDataNoClose(valid) ==
  /\ Alive /\ iframe.type = "data"
  /\ LET id == iframe.id
         s  == IF valid THEN session ELSE AddRstStream(session, id)
     IN  session' = IF \/ StateOf(session, id) \in {"none", "closing"}
                       \/ ~iframe.end
                      THEN session
                      ELSE [s EXCEPT !.streams[id].rd = TRUE]
  /\ iframe' = NoFrame
  /\ UNCHANGED <<setup, aob, wire>>

\* nghttp2_session_on_data_received
EndData(valid) ==
  /\ Alive /\ iframe.type = "data"
  /\ LET id == iframe.id
         s  == IF valid THEN session ELSE AddRstStream(session, id)
     IN  session' = IF \/ StateOf(session, id) \in {"none", "closing"}
                       \/ ~iframe.end
                      THEN session
                      ELSE CloseStreamIfShutRdWr(
                             [s EXCEPT !.streams[id].rd = TRUE], id)
  /\ iframe' = NoFrame
  /\ UNCHANGED <<setup, aob, wire>>

\* A piece of the payload exceeds the announced content-length: the rest is
\* ignored (NGHTTP2_IB_IGN_DATA).
FailData ==
  /\ Alive /\ iframe.type = "data" /\ HasStream(session, iframe.id)
  /\ session' = AddRstStream(session, iframe.id)
  /\ iframe' = NoFrame
  /\ UNCHANGED <<setup, aob, wire>>

\* nghttp2_session_on_rst_stream_received
RecvRstStream(id) ==
  /\ CanRecv("RST_STREAM")
  /\ Processed(IF ~HasStream(session, id) /\ DetectIdleStream(session, id)
                 THEN TerminateSession(session)
                 ELSE CloseStream(session, id))

\* nghttp2_session_on_priority_received and nghttp2_session_reprioritize_stream
RecvPriority(id, dep) ==
  /\ CanRecv("PRIORITY")
  /\ Processed(IF dep = id THEN TerminateSession(session)
               ELSE IF ~Server THEN session
               ELSE IF HasStreamRaw(session, id) THEN OpenDependency(session, dep)
               ELSE IF DetectIdleStream(session, id)
                 THEN OpenStream(session, id, "idle", dep)
               ELSE session)

\* nghttp2_session_on_goaway_received
RecvGoaway(last) ==
  /\ CanRecv("GOAWAY")
  /\ IF (last > 0 /\ ~IsMyStreamId(last)) \/ session.remoteLast < last
       THEN Processed(TerminateSession(session))
       ELSE \E order \in SetToSeqs(StreamsOnGoaway(session, last, FALSE)) :
              Processed(CloseStreams(
                [session EXCEPT !.goaway = @ \cup {"recv"},
                                !.remoteLast = last], order))

\* session_on_stream_window_update_received, its effect on the stream table;
\* valid: the increment is not 0 and does not overflow the window.
RecvWindowUpdate(id, valid) ==
  /\ CanRecv("WINDOW_UPDATE")
  /\ Processed(IF \/ ~HasStream(session, id) /\ DetectIdleStream(session, id)
                  \/ StateOf(session, id) = "reserved" /\ ~IsMyStreamId(id)
                 THEN TerminateSession(session)
               ELSE IF valid \/ ~HasStream(session, id) THEN session
               ELSE AddRstStream(session, id))

-----------------------------------------------------------------------------
(***************************************************************************)
(* Transmission.  nghttp2_session_pop_next_ob_item takes from ob_reg, then *)
(* from ob_syn while fewer than RemoteMax streams are open, then an item   *)
(* that is attached to a stream.  session_prep_frame drops a frame that    *)
(* may no longer be sent; the others stay in aob until written.            *)
(***************************************************************************)
CanPop    == Alive /\ aob = NoItem
PopReg(t) == CanPop /\ session.reg # <<>> /\ Head(session.reg).type = t
PopSyn    == CanPop /\ session.reg = <<>> /\ session.syn # <<>> /\ ~OutgoingMax(session)
\* Which stream is next is up to the dependency tree (module DepTree).
PopStream(id) ==
  /\ CanPop /\ session.reg = <<>>
  /\ session.syn = <<>> \/ OutgoingMax(session)
  /\ HasStream(session, id)
  /\ session.streams[id].item # NoItem /\ ~session.streams[id].deferred

Reg == [session EXCEPT !.reg = Tail(@)]
Syn == [session EXCEPT !.syn = Tail(@)]

Drop(s)           == session' = s /\ UNCHANGED <<setup, aob, iframe, wire>>
Transmit(s, item) == session' = s /\ aob' = item /\ UNCHANGED <<setup, iframe, wire>>

\* Mutant: a shut-down direction is not looked at.
CanSendIgnoringShut(s, id) == HasStream(s, id) /\ ~IsClosing(s)

\* session_predicate_for_stream_send
CanSend(s, id) == HasStream(s, id) /\ ~IsClosing(s) /\ ~s.streams[id].wr

\* The category a non-request HEADERS gets when it is sent, "none" when
\* session_predicate_headers_send refuses it.
Category(s, id) ==
  CASE ~CanSend(s, id) -> "none"
    [] CanSend(s, id) /\ StateOf(s, id) = "reserved" -> "pushResponse"
    [] CanSend(s, id) /\ StateOf(s, id) = "opening" /\ ~IsMyStreamId(id) ->
         "response"
    [] CanSend(s, id) /\ StateOf(s, id) = "closing" -> "none"
    [] OTHER -> "headers"

PrepHeaders(s, item) ==
  LET cat == Category(s, item.id)
  IN  IF cat = "none"
        THEN Drop(IF item.attached THEN DetachItem(s, item.id) ELSE s)
        ELSE Transmit(s, [item EXCEPT !.cat = cat])

PopHeaders       == PopReg("HEADERS") /\ PrepHeaders(Reg, Head(session.reg))
PopPushedHeaders == /\ PopSyn /\ Head(session.syn).cat # "request"
                    /\ PrepHeaders(Syn, Head(session.syn))
PopResponse(id)  == /\ PopStream(id)
                    /\ session.streams[id].item.type = "HEADERS"
                    /\ PrepHeaders(session, session.streams[id].item)

\* A request opens its stream first; if it may not be sent after all, the
\* stream is closed again, which tells the application.
PopRequest ==
  /\ PopSyn /\ Head(session.syn).cat = "request"
  /\ LET item == Head(session.syn)
         s    == OpenStream(Syn, item.id, "initial", 0)
     IN  IF item.canceled \/ s.goaway \cap {"term", "recv"} # {}
           THEN Drop(CloseStream(s, item.id))
           ELSE Transmit(s, item)

\* So does PUSH_PROMISE (session_predicate_push_promise_send).
PopPushPromise ==
  /\ PopReg("PUSH_PROMISE")
  /\ LET item == Head(session.reg)
         s    == OpenStream(Reg, item.promised, "reserved", 0)
     IN  IF \/ ~CanSend(s, item.id)
            \/ ~RemotePush
            \/ StateOf(s, item.id) = "closing"
            \/ "recv" \in s.goaway
           THEN Drop(CloseStream(s, item.promised))
           ELSE Transmit(s, item)

\* Mutant: RST_STREAM obeys the predicate of the other stream frames.
PopRstIfSendable ==
  /\ PopReg("RST_STREAM")
  /\ IF IsClosing(session) \/ ~CanSend(session, Head(session.reg).id)
       THEN Drop(Reg)
       ELSE Transmit(Reg, Head(session.reg))

PopRstStream ==
  /\ PopReg("RST_STREAM")
  /\ IF IsClosing(session) THEN Drop(Reg) ELSE Transmit(Reg, Head(session.reg))

\* Mutant: a session that is closing drops GOAWAY like other frames.
PopGoawayUnlessClosing ==
  /\ PopReg("GOAWAY")
  /\ IF IsClosing(session) THEN Drop(Reg)
     ELSE Transmit([Reg EXCEPT !.localLast = Head(session.reg).last],
                   Head(session.reg))

PopGoaway ==
  /\ PopReg("GOAWAY")
  /\ Transmit([Reg EXCEPT !.localLast = Head(session.reg).last],
              Head(session.reg))

\* nghttp2_session_predicate_data_send
CanSendData(s, id) ==
  /\ CanSend(s, id)
  /\ StateOf(s, id) \notin {"closing", "reserved"}
  /\ IsMyStreamId(id) \/ StateOf(s, id) = "opened"

\* The read callback says there is more data, that this is the last piece,
\* that it has none now, or that it failed (nghttp2_session_pack_data).
PopData(id, read) ==
  /\ PopStream(id)
  /\ session.streams[id].item.type = "DATA"
  /\ IF ~CanSendData(session, id) THEN Drop(DetachItem(session, id))
     ELSE CASE read = "defer" ->
                 Drop([session EXCEPT !.streams[id].deferred = TRUE])
            [] read = "fail" ->
                 Drop(AddRstStream(DetachItem(session, id), id))
            [] OTHER ->
                 Transmit(session,
                          [type |-> "DATA", id |-> id, eof |-> read # "more",
                           end |-> read = "eof"])

-----------------------------------------------------------------------------
(***************************************************************************)
(* The frame in aob was written completely: session_after_frame_sent1 and  *)
(* session_after_frame_sent2.  The stream may have gone in the meantime.   *)
(***************************************************************************)
Written(s, id, status) ==
  /\ session' = s
  /\ aob' = NoItem
  /\ wire' = [wire EXCEPT ![id] = status]
  /\ UNCHANGED <<setup, iframe>>

\* What the peer may see of a stream after END_STREAM or RST_STREAM: nothing
\* more of its content.
After(id, end) ==
  IF \/ wire[id] \in {"end", "rst", "misuse"}
     \/ wire[id] = "idle" /\ Server /\ IsMyStreamId(id)
    THEN "misuse"
  ELSE IF end THEN "end" ELSE "open"

SentHeaders ==
  /\ Alive /\ aob.type = "HEADERS"
  /\ LET id == aob.id
         s1 == IF aob.attached THEN DetachItem(session, id) ELSE session
         s2 == CASE aob.cat = "request"      ->
                      [s1 EXCEPT !.streams[id].state = "opening"]
                 [] aob.cat = "pushResponse" ->
                      [s1 EXCEPT !.streams[id].state = "opened",
                                 !.streams[id].push = FALSE,
                                 !.out = @ + 1]
                 [] aob.cat = "response"     ->
                      [s1 EXCEPT !.streams[id].state = "opened"]
                 [] OTHER                    -> s1
         s3 == IF aob.end THEN [s2 EXCEPT !.streams[id].wr = TRUE] ELSE s2
         s4 == CloseStreamIfShutRdWr(s3, id)
         s5 == IF aob.data THEN AttachItem(s4, id, DataItem) ELSE s4
     IN  Written(IF HasStream(session, id) THEN s5 ELSE session, id,
                 After(id, aob.end))

SentData ==
  /\ Alive /\ aob.type = "DATA"
  /\ LET id   == aob.id
         s    == DetachItem(session, id)
         shut == IF aob.end THEN [s EXCEPT !.streams[id].wr = TRUE] ELSE s
     IN  Written(IF ~HasStream(session, id) THEN session
                 ELSE IF aob.eof THEN CloseStreamIfShutRdWr(shut, id)
                 ELSE IF CanSendData(session, id) THEN session
                 ELSE s,
                 id,
                 IF wire[id] = "open" THEN After(id, aob.end) ELSE "misuse")

SentRstStream ==
  /\ Alive /\ aob.type = "RST_STREAM"
  /\ Written(CloseStream(session, aob.id), aob.id,
             IF wire[aob.id] = "idle" /\ IsMyStreamId(aob.id) THEN "idleReset"
             ELSE IF wire[aob.id] = "misuse" THEN "misuse" ELSE "rst")

SentPushPromise ==
  /\ Alive /\ aob.type = "PUSH_PROMISE"
  /\ Written(session, aob.promised,
             IF wire[aob.id] \in {"end", "rst", "misuse"} THEN "misuse"
             ELSE "reserved")

SentGoaway ==
  /\ Alive /\ aob.type = "GOAWAY"
  /\ \E order \in SetToSeqs(StreamsOnGoaway(session, aob.last, TRUE)) :
       session' = IF aob.kind = "notice" THEN session
                  ELSE CloseStreams(
                         [session EXCEPT !.goaway = @ \cup {"sent"} \cup
                            (IF aob.kind = "term" THEN {"termSent"} ELSE {})],
                         order)
  /\ aob' = NoItem
  /\ UNCHANGED <<setup, iframe, wire>>

-----------------------------------------------------------------------------
AppStep ==
  \/ \E data \in BOOLEAN : SubmitRequest(data)
  \/ \E id \in Ids, data \in BOOLEAN : SubmitResponse(id, data)
  \/ \E id \in Ids : SubmitTrailer(id)
  \/ \E id \in Ids : SubmitData(id)
  \/ \E id \in Ids : SubmitPushPromise(id)
  \/ \E id \in Ids : SubmitRstStream(id)
  \/ \E last \in 0..MaxId : SubmitGoaway(last)
  \/ SubmitShutdownNotice
  \/ SubmitTerminate
  \/ \E id \in Ids : ResumeData(id)

PeerStep ==
  \/ \E id \in Ids, dep \in Deps, end \in BOOLEAN : RecvHeaders(id, dep, end)
  \/ \E id \in Ids, promised \in Ids : RecvPushPromise(id, promised)
  \/ \E valid \in BOOLEAN : EndHeaders(valid)
  \/ \E compression \in BOOLEAN : FailHeaders(compression)
  \/ \E id \in Ids, end \in BOOLEAN : RecvData(id, end)
  \/ \E valid \in BOOLEAN : EndData(valid)
  \/ FailData
  \/ \E id \in Ids : RecvRstStream(id)
  \/ \E id \in Ids, dep \in Deps : RecvPriority(id, dep)
  \/ \E last \in 0..MaxId : RecvGoaway(last)
  \/ \E id \in Ids, valid \in BOOLEAN : RecvWindowUpdate(id, valid)

Pop ==
  \/ PopHeaders
  \/ PopPushedHeaders
  \/ \E id \in Ids : PopResponse(id)
  \/ PopRequest
  \/ PopPushPromise
  \/ PopRstStream
  \/ PopGoaway
  \/ \E id \in Ids, read \in {"more", "eof", "eofNoEnd", "defer", "fail"} :
       PopData(id, read)

Sent == SentHeaders \/ SentData \/ SentRstStream \/ SentPushPromise \/ SentGoaway

Next == AppStep \/ PeerStep \/ Pop \/ Sent

Spec == Init /\ [][Next]_vars

-----------------------------------------------------------------------------
Active(s) == {id \in DOMAIN s.streams : HasStream(s, id)}

StreamRecords ==
  [state: {"idle", "initial", "opening", "opened", "reserved", "closing"},
   rd: BOOLEAN, wr: BOOLEAN, push: BOOLEAN, deferred: BOOLEAN,
   item: {NoItem, DataItem} \cup
     [type: {"HEADERS"}, id: Ids, cat: {"headers"}, end: BOOLEAN,
      data: BOOLEAN, canceled: {FALSE}, attached: {TRUE}]]

\* The session record has its type; idle streams are exactly those on the
\* idle list, and both retained lists hold streams of the table once each.
TypeOK ==
  /\ DOMAIN session.streams \subseteq Ids
  /\ \A id \in DOMAIN session.streams : session.streams[id] \in StreamRecords
  /\ IsInjective(session.closed) /\ IsInjective(session.idle)
  /\ Range(session.closed) \subseteq DOMAIN session.streams
  /\ Range(session.idle) =
       {id \in DOMAIN session.streams : session.streams[id].state = "idle"}
  /\ session.goaway \subseteq {"term", "sent", "termSent", "recv"}

\* The counters that the concurrency limits are enforced with agree with the
\* streams in the table, through push, cancellation, GOAWAY and closure
\* (nghttp2_session_open_stream, _close_stream, session_after_frame_sent1).
CountersAgree ==
  /\ session.out = Cardinality({id \in Active(session) :
                     IsMyStreamId(id) /\ ~session.streams[id].push})
  /\ session.in = Cardinality({id \in Active(session) :
                     ~IsMyStreamId(id) /\ ~session.streams[id].push})
  /\ session.resv = Cardinality({id \in Active(session) :
                     ~IsMyStreamId(id) /\ session.streams[id].push})

\* Is the frame that will open our stream id still in its queue?
Waiting(id) ==
  \/ \E i \in DOMAIN session.syn : /\ session.syn[i].cat = "request"
                                   /\ session.syn[i].id = id
  \/ \E i \in DOMAIN session.reg : /\ session.reg[i].type = "PUSH_PROMISE"
                                   /\ session.reg[i].promised = id


\* No stream, of either side, stops being active without the callback in the
\* same step (every caller of nghttp2_session_close_stream, and trimming of the
\* retained lists, which must only destroy what was reported).
ClosureReported ==
  [][\A id \in Active(session) :
       id \in Active(session') \/ session'.notified[id] = 1]_vars

\* The limits on concurrent streams hold on both sides: ours by refusal in
\* the HEADERS and PUSH_PROMISE handlers, the peer's by keeping requests and
\* pushed responses in ob_syn (nghttp2_session_pop_next_ob_item).
ConcurrencyLimits == /\ session.in <= SmallerOf(LocalMax, PendingMax)
                     /\ session.out <= RemoteMax
                     /\ session.resv <= ReservedMax

\* A stream whose two directions are shut is not left in the table as active:
\* whichever END_STREAM comes last closes it (close_stream_if_shut_rdwr).
NoHalfOpenLeft ==
  \A id \in Active(session) : ~(session.streams[id].rd /\ session.streams[id].wr)

\* No HEADERS or DATA of a stream, and no PUSH_PROMISE on it, follows its
\* END_STREAM or RST_STREAM on the wire, whatever was queued, attached or half
\* written when the stream ended (the predicates of session_prep_frame).
NothingAfterEnd == \A id \in Ids : wire[id] # "misuse"

\* Every active stream of the peer is covered by last_proc_stream_id, and by
\* the id of the GOAWAY last written once one was sent: what the peer may
\* retry elsewhere is never processed here (session_close_stream_on_goaway).
GoawayCoversStreams ==
  \A id \in Active(session) : ~IsMyStreamId(id) =>
    /\ id <= session.lastProc
    /\ "sent" \in session.goaway /\ aob.type # "GOAWAY" => id <= session.localLast

\* "On server side, retain stream at most MAX_CONCURRENT_STREAMS combined with
\* the current active incoming streams" (the comment in
\* nghttp2_session_close_stream).  nghttp2_session_open_stream breaks it for a
\* stream that PRIORITY or a dependency created as idle: it takes the stream
\* off the idle list and makes no room among the closed ones.
RetentionAsDocumented ==
  session.closed # <<>> =>
    Len(session.closed) + session.in <= SmallerOf(LocalMax, PendingMax)

\* Where no stream is idle before it opens, the bound of that comment holds
\* on every path that opens, closes or refuses a stream
\* (nghttp2_session_adjust_closed_stream).
ClosedRetention ==
  "PRIORITY" \notin Peer /\ Deps = {0} => RetentionAsDocumented

\* PRIORITY frames and dependencies on streams nobody opened cannot grow the
\* table: idle streams are capped (nghttp2_session_adjust_idle_stream).
IdleRetention ==
  Len(session.idle) <= LargerOf(2, SmallerOf(LocalMax, PendingMax))

-----------------------------------------------------------------------------
\* The event loop calls nghttp2_session_send (or mem_send) whenever the
\* socket is writable; nothing is assumed of the application and the peer.
FairSpec == Spec /\ WF_vars(Pop) /\ WF_vars(Sent)

\* A stream for which RST_STREAM was queued leaves the table, or the session
\* is terminated: nothing on the way out may lose the RST_STREAM.
ClosingStreamCloses ==
  \A id \in AllIds : StateOf(session, id) = "closing" ~>
                       id \notin Active(session) \/ IsClosing(session)

\* A session that was terminated gets its GOAWAY written, so that want_read
\* and want_write both become 0 and the connection is dropped.
TerminationCompletes == IsClosing(session) ~> ~Alive

-----------------------------------------------------------------------------
(***************************************************************************)
(* What comments and documentation say and the code does not do.           *)
(***************************************************************************)
\* "Cancel pending request HEADERS in ob_syn if this RST_STREAM refers to that
\* stream": no RST_STREAM is written for a request that was never written.
NoResetOfIdle == \A id \in Ids : wire[id] # "idleReset"

\* "last_stream_id must not be increased from the value previously sent"
\* (nghttp2_session_add_goaway)
GoawayNeverIncreases == [][session'.localLast <= session.localLast]_vars

=============================================================================
