---------------------------- MODULE FlowControl ----------------------------
(***************************************************************************)
(* DATA from one endpoint to the other under flow control, frame by frame: *)
(* the windows of the connection and of every stream, changes of           *)
(* SETTINGS_INITIAL_WINDOW_SIZE with their ACKs, items deferred for want   *)
(* of window, automatic or manual WINDOW_UPDATE, and streams reset by      *)
(* either end while DATA is under way.                                     *)
(*   snd   the sending session: remote_window_size (conn), each stream's   *)
(*         remote_window_size (win), remote_settings.initial_window_size   *)
(*         (init), bytes still to send (left), items deferred by flow      *)
(*         control (deferred), SETTINGS ACKs in ob_urgent (acks), streams  *)
(*         closing or closed by RST_STREAM (reset), and those of them      *)
(*         whose RST_STREAM waits in ob_reg (rst)                          *)
(*   aob   the DATA frame being written: len bytes, rest of them unwritten *)
(*   rcv   the receiving session: windows of module Window (conn, win),    *)
(*         local_settings.initial_window_size (init), SETTINGS not yet     *)
(*         acknowledged (inflight), bytes the application was given and    *)
(*         has not reported as consumed (unread), streams closing or       *)
(*         closed (reset), whether the DATA frame that arrives is read and *)
(*         not ignored (reading)                                           *)
(*   down, up  frames that left for the receiver and for the sender, in    *)
(*         order; up also holds what waits in the receiver's queues        *)
(*   failed  the check that terminated one of the sessions                 *)
(*   errors  history: pairs of a stream and the check that reset it        *)
(*   setup   what is fixed for the connection, see Setup                   *)
(* A reset stream stays in the tables, as a server retains closed streams, *)
(* and takes part in changes of the initial window.  Module Session has    *)
(* the rest of a stream's life.                                            *)
(***************************************************************************)
EXTENDS Window, Sequences, SequencesExt

CONSTANTS Streams,
          ConnWindow,     \* NGHTTP2_INITIAL_CONNECTION_WINDOW_SIZE
          MaxFrame,       \* remote_settings.max_frame_size
          MaxSettings,    \* bound on SETTINGS sent
          MaxQueue,       \* bound on up when the application submits updates
          Setups          \* the kinds of session that occur, see Setup

\* What is fixed when the sessions are created, and what their applications
\* will do:
Setup ==
  [open:     SUBSET Streams,          \* the streams in use
   window:   0..MaxWindow,            \* initial_window_size before SETTINGS
   settings: SUBSET (0..MaxWindow),   \* the values SETTINGS may give it
   total:    Nat,                     \* bytes to send on each stream
   deltas:   SUBSET Int32,            \* arguments of submit_window_update
   resets:   SUBSET Streams,          \* streams an application may reset
   auto:     BOOLEAN,   \* FALSE: NGHTTP2_OPTMASK_NO_AUTO_WINDOW_UPDATE
   partial:  BOOLEAN]   \* TRUE: nghttp2_session_send; FALSE: _mem_send

ASSUME FlowControlAssumption ==
  /\ Setups \subseteq Setup
  /\ ConnWindow \in 0..MaxWindow
  /\ MaxFrame \in Nat \ {0}
  /\ {MaxSettings, MaxQueue} \subseteq Nat

VARIABLES setup, snd, aob, rcv, down, up, settings, failed, errors

vars == <<setup, snd, aob, rcv, down, up, settings, failed, errors>>

Open == setup.open

Conn == "connection"   \* stream id 0 in a WINDOW_UPDATE

NoFrame == [type |-> "none"]

RstStream(s) == [type |-> "RST_STREAM", s |-> s]

Init ==
  /\ setup \in Setups
  /\ snd = [conn |-> ConnWindow, init |-> setup.window, acks |-> 0,
            reset |-> {}, rst |-> <<>>,
            win |-> [s \in Open |-> setup.window],
            left |-> [s \in Open |-> setup.total],
            deferred |-> [s \in Open |-> FALSE]]
  /\ rcv = [conn |-> NewWindow(ConnWindow), init |-> setup.window,
            win |-> [s \in Open |-> NewWindow(setup.window)],
            unread |-> [s \in Open |-> 0], inflight |-> <<>>,
            reset |-> {}, reading |-> FALSE]
  /\ aob = NoFrame
  /\ down = <<>> /\ up = <<>>
  /\ settings = 0
  /\ failed = "none"
  /\ errors = {}

Running == failed = "none"
Fail(check) == failed' = check /\ UNCHANGED errors
StreamError(s, check) == errors' = errors \cup {<<s, check>>} /\ UNCHANGED failed
NoError == UNCHANGED <<failed, errors>>

-----------------------------------------------------------------------------
(***************************************************************************)
(* The sending session.                                                    *)
(***************************************************************************)
\* nghttp2_session_next_data_read
NextDataRead(s) ==
  MaxOf(0, MinOf(MinOf(snd.win[s], snd.conn), MinOf(MaxFrame, snd.left[s])))

\* The DATA branch of session_prep_frame: an item that its stream's window
\* does not admit is deferred, and that of a reset stream is dropped.  What
\* waits in ob_urgent and ob_reg goes first.
PopData(s) ==
  /\ s \in Open /\ Running /\ aob = NoFrame /\ snd.acks = 0 /\ snd.rst = <<>>
  /\ snd.conn > 0 /\ snd.left[s] > 0 /\ ~snd.deferred[s] /\ s \notin snd.reset
  /\ IF NextDataRead(s) = 0
       THEN snd' = [snd EXCEPT !.deferred[s] = TRUE] /\ UNCHANGED aob
       ELSE /\ \E n \in 1..NextDataRead(s) :
                 aob' = [type |-> "DATA", s |-> s, len |-> n, rest |-> n]
            /\ UNCHANGED snd
  /\ NoError
  /\ UNCHANGED <<setup, rcv, down, up, settings>>

\* Mutant: a frame whose stream was reset under way is not charged to the
\* connection either.
WriteDataOpenOnly(k) ==
  /\ Running /\ aob.type = "DATA"
  /\ k <= aob.rest /\ (setup.partial \/ k = aob.rest)
  /\ down' = Append(down, [type |-> "DATA", s |-> aob.s, n |-> k,
                           first |-> aob.rest = aob.len])
  /\ IF k < aob.rest
       THEN aob' = [aob EXCEPT !.rest = @ - k] /\ UNCHANGED snd
       ELSE /\ aob' = NoFrame
            /\ IF aob.s \in snd.reset THEN UNCHANGED snd
               ELSE snd' = [snd EXCEPT !.conn = @ - aob.len,
                                       !.win[aob.s] = @ - aob.len,
                                       !.left[aob.s] = @ - aob.len]
  /\ NoError
  /\ UNCHANGED <<setup, rcv, up, settings>>

\* k bytes of the frame are written; session_after_frame_sent1 reduces the
\* windows when nothing of it is left.
WriteData(k) ==
  /\ Running /\ aob.type = "DATA"
  /\ k <= aob.rest /\ (setup.partial \/ k = aob.rest)
  /\ down' = Append(down, [type |-> "DATA", s |-> aob.s, n |-> k,
                           first |-> aob.rest = aob.len])
  /\ IF k < aob.rest
       THEN aob' = [aob EXCEPT !.rest = @ - k] /\ UNCHANGED snd
       ELSE /\ aob' = NoFrame
            /\ snd' = [snd EXCEPT !.conn = @ - aob.len,
                                  !.win[aob.s] = @ - aob.len,
                                  !.left[aob.s] = @ - aob.len]
  /\ NoError
  /\ UNCHANGED <<setup, rcv, up, settings>>

SendAck ==
  /\ Running /\ aob = NoFrame /\ snd.acks > 0
  /\ snd' = [snd EXCEPT !.acks = @ - 1]
  /\ down' = Append(down, [type |-> "ACK"])
  /\ NoError
  /\ UNCHANGED <<setup, aob, rcv, up, settings>>

\* nghttp2_session_close_stream detaches the item, deferred or not.
Closed(S, s) == [S EXCEPT !.reset = @ \cup {s}, !.deferred[s] = FALSE]

\* RST_STREAM is written, and the stream closed.
SendRstStream ==
  /\ Running /\ aob = NoFrame /\ snd.acks = 0 /\ snd.rst # <<>>
  /\ LET s == Head(snd.rst)
     IN  /\ snd' = [Closed(snd, s) EXCEPT !.rst = Tail(@)]
         /\ down' = Append(down, RstStream(s))
  /\ NoError
  /\ UNCHANGED <<setup, aob, rcv, up, settings>>

\* nghttp2_session_add_rst_stream on the sending side: a stream whose
\* RST_STREAM is queued gets no second one.
AddRstStream(S, s) ==
  IF s \in S.reset THEN S
  ELSE [S EXCEPT !.reset = @ \cup {s}, !.rst = Append(@, s)]

\* nghttp2_submit_rst_stream by the sending application
SubmitRstStream(s) ==
  /\ Running /\ s \in Open \cap setup.resets /\ s \notin snd.reset
  /\ snd' = AddRstStream(snd, s)
  /\ NoError
  /\ UNCHANGED <<setup, aob, rcv, down, up, settings>>

\* nghttp2_session_on_rst_stream_received
SenderRecvRstStream ==
  /\ Running /\ up # <<>> /\ Head(up).type = "RST_STREAM"
  /\ up' = Tail(up)
  /\ snd' = Closed(snd, Head(up).s)
  /\ NoError
  /\ UNCHANGED <<setup, aob, rcv, down, settings>>

\* session_on_connection_window_update_received
RecvConnWindowUpdate ==
  /\ Running /\ up # <<>> /\ Head(up).type = "WINDOW_UPDATE" /\ Head(up).s = Conn
  /\ up' = Tail(up)
  /\ LET n == Head(up).n
     IN  CASE n = 0                             -> Fail("zero") /\ UNCHANGED snd
           [] n # 0 /\ MaxWindow - n < snd.conn -> Fail("sender") /\ UNCHANGED snd
           [] OTHER -> snd' = [snd EXCEPT !.conn = @ + n] /\ NoError
  /\ UNCHANGED <<setup, aob, rcv, down, settings>>

\* Mutant: nothing resumes an item that flow control deferred.
NeverResumed(w, deferred) == deferred

\* nghttp2_stream_resume_deferred_item when the window is positive again
Resumed(w, deferred) == deferred /\ w <= 0

\* session_on_stream_window_update_received: an increment of 0 or beyond the
\* maximum is an error of the stream; one for a closed stream is ignored.
RecvStreamWindowUpdate(s) ==
  /\ Running /\ up # <<>> /\ Head(up).type = "WINDOW_UPDATE" /\ Head(up).s = s
  /\ up' = Tail(up)
  /\ LET n      == Head(up).n
         closed == s \in snd.reset /\ ~Contains(snd.rst, s)
     IN  CASE closed -> NoError /\ UNCHANGED snd
           [] ~closed /\ n = 0 ->
                StreamError(s, "zero") /\ snd' = AddRstStream(snd, s)
           [] ~closed /\ n # 0 /\ MaxWindow - n < snd.win[s] ->
                StreamError(s, "sender") /\ snd' = AddRstStream(snd, s)
           [] OTHER -> /\ snd' = [snd EXCEPT
                            !.win[s] = @ + n,
                            !.deferred[s] = Resumed(snd.win[s] + n, @)]
                       /\ NoError
  /\ UNCHANGED <<setup, aob, rcv, down, settings>>

\* Mutant: the new value applies to later streams only.
RecvSettingsNewStreams ==
  /\ Running /\ up # <<>> /\ Head(up).type = "SETTINGS"
  /\ up' = Tail(up)
  /\ snd' = [snd EXCEPT !.init = Head(up).v, !.acks = @ + 1]
  /\ NoError
  /\ UNCHANGED <<setup, aob, rcv, down, settings>>

\* Mutant: SETTINGS is applied and not acknowledged.
RecvSettingsNoAck ==
  /\ Running /\ up # <<>> /\ Head(up).type = "SETTINGS"
  /\ up' = Tail(up)
  /\ LET v == Head(up).v
     IN  snd' = [snd EXCEPT !.init = v,
                            !.win = [s \in Open |-> @[s] + v - snd.init]]
  /\ NoError
  /\ UNCHANGED <<setup, aob, rcv, down, settings>>

\* nghttp2_session_on_settings_received: all windows move by the difference.
RecvSettings ==
  /\ Running /\ up # <<>> /\ Head(up).type = "SETTINGS"
  /\ up' = Tail(up)
  /\ LET v      == Head(up).v
         new(s) == snd.win[s] + v - snd.init
     IN  IF \E s \in Open : InitialWindowOverflows(snd.win[s], v, snd.init)
           THEN Fail("settings") /\ UNCHANGED snd
           ELSE /\ snd' = [snd EXCEPT
                     !.init = v,
                     !.win = [s \in Open |-> new(s)],
                     !.deferred = [s \in Open |-> Resumed(new(s), @[s])],
                     !.acks = @ + 1]
                /\ NoError
  /\ UNCHANGED <<setup, aob, rcv, down, settings>>

-----------------------------------------------------------------------------
(***************************************************************************)
(* The receiving session.                                                  *)
(***************************************************************************)
\* The increment travels in 31 bits (nghttp2_frame_pack_window_update).
Updates(s, ns) ==
  [i \in DOMAIN ns |-> [type |-> "WINDOW_UPDATE", s |-> s,
                        n |-> ns[i] % (MaxWindow + 1)]]

\* Mutant: DATA that is ignored does not count for the connection.
IgnoreDataUncounted(s, n) == NoError /\ UNCHANGED <<rcv, up>>

\* NGHTTP2_IB_IGN_DATA: DATA of a reset stream counts for the connection and
\* is consumed at once.
IgnoreData(s, n) ==
  LET r == ReceivedWindow(rcv.conn, n, setup.auto)
      c == IF setup.auto THEN r ELSE ConsumedWindow(r.win, n)
  IN  IF ~setup.auto /\ ConsumedOverflows(r.win, n)
        THEN Fail("consumed") /\ rcv' = [rcv EXCEPT !.conn = r.win] /\ UNCHANGED up
        ELSE /\ rcv' = [rcv EXCEPT !.conn = c.win, !.reading = FALSE]
             /\ up' = up \o Updates(Conn, c.updates)
             /\ NoError

\* NGHTTP2_IB_READ_DATA: the application is given the bytes, even when they
\* exceed the stream's window and the stream is reset for it.
ReadData(s, n) ==
  LET c    == ReceivedWindow(rcv.conn, n, setup.auto)
      w    == ReceivedWindow(rcv.win[s], n, setup.auto)
      read == [rcv EXCEPT !.conn = c.win, !.unread[s] = @ + n, !.reading = TRUE]
  IN  IF s \in rcv.reset
        THEN /\ rcv' = read
             /\ up' = up \o Updates(Conn, c.updates)
             /\ NoError
      ELSE IF RecvOverflows(rcv.win[s], n)
        THEN /\ rcv' = [read EXCEPT !.reset = @ \cup {s}]
             /\ up' = Append(up \o Updates(Conn, c.updates), RstStream(s))
             /\ StreamError(s, "receiver")
        ELSE /\ rcv' = [read EXCEPT !.win[s] = w.win]
             /\ up' = up \o Updates(Conn, c.updates) \o Updates(s, w.updates)
             /\ NoError

\* A piece of DATA arrives: session_update_recv_connection_window_size, then
\* session_update_recv_stream_window_size.  The rest of a frame that was being
\* read when its stream was reset is still read until RST_STREAM is written.
RecvData ==
  /\ Running /\ down # <<>> /\ Head(down).type = "DATA"
  /\ down' = Tail(down)
  /\ LET s    == Head(down).s
         n    == Head(down).n
         rest == ~Head(down).first /\ rcv.reading /\ Contains(up, RstStream(s))
     IN  IF RecvOverflows(rcv.conn, n)
           THEN Fail("receiver") /\ UNCHANGED <<rcv, up>>
           ELSE \/ (s \notin rcv.reset \/ rest) /\ ReadData(s, n)
                \/ s \in rcv.reset /\ IgnoreData(s, n)
  /\ UNCHANGED <<setup, snd, aob, settings>>

\* nghttp2_session_consume, called for bytes the application was given; those
\* of a reset stream are returned for the connection only.
Consume(s, n) ==
  /\ s \in Open /\ Running /\ ~setup.auto
  /\ n <= rcv.unread[s]
  /\ LET c == ConsumedWindow(rcv.conn, n)
         w == ConsumedWindow(rcv.win[s], n)
         all == [rcv EXCEPT !.conn = c.win, !.unread[s] = @ - n]
     IN  IF ConsumedOverflows(rcv.conn, n)
           THEN Fail("consumed") /\ UNCHANGED <<rcv, up>>
         ELSE IF s \in rcv.reset
           THEN rcv' = all /\ up' = up \o Updates(Conn, c.updates) /\ NoError
         ELSE IF ConsumedOverflows(rcv.win[s], n)
           THEN /\ rcv' = all /\ up' = up \o Updates(Conn, c.updates)
                /\ Fail("stream consumed")
           ELSE /\ rcv' = [all EXCEPT !.win[s] = w.win]
                /\ up' = up \o Updates(Conn, c.updates) \o Updates(s, w.updates)
                /\ NoError
  /\ UNCHANGED <<setup, snd, aob, down, settings>>

\* nghttp2_submit_window_update for the connection and for a stream
SubmitConnWindowUpdate(delta) ==
  /\ Running /\ Len(up) < MaxQueue
  /\ LET a == SubmittedWindow(rcv.conn, delta)
     IN  /\ a.ok
         /\ rcv' = [rcv EXCEPT !.conn = a.win]
         /\ up' = IF a.delta > 0 THEN up \o Updates(Conn, <<a.delta>>) ELSE up
  /\ NoError
  /\ UNCHANGED <<setup, snd, aob, down, settings>>

SubmitStreamWindowUpdate(s, delta) ==
  /\ Running /\ Len(up) < MaxQueue /\ s \notin rcv.reset
  /\ LET a == SubmittedWindow(rcv.win[s], delta)
     IN  /\ a.ok
         /\ rcv' = [rcv EXCEPT !.win[s] = a.win]
         /\ up' = IF a.delta > 0 THEN up \o Updates(s, <<a.delta>>) ELSE up
  /\ NoError
  /\ UNCHANGED <<setup, snd, aob, down, settings>>

\* nghttp2_submit_settings: SETTINGS waits in ob_urgent, so it overtakes the
\* frames that are not yet written, but no earlier SETTINGS.
SubmitSettings(v) ==
  /\ Running /\ settings < MaxSettings
  /\ rcv' = [rcv EXCEPT !.inflight = Append(@, v)]
  /\ \E i \in 1..(Len(up) + 1) :
       /\ \A j \in i..Len(up) : up[j].type # "SETTINGS"
       /\ up' = InsertAt(up, i, [type |-> "SETTINGS", v |-> v])
  /\ settings' = settings + 1
  /\ NoError
  /\ UNCHANGED <<setup, snd, aob, down>>

\* nghttp2_session_update_local_settings on the ACK of the oldest SETTINGS
RecvAck ==
  /\ Running /\ down # <<>> /\ Head(down).type = "ACK"
  /\ down' = Tail(down)
  /\ LET v      == Head(rcv.inflight)
         new(s) == [rcv.win[s] EXCEPT !.local = @ + v - rcv.init]
         r(s)   == ReceivedWindow(new(s), 0, setup.auto)
     IN  IF \E s \in Open :
              InitialWindowOverflows(rcv.win[s].local, v, rcv.init)
           THEN Fail("settings") /\ UNCHANGED <<rcv, up>>
           ELSE /\ rcv' = [rcv EXCEPT !.win = [s \in Open |-> r(s).win],
                                      !.init = v,
                                      !.inflight = Tail(@)]
                /\ \E order \in SetToSeqs(Open \ rcv.reset) :
                     up' = FoldLeft(LAMBDA q, s : q \o Updates(s, r(s).updates),
                                    up, order)
                /\ NoError
  /\ UNCHANGED <<setup, snd, aob, settings>>

\* The frames of q with the stream's WINDOW_UPDATEs that are not among the
\* first i, the ones already written, dropped by session_prep_frame
Dropped(q, i, s) ==
  SubSeq(q, 1, i)
    \o SelectSeq(SubSeq(q, i + 1, Len(q)),
                 LAMBDA f : ~(f.type = "WINDOW_UPDATE" /\ f.s = s))

\* nghttp2_submit_rst_stream by the receiving application
ReceiverSubmitRstStream(s) ==
  /\ Running /\ s \in Open \cap setup.resets /\ s \notin rcv.reset
  /\ rcv' = [rcv EXCEPT !.reset = @ \cup {s}]
  /\ \E i \in 0..Len(up) :
       up' = Append(Dropped(up, i, s), RstStream(s))
  /\ NoError
  /\ UNCHANGED <<setup, snd, aob, down, settings>>

\* nghttp2_session_on_rst_stream_received
ReceiverRecvRstStream ==
  /\ Running /\ down # <<>> /\ Head(down).type = "RST_STREAM"
  /\ down' = Tail(down)
  /\ rcv' = [rcv EXCEPT !.reset = @ \cup {Head(down).s}]
  /\ \E i \in 0..Len(up) : up' = Dropped(up, i, Head(down).s)
  /\ NoError
  /\ UNCHANGED <<setup, snd, aob, settings>>

-----------------------------------------------------------------------------
Sender == \/ \E s \in Open : PopData(s)
          \/ \E k \in 1..MaxFrame : WriteData(k)
          \/ SendAck
          \/ SendRstStream
          \/ SenderRecvRstStream
          \/ RecvConnWindowUpdate
          \/ \E s \in Open : RecvStreamWindowUpdate(s)
          \/ RecvSettings

Receiver == RecvData \/ RecvAck \/ ReceiverRecvRstStream

Application == \/ \E s \in Open, n \in 1..setup.total : Consume(s, n)
               \/ \E delta \in setup.deltas : SubmitConnWindowUpdate(delta)
               \/ \E s \in Open, delta \in setup.deltas :
                    SubmitStreamWindowUpdate(s, delta)
               \/ \E v \in setup.settings : SubmitSettings(v)
               \/ \E s \in Open : SubmitRstStream(s) \/ ReceiverSubmitRstStream(s)

Next == Sender \/ Receiver \/ Application

Spec == Init /\ [][Next]_vars

-----------------------------------------------------------------------------
\* The sum of n over the frames of a channel that satisfy P
SumOf(q, P(_)) == FoldLeft(LAMBDA n, f : IF P(f) THEN n + f.n ELSE n, 0, q)

BytesDown(s) == SumOf(down, LAMBDA f : f.type = "DATA" /\ f.s = s)
UpdatesUp(s) == SumOf(up, LAMBDA f : f.type = "WINDOW_UPDATE" /\ f.s = s)

\* Bytes of the frame in aob that are written, which snd does not count yet
Written(s) == IF aob.type = "DATA" /\ (s = Conn \/ aob.s = s)
                THEN aob.len - aob.rest ELSE 0

\* Types, and the ACKs under way are those of the SETTINGS in flight.
TypeOK ==
  /\ snd.conn \in Int32 /\ snd.win \in [Open -> Int32]
  /\ snd.left \in [Open -> 0..setup.total]
  /\ snd.deferred \in [Open -> BOOLEAN]
  /\ rcv.conn \in Windows /\ rcv.win \in [Open -> Windows]
  /\ snd.reset \cup rcv.reset \subseteq Open
  /\ Running => Len(rcv.inflight) =
                  snd.acks + Len(SelectSeq(down, LAMBDA f : f.type = "ACK"))
                           + Len(SelectSeq(up, LAMBDA f : f.type = "SETTINGS"))

\* Per stream, across SETTINGS in either half of their round trip: what the
\* sender may still send and what is under way, counted from its idea of the
\* initial window, is what the receiver still accepts, counted from its own.
\* adjust_recv_window_size relies on it ("Now we have SETTINGS
\* synchronization, flow control error can be detected strictly").
StreamConservation ==
  Running => \A s \in Open \ (snd.reset \cup rcv.reset) :
    snd.win[s] - Written(s) + BytesDown(s) + UpdatesUp(s) - snd.init
      = rcv.win[s].local - rcv.win[s].recv - rcv.init

\* The checks by which one end blames the other
FlowChecks == {"receiver", "sender", "settings"}

\* Neither end ever blames the other for a window that both computed with
\* this code (adjust_recv_window_size, session_on_*_window_update_received,
\* update_*_initial_window_size_func).
NoFlowControlError ==
  failed \notin FlowChecks /\ \A e \in errors : e[2] \notin FlowChecks

\* What is true of NoFlowControlError: the receiver never blames the sender,
\* and the sender takes a WINDOW_UPDATE or SETTINGS for an overflow of a window
\* only in the middle of a DATA frame which that window has yet to pay for
\* (session_after_frame_sent1).
ErrorOnlyMidFrame ==
  [][/\ failed' # "receiver"
     /\ failed' \in {"sender", "settings"} /\ Running => Written(Conn) > 0
     /\ \A e \in errors' \ errors : /\ e[2] # "receiver"
                                    /\ e[2] = "sender" => Written(e[1]) > 0]_vars

\* A WINDOW_UPDATE with an increment of 0 is an error for its receiver
\* (session_on_*_window_update_received): none is ever produced.
NoZeroUpdate == failed # "zero" /\ \A e \in errors : e[2] # "zero"

\* An item is deferred by flow control only while its stream's window is not
\* positive: no WINDOW_UPDATE or SETTINGS forgets to resume it.
DeferredOnlyWhenBlocked ==
  \A s \in Open : snd.deferred[s] => snd.win[s] <= 0

-----------------------------------------------------------------------------
\* The connection as the one window of module FlowWindow
ConnBytesDown == SumOf(down, LAMBDA f : f.type = "DATA")

Window1 == INSTANCE FlowWindow WITH
  InitWindow <- ConnWindow,
  remote     <- snd.conn,
  frame      <- IF aob.type = "DATA"
                  THEN [len |-> aob.len, written |-> Written(Conn)]
                  ELSE [len |-> 0, written |-> 0],
  win        <- rcv.conn,
  data       <- ConnBytesDown,
  update     <- UpdatesUp(Conn),
  failed     <- IF failed \in {"receiver", "sender", "consumed"} THEN failed
                ELSE "none"

\* The frames of the connection implement what FlowWindow promises, in
\* whatever pieces they are written and whichever streams are reset meanwhile:
\* every byte of DATA is charged to the connection at both ends, also when its
\* stream is gone (session_after_frame_sent1, NGHTTP2_IB_IGN_DATA).
ConnectionWindow == Window1!Spec

-----------------------------------------------------------------------------
\* Both event loops keep reading and writing; an application without
\* automatic updates keeps consuming what it is given.
FairSpec ==
  /\ Spec
  /\ \A s \in Streams : SF_vars(PopData(s))
  /\ \A k \in 1..MaxFrame : WF_vars(WriteData(k))
  /\ WF_vars(SendAck \/ SendRstStream)
  /\ WF_vars(RecvConnWindowUpdate \/ RecvSettings \/ SenderRecvRstStream
             \/ \E s \in Open : RecvStreamWindowUpdate(s))
  /\ WF_vars(Receiver)
  /\ \A s \in Streams : WF_vars(\E n \in 1..setup.total : Consume(s, n))

\* All bytes of the stream have reached the receiver.
Arrived(s) == snd.left[s] = 0 /\ BytesDown(s) = 0

\* Everything the applications submitted arrives, except on streams that they
\* reset: no update is withheld for good, no deferred item is forgotten, and
\* the bytes of a reset stream do not stay charged to the connection.  (With
\* automatic updates also when SETTINGS shrink the window below what was
\* received; without them update_local_initial_window_size_func sends nothing,
\* and the sender may wait for good.)
AllDelivered ==
  <>(\A s \in Open : \/ Arrived(s)
                     \/ s \in setup.resets /\ s \in snd.reset \cup rcv.reset)

=============================================================================
