----------------------------- MODULE FlowWindow -----------------------------
(***************************************************************************)
(* What flow control promises for one window, seen from both ends of the   *)
(* connection at once.  The sending endpoint keeps remote_window_size and  *)
(* charges it when a DATA frame is completely written; the receiving       *)
(* endpoint keeps the record of module Window and charges it as bytes      *)
(* arrive.  "data" and "update" are the bytes of DATA and the              *)
(* WINDOW_UPDATE increments that have left one end (or wait in its queue)  *)
(* and have not reached the other.  Nothing else of a frame is kept:       *)
(* nghttp2_session_mem_recv accounts a DATA payload in whatever pieces it  *)
(* is handed.                                                              *)
(* Module FlowControl models the frames themselves and refines this one.   *)
(***************************************************************************)
EXTENDS Window

CONSTANT InitWindow   \* NGHTTP2_INITIAL_CONNECTION_WINDOW_SIZE

ASSUME FlowWindowAssumption == InitWindow \in 0..MaxWindow

VARIABLES remote,   \* sender: remote_window_size
          frame,    \* sender: the DATA frame in aob, see Frames
          win,      \* receiver: the window record
          data,     \* bytes of DATA under way to the receiver
          update,   \* WINDOW_UPDATE increments under way to the sender
          failed    \* the flow-control check that terminated the session

vars == <<remote, frame, win, data, update, failed>>

\* The payload length of the frame in aob and how much of it is written;
\* the length is 0 if there is no frame
Frames == [len: 0..MaxWindow, written: 0..MaxWindow]

NoFrame == [len |-> 0, written |-> 0]

Checks == {"none", "receiver", "sender", "consumed"}

Init == /\ remote = InitWindow
        /\ frame = NoFrame
        /\ win = NewWindow(InitWindow)
        /\ data = 0
        /\ update = 0
        /\ failed = "none"

\* session_prep_frame packs a DATA frame of n bytes: the window admits it and
\* is not charged yet.
PopData(n) ==
  /\ failed = "none"
  /\ frame = NoFrame
  /\ n <= remote
  /\ frame' = [len |-> n, written |-> 0]
  /\ UNCHANGED <<remote, win, data, update, failed>>

\* Mutant: the window pays for the last piece of the frame only.
WriteDataChargingLast(k) ==
  /\ failed = "none"
  /\ k <= frame.len - frame.written
  /\ data' = data + k
  /\ IF k < frame.len - frame.written
       THEN frame' = [frame EXCEPT !.written = @ + k] /\ UNCHANGED remote
       ELSE frame' = NoFrame /\ remote' = remote - k
  /\ UNCHANGED <<win, update, failed>>

\* The transport takes k bytes of the frame; session_after_frame_sent1 charges
\* the window when the last of them is gone.
WriteData(k) ==
  /\ failed = "none"
  /\ k <= frame.len - frame.written
  /\ data' = data + k
  /\ IF k < frame.len - frame.written
       THEN frame' = [frame EXCEPT !.written = @ + k] /\ UNCHANGED remote
       ELSE frame' = NoFrame /\ remote' = remote - frame.len
  /\ UNCHANGED <<win, update, failed>>

\* The receiver takes n of the bytes under way.  auto: it may return them at
\* once (NGHTTP2_OPTMASK_NO_AUTO_WINDOW_UPDATE is not set); what is promised
\* holds even if the two ways of returning bytes are mixed.
RecvData(n, auto) ==
  /\ failed = "none"
  /\ n <= data
  /\ data' = data - n
  /\ IF RecvOverflows(win, n)
       THEN failed' = "receiver" /\ UNCHANGED <<win, update>>
       ELSE LET r == ReceivedWindow(win, n, auto)
            IN  /\ win' = r.win
                /\ update' = update + (IF r.updates = <<>> THEN 0
                                       ELSE win.recv + n)
                /\ UNCHANGED failed
  /\ UNCHANGED <<remote, frame>>

\* The receiver ignores n of the bytes under way (NGHTTP2_IB_IGN_DATA) and,
\* without automatic updates, consumes them at once.
IgnoreData(n) ==
  LET r == [win EXCEPT !.recv = @ + n]
      c == ConsumedWindow(r, n).win
  IN  /\ failed = "none"
      /\ n <= data
      /\ data' = data - n
      /\ IF RecvOverflows(win, n)
           THEN failed' = "receiver" /\ UNCHANGED <<win, update>>
         ELSE IF ConsumedOverflows(r, n)
           THEN failed' = "consumed" /\ win' = r /\ UNCHANGED update
           ELSE /\ win' = c
                /\ update' = update + (r.recv - c.recv)
                /\ UNCHANGED failed
      /\ UNCHANGED <<remote, frame>>

\* nghttp2_session_consume
Consume(n) ==
  /\ failed = "none"
  /\ IF ConsumedOverflows(win, n)
       THEN failed' = "consumed" /\ UNCHANGED <<win, update>>
       ELSE LET r == ConsumedWindow(win, n)
            IN  /\ win' = r.win
                /\ update' = update + (win.recv - r.win.recv)
                /\ UNCHANGED failed
  /\ UNCHANGED <<remote, frame, data>>

\* nghttp2_submit_window_update: an error leaves everything unchanged.
SubmitWindowUpdate(delta) ==
  LET a == SubmittedWindow(win, delta)
  IN  /\ failed = "none"
      /\ a.ok
      /\ win' = a.win
      /\ update' = update + a.delta
      /\ UNCHANGED <<remote, frame, data, failed>>

\* The sender takes n of the increments under way.
RecvWindowUpdate(n) ==
  /\ failed = "none"
  /\ n <= update
  /\ update' = update - n
  /\ IF MaxWindow - n < remote
       THEN failed' = "sender" /\ UNCHANGED remote
       ELSE remote' = remote + n /\ UNCHANGED failed
  /\ UNCHANGED <<frame, win, data>>

Next == \E n \in 1..MaxWindow : \/ PopData(n)
                                 \/ WriteData(n)
                                 \/ \E auto \in BOOLEAN : RecvData(n, auto)
                                 \/ IgnoreData(n)
                                 \/ Consume(n)
                                 \/ SubmitWindowUpdate(n)
                                 \/ SubmitWindowUpdate(-n)
                                 \/ RecvWindowUpdate(n)

Spec == Init /\ [][Next]_vars

-----------------------------------------------------------------------------
\* Every size stays an int32_t, and sizes that the code never lets go
\* negative (the remote window, the reduction, the consumed bytes) stay so.
TypeOK == /\ remote \in 0..MaxWindow
          /\ frame \in Frames
          /\ win \in Windows
          /\ win.local >= 0 /\ win.reduction >= 0 /\ win.consumed >= 0
          /\ data \in 0..MaxWindow
          /\ update \in 0..MaxWindow
          /\ failed \in Checks

\* Conservation: what the sender may still send once the bytes written are
\* charged, the bytes under way and the increments under way add up to what
\* the receiver still accepts.  This is what adjust_recv_window_size relies on
\* when it treats an excess as an error of the peer, through every grow,
\* shrink, consume and update.
Conservation ==
  failed = "none" =>
    remote - frame.written + data + update = win.local - win.recv

\* The receiver never finds more DATA than it granted, whatever its own
\* application submits; and the sender takes a WINDOW_UPDATE for an overflow
\* (session_on_connection_window_update_received) only while a frame is partly
\* written: between frames every increment of this code is accepted.  (It
\* does happen in the middle of a frame, since session_after_frame_sent1
\* charges the window at the end; see NoFlowControlError of FlowControl.)
ErrorOnlyMidFrame ==
  /\ failed # "receiver"
  /\ failed = "sender" => frame.written > 0

=============================================================================
