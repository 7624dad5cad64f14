-------------------------- MODULE FlowWindowProofs --------------------------
(***************************************************************************)
(* Conservation of flow-control bytes, and where flow-control errors can   *)
(* occur between two endpoints that run this code, for every window size.  *)
(***************************************************************************)
EXTENDS FlowWindow, TLAPS

\* The inductive invariant.  Conservation alone says nothing about overflow:
\* the receiver may shrink its window, which makes recv negative.  What keeps
\* the sum bounded is that recv never falls below -reduction, so that growing
\* the window again first repays the reduction.  The frame being written must
\* stay within the window that admitted it: bytes written and not charged are
\* then still part of remote.
IInv == /\ TypeOK
        /\ Conservation
        /\ frame.written <= frame.len /\ frame.len <= remote
        /\ win.recv + win.reduction >= 0
        /\ win.local - win.recv <= MaxWindow
        /\ ErrorOnlyMidFrame

\* SETTINGS and the first frames find the two ends agreeing (session_new).
LEMMA InitIInv == Init => IInv
<1> USE MaxWindowAssumption, FlowWindowAssumption
<1> QED
  BY DEF Init, IInv, TypeOK, Conservation, ErrorOnlyMidFrame, NewWindow,
         Windows, Int32, Checks, Frames, NoFrame

\* nghttp2_should_send_window_update only says yes for a non-negative count
\* when the window itself is not negative.
LEMMA UpdateNonNegative ==
  ASSUME NEW l \in Nat, NEW r \in Int, ShouldSendWindowUpdate(l, r)
  PROVE  r >= 0
BY DEF ShouldSendWindowUpdate, Half

\* nghttp2_submit_window_update with a positive value: what the peer is told
\* is exactly what the receiver's remaining space grew by, and a reduction is
\* repaid before the space may exceed the maximum.
LEMMA GrowWindow ==
  ASSUME NEW w \in Windows, NEW delta \in 1..MaxWindow,
         w.local >= 0, w.reduction >= 0,
         w.recv + w.reduction >= 0, w.local - w.recv <= MaxWindow,
         w.recv <= w.local,
         GrowLocalWindow(w, delta).ok
  PROVE  LET a == GrowLocalWindow(w, delta)
         IN  /\ a.win \in Windows
             /\ a.win.consumed = w.consumed
             /\ a.win.local >= 0 /\ a.win.reduction >= 0
             /\ a.win.recv + a.win.reduction >= 0
             /\ a.win.local - a.win.recv <= MaxWindow
             /\ a.delta \in Int /\ a.delta >= 0
             /\ a.win.local - a.win.recv = w.local - w.recv + a.delta
<1> USE MaxWindowAssumption
<1> DEFINE left == MaxOf(0, w.recv) - delta
           grow == -left
           paid == MinOf(w.reduction, grow)
<1>0. /\ w.local \in Int /\ w.recv \in Int /\ w.reduction \in Int
      /\ w.consumed \in Int
      /\ left \in Int /\ grow \in Int /\ paid \in Int
  BY DEF Windows, Int32, MaxOf, MinOf
<1>1. CASE left >= 0
  <2>1. GrowLocalWindow(w, delta) =
          [ok |-> TRUE, win |-> [w EXCEPT !.recv = left], delta |-> delta]
    BY <1>1 DEF GrowLocalWindow
  <2>2. w.recv >= delta /\ left = w.recv - delta
    BY <1>0, <1>1 DEF MaxOf
  <2> QED
    BY <1>0, <2>1, <2>2 DEF Windows, Int32
<1>2. CASE left < 0
  <2>1. w.local <= MaxWindow - grow
    BY <1>0, <1>2 DEF GrowLocalWindow
  <2>2. GrowLocalWindow(w, delta) =
          [ok    |-> TRUE,
           win   |-> [local     |-> w.local + grow,
                      recv      |-> IF w.recv < 0 THEN w.recv + paid
                                    ELSE paid,
                      reduction |-> w.reduction - paid,
                      consumed  |-> w.consumed],
           delta |-> delta - paid]
    BY <1>0, <1>2, <2>1 DEF GrowLocalWindow
  <2> DEFINE a == GrowLocalWindow(w, delta)
  <2>3. /\ a.win.local = w.local + grow
        /\ a.win.reduction = w.reduction - paid
        /\ a.win.recv = IF w.recv < 0 THEN w.recv + paid ELSE paid
        /\ a.win.consumed = w.consumed
        /\ a.delta = delta - paid
    BY <2>2 DEF Windows
  <2>4. a.win = [local |-> a.win.local, recv |-> a.win.recv,
                 reduction |-> a.win.reduction, consumed |-> a.win.consumed]
    BY <2>2 DEF Windows
  <2>5. paid >= 0 /\ paid <= grow /\ paid <= w.reduction /\ grow > 0
    BY <1>0, <1>2 DEF MinOf
  <2>6. CASE w.recv < 0
    <3>1. grow = delta
      BY <1>0, <2>6 DEF MaxOf
    <3>2. paid = w.reduction \/ paid = grow
      BY DEF MinOf
    <3>3. a.win.local \in Int32 /\ a.win.recv \in Int32 /\ a.win.reduction \in Int32
      BY <1>0, <2>1, <2>3, <2>5, <2>6, <3>1, <3>2 DEF Windows, Int32
    <3>4. a.win \in Windows
      BY <3>3, <2>4, <2>3 DEF Windows
    <3> QED
      BY <1>0, <2>1, <2>3, <2>5, <2>6, <3>1, <3>2, <3>4
  <2>7. CASE w.recv >= 0
    <3>1. grow = delta - w.recv
      BY <1>0, <2>7 DEF MaxOf
    <3>3. a.win.local \in Int32 /\ a.win.recv \in Int32 /\ a.win.reduction \in Int32
      BY <1>0, <2>1, <2>3, <2>5, <2>7, <3>1 DEF Windows, Int32
    <3>4. a.win \in Windows
      BY <3>3, <2>4, <2>3 DEF Windows
    <3> QED
      BY <1>0, <2>1, <2>3, <2>5, <2>7, <3>1, <3>4
  <2> QED
    BY <1>0, <2>6, <2>7
<1> QED
  BY <1>0, <1>1, <1>2

\* Shrinking is silent: it moves local and recv together, so the space the
\* peer still sees is unchanged.
LEMMA ShrinkWindow ==
  ASSUME NEW w \in Windows, NEW delta \in 1..MaxWindow,
         w.local >= 0, w.reduction >= 0,
         w.recv + w.reduction >= 0, w.local - w.recv <= MaxWindow,
         ShrinkLocalWindow(w, -delta).ok
  PROVE  LET a == ShrinkLocalWindow(w, -delta)
         IN  /\ a.win \in Windows
             /\ a.win.consumed = w.consumed
             /\ a.win.local >= 0 /\ a.win.reduction >= 0
             /\ a.win.recv + a.win.reduction >= 0
             /\ a.delta = 0
             /\ a.win.local - a.win.recv = w.local - w.recv
<1> USE MaxWindowAssumption
<1>1. /\ w.local - delta >= 0
      /\ w.recv >= -MaxWindow - 1 + delta
      /\ w.reduction <= MaxWindow - delta
  BY DEF ShrinkLocalWindow, Windows, Int32
<1>2. ShrinkLocalWindow(w, -delta) =
        [ok    |-> TRUE,
         win   |-> [local     |-> w.local + (-delta),
                    recv      |-> w.recv + (-delta),
                    reduction |-> w.reduction - (-delta),
                    consumed  |-> w.consumed],
         delta |-> 0]
  BY <1>1 DEF ShrinkLocalWindow, Windows, Int32
<1> QED
  BY <1>1, <1>2 DEF Windows, Int32

\* session_update_consumed_size returns at most what was received, and only a
\* count that is not negative.
LEMMA ConsumeWindow ==
  ASSUME NEW w \in Windows, NEW n \in 1..MaxWindow,
         w.local >= 0, w.consumed >= 0, w.reduction >= 0,
         w.recv + w.reduction >= 0, w.local - w.recv <= MaxWindow,
         ~ConsumedOverflows(w, n)
  PROVE  LET a == ConsumedWindow(w, n).win
         IN  /\ a \in Windows
             /\ a.local = w.local /\ a.reduction = w.reduction
             /\ a.consumed >= 0
             /\ a.recv \in Int /\ a.recv <= w.recv
             /\ a.recv + a.reduction >= 0
             /\ a.local - a.recv <= MaxWindow
<1> USE MaxWindowAssumption
<1> DEFINE a == ConsumedWindow(w, n).win
           c == w.consumed + n
           r == MinOf(c, w.recv)
<1>0. /\ w.local \in Int /\ w.recv \in Int /\ w.reduction \in Int
      /\ w.consumed \in Int /\ w.local <= MaxWindow
  BY DEF Windows, Int32
<1>1. c \in Int /\ r \in Int /\ c <= MaxWindow /\ c >= 0 /\ r <= c /\ r <= w.recv
  BY <1>0 DEF ConsumedOverflows, MinOf
<1>2. CASE ShouldSendWindowUpdate(w.local, r)
  <2>1. a = [local |-> w.local, recv |-> w.recv - r,
             reduction |-> w.reduction, consumed |-> c - r]
    BY <1>2 DEF ConsumedWindow
  <2>2. r >= 0
    BY <1>0, <1>1, <1>2, UpdateNonNegative
  <2>3. a \in Windows
    BY <1>0, <1>1, <2>1, <2>2 DEF Windows, Int32
  <2> QED
    BY <1>0, <1>1, <2>1, <2>2, <2>3
<1>3. CASE ~ShouldSendWindowUpdate(w.local, r)
  <2>1. a = [w EXCEPT !.consumed = c]
    BY <1>3 DEF ConsumedWindow
  <2> QED
    BY <1>0, <1>1, <2>1 DEF Windows, Int32
<1> QED
  BY <1>2, <1>3

-----------------------------------------------------------------------------
\* One step of either endpoint preserves the inductive invariant.
LEMMA NextIInv == IInv /\ [Next]_vars => IInv'
<1> USE MaxWindowAssumption, FlowWindowAssumption
<1>7. ASSUME IInv, UNCHANGED vars PROVE IInv'
  BY <1>7 DEF vars, IInv, TypeOK, Conservation, ErrorOnlyMidFrame
<1> SUFFICES ASSUME IInv, Next PROVE IInv'
  BY <1>7
<1> USE DEF IInv, TypeOK, Conservation, ErrorOnlyMidFrame, Checks
<1>f. failed = "none"
  BY DEF Next, PopData, WriteData, RecvData, IgnoreData, Consume,
         SubmitWindowUpdate, RecvWindowUpdate
<1>0. /\ win.local \in Int /\ win.recv \in Int /\ win.reduction \in Int
      /\ win.consumed \in Int
      /\ frame.len \in 0..MaxWindow /\ frame.written \in 0..MaxWindow
      /\ win.local <= MaxWindow /\ win.reduction <= MaxWindow
      /\ win.recv <= win.local /\ win.consumed <= MaxWindow
      /\ remote - frame.written + data + update = win.local - win.recv
      /\ remote - frame.written >= 0
  BY <1>f DEF Windows, Int32, Frames
<1>1. ASSUME NEW n \in 1..MaxWindow, PopData(n) PROVE IInv'
  BY <1>0, <1>1 DEF PopData, Frames, NoFrame
<1>1a. ASSUME NEW k \in 1..MaxWindow, WriteData(k) PROVE IInv'
  <2>1. CASE k < frame.len - frame.written
    <3>1. /\ frame' = [frame EXCEPT !.written = @ + k] /\ data' = data + k
          /\ UNCHANGED <<remote, win, update, failed>>
      BY <1>1a, <2>1 DEF WriteData
    <3>2. /\ frame' \in Frames /\ frame'.len = frame.len
          /\ frame'.written = frame.written + k
      BY <1>0, <2>1, <3>1 DEF Frames
    <3> QED
      BY <1>f, <1>0, <2>1, <3>1, <3>2
  <2>2. CASE ~(k < frame.len - frame.written)
    <3>1. /\ frame' = NoFrame /\ remote' = remote - frame.len
          /\ data' = data + k /\ k <= frame.len - frame.written
          /\ UNCHANGED <<win, update, failed>>
      BY <1>1a, <2>2, Zenon DEF WriteData
    <3>0. k = frame.len - frame.written
      BY <1>0, <2>2, <3>1
    <3>2. frame' \in Frames /\ frame'.len = 0 /\ frame'.written = 0
      BY <3>1 DEF Frames, NoFrame
    <3> QED
      BY <1>f, <1>0, <3>0, <3>1, <3>2
  <2> QED
    BY <2>1, <2>2
<1>2. ASSUME NEW n \in 1..MaxWindow, NEW auto \in BOOLEAN, RecvData(n, auto)
      PROVE  IInv'
  <2>0. n <= data
    BY <1>2 DEF RecvData
  <2>1. ~RecvOverflows(win, n)
    <3>1. win.recv <= win.local - n
      BY <1>0, <2>0
    <3> QED
      BY <1>0, <3>1 DEF RecvOverflows
  <2> DEFINE r == win.recv + n
  <2>2. CASE auto /\ ShouldSendWindowUpdate(win.local, r)
    <3>1. /\ win' = [win EXCEPT !.recv = 0] /\ update' = update + r
          /\ data' = data - n /\ UNCHANGED <<remote, frame, failed>>
      BY <2>1, <2>2, <1>2 DEF RecvData, ReceivedWindow
    <3>2. r >= 0
      BY <1>0, <2>2, UpdateNonNegative
    <3>3. /\ win' \in Windows /\ win'.local = win.local /\ win'.recv = 0
          /\ win'.reduction = win.reduction /\ win'.consumed = win.consumed
      BY <3>1 DEF Windows, Int32
    <3> QED
      BY <1>0, <2>0, <3>1, <3>2, <3>3
  <2>3. CASE ~(auto /\ ShouldSendWindowUpdate(win.local, r))
    <3>1. /\ win' = [win EXCEPT !.recv = r] /\ update' = update
          /\ data' = data - n /\ UNCHANGED <<remote, frame, failed>>
      BY <2>1, <2>3, <1>2 DEF RecvData, ReceivedWindow
    <3>2. /\ win' \in Windows /\ win'.local = win.local /\ win'.recv = r
          /\ win'.reduction = win.reduction /\ win'.consumed = win.consumed
      BY <1>0, <1>2, <2>1, <3>1 DEF Windows, Int32, RecvOverflows
    <3> QED
      BY <1>0, <2>0, <3>1, <3>2
  <2> QED
    BY <2>2, <2>3
<1>2a. ASSUME NEW n \in 1..MaxWindow, IgnoreData(n) PROVE IInv'
  <2> DEFINE r == [win EXCEPT !.recv = @ + n]
             c == ConsumedWindow(r, n).win
  <2>0. n <= data
    BY <1>2a DEF IgnoreData
  <2>1. ~RecvOverflows(win, n)
    <3>1. win.recv <= win.local - n
      BY <1>0, <2>0
    <3> QED
      BY <1>0, <3>1 DEF RecvOverflows
  <2>2. /\ r \in Windows /\ r.local = win.local /\ r.recv = win.recv + n
        /\ r.reduction = win.reduction /\ r.consumed = win.consumed
    BY <1>0, <2>1 DEF Windows, Int32, RecvOverflows
  <2>3. CASE ConsumedOverflows(r, n)
    <3>1. /\ win' = r /\ failed' = "consumed" /\ data' = data - n
          /\ UNCHANGED <<remote, frame, update>>
      BY <1>2a, <2>1, <2>3 DEF IgnoreData
    <3> QED
      BY <1>0, <2>0, <2>2, <3>1
  <2>4. CASE ~ConsumedOverflows(r, n)
    <3>1. /\ win' = c /\ update' = update + (r.recv - c.recv)
          /\ data' = data - n /\ UNCHANGED <<remote, frame, failed>>
      BY <1>2a, <2>1, <2>4 DEF IgnoreData
    <3>0. /\ r.local >= 0 /\ r.consumed >= 0 /\ r.reduction >= 0
          /\ r.recv + r.reduction >= 0 /\ r.local - r.recv <= MaxWindow
      BY <1>0, <2>2
    <3> HIDE DEF r
    <3>2. /\ c \in Windows
          /\ c.local = r.local /\ c.reduction = r.reduction
          /\ c.consumed >= 0
          /\ c.recv \in Int /\ c.recv <= r.recv
          /\ c.recv + c.reduction >= 0
          /\ c.local - c.recv <= MaxWindow
      BY <2>2, <2>4, <3>0, ConsumeWindow
    <3> HIDE DEF c
    <3> QED
      BY <1>0, <2>0, <2>2, <3>1, <3>2
  <2> QED
    BY <2>3, <2>4
<1>3. ASSUME NEW n \in 1..MaxWindow, Consume(n) PROVE IInv'
  <2>1. CASE ConsumedOverflows(win, n)
    BY <1>3, <2>1, <1>0 DEF Consume
  <2>2. CASE ~ConsumedOverflows(win, n)
    <3> DEFINE c == ConsumedWindow(win, n).win
    <3>1. /\ win' = c /\ update' = update + (win.recv - c.recv)
          /\ UNCHANGED <<remote, frame, data, failed>>
      BY <1>3, <2>2 DEF Consume
    <3>2. /\ c \in Windows
          /\ c.local = win.local /\ c.reduction = win.reduction
          /\ c.consumed >= 0
          /\ c.recv \in Int /\ c.recv <= win.recv
          /\ c.recv + c.reduction >= 0
          /\ c.local - c.recv <= MaxWindow
      BY <1>0, <2>2, ConsumeWindow
    <3> HIDE DEF c
    <3>3. /\ win'.local = win.local /\ win'.reduction = win.reduction
          /\ win'.consumed >= 0 /\ win'.recv = c.recv
          /\ win' \in Windows
      BY <3>1, <3>2, Zenon
    <3>4. update' \in 0..MaxWindow
      BY <1>0, <3>1, <3>2
    <3>5. TypeOK'
      BY <3>1, <3>2, <3>3, <3>4
    <3>6. Conservation'
      BY <1>f, <1>0, <3>1, <3>2, <3>3
    <3>7. ErrorOnlyMidFrame'
      BY <3>1
    <3>8. /\ (frame.written <= frame.len /\ frame.len <= remote)'
          /\ (win.recv + win.reduction >= 0)'
          /\ (win.local - win.recv <= MaxWindow)'
      BY <1>0, <3>1, <3>2, <3>3
    <3> QED
      BY <3>5, <3>6, <3>7, <3>8
  <2> QED
    BY <2>1, <2>2
<1>4. ASSUME NEW n \in 1..MaxWindow, SubmitWindowUpdate(n) PROVE IInv'
  <2> DEFINE a == GrowLocalWindow(win, n)
             b == SubmittedWindow(win, n)
  <2>1. AdjustLocalWindowSize(win, n) = a
    BY DEF AdjustLocalWindowSize
  <2>2. a.ok
    BY <1>4, <2>1 DEF SubmitWindowUpdate, SubmittedWindow
  <2>3. /\ a.win \in Windows
        /\ a.win.consumed = win.consumed
        /\ a.win.local >= 0 /\ a.win.reduction >= 0
        /\ a.win.recv + a.win.reduction >= 0
        /\ a.win.local - a.win.recv <= MaxWindow
        /\ a.delta \in Int /\ a.delta >= 0
        /\ a.win.local - a.win.recv = win.local - win.recv + a.delta
    BY <1>0, <2>2, GrowWindow
  <2> HIDE DEF a
  <2>4. /\ win' \in Windows /\ win'.local = a.win.local
        /\ win'.recv = a.win.recv /\ win'.reduction = a.win.reduction
        /\ win'.consumed >= 0 /\ update' = update + a.delta
        /\ UNCHANGED <<remote, frame, data, failed>>
    <3>1. CASE a.delta > 0
      <4> DEFINE c == MaxOf(0, win.consumed - a.delta)
      <4>1. c \in 0..MaxWindow
        BY <1>0, <2>3, <3>1 DEF MaxOf
      <4>2. /\ win' = [a.win EXCEPT !.consumed = c]
            /\ update' = update + a.delta
            /\ UNCHANGED <<remote, frame, data, failed>>
        BY <1>4, <2>1, <2>2, <2>3, <3>1 DEF SubmitWindowUpdate, SubmittedWindow
      <4> QED
        BY <2>3, <4>1, <4>2 DEF Windows, Int32
    <3>2. CASE ~(a.delta > 0)
      BY <1>0, <1>4, <2>1, <2>3, <3>2 DEF SubmitWindowUpdate, SubmittedWindow
    <3> QED
      BY <3>1, <3>2
  <2> QED
    BY <1>0, <2>3, <2>4 DEF Windows, Int32
<1>5. ASSUME NEW n \in 1..MaxWindow, SubmitWindowUpdate(-n) PROVE IInv'
  <2> DEFINE a == ShrinkLocalWindow(win, -n)
  <2>1. AdjustLocalWindowSize(win, -n) = a
    BY DEF AdjustLocalWindowSize
  <2>2. a.ok
    BY <1>5, <2>1 DEF SubmitWindowUpdate, SubmittedWindow
  <2>3. /\ a.win \in Windows
        /\ a.win.consumed = win.consumed
        /\ a.win.local >= 0 /\ a.win.reduction >= 0
        /\ a.win.recv + a.win.reduction >= 0
        /\ a.delta = 0
        /\ a.win.local - a.win.recv = win.local - win.recv
    BY <1>0, <2>2, ShrinkWindow
  <2> HIDE DEF a
  <2>4. /\ win' = a.win /\ update' = update + a.delta
        /\ UNCHANGED <<remote, frame, data, failed>>
    BY <1>5, <2>1, <2>3 DEF SubmitWindowUpdate, SubmittedWindow
  <2> QED
    BY <1>0, <2>3, <2>4 DEF Windows, Int32
<1>6. ASSUME NEW n \in 1..MaxWindow, RecvWindowUpdate(n) PROVE IInv'
  <2>1. CASE MaxWindow - n < remote
    <3>1. frame.written > 0
      BY <1>0, <1>6, <2>1 DEF RecvWindowUpdate
    <3> QED
      BY <1>0, <1>6, <2>1, <3>1 DEF RecvWindowUpdate
  <2>2. CASE ~(MaxWindow - n < remote)
    BY <1>f, <1>0, <1>6, <2>2 DEF RecvWindowUpdate
  <2> QED
    BY <2>1, <2>2
<1> QED
  BY <1>1, <1>1a, <1>2, <1>2a, <1>3, <1>4, <1>5, <1>6 DEF Next

\* The whole inductive invariant holds in every reachable state.
THEOREM Invariance == Spec => []IInv
BY InitIInv, NextIInv, PTL DEF Spec

\* Sizes stay within int32_t and the window counters keep their signs.
THEOREM TypeCorrect == Spec => []TypeOK
<1>1. IInv => TypeOK
  BY DEF IInv
<1> QED
  BY <1>1, Invariance, PTL

\* Bytes granted, under way and returned are conserved, for every window size.
THEOREM WindowConserved == Spec => []Conservation
<1>1. IInv => Conservation
  BY DEF IInv
<1> QED
  BY <1>1, Invariance, PTL

\* For every window size: the receiver never finds its window exceeded, and a
\* WINDOW_UPDATE can look like an overflow to the sender only in the middle of
\* a DATA frame, whose written bytes session_after_frame_sent1 has yet to
\* charge.
THEOREM ErrorsOnlyMidFrame == Spec => []ErrorOnlyMidFrame
<1>1. IInv => ErrorOnlyMidFrame
  BY DEF IInv
<1> QED
  BY <1>1, Invariance, PTL

=============================================================================
