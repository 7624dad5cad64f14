------------------------------- MODULE Window -------------------------------
(***************************************************************************)
(* Arithmetic of one HTTP/2 flow-control window, as the receiving endpoint *)
(* keeps it: for the connection in nghttp2_session, for a stream in        *)
(* nghttp2_stream.  A window is a record of                                *)
(*   local      local_window_size: what the peer was granted               *)
(*   recv       recv_window_size: bytes received and not yet returned by a *)
(*              WINDOW_UPDATE; negative after the window was shrunk        *)
(*   reduction  recv_reduction: bytes by which the application shrank it   *)
(*   consumed   consumed_size: bytes the application reported as consumed  *)
(* Every size is a C int32_t; the operators return the error the code      *)
(* returns instead of leaving that range.                                  *)
(***************************************************************************)
EXTENDS Integers

CONSTANT MaxWindow   \* NGHTTP2_MAX_WINDOW_SIZE = INT32_MAX = 2^31 - 1

ASSUME MaxWindowAssumption == MaxWindow \in Nat \ {0}

Int32 == (-MaxWindow - 1)..MaxWindow

Windows == [local: Int32, recv: Int32, reduction: Int32, consumed: Int32]

NewWindow(initial) ==
  [local |-> initial, recv |-> 0, reduction |-> 0, consumed |-> 0]

MaxOf(a, b) == IF a >= b THEN a ELSE b
MinOf(a, b) == IF a <= b THEN a ELSE b

\* C division by 2: truncates toward zero
Half(n) == IF n >= 0 THEN n \div 2 ELSE -((-n) \div 2)

\* nghttp2_should_send_window_update
ShouldSendWindowUpdate(localSize, recvSize) == recvSize >= Half(localSize)

\* Mutant: the repaid reduction is announced to the peer once more.
GrowAnnouncingAll(w, delta) ==
  LET grow == delta - MaxOf(0, w.recv)
      paid == MinOf(w.reduction, grow)
  IN  IF grow <= 0
        THEN [ok |-> TRUE, win |-> [w EXCEPT !.recv = -grow], delta |-> delta]
        ELSE [ok    |-> w.local <= MaxWindow - grow,
              win   |-> [w EXCEPT !.local = @ + grow,
                                  !.recv = MinOf(0, @) + paid,
                                  !.reduction = @ - paid],
              delta |-> delta]

\* Mutant: the window grows without the overflow check.
GrowUnchecked(w, delta) ==
  LET grow == delta - MaxOf(0, w.recv)
      paid == MinOf(w.reduction, grow)
  IN  IF grow <= 0
        THEN [ok |-> TRUE, win |-> [w EXCEPT !.recv = -grow], delta |-> delta]
        ELSE [ok    |-> TRUE,
              win   |-> [w EXCEPT !.local = @ + grow,
                                  !.recv = MinOf(0, @) + paid,
                                  !.reduction = @ - paid],
              delta |-> delta - paid]

(***************************************************************************)
(* nghttp2_adjust_local_window_size: the application grows (delta > 0) or  *)
(* shrinks (delta < 0) the window.  Growing first returns received bytes,  *)
(* then undoes earlier reductions, and only then tells the peer; "delta"   *)
(* of the result is the WINDOW_UPDATE increment that is left to send.      *)
(***************************************************************************)
GrowLocalWindow(w, delta) ==
  LET left == MaxOf(0, w.recv) - delta
      grow == -left
      paid == MinOf(w.reduction, grow)
  IN  IF left >= 0
        THEN [ok |-> TRUE, win |-> [w EXCEPT !.recv = left], delta |-> delta]
      ELSE IF w.local > MaxWindow - grow
        THEN [ok |-> FALSE, win |-> w, delta |-> 0]
      ELSE [ok    |-> TRUE,
            win   |-> [local     |-> w.local + grow,
                       recv      |-> IF w.recv < 0 THEN w.recv + paid
                                     ELSE paid,
                       reduction |-> w.reduction - paid,
                       consumed  |-> w.consumed],
            delta |-> delta - paid]

ShrinkLocalWindow(w, delta) ==
  IF \/ w.local + delta < 0
     \/ w.recv < -MaxWindow - 1 - delta
     \/ w.reduction > MaxWindow + delta
    THEN [ok |-> FALSE, win |-> w, delta |-> 0]
    ELSE [ok    |-> TRUE,
          win   |-> [local     |-> w.local + delta,
                     recv      |-> w.recv + delta,
                     reduction |-> w.reduction - delta,
                     consumed  |-> w.consumed],
          delta |-> 0]

AdjustLocalWindowSize(w, delta) ==
  IF delta > 0 THEN GrowLocalWindow(w, delta) ELSE ShrinkLocalWindow(w, delta)

\* nghttp2_submit_window_update: the increment left to send is also
\* subtracted from what the application has consumed.
SubmittedWindow(w, delta) ==
  LET a == AdjustLocalWindowSize(w, delta)
  IN  IF a.ok /\ a.delta > 0
        THEN [ok    |-> TRUE,
              win   |-> [a.win EXCEPT !.consumed = MaxOf(0, @ - a.delta)],
              delta |-> a.delta]
        ELSE a


\* adjust_recv_window_size: would n more bytes exceed what was granted?
RecvOverflows(w, n) == \/ w.recv > w.local - n
                       \/ w.recv > MaxWindow - n

\* The window after n bytes were accepted, and the WINDOW_UPDATE increments
\* that the automatic update queues (none, or the bytes received so far).
ReceivedWindow(w, n, auto) ==
  LET r == w.recv + n
  IN  IF auto /\ ShouldSendWindowUpdate(w.local, r)
        THEN [win |-> [w EXCEPT !.recv = 0], updates |-> <<r>>]
        ELSE [win |-> [w EXCEPT !.recv = r], updates |-> <<>>]

\* session_update_consumed_size: the application has consumed n bytes.
ConsumedOverflows(w, n) == w.consumed > MaxWindow - n

ConsumedWindow(w, n) ==
  LET c == w.consumed + n
      r == MinOf(c, w.recv)
  IN  IF ShouldSendWindowUpdate(w.local, r)
        THEN [win |-> [local     |-> w.local,
                       recv      |-> w.recv - r,
                       reduction |-> w.reduction,
                       consumed  |-> c - r],
              updates |-> <<r>>]
        ELSE [win |-> [w EXCEPT !.consumed = c], updates |-> <<>>]

\* update_initial_window_size: SETTINGS_INITIAL_WINDOW_SIZE changed.
InitialWindowOverflows(size, new, old) == (size + new - old) \notin Int32

=============================================================================
