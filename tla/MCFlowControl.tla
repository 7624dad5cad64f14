--------------------------- MODULE MCFlowControl ---------------------------
(***************************************************************************)
(* Small connections for TLC.  MaxWindow stands for 2^31 - 1.              *)
(***************************************************************************)
EXTENDS FlowControl

Base == [open |-> {"s1"}, window |-> 2, settings |-> {}, total |-> 3,
         deltas |-> {}, resets |-> {}, auto |-> TRUE, partial |-> FALSE]

Two == [Base EXCEPT !.open = {"s1", "s2"}]

\* Automatic updates on two streams while SETTINGS raise or lower the window
Auto == [Two EXCEPT !.settings = {1, 4}]

\* The application shrinks windows and consumes late, with SETTINGS under way.
Shrink == [Base EXCEPT !.window = 3, !.settings = {2, 4}, !.deltas = {-1, -2},
                       !.auto = FALSE]

\* It grows and shrinks them, up to the largest size.
Grow == [Base EXCEPT !.total = 2, !.deltas = {2, -1}, !.auto = FALSE]

\* Frames are written in pieces while SETTINGS or the application take the
\* window to its largest size.
Pieces == [Base EXCEPT !.settings = {4}, !.partial = TRUE]
GrowPieces == [Base EXCEPT !.total = 2, !.deltas = {2}, !.partial = TRUE]

\* Either application resets one of two streams.
Resets == [Two EXCEPT !.total = 2, !.resets = {"s1"}, !.partial = TRUE]
ManualResets == [Resets EXCEPT !.auto = FALSE]

SafetySetups == {Auto, Shrink, Grow, Pieces, GrowPieces, Resets, ManualResets}

\* Every byte arrives: partial writes while SETTINGS shrink the window below
\* what was received, an application that must consume, and streams reset
\* with the connection's window in use.
LiveSetups ==
  {[Base EXCEPT !.window = 6, !.settings = {2}, !.total = 5, !.partial = TRUE],
   [Two EXCEPT !.settings = {2, 4}, !.partial = TRUE],
   [Base EXCEPT !.settings = {2, 4}, !.total = 4, !.auto = FALSE],
   [Two EXCEPT !.window = 3, !.resets = {"s1"}],
   [Two EXCEPT !.window = 3, !.resets = {"s1"}, !.auto = FALSE]}

\* An initial window of 0
ZeroSetups == {[Base EXCEPT !.settings = {0, 4}]}

\* A window at its largest size, and a DATA frame written in two parts
PartialSetups == {[Base EXCEPT !.window = 4, !.partial = TRUE]}
=============================================================================
