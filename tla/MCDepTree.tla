----------------------------- MODULE MCDepTree -----------------------------
(***************************************************************************)
(* Small trees for TLC.                                                    *)
(***************************************************************************)
EXTENDS DepTree

\* Any operation on a tree of up to three streams, with weights
Surgery == [streams |-> 3, ops |-> {"open", "priority", "close"}, lens |-> {},
            pris |-> [stream: 0..3, weight: {1, 2}, exclusive: BOOLEAN],
            maxCycle |-> 0]

\* The same while streams send
Moves == [streams |-> 3, ops |-> {"open", "priority", "send"}, lens |-> {1},
          pris |-> [stream: {0, 1, 3}, weight: {2}, exclusive: BOOLEAN],
          maxCycle |-> 2]

\* Streams that pause, close and resume between frames
Pauses == [streams |-> 3, ops |-> {"open", "send", "defer", "close"},
           lens |-> {0, 1},
           pris |-> [stream: {0, 1}, weight: {1, 2}, exclusive: {FALSE}],
           maxCycle |-> 3]

\* One queue of up to five streams that grows and shrinks
Queue == [streams |-> 5, ops |-> {"open", "send"}, lens |-> {1},
          pris |-> [stream: {0}, weight: {2}, exclusive: {FALSE}],
          maxCycle |-> 3]

SafetySetups == {Surgery, Moves, Pauses, Queue}
=============================================================================
