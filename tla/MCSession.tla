----------------------------- MODULE MCSession -----------------------------
(***************************************************************************)
(* Small sessions for TLC: each setup has what one group of hazards needs. *)
(***************************************************************************)
EXTENDS Session

Base == [server |-> TRUE, maxId |-> 3, localMax |-> 1, pendingMax |-> 1,
         remoteMax |-> 1, reservedMax |-> 1, localPush |-> TRUE,
         pendingPush |-> TRUE, remotePush |-> TRUE,
         app |-> {}, peer |-> {"HEADERS"},
         deps |-> {0}, maxQueue |-> 2, early |-> FALSE]

\* Responses with bodies and trailers against resets and termination
Responses == [Base EXCEPT
  !.localMax = 2, !.app = {"response", "trailer", "data", "rst", "terminate"},
  !.peer = {"HEADERS", "DATA", "RST_STREAM", "WINDOW_UPDATE"}]

\* GOAWAY from the application while two streams come and go
Goaways == [Base EXCEPT !.localMax = 2, !.pendingMax = 2,
                        !.app = {"rst", "goaway"}]

\* Promised streams and their responses
Pushes == [Base EXCEPT !.app = {"response", "push", "rst"},
                       !.peer = {"HEADERS", "RST_STREAM"}]

\* Requests that wait, are cancelled, answered and refused
Requests == [Base EXCEPT !.server = FALSE,
  !.app = {"request", "data", "rst"},
  !.peer = {"HEADERS", "DATA", "RST_STREAM", "GOAWAY"}]

\* Streams the server pushes to a client
Promises == [Base EXCEPT !.server = FALSE, !.maxId = 4, !.localMax = 2,
  !.app = {"request"}, !.peer = {"HEADERS", "PUSH_PROMISE"}, !.maxQueue = 1]

\* Idle streams made by PRIORITY and by dependencies
Priorities == [Base EXCEPT !.maxId = 5, !.deps = {0, 3},
                           !.peer = {"HEADERS", "PRIORITY", "RST_STREAM"}]

\* SETTINGS_ENABLE_PUSH = 0: received by a server with promises queued, sent
\* by a client and not acknowledged, and acknowledged
NoPushes == {[Pushes EXCEPT !.remotePush = FALSE],
             [Promises EXCEPT !.pendingPush = FALSE],
             [Promises EXCEPT !.pendingPush = FALSE, !.localPush = FALSE]}

SafetySetups ==
  {Responses, Goaways, Pushes, Requests, Promises, Priorities} \cup NoPushes

LiveSetups == {[Base EXCEPT !.app = {"response", "rst", "notice"},
                            !.peer = {"HEADERS", "RST_STREAM"}]}

\* A response may be submitted while the header block is being received.
EarlySetups == {[Base EXCEPT !.app = {"response"}, !.early = TRUE]}

\* A queued request may be cancelled more than once.
CancelSetups == {[Base EXCEPT !.server = FALSE, !.app = {"request", "rst"}]}

\* A stream may be idle before it opens.
RetentionSetups == {[Base EXCEPT !.peer = {"HEADERS", "PRIORITY", "RST_STREAM"}]}

\* More than one GOAWAY may be queued.
GoawaySetups == {[Base EXCEPT !.app = {"goaway"}]}
=============================================================================
