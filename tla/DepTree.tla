------------------------------- MODULE DepTree -------------------------------
(***************************************************************************)
(* The dependency tree of nghttp2_stream.c and the scheduler inside it:    *)
(* which stream sends the next DATA frame.  Each C function on streams is  *)
(* an operator from a tree to the updated tree.  The fields of a tree are  *)
(* functions of stream ids; 0 is the root:                                 *)
(*   prev     dep_prev                                                     *)
(*   kids     the list that starts at dep_next and follows sib_next        *)
(*   weight   weight, with MaxWeight for NGHTTP2_MAX_WEIGHT                *)
(*   sum      sum_dep_weight                                               *)
(*   item     the attached item: "none", "active" or "deferred"            *)
(*   obq      the priority queue of direct descendants with data to send   *)
(*   queued   queued: is the stream in dep_prev's obq?                     *)
(*   cycle    cycle, the key of the obq: the next scheduled time to send   *)
(*   last     descendant_last_cycle                                        *)
(*   wlen     last_writelen                                                *)
(* The session around the tree is reduced to what decides which function   *)
(* is called when: the status of each stream and the last stream id used.  *)
(* The session is a server, the only side that keeps priorities.  The      *)
(* callbacks of an application do not call back into the session here,     *)
(* so a stream is chosen, read and rescheduled in one step.                *)
(***************************************************************************)
EXTENDS PQ

CONSTANTS MaxWeight,
          DefaultWeight,  \* NGHTTP2_DEFAULT_WEIGHT
          MaxLen,         \* largest DATA payload
          Setups          \* the instances, see setup

ASSUME DepTreeAssumption ==
  /\ MaxWeight \in Nat /\ DefaultWeight \in 1..MaxWeight
  /\ MaxLen \in Nat
  /\ \A s \in Setups : s.pris \subseteq
       [stream: 0..s.streams, weight: 1..MaxWeight, exclusive: BOOLEAN]

VARIABLES setup,   \* streams: how many ids; ops: the operations that occur;
                   \* pris: the priorities in HEADERS and PRIORITY;
                   \* lens: the sizes of DATA frames, up to MaxLen;
                   \* maxCycle: bound on virtual time
          tree,
          status,  \* "none" (not in the table), "idle", "open" or "closed"
          lastId   \* last_recv_stream_id

vars == <<setup, tree, status, lastId>>

Nil   == -1
Ids   == 1..setup.streams
Nodes == {0} \cup Ids

-----------------------------------------------------------------------------
StreamActive(t, s)  == t.item[s] = "active"
SubtreeActive(t, s) == StreamActive(t, s) \/ t.obq[s] # <<>>

\* stream_next_cycle
NextCycle(t, s, last) == last + (t.wlen[s] * MaxWeight) \div t.weight[s]

\* stream_obq_push: queue s at dep, dep at its parent and so on.
RECURSIVE ObqPush(_, _, _)
ObqPush(t, dep, s) ==
  IF dep = Nil \/ t.queued[s] THEN t
  ELSE LET cycle == [t.cycle EXCEPT ![s] = NextCycle(t, s, t.last[dep])]
       IN  ObqPush([t EXCEPT !.cycle = cycle, !.queued[s] = TRUE,
                             !.obq[dep] = PQPush(@, cycle, s)],
                   t.prev[dep], dep)

\* Mutant: ancestors without anything left to send stay queued.
ObqRemoveOnce(t, s) ==
  IF ~t.queued[s] THEN t
  ELSE [t EXCEPT !.obq[t.prev[s]] = PQRemove(@, t.cycle, s),
                 !.queued[s] = FALSE, !.cycle[s] = 0, !.last[s] = 0]

\* stream_obq_remove: and the ancestors that have nothing left to send.
RECURSIVE ObqRemove(_, _)
ObqRemove(t, s) ==
  LET dep == t.prev[s]
      t1  == [t EXCEPT !.obq[dep] = PQRemove(@, t.cycle, s),
                       !.queued[s] = FALSE, !.cycle[s] = 0, !.last[s] = 0]
  IN  IF ~t.queued[s] \/ dep = Nil THEN t
      ELSE IF SubtreeActive(t1, dep) THEN t1 ELSE ObqRemove(t1, dep)

\* stream_obq_move
ObqMove(t, dest, src, s) ==
  IF ~t.queued[s] THEN t
  ELSE ObqPush([t EXCEPT !.obq[src] = PQRemove(@, t.cycle, s),
                         !.queued[s] = FALSE], dest, s)

LargerOf(a, b) == IF a >= b THEN a ELSE b

\* Mutant: the parent's descendant_last_cycle does not follow.
RescheduleOwnCycle(t, dep, s) ==
  LET cycle == [t.cycle EXCEPT ![s] = NextCycle(t, s, @)]
  IN  IF dep = Nil THEN t
      ELSE [t EXCEPT !.cycle = cycle,
                     !.obq[dep] = PQPush(PQRemove(@, cycle, s), cycle, s)]

\* nghttp2_stream_reschedule, for s in the obq of dep and upwards
RECURSIVE Reschedule(_, _, _)
Reschedule(t, dep, s) ==
  LET last  == LargerOf(t.last[dep], t.cycle[s])
      cycle == [t.cycle EXCEPT ![s] = NextCycle(t, s, last)]
      t1    == IF Len(t.obq[dep]) = 1
                 THEN [t EXCEPT !.last[dep] = 0, !.cycle[s] = 0]
                 ELSE [t EXCEPT
                         !.last[dep] = last,
                         !.cycle     = cycle,
                         !.obq[dep]  = PQPush(PQRemove(@, cycle, s), cycle, s)]
  IN  IF dep = Nil THEN t
      ELSE Reschedule([t1 EXCEPT !.wlen[dep] = t.wlen[s]], t.prev[dep], dep)

\* nghttp2_stream_next_outbound_item: the streams on the way to the one whose
\* item is next, from s down (empty: nothing to send).
RECURSIVE NextOutboundItem(_, _)
NextOutboundItem(t, s) ==
  IF StreamActive(t, s) THEN <<s>>
  ELSE IF t.obq[s] = <<>> THEN <<>>
  ELSE <<s>> \o NextOutboundItem(t, Head(t.obq[s]))

-----------------------------------------------------------------------------
\* nghttp2_stream_attach_item, _detach_item, _defer_item, _resume_deferred_item
AttachItem(t, s) == ObqPush([t EXCEPT !.item[s] = "active"], t.prev[s], s)

Unqueue(t, s) == IF t.obq[s] = <<>> THEN ObqRemove(t, s) ELSE t

DetachItem(t, s) == Unqueue([t EXCEPT !.item[s] = "none"], s)
DeferItem(t, s)  == Unqueue([t EXCEPT !.item[s] = "deferred"], s)

\* nghttp2_stream_dep_distributed_weight
DistributedWeight(t, s, w) == LargerOf(1, (t.weight[s] * w) \div t.sum[s])

\* nghttp2_stream_dep_add
DepAdd(t, dep, s) == [t EXCEPT !.sum[dep]  = @ + t.weight[s],
                               !.kids[dep] = <<s>> \o @,
                               !.prev[s]   = dep]

\* nghttp2_stream_dep_insert: s takes over all the dependents of dep.
DepInsert(t, dep, s) ==
  LET Move(u, k) == ObqMove([u EXCEPT !.prev[k] = s], s, dep, k)
      t1 == [t EXCEPT !.sum[s] = t.sum[dep], !.sum[dep] = t.weight[s]]
      t2 == FoldLeft(Move, t1, t.kids[dep])
      t3 == IF t.kids[dep] # <<>> /\ SubtreeActive(t2, s)
              THEN ObqPush(t2, dep, s) ELSE t2
  IN  [t3 EXCEPT !.kids[s]   = t.kids[dep],
                 !.kids[dep] = <<s>>,
                 !.prev[s]   = dep]

\* nghttp2_stream_dep_remove: the dependents of s take its place and share its
\* weight.
DepRemove(t, s) ==
  LET dep  == t.prev[s]
      kids == t.kids[s]
      Move(u, k) ==
        ObqMove([u EXCEPT !.weight[k] = DistributedWeight(t, s, @)], dep, s, k)
      t1   == FoldLeft(Move, t, kids)
      t2   == [t1 EXCEPT !.sum[dep] = @ - t.weight[s]
                            + FoldLeft(LAMBDA n, k : n + t1.weight[k], 0, kids)]
      t3   == ObqRemove(t2, s)
      i    == CHOOSE j \in DOMAIN t.kids[dep] : t.kids[dep][j] = s
  IN  [t3 EXCEPT
         !.kids[dep] = SubSeq(@, 1, i - 1) \o kids \o SubSeq(@, i + 1, Len(@)),
         !.kids[s]   = <<>>,
         !.sum[s]    = 0,
         !.prev      = [k \in DOMAIN @ |-> IF Contains(kids, k) THEN dep
                                           ELSE IF k = s THEN Nil ELSE @[k]]]

\* Mutant: the dependents that s brings along are dropped from its list.
DepInsertSubtreeLosing(t, dep, s) ==
  LET Move(u, k) == ObqMove([u EXCEPT !.prev[k] = s], s, dep, k)
      t1 == [t EXCEPT !.sum[s]    = @ + t.sum[dep],
                      !.sum[dep]  = t.weight[s],
                      !.kids[s]   = t.kids[dep],
                      !.kids[dep] = <<s>>,
                      !.prev[s]   = dep]
      t2 == FoldLeft(Move, t1, t.kids[dep])
  IN  IF SubtreeActive(t2, s) THEN ObqPush(t2, dep, s) ELSE t2

\* nghttp2_stream_dep_insert_subtree
DepInsertSubtree(t, dep, s) ==
  LET Move(u, k) == ObqMove([u EXCEPT !.prev[k] = s], s, dep, k)
      t1 == [t EXCEPT !.sum[s]    = @ + t.sum[dep],
                      !.sum[dep]  = t.weight[s],
                      !.kids[s]   = @ \o t.kids[dep],
                      !.kids[dep] = <<s>>,
                      !.prev[s]   = dep]
      t2 == FoldLeft(Move, t1, t.kids[dep])
  IN  IF SubtreeActive(t2, s) THEN ObqPush(t2, dep, s) ELSE t2

\* nghttp2_stream_dep_add_subtree
DepAddSubtree(t, dep, s) ==
  LET t1 == DepAdd(t, dep, s)
  IN  IF SubtreeActive(t1, s) THEN ObqPush(t1, dep, s) ELSE t1

\* Mutant: the weight of s is still counted at the old parent.
DepRemoveSubtreeKeepSum(t, s) ==
  LET t1 == [t EXCEPT !.kids[t.prev[s]] = SelectSeq(@, LAMBDA k : k # s)]
  IN  [ObqRemove(t1, s) EXCEPT !.prev[s] = Nil]

\* nghttp2_stream_dep_remove_subtree
DepRemoveSubtree(t, s) ==
  LET dep == t.prev[s]
      t1  == [t EXCEPT !.kids[dep] = SelectSeq(@, LAMBDA k : k # s),
                       !.sum[dep]  = @ - t.weight[s]]
  IN  [ObqRemove(t1, s) EXCEPT !.prev[s] = Nil]

\* nghttp2_stream_dep_find_ancestor: is target s or above it?
RECURSIVE FindAncestor(_, _, _)
FindAncestor(t, s, target) ==
  s # Nil /\ (s = target \/ FindAncestor(t, t.prev[s], target))

\* nghttp2_stream_init
InitStream(t, s, w) ==
  [t EXCEPT !.prev[s] = Nil, !.kids[s] = <<>>, !.weight[s] = w, !.sum[s] = 0,
            !.item[s] = "none", !.obq[s] = <<>>, !.queued[s] = FALSE,
            !.cycle[s] = 0, !.last[s] = 0, !.wlen[s] = 0]

-----------------------------------------------------------------------------
Spec0 == [stream |-> 0, weight |-> DefaultWeight, exclusive |-> FALSE]

\* session_detect_idle_stream for a stream of the peer
Idle(id, last) == status[id] = "none" /\ id > last

\* A dependency on an idle stream that is not in memory creates that stream.
CreatesIdle(pri, last) == pri.stream # 0 /\ Idle(pri.stream, last)

WithDependency(t, pri, last) ==
  IF CreatesIdle(pri, last)
    THEN DepAdd(InitStream(t, pri.stream, DefaultWeight), 0, pri.stream)
    ELSE t

\* One on a stream that is neither in memory nor idle gets default priority.
Effective(pri, last) ==
  IF pri.stream # 0 /\ status[pri.stream] = "none" /\ ~Idle(pri.stream, last)
    THEN Spec0 ELSE pri

\* nghttp2_session_open_stream, its effect on the tree
OpenStream(id, pri, last) ==
  LET t1  == IF status[id] = "idle" THEN DepRemove(tree, id) ELSE tree
      eff == Effective(pri, last)
      t2  == InitStream(WithDependency(t1, pri, last), id, eff.weight)
  IN  IF eff.exclusive THEN DepInsert(t2, eff.stream, id)
      ELSE DepAdd(t2, eff.stream, id)

StatusAfter(id, new, pri, last) ==
  [i \in Ids |-> IF i = id THEN new
                 ELSE IF CreatesIdle(pri, last) /\ i = pri.stream THEN "idle"
                 ELSE status[i]]

\* HEADERS open a stream: nghttp2_session_on_request_headers_received
Open(id, pri) ==
  /\ "open" \in setup.ops
  /\ status[id] \in {"none", "idle"} /\ id > lastId /\ pri.stream # id
  /\ lastId' = id
  /\ tree'   = OpenStream(id, pri, id)
  /\ status' = StatusAfter(id, "open", pri, id)
  /\ UNCHANGED setup

\* PRIORITY on an idle stream: nghttp2_session_on_priority_received
OpenIdle(id, pri) ==
  /\ "priority" \in setup.ops
  /\ Idle(id, lastId) /\ pri.stream # id
  /\ tree'   = OpenStream(id, pri, lastId)
  /\ status' = StatusAfter(id, "idle", pri, lastId)
  /\ UNCHANGED <<setup, lastId>>

\* PRIORITY on a stream in memory: nghttp2_session_reprioritize_stream
Reprioritize(id, pri) ==
  /\ "priority" \in setup.ops
  /\ status[id] # "none" /\ pri.stream # id
  /\ LET eff == Effective(pri, lastId)
         t1  == WithDependency(tree, pri, lastId)
         t2  == IF eff.stream # 0 /\ FindAncestor(t1, eff.stream, id)
                  THEN DepAddSubtree(DepRemoveSubtree(t1, eff.stream), 0, eff.stream)
                  ELSE t1
         t3  == [DepRemoveSubtree(t2, id) EXCEPT !.weight[id] = eff.weight]
     IN  tree' = IF eff.exclusive THEN DepInsertSubtree(t3, eff.stream, id)
                 ELSE DepAddSubtree(t3, eff.stream, id)
  /\ status' = StatusAfter(id, status[id], pri, lastId)
  /\ UNCHANGED <<setup, lastId>>

\* nghttp2_session_close_stream
Close(id) ==
  /\ "close" \in setup.ops /\ status[id] = "open"
  /\ tree'   = IF tree.item[id] = "none" THEN tree ELSE DetachItem(tree, id)
  /\ status' = [status EXCEPT ![id] = "closed"]
  /\ UNCHANGED <<setup, lastId>>

\* nghttp2_session_destroy_stream
Destroy(id) ==
  /\ "close" \in setup.ops /\ status[id] \in {"idle", "closed"}
  /\ tree'   = InitStream(DepRemove(tree, id), id, DefaultWeight)
  /\ status' = [status EXCEPT ![id] = "none"]
  /\ UNCHANGED <<setup, lastId>>

\* nghttp2_session_add_item with DATA
Attach(id) ==
  /\ status[id] = "open" /\ tree.item[id] = "none"
  /\ tree' = AttachItem(tree, id)
  /\ UNCHANGED <<setup, status, lastId>>

\* nghttp2_session_resume_data, session_on_stream_window_update_received
Resume(id) ==
  /\ tree.item[id] = "deferred"
  /\ tree' = AttachItem(tree, id)
  /\ UNCHANGED <<setup, status, lastId>>

\* The last frame of an item was sent (session_after_frame_sent1), by which
\* time the stream need not be the next one any more.
Detach(id) ==
  /\ tree.item[id] = "active"
  /\ tree' = DetachItem(tree, id)
  /\ UNCHANGED <<setup, status, lastId>>

\* nghttp2_session_pop_next_ob_item and session_prep_frame: the next stream
\* has no data or no window ...
Defer ==
  /\ "defer" \in setup.ops
  /\ LET path == NextOutboundItem(tree, 0)
     IN  path # <<>> /\ tree' = DeferItem(tree, Last(path))
  /\ UNCHANGED <<setup, status, lastId>>

\* ... or sends len bytes (nghttp2_session_pack_data).
Send(len) ==
  /\ "send" \in setup.ops
  /\ LET path == NextOutboundItem(tree, 0)
         s    == Last(path)
     IN  /\ path # <<>>
         /\ tree' = Reschedule([tree EXCEPT !.wlen[s] = len], tree.prev[s], s)
  /\ \A s \in Ids : tree'.cycle[s] <= setup.maxCycle
  /\ UNCHANGED <<setup, status, lastId>>

Next ==
  \/ \E id \in Ids, pri \in setup.pris : Open(id, pri)
  \/ \E id \in Ids, pri \in setup.pris : OpenIdle(id, pri)
  \/ \E id \in Ids, pri \in setup.pris : Reprioritize(id, pri)
  \/ \E id \in Ids : Close(id)
  \/ \E id \in Ids : Destroy(id)
  \/ \E id \in Ids : Attach(id)
  \/ \E id \in Ids : Resume(id)
  \/ \E id \in Ids : Detach(id)
  \/ Defer
  \/ \E len \in setup.lens : Send(len)

Init ==
  /\ setup \in Setups
  /\ tree = [prev   |-> [s \in Nodes |-> Nil],
             kids   |-> [s \in Nodes |-> <<>>],
             weight |-> [s \in Nodes |-> DefaultWeight],
             sum    |-> [s \in Nodes |-> 0],
             item   |-> [s \in Nodes |-> "none"],
             obq    |-> [s \in Nodes |-> <<>>],
             queued |-> [s \in Nodes |-> FALSE],
             cycle  |-> [s \in Nodes |-> 0],
             last   |-> [s \in Nodes |-> 0],
             wlen   |-> [s \in Nodes |-> 0]]
  /\ status = [id \in Ids |-> "none"]
  /\ lastId = 0

Spec == Init /\ [][Next]_vars

-----------------------------------------------------------------------------
InTree == {0} \cup {id \in Ids : status[id] # "none"}

\* The tree is a tree: dep_prev and the lists of dependents agree, and every
\* stream in memory hangs below the root exactly once, whatever PRIORITY asked
\* for (the cycle that a dependency on one's own descendant would close is
\* broken in nghttp2_session_reprioritize_stream).
TreeShape ==
  /\ \A p \in Nodes : /\ IsInjective(tree.kids[p])
                      /\ \A s \in Ids : Contains(tree.kids[p], s) <=> tree.prev[s] = p
  /\ \A s \in InTree : FindAncestor(tree, s, 0)
  /\ \A s \in Nodes \ InTree : tree.prev[s] = Nil /\ tree.kids[s] = <<>>

\* sum_dep_weight is the sum of the dependents' weights, by which the weight of
\* a removed stream is divided among them, and no weight leaves 1..256
\* (nghttp2_stream_dep_distributed_weight).
WeightSum ==
  \A p \in InTree :
    /\ tree.weight[p] \in 1..MaxWeight
    /\ tree.sum[p] = FoldLeft(LAMBDA n, k : n + tree.weight[k], 0, tree.kids[p])

\* "if a stream is queued, then its ancestors, except for root, are also
\* queued": a stream is in its parent's queue exactly while something at or
\* below it can be sent, so nothing sendable is out of the scheduler's reach
\* and the scheduler never runs into a dead end.
QueuedIffSendable ==
  \A s \in Ids :
    /\ tree.queued[s] <=> \E d \in InTree : StreamActive(tree, d) /\ FindAncestor(tree, d, s)
    /\ \A p \in Nodes : Contains(tree.obq[p], s) <=> tree.queued[s] /\ tree.prev[s] = p

\* The head of a queue has the smallest cycle in it, although cycles change
\* while streams are in queues (stream_obq_move, nghttp2_stream_reschedule).
EarliestFirst ==
  \A p \in Nodes : IsInjective(tree.obq[p]) /\ \A s \in ToSet(tree.obq[p]) :
    tree.cycle[Head(tree.obq[p])] <= tree.cycle[s]

\* No stream at the root runs ahead of or falls behind the others by more than
\* one frame's worth of virtual time: what weighted sharing rests on.  (Below
\* the root this holds only until a subtree is moved, which resets
\* descendant_last_cycle and not the cycles that were derived from it.)
BoundedLag ==
  \A p \in Nodes : p = 0 \/ "priority" \notin setup.ops =>
    \A s \in ToSet(tree.obq[p]) :
      tree.cycle[s] \in tree.last[p]..(tree.last[p] + MaxLen * MaxWeight)
=============================================================================
