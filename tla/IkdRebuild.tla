----------------------------- MODULE IkdRebuild -----------------------------
(***************************************************************************)
(* The kd-tree with its rebuild thread.  The main thread walks the tree,   *)
(* node by node, and asks for the rebuild of a subtree that is too large   *)
(* to rebuild inline.  The rebuild thread copies the subtree, builds a new *)
(* one on the side, replays what the main thread did to the old one in the *)
(* meantime, and swaps the new one in.                                     *)
(*                                                                         *)
(* A step of the main thread is a visit of one node, or everything it does *)
(* under working_flag_mutex.  spoiled records that the code has left the   *)
(* protocol in one of four ways (see README): what is promised below is    *)
(* promised until then.                                                    *)
(***************************************************************************)
EXTENDS IkdTree

CONSTANTS
  MultiThreadPoints,  \* Multi_Thread_Rebuild_Point_Num
  Initial,            \* the points of the first scan
  Calls,              \* the calls that the mapping makes
  Queries,            \* the points it looks for
  MaxCalls            \* bound: calls

ASSUME RebuildAssumption ==
  /\ MultiThreadPoints \in Nat \ {0} /\ MaxCalls \in Nat
  /\ Initial \subseteq Int /\ Queries \subseteq Int

VARIABLES
  tree,         \* the nodes below Root_Node
  target,       \* Rebuild_Ptr: position of the subtree to rebuild, 0 for null
  rebuildFlag,  \* rebuild_flag: operations on the target are logged
  log,          \* Rebuild_Logger
  lock,         \* working_flag_mutex: "free", or "thread" while that holds it
  counter,      \* search_mutex_counter
  thread,       \* where the rebuild thread is; it holds rebuild_ptr_mutex_lock
                \* unless it is "idle"
  fresh,        \* the subtree it builds
  climb,        \* update_root
  call,         \* the call of the main thread
  todo,         \* its operations on the tree that are left
  at,           \* node the main thread is at, and what it does there next
  searching,    \* a search is on: "no", "counted" in the counter, or "free"
  made,         \* calls so far
  held,         \* history: the points the tree held when last no call was on
  spoiled       \* history: the protocol has been left

mainVars == <<call, todo, at, made>>
threadVars == <<thread, fresh, climb>>
program == <<tree, target, rebuildFlag, log, lock, counter, threadVars, mainVars,
             searching, spoiled>>
vars == <<program, held>>

Idle == [n |-> 0, stage |-> "idle"]
NoCall == [kind |-> "none", arg |-> 0]
Alive == thread # "crashed"

\* Build, from the first scan.
Init ==
  /\ tree = BuildTree(1, Ascending(Initial))
  /\ target = 0 /\ rebuildFlag = FALSE /\ log = <<>>
  /\ lock = "free" /\ counter = 0
  /\ thread = "idle" /\ fresh = <<>> /\ climb = 0
  /\ call = NoCall /\ todo = <<>> /\ at = Idle /\ made = 0
  /\ held = Initial /\ searching = "no" /\ spoiled = FALSE

-----------------------------------------------------------------------------
(* Pushing marks into the target needs its lock and goes to the log.       *)

\* Going from t to u somebody pushed marks into the target.
PushedTarget(t, u) ==
  /\ target > 1
  /\ Side(target) \notin u[Father(target)].push
  /\ \E k \in 1 .. 8 : LET a == target \div 2^k
                       IN a >= 1 /\ Side(target \div 2^(k - 1)) \in t[a].push

Logged(ops) == IF rebuildFlag THEN log \o ops ELSE log

PushLocked(t, u) ==
  LET father == u[Father(target)]
      op == [op |-> "PUSH_DOWN", arg |-> [tdel |-> father.tdel, tddel |-> father.tddel]]
  IN IF PushedTarget(t, u) THEN lock = "free" /\ log' = Logged(<<op>>)
     ELSE UNCHANGED log

-----------------------------------------------------------------------------
(* The main thread.                                                        *)

\* A son that is the target is visited under the lock, seen from a node.
Visit(n, goal) == [n |-> n, stage |-> IF n = goal THEN "locked" ELSE "enter"]

Deleting == Head(todo).op # "ADD_POINT"

\* The main thread is done with the subtree at n.
MoveOn(n, goal) ==
  IF n # 1
  THEN /\ at' = IF Deleting /\ Side(n) = 0 THEN Visit(n + 1, goal)
                ELSE [n |-> Father(n), stage |-> "leave"]
       /\ UNCHANGED <<call, todo>>
  ELSE /\ todo' = Tail(todo)
       /\ at' = IF todo' = <<>> THEN Idle ELSE [n |-> 1, stage |-> "enter"]
       /\ call' = IF todo' = <<>> THEN NoCall ELSE call

Returns == call' = NoCall /\ todo' = <<>> /\ at' = Idle

\* Add_Points and Delete_Point_Boxes turn a call into operations on the root.
\* Whether the root is the target is looked at once for all of them.
Begin(ops) ==
  IF ops = <<>> THEN Returns
  ELSE todo' = ops /\ at' = Visit(1, target) /\ UNCHANGED call

\* What Add_Points does with a point whose cell holds the points found.
Downsampled(p, found) ==
  LET closer == {q \in found : OffCentre(q) < OffCentre(p)}
      result == IF closer = {} THEN p
                ELSE CHOOSE q \in closer : \A r \in closer : OffCentre(q) <= OffCentre(r)
      delete == IF found = {} THEN <<>> ELSE <<[op |-> "DOWNSAMPLE_DELETE", arg |-> Cell(p)]>>
  IN IF Cardinality(found) > 1 \/ result = p
     THEN Append(delete, [op |-> "ADD_POINT", arg |-> result]) ELSE <<>>

\* map_incremental adds without downsampling only where the cell is empty.
Start ==
  /\ Alive /\ call = NoCall /\ searching = "no" /\ made < MaxCalls
  /\ 1 \in DOMAIN tree
  /\ made' = made + 1
  /\ \E c \in Calls : /\ c.kind = "add" => \A p \in held : Cell(p) # Cell(c.arg)
                     /\ call' = c
  /\ at' = [n |-> 1, stage |-> "call"]
  /\ UNCHANGED <<tree, target, rebuildFlag, log, lock, counter, threadVars, todo,
                 searching, spoiled>>

AddPoint ==
  /\ call.kind = "add"
  /\ Begin(<<[op |-> "ADD_POINT", arg |-> call.arg]>>)
  /\ UNCHANGED <<tree, log>>

DeletePointBox ==
  /\ call.kind = "delete"
  /\ Begin(<<[op |-> "DELETE_BOX", arg |-> call.arg]>>)
  /\ UNCHANGED <<tree, log>>

InsertPoint ==
  /\ call.kind = "insert"
  /\ LET search == SearchByRange(tree, 1, Cell(call.arg))
     IN /\ PushLocked(tree, search.tree)
        /\ tree' = search.tree
        /\ Begin(Downsampled(call.arg, search.found))

Operate ==
  /\ Alive /\ at.stage = "call"
  /\ AddPoint \/ DeletePointBox \/ InsertPoint
  /\ UNCHANGED <<target, rebuildFlag, lock, counter, threadVars, made,
                 searching, spoiled>>

\* Without the lock in a subtree whose snapshot has been ordered.
Trespass(n) == rebuildFlag /\ target # 0 /\ Within(n, target)

\* Delete_by_range and Add_by_point down to the sons.
EnterNode ==
  LET n == at.n
      op == Head(todo)
      u == Enter(tree, n)
  IN /\ Alive /\ at.stage = "enter"
     /\ \/ /\ n \in DOMAIN tree => Deleting /\ tree[n].tdel
           /\ tree' = IF Deleting THEN tree ELSE AddByPoint(tree, n, op.arg)
           /\ MoveOn(n, target) /\ UNCHANGED log
        \/ /\ n \in DOMAIN tree /\ ~Deleting
           /\ PushLocked(tree, u) /\ tree' = u
           /\ at' = Visit(SideOf(u, n, op.arg), target)
           /\ UNCHANGED <<call, todo>>
        \/ /\ n \in DOMAIN tree /\ Deleting /\ ~tree[n].tdel
           /\ PushLocked(tree, u)
           /\ \/ /\ Disjoint(u[n], op.arg)
                 /\ tree' = u /\ MoveOn(n, target)
              \/ /\ ~Disjoint(u[n], op.arg) /\ Covers(u[n], op.arg)
                 /\ tree' = MarkAll(u, n, op.op = "DOWNSAMPLE_DELETE")
                 /\ MoveOn(n, target)
              \/ /\ ~Disjoint(u[n], op.arg) /\ ~Covers(u[n], op.arg)
                 /\ tree' = DeleteOwn(u, n, op.arg, op.op = "DOWNSAMPLE_DELETE")
                 /\ at' = Visit(2 * n, target)
                 /\ UNCHANGED <<call, todo>>
     /\ spoiled' = (spoiled \/ Trespass(n))
     /\ UNCHANGED <<target, rebuildFlag, lock, counter, threadVars, made, searching>>

\* Rebuild of a node that fails the criterion; the nodes that are freed may hold
\* the pointer to the target.
RebuildInline(u, n, goal) ==
  /\ CriterionCheck(u, n) /\ u[n].size < MultiThreadPoints
  /\ tree' = Graft(u, n, BuildTree(n, Flatten(u, n)))
  /\ target' = goal
  /\ spoiled' = (spoiled \/ Trespass(n) \/ (goal # 0 /\ Within(goal, n)))

RebuildOrdered(u, n, goal) ==
  /\ CriterionCheck(u, n) /\ u[n].size >= MultiThreadPoints
  /\ thread = "idle" /\ (goal = 0 \/ (goal # 0 /\ u[n].size > u[goal].size))
  /\ tree' = Done(u, n) /\ target' = n
  /\ spoiled' = (spoiled \/ Trespass(n))

\* Nothing to do; or the polling thread has the mutex, or a larger subtree waits.
RebuildLater(u, n, goal) ==
  /\ CriterionCheck(u, n) => u[n].size >= MultiThreadPoints
  /\ tree' = Done(u, n) /\ target' = goal
  /\ spoiled' = (spoiled \/ Trespass(n))

\* Delete_by_range and Add_by_point after the sons.
LeaveNode ==
  LET n == at.n
      u == Update(tree, n)
      goal == IF target = n /\ u[n].size < MultiThreadPoints THEN 0 ELSE target
  IN /\ Alive /\ at.stage = "leave"
     /\ RebuildInline(u, n, goal) \/ RebuildOrdered(u, n, goal) \/ RebuildLater(u, n, goal)
     /\ MoveOn(n, target')
     /\ UNCHANGED <<rebuildFlag, log, lock, counter, threadVars, made, searching>>

\* Everything the main thread does to the target, once it has its lock.  At the
\* root all operations of the call are done under it.
LockedOperation ==
  LET n == at.n
      ops == IF n = 1 THEN todo ELSE <<Head(todo)>>
      done[i \in 0 .. Len(ops)] == IF i = 0 THEN tree ELSE RunOperation(done[i - 1], n, ops[i])
  IN /\ Alive /\ at.stage = "locked" /\ lock = "free"
     /\ tree' = done[Len(ops)]
     /\ log' = Logged(ops)
     /\ IF n = 1 THEN Returns ELSE MoveOn(n, target)
     /\ UNCHANGED <<target, rebuildFlag, lock, counter, threadVars, made,
                    searching, spoiled>>

MainStep == Operate \/ EnterNode \/ LeaveNode \/ LockedOperation

\* Nearest_Search: above the target at first, then counted inside it.
PushPath(t, n) == Down(PushDown, t, Path(t, n))

SearchBegins ==
  LET u == PushPath(tree, Father(target))
      reached == target # 0 /\ \A k \in 1 .. 8 : target \div 2^k # 0 => ~u[target \div 2^k].tdel
  IN /\ Alive /\ call = NoCall /\ searching = "no" /\ 1 \in DOMAIN tree
     /\ \/ /\ ~reached
           /\ searching' = "free" /\ UNCHANGED <<tree, log, counter>>
        \/ /\ reached /\ counter # -1
           /\ PushLocked(tree, u) /\ tree' = u
           /\ searching' = "counted" /\ counter' = counter + 1
     /\ UNCHANGED <<target, rebuildFlag, lock, threadVars, mainVars, spoiled>>

SearchEnds ==
  /\ Alive /\ searching # "no"
  /\ \E q \in Queries : tree' = Search(tree, 1, q, {}).tree
  /\ counter' = IF searching = "counted" THEN counter - 1 ELSE counter
  /\ searching' = "no"
  /\ UNCHANGED <<target, rebuildFlag, log, lock, threadVars, mainVars, spoiled>>

-----------------------------------------------------------------------------
(* The rebuild thread (multi_thread_rebuild).                              *)

\* The main thread is among the nodes that the swap takes away.
Inside == \/ at.stage = "leave" /\ Within(at.n, target)
          \/ at.stage \in {"enter", "locked"} /\ at.n # target /\ Within(at.n, target)

ThreadTakes ==
  /\ thread = "idle" /\ target # 0 /\ lock = "free"
  /\ thread' = "snapshot" /\ lock' = "thread" /\ rebuildFlag' = TRUE
  /\ spoiled' = (spoiled \/ log # <<>> \/ Inside)
  /\ UNCHANGED <<tree, target, log, counter, fresh, climb, mainVars, searching>>

\* Mutant: the thread does not wait for the searches.
ThreadLocksSearch_Rushes ==
  /\ thread \in {"snapshot", "swap"}
  /\ counter' = -1
  /\ thread' = IF thread = "snapshot" THEN "flatten" ELSE "graft"
  /\ UNCHANGED <<tree, target, rebuildFlag, log, lock, fresh, climb, mainVars, searching, spoiled>>

\* Wait for the searches inside the target and keep new ones out.
ThreadLocksSearch ==
  /\ thread \in {"snapshot", "swap"} /\ counter = 0
  /\ counter' = -1
  /\ thread' = IF thread = "snapshot" THEN "flatten" ELSE "graft"
  /\ UNCHANGED <<tree, target, rebuildFlag, log, lock, fresh, climb, mainVars, searching, spoiled>>

\* The new subtree is built of the snapshot; an empty one is not built, and
\* neither the log nor the lock is looked at then.
ThreadCopies ==
  /\ thread = "flatten"
  /\ tree' = PushAll(tree, target)
  /\ fresh' = BuildTree(target, Flatten(tree, target))
  /\ counter' = 0 /\ lock' = "free"
  /\ thread' = IF fresh' = <<>> THEN "swap" ELSE "drain"
  /\ spoiled' = (spoiled \/ fresh' = <<>>)
  /\ UNCHANGED <<target, rebuildFlag, log, climb, mainVars, searching>>

\* Mutant: operations are taken out of the log and not run.
ThreadReplays_Drops ==
  /\ thread = "drain" /\ lock = "free" /\ log # <<>>
  /\ log' = Tail(log)
  /\ UNCHANGED <<tree, target, rebuildFlag, lock, counter, thread, fresh, climb, mainVars,
                 searching, spoiled>>

ThreadReplays ==
  /\ thread = "drain" /\ lock = "free" /\ log # <<>>
  /\ fresh' = RunOperation(fresh, target, Head(log))
  /\ log' = Tail(log)
  /\ UNCHANGED <<tree, target, rebuildFlag, lock, counter, thread, climb, mainVars,
                 searching, spoiled>>

ThreadDrained ==
  /\ thread = "drain" /\ lock = "free" /\ log = <<>>
  /\ lock' = "thread" /\ thread' = "swap"
  /\ UNCHANGED <<tree, target, rebuildFlag, log, counter, fresh, climb, mainVars,
                 searching, spoiled>>

ThreadSwaps ==
  /\ thread = "graft"
  /\ \/ /\ ~Inside
        /\ tree' = Graft(tree, target, fresh)
        /\ thread' = "climb" /\ climb' = target
     \/ /\ fresh = <<>> \/ Inside   \* a null or a freed node is read
        /\ thread' = "crashed" /\ UNCHANGED <<tree, climb>>
  /\ UNCHANGED <<target, rebuildFlag, log, lock, counter, fresh, mainVars, searching, spoiled>>

\* The ancestors are updated up to one the main thread is working on or that
\* still has marks to receive.
AtTop ==
  climb # 1 /\ climb \in DOMAIN tree =>
    LET father == Father(climb)
    IN tree[father].busy \/ (father # 1 /\ Side(father) \in tree[Father(father)].push)

ThreadClimbs ==
  /\ thread = "climb" /\ ~AtTop
  /\ tree' = Update(tree, Father(climb)) /\ climb' = Father(climb)
  /\ UNCHANGED <<target, rebuildFlag, log, lock, counter, thread, fresh, mainVars,
                 searching, spoiled>>

\* Mutant: the searches are not let in again.
ThreadReleases_Shut ==
  /\ thread = "climb" /\ AtTop
  /\ target' = 0 /\ lock' = "free"
  /\ thread' = "clear"
  /\ UNCHANGED <<tree, counter, rebuildFlag, log, fresh, climb, mainVars, searching, spoiled>>

ThreadReleases ==
  /\ thread = "climb" /\ AtTop
  /\ counter' = 0 /\ target' = 0 /\ lock' = "free"
  /\ thread' = "clear"
  /\ UNCHANGED <<tree, rebuildFlag, log, fresh, climb, mainVars, searching, spoiled>>

\* rebuild_flag goes down only after the lock is free again.
ThreadClears ==
  /\ thread = "clear"
  /\ rebuildFlag' = FALSE /\ thread' = "idle" /\ fresh' = <<>> /\ climb' = 0
  /\ UNCHANGED <<tree, target, log, lock, counter, mainVars, searching, spoiled>>

ThreadStep ==
  \/ ThreadTakes \/ ThreadLocksSearch \/ ThreadCopies \/ ThreadReplays \/ ThreadDrained
  \/ ThreadSwaps \/ ThreadClimbs \/ ThreadReleases \/ ThreadClears

Next ==
  /\ Start \/ MainStep \/ SearchBegins \/ SearchEnds \/ ThreadStep
  /\ held' = IF call' = NoCall THEN Visible(tree', 1) ELSE held

\* Weak fairness of both threads and of a search, with the enabling conditions
\* written out; a main thread that finds the lock taken may wait.  The rebuild
\* thread polls for a moment without searches, and between two scans there are
\* none: that step is strongly fair.
MainCan == Alive /\ at # Idle /\ lock = "free"
SearchCan == Alive /\ searching # "no"
ThreadCan ==
  \/ thread = "idle" /\ target # 0 /\ lock = "free"
  \/ thread = "drain" /\ lock = "free"
  \/ thread \in {"flatten", "graft", "climb", "clear"}

Spec == /\ Init /\ [][Next]_vars
        /\ []<>~MainCan \/ []<><<MainStep>>_program
        /\ []<>~SearchCan \/ []<><<SearchEnds>>_program
        /\ <>[](counter # 0 \/ thread \notin {"snapshot", "swap"})
             \/ []<><<ThreadLocksSearch>>_program
        /\ []<>~ThreadCan \/ []<><<ThreadStep>>_program
-----------------------------------------------------------------------------
(* What the tree guarantees.                                               *)

Nodes == DOMAIN tree
Quiet == call = NoCall /\ at = Idle

\* Every variable keeps its type, the protocol variables fit together, and the
\* target stays a node of the tree large enough for the other thread.
RebuildTypeOK ==
  /\ \A n \in Nodes : n = 1 \/ Father(n) \in Nodes
  /\ \A n \in Nodes : tree[n].size \in Nat /\ tree[n].inv \in 0 .. tree[n].size
                      /\ tree[n].push \subseteq {0, 1}
  /\ rebuildFlag \in BOOLEAN /\ spoiled \in BOOLEAN
  /\ lock \in {"free", "thread"} /\ counter \in -1 .. 1
  /\ thread \in {"idle", "snapshot", "flatten", "drain", "swap", "graft", "climb",
                 "clear", "crashed"}
  /\ searching \in {"no", "free", "counted"}
  /\ at.stage \in {"idle", "call", "enter", "locked", "leave"}
  /\ made \in 0 .. MaxCalls
  /\ ~spoiled => /\ thread # "crashed"
                 /\ thread \notin {"idle", "clear"} => target \in Nodes
                 /\ thread = "idle" /\ target # 0 => tree[target].size >= MultiThreadPoints

\* A search never sees nodes that the rebuild thread is flattening or swapping:
\* the counter keeps them apart although nothing is locked while either works.
SearchExcludesRebuild ==
  /\ counter = -1 <=> thread \in {"flatten", "graft", "climb", "crashed"}
  /\ searching = "counted" => thread \notin {"flatten", "graft", "climb"}

\* The new subtree is swapped in only when nothing that the main thread did to the
\* old one is left to replay, and nothing more can be done to it meanwhile.
SwapMissesNothing ==
  ~spoiled /\ thread \in {"swap", "graft", "climb"} => log = <<>> /\ lock = "thread"

\* The thread works on one subtree, from taking it to letting it go:
\* rebuild_ptr_mutex_lock keeps orders out, and an inline rebuild of the subtree
\* or of one above it leaves the protocol.
TargetStays ==
  [][thread # "idle" /\ target' # target
       => spoiled' \/ (thread = "climb" /\ thread' = "clear")]_vars

\* Marks that have not been pushed down, ranges that shrink with deletions and
\* updates that stop half-way notwithstanding: a search from the root finds the
\* nearest point the tree holds, a search of a cell all of them, and no point is
\* held twice.
SearchesFindAll ==
  Quiet /\ ~spoiled /\ Nodes # {} =>
    /\ NoTwins(tree, 1)
    /\ \A q \in Queries :
         LET points == Visible(tree, 1)
             best == Search(tree, 1, q, {}).best
         IN /\ points = {} <=> best = {}
            /\ \A p \in best : p \in points /\ \A r \in points : Distance(p, q) <= Distance(r, q)
            /\ SearchByRange(tree, 1, Cell(q)).found = {p \in points : InBox(p, Cell(q))}

Map == INSTANCE PointMap WITH
  points <- held,
  CellOf <- LAMBDA p : Cell(p).min

\* Whatever is rebuilt, inline or by the thread, the map changes only by calls
\* and as PointMap says.
ImplementsPointMap ==
  Map!MapInit /\ [][spoiled' \/ Map!MapNext]_<<held, call>>

\* Every rebuild that has been ordered comes to an end.
EveryRebuildEnds == target # 0 ~> target = 0 \/ ~Alive

\* "Rebuild and update missed operations": a subtree that has been built and is
\* swapped in holds the points of the one it replaces.
RebuildKeepsPoints ==
  [][thread = "graft" /\ thread' = "climb" /\ fresh # <<>>
       => Visible(tree', 1) = Visible(tree, 1)]_vars
=============================================================================
