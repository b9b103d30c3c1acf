-------------------------- MODULE IkdRebuildProofs --------------------------
(***************************************************************************)
(* Proofs about IkdRebuild for any points, calls and thresholds: searches  *)
(* and the rebuild thread keep out of each other's way, a subtree is       *)
(* swapped in with nothing left to replay, and the thread works on the     *)
(* subtree it has taken.  All three rest on how the two threads pass       *)
(* search_mutex_counter, working_flag_mutex and rebuild_flag to each       *)
(* other, which RebuildInv puts together; what the tree holds plays no     *)
(* part in it.                                                             *)
(***************************************************************************)
EXTENDS IkdRebuild, TLAPS

Stages == {"idle", "call", "enter", "locked", "leave"}
Phases == {"idle", "snapshot", "flatten", "drain", "swap", "graft", "climb", "clear", "crashed"}

\* Where nobody may search inside the target.
Sealed == {"flatten", "graft", "climb", "crashed"}

Typed ==
  /\ at \in [n : Nat, stage : Stages]
  /\ thread \in Phases
  /\ searching \in {"no", "free", "counted"}
  /\ counter \in -1 .. 1

\* A search is in the counter, or the thread, or neither.
CounterTells ==
  /\ counter = -1 <=> thread \in Sealed
  /\ counter = 1 <=> searching = "counted"

\* The lock is the thread's while it copies, and from the last replay to the
\* release; operations are logged from the order to the very end.
LockTells ==
  /\ thread \in {"snapshot", "flatten"} => lock = "thread"
  /\ SwapMissesNothing
  /\ rebuildFlag <=> thread # "idle"

RebuildInv == Typed /\ CounterTells /\ LockTells

-----------------------------------------------------------------------------
(* Where the main thread goes.                                             *)

LEMMA VisitType ==
  ASSUME NEW n \in Nat, NEW goal
  PROVE  Visit(n, goal) \in [n : Nat, stage : Stages]
  BY DEF Visit, Stages

LEMMA SonsType ==
  ASSUME NEW n \in Nat, NEW t, NEW p
  PROVE  SideOf(t, n, p) \in Nat /\ 2 * n \in Nat
  BY DEF SideOf

\* MoveOn and Begin lead to a node, or out of the call.
LEMMA MoveOnType ==
  ASSUME NEW n \in Nat, NEW goal, MoveOn(n, goal)
  PROVE  at' \in [n : Nat, stage : Stages]
  <1>1. Father(n) \in Nat
    BY DEF Father
  <1>2. Visit(n + 1, goal) \in [n : Nat, stage : Stages]
    BY VisitType
  <1> QED
    BY <1>1, <1>2 DEF MoveOn, Idle, Stages

LEMMA BeginType ==
  ASSUME NEW ops, Begin(ops)
  PROVE  at' \in [n : Nat, stage : Stages]
  <1>1. Visit(1, target) \in [n : Nat, stage : Stages]
    BY VisitType
  <1> QED
    BY <1>1 DEF Begin, Returns, Idle, Stages

-----------------------------------------------------------------------------
(* The steps.                                                              *)

\* What no step but those of the thread and of a search touches.
Aside == <<thread, searching, counter, rebuildFlag, lock>>

\* Pushing marks writes the log only with the lock free.
LEMMA PushKeeps ==
  ASSUME NEW t, NEW u, RebuildInv, PushLocked(t, u)
  PROVE  log' = log \/ lock = "free"
  BY DEF PushLocked

LEMMA AsideKeeps ==
  ASSUME RebuildInv, UNCHANGED Aside, log' = log \/ lock = "free",
         spoiled => spoiled', at' \in [n : Nat, stage : Stages]
  PROVE  RebuildInv'
  BY DEF RebuildInv, Typed, CounterTells, LockTells, SwapMissesNothing, Aside

LEMMA OperateStep ==
  ASSUME RebuildInv, Operate
  PROVE  RebuildInv'
  <1>1. at' \in [n : Nat, stage : Stages]
    BY BeginType DEF Operate, AddPoint, DeletePointBox, InsertPoint
  <1>2. log' = log \/ lock = "free"
    <2>1. CASE InsertPoint
      <3> DEFINE search == SearchByRange(tree, 1, Cell(call.arg))
      <3>1. PushLocked(tree, search.tree)
        BY <2>1 DEF InsertPoint
      <3> QED
        BY <3>1, PushKeeps
    <2>2. CASE AddPoint \/ DeletePointBox
      BY <2>2 DEF AddPoint, DeletePointBox
    <2> QED
      BY <2>1, <2>2 DEF Operate
  <1> QED
    BY <1>1, <1>2, AsideKeeps DEF Operate, Aside, threadVars

LEMMA EnterStep ==
  ASSUME RebuildInv, EnterNode
  PROVE  RebuildInv'
  <1> DEFINE n == at.n
             u == Enter(tree, n)
  <1>1. n \in Nat
    BY DEF RebuildInv, Typed
  <1>2. at' \in [n : Nat, stage : Stages]
    <2>1. CASE MoveOn(n, target)
      BY <2>1, <1>1, MoveOnType
    <2>2. CASE \E p : at' = Visit(SideOf(u, n, p), target)
      BY <2>2, <1>1, SonsType, VisitType
    <2>3. CASE at' = Visit(2 * n, target)
      BY <2>3, <1>1, SonsType, VisitType
    <2> QED
      BY <2>1, <2>2, <2>3 DEF EnterNode
  <1>3. log' = log \/ lock = "free"
    BY PushKeeps DEF EnterNode
  <1>4. UNCHANGED Aside /\ (spoiled => spoiled')
    BY DEF EnterNode, Aside, threadVars
  <1> QED
    BY <1>2, <1>3, <1>4, AsideKeeps

LEMMA LeaveStep ==
  ASSUME RebuildInv, LeaveNode
  PROVE  RebuildInv'
  <1> DEFINE n == at.n
  <1>1. n \in Nat
    BY DEF RebuildInv, Typed
  <1>2. at' \in [n : Nat, stage : Stages]
    BY <1>1, MoveOnType DEF LeaveNode
  <1>3. UNCHANGED Aside /\ log' = log /\ (spoiled => spoiled')
    BY DEF LeaveNode, RebuildInline, RebuildOrdered, RebuildLater, Aside, threadVars
  <1> QED
    BY <1>2, <1>3, AsideKeeps

LEMMA LockedStep ==
  ASSUME RebuildInv, LockedOperation
  PROVE  RebuildInv'
  <1> DEFINE n == at.n
  <1>1. n \in Nat
    BY DEF RebuildInv, Typed
  <1>2. at' \in [n : Nat, stage : Stages]
    <2>1. CASE Returns
      BY <2>1 DEF Returns, Idle, Stages
    <2>2. CASE MoveOn(n, target)
      BY <2>2, <1>1, MoveOnType
    <2> QED
      BY <2>1, <2>2 DEF LockedOperation
  <1>3. UNCHANGED Aside /\ lock = "free" /\ spoiled' = spoiled
    BY DEF LockedOperation, Aside, threadVars
  <1> QED
    BY <1>2, <1>3, AsideKeeps

LEMMA StartStep ==
  ASSUME RebuildInv, Start
  PROVE  RebuildInv'
  <1>1. at' \in [n : Nat, stage : Stages]
    BY DEF Start, Stages
  <1>2. UNCHANGED Aside /\ log' = log /\ spoiled' = spoiled
    BY DEF Start, Aside, threadVars
  <1> QED
    BY <1>1, <1>2, AsideKeeps

\* A search joins the counter only where the thread has not sealed the target.
LEMMA SearchStep ==
  ASSUME RebuildInv, SearchBegins \/ SearchEnds
  PROVE  RebuildInv'
  <1>1. /\ UNCHANGED <<at, thread, rebuildFlag, lock, spoiled>>
        /\ log' = log \/ lock = "free"
    BY PushKeeps DEF SearchBegins, SearchEnds, threadVars, mainVars
  <1>2. /\ searching' \in {"no", "free", "counted"}
        /\ counter' \in -1 .. 1
        /\ counter' = -1 <=> counter = -1
        /\ counter' = 1 <=> searching' = "counted"
    <2>1. CASE SearchBegins
      BY <2>1 DEF SearchBegins, RebuildInv, Typed, CounterTells
    <2>2. CASE SearchEnds
      BY <2>2 DEF SearchEnds, RebuildInv, Typed, CounterTells
    <2> QED
      BY <2>1, <2>2
  <1> QED
    BY <1>1, <1>2 DEF RebuildInv, Typed, CounterTells, LockTells, SwapMissesNothing

LEMMA ThreadKeeps ==
  ASSUME RebuildInv, ThreadStep
  PROVE  RebuildInv'
  <1> USE DEF RebuildInv, Typed, CounterTells, LockTells, SwapMissesNothing, Phases, Sealed, mainVars
  <1>1. CASE ThreadTakes
    BY <1>1 DEF ThreadTakes
  <1>2. CASE ThreadLocksSearch
    BY <1>2 DEF ThreadLocksSearch
  <1>3. CASE ThreadCopies
    <2>1. /\ thread = "flatten" /\ counter' = 0 /\ lock' = "free"
          /\ thread' = "drain" \/ (thread' = "swap" /\ spoiled')
          /\ UNCHANGED <<at, rebuildFlag, searching>>
      BY <1>3 DEF ThreadCopies
    <2> QED
      BY <2>1
  <1>4. CASE ThreadReplays
    BY <1>4 DEF ThreadReplays
  <1>5. CASE ThreadDrained
    BY <1>5 DEF ThreadDrained
  <1>6. CASE ThreadSwaps
    BY <1>6 DEF ThreadSwaps
  <1>7. CASE ThreadClimbs
    BY <1>7 DEF ThreadClimbs
  <1>8. CASE ThreadReleases
    BY <1>8 DEF ThreadReleases
  <1>9. CASE ThreadClears
    BY <1>9 DEF ThreadClears
  <1> QED
    BY <1>1, <1>2, <1>3, <1>4, <1>5, <1>6, <1>7, <1>8, <1>9 DEF ThreadStep

-----------------------------------------------------------------------------
(* The results.                                                            *)

\* Nothing is being rebuilt and nobody searches after Build.
LEMMA RebuildStart == Init => RebuildInv
  BY DEF Init, Idle, RebuildInv, Typed, CounterTells, LockTells, SwapMissesNothing, Stages,
         Phases, Sealed

LEMMA RebuildStep == RebuildInv /\ [Next]_vars => RebuildInv'
  <1> SUFFICES ASSUME RebuildInv, [Next]_vars PROVE RebuildInv'
    OBVIOUS
  <1>1. CASE UNCHANGED vars
    BY <1>1 DEF vars, program, threadVars, mainVars, RebuildInv, Typed, CounterTells, LockTells,
                SwapMissesNothing
  <1>2. CASE Next
    BY <1>2, StartStep, OperateStep, EnterStep, LeaveStep, LockedStep, SearchStep, ThreadKeeps
       DEF Next, MainStep
  <1> QED
    BY <1>1, <1>2

\* What the two threads tell each other through the counter, the lock and the
\* flag is true: the inductive invariant.
THEOREM ThreadsAgree == Spec => []RebuildInv
  <1> QED
    BY RebuildStart, RebuildStep, PTL DEF Spec

\* No search runs inside the target while the rebuild thread flattens or swaps it,
\* and the counter says which of the two is there (search_flag_mutex and
\* search_mutex_counter in Search and multi_thread_rebuild).
THEOREM SearchAlwaysExcludesRebuild == Spec => []SearchExcludesRebuild
  <1>1. RebuildInv => SearchExcludesRebuild
    BY DEF RebuildInv, Typed, CounterTells, Sealed, SearchExcludesRebuild
  <1> QED
    BY <1>1, ThreadsAgree, PTL

\* As long as the protocol is kept, the log is empty and the lock the thread's
\* from the last replay until the new subtree is in and its ancestors updated.
THEOREM SwapNeverMisses == Spec => []SwapMissesNothing
  <1>1. RebuildInv => SwapMissesNothing
    BY DEF RebuildInv, LockTells
  <1> QED
    BY <1>1, ThreadsAgree, PTL

\* The main thread clears the target, if it does, only where it has trespassed.
LEMMA LeaveKeepsTarget ==
  ASSUME RebuildInv, LeaveNode, thread # "idle", target' # target
  PROVE  spoiled'
  <1> DEFINE n == at.n
             u == Update(tree, n)
             goal == IF target = n /\ u[n].size < MultiThreadPoints THEN 0 ELSE target
  <1>1. n \in Nat /\ rebuildFlag
    BY DEF RebuildInv, Typed, LockTells
  <1>2. /\ target' = goal
        /\ \/ spoiled' = (spoiled \/ Trespass(n))
           \/ spoiled' = (spoiled \/ Trespass(n) \/ (goal # 0 /\ Within(goal, n)))
    BY DEF LeaveNode, RebuildInline, RebuildOrdered, RebuildLater
  <1>3. target = n /\ target # 0
    BY <1>2
  <1>4. Within(n, n)
    BY <1>1 DEF Within
  <1> QED
    BY <1>1, <1>2, <1>3, <1>4 DEF Trespass

\* From taking a subtree to letting it go the thread works on that one, as long
\* as the protocol is kept (rebuild_ptr_mutex_lock and Rebuild_Ptr).
THEOREM TargetAlwaysStays == Spec => TargetStays
  <1>1. ASSUME RebuildInv, [Next]_vars, thread # "idle", target' # target
        PROVE  spoiled' \/ (thread = "climb" /\ thread' = "clear")
    <2>1. CASE LeaveNode
      BY <1>1, <2>1, LeaveKeepsTarget
    <2>2. CASE ThreadReleases
      BY <2>2 DEF ThreadReleases
    <2> QED
      BY <1>1, <2>1, <2>2
         DEF vars, program, Next, MainStep, Start, Operate, EnterNode, LockedOperation,
             SearchBegins, SearchEnds, ThreadStep, ThreadTakes, ThreadLocksSearch, ThreadCopies,
             ThreadReplays, ThreadDrained, ThreadSwaps, ThreadClimbs, ThreadClears
  <1>2. RebuildInv /\ [Next]_vars
          => (thread # "idle" /\ target' # target
                => spoiled' \/ (thread = "climb" /\ thread' = "clear"))
    BY <1>1
  <1> QED
    BY <1>2, ThreadsAgree, PTL DEF Spec, TargetStays
=============================================================================
