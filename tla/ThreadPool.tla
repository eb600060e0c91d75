----------------------------- MODULE ThreadPool -----------------------------
(***************************************************************************)
(* for_mt: a loop whose iterations are shared by the calling thread and    *)
(* the workers of the pool (rts/System/Threading/ThreadPool.{h,cpp}).      *)
(*                                                                         *)
(* The caller takes a task group from the ring of its call site, fills it, *)
(* stores it in the queue of every worker, runs iterations itself, and     *)
(* waits until the group's count of remaining iterations is zero. While it *)
(* waits it runs whatever is in its own queue. A worker takes groups out   *)
(* of its queue whenever it gets round to it, possibly long after the loop *)
(* has ended. A body may itself contain a for_mt.                          *)
(*                                                                         *)
(* A thread is a stack of frames, because for_mt, WaitForFinished, DoTask  *)
(* and ExecuteLoop call each other on it. The atomic operations are steps  *)
(* of their own; memory is sequentially consistent.                        *)
(***************************************************************************)
EXTENDS Integers, Sequences, FiniteSets, SequencesExt, Bags

CONSTANTS
    NumWorkers,  \* workerThreads[false].size(); thread 0 is the main thread
    Sites,       \* the places in the program that call for_mt: one type F, so
                 \* one static TaskPool, each
    NoSite,
    Program,     \* the loops the main thread runs, a sequence of sites
    To, Step,    \* the bounds of a site's loop: for (i = 0; i < To; i += Step)
    Body,        \* the site of the for_mt in a site's body, or NoSite
    PoolSize     \* length of the ring tgPool of a site (256)

\* A pool without workers runs every loop in its caller and is not modelled.
ASSUME PoolAssumption ==
    /\ NumWorkers \in Nat \ {0} /\ PoolSize \in Nat \ {0}
    /\ Program \in Seq(Sites) /\ NoSite \notin Sites
    /\ To \in [Sites -> Nat] /\ Step \in [Sites -> Nat \ {0}]
    /\ Body \in [Sites -> Sites \cup {NoSite}]

VARIABLES
    group,     \* the task groups of all rings
    pos,       \* pos[s]: how many groups the pool of site s has handed out
    queue,     \* queue[w][g]: how often taskQueues[false][w] holds group g
    stack,     \* stack[t]: the frames of thread t, innermost last
    calls,     \* number of loops the main thread has begun
    begun,     \* the calls of for_mt begun, as pairs of an identity and a site
    ran,       \* a bag of pairs <<c, i>>: iteration i of call c has been executed
    returned   \* the calls that have returned

vars == <<group, pos, queue, stack, calls, begun, ran, returned>>

Workers == 1..NumWorkers
Threads == 0..NumWorkers
Groups == Sites \X (0..(PoolSize - 1))

\* The iterations a loop consists of.
Iterations(s) == {i \in 0..(To[s] - 1) : i % Step[s] = 0}

BugTaskCount(s) == To[s] \div Step[s]

\* The number of iterations that Enqueue computes from the bounds.
TaskCount(s) == IF Step[s] = 1 THEN To[s] ELSE (To[s] + Step[s] - 1) \div Step[s]

\* Frames: the innermost one of a thread, and operations on it. The identity of a
\* call is the path of iterations that leads to it.
Top(t) == Last(stack[t])
Idle(t) == stack[t] = <<>>
At(t, op, pc) == ~Idle(t) /\ Top(t).op = op /\ Top(t).pc = pc

Push(t, frame) == stack' = [stack EXCEPT ![t] = Append(@, frame)]
Pop(t) == stack' = [stack EXCEPT ![t] = Front(@)]
Goto(t, pc) == stack' = [stack EXCEPT ![t][Len(stack[t])].pc = pc]

Init ==
    /\ group = [g \in Groups |-> [remaining |-> 0, ctr |-> 0, call |-> <<>>,
                                  inQueue |-> FALSE, inUse |-> FALSE]]
    /\ pos = [s \in Sites |-> 0]
    /\ queue = [w \in Workers |-> [g \in Groups |-> 0]]
    /\ stack = [t \in Threads |-> <<>>]
    /\ calls = 0
    /\ begun = {} /\ ran = EmptyBag /\ returned = {}
-----------------------------------------------------------------------------
(* for_mt and Enqueue *)

\* A loop shorter than its step is run by its caller.
Serial(s) == To[s] < Step[s]

NextGroup(s) == <<s, pos[s] % PoolSize>>

\* Thread t, with frames st, calls for_mt: a frame is pushed, and unless the
\* loop is serial GetTaskGroup takes the next group of the ring and resets it.
ForMt(t, st, c, s) ==
    /\ begun' = begun \cup {<<c, s>>}
    /\ \/ /\ Serial(s)
          /\ stack' = [stack EXCEPT ![t] = Append(st,
                [op |-> "serial", pc |-> "step", group |-> <<s, 0>>, call |-> c, i |-> 0])]
          /\ UNCHANGED <<group, pos>>
       \/ /\ ~Serial(s)
          /\ pos' = [pos EXCEPT ![s] = @ + 1]
          /\ group' = [group EXCEPT ![NextGroup(s)] =
                [@ EXCEPT !.remaining = 0, !.inQueue = TRUE, !.inUse = TRUE]]
          /\ stack' = [stack EXCEPT ![t] = Append(st,
                [op |-> "for", pc |-> "remaining", group |-> NextGroup(s), call |-> c, i |-> 1])]

\* The main thread runs its loops one after the other.
MainCalls ==
    /\ Idle(0) /\ calls < Len(Program)
    /\ calls' = calls + 1
    /\ ForMt(0, <<>>, <<calls + 1>>, Program[calls + 1])
    /\ UNCHANGED <<queue, ran, returned>>

\* Enqueue, one store after the other. A worker that still holds the group from
\* an earlier loop may step in between.
StoreRemaining(t) ==
    /\ At(t, "for", "remaining")
    /\ group' = [group EXCEPT ![Top(t).group].remaining = TaskCount(Top(t).group[1])]
    /\ Goto(t, "ctr")
    /\ UNCHANGED <<pos, queue, calls, begun, ran, returned>>

StoreCounter(t) ==
    /\ At(t, "for", "ctr")
    /\ group' = [group EXCEPT ![Top(t).group].ctr = 0]
    /\ Goto(t, "func")
    /\ UNCHANGED <<pos, queue, calls, begun, ran, returned>>

BugStoreFunc(t) ==
    /\ At(t, "for", "func")
    /\ Goto(t, "push")
    /\ UNCHANGED <<group, pos, queue, calls, begun, ran, returned>>

\* from, to, step and func. The bounds are constants of the site here, so of the
\* description of an earlier loop only func can be found in a group.
StoreFunc(t) ==
    /\ At(t, "for", "func")
    /\ group' = [group EXCEPT ![Top(t).group].call = Top(t).call]
    /\ Goto(t, "push")
    /\ UNCHANGED <<pos, queue, calls, begun, ran, returned>>

\* The frame of ExecuteLoop on group g.
ExecuteLoop(g) == [op |-> "exec", pc |-> "step", group |-> g, call |-> <<>>, i |-> 0]

\* PushTaskGroup for worker i, for all workers in turn; after the last one
\* WaitForFinished begins with an ExecuteLoop of the caller's own.
PushTaskGroup(t) ==
    LET f == Top(t) IN
    /\ At(t, "for", "push")
    /\ queue' = [queue EXCEPT ![f.i][f.group] = @ + 1]
    /\ IF f.i < NumWorkers
       THEN stack' = [stack EXCEPT ![t] = Append(Front(@), [f EXCEPT !.i = @ + 1])]
       ELSE stack' = [stack EXCEPT ![t] =
                        Append(Front(@), [f EXCEPT !.pc = "loop"]) \o <<ExecuteLoop(f.group)>>]
    /\ UNCHANGED <<group, pos, calls, begun, ran, returned>>
-----------------------------------------------------------------------------
(* ExecuteLoop *)

\* The flag wffCall: ExecuteLoop was called by WaitForFinished itself.
WffCall(t) ==
    Len(stack[t]) > 1 /\ LET f == stack[t][Len(stack[t]) - 1]
                         IN  f.op = "for" /\ f.pc = "loop"

\* ExecuteStep takes the next iteration, if there is one.
TakeIteration(t) ==
    LET g == Top(t).group
        i == Step[g[1]] * group[g].ctr IN
    /\ At(t, "exec", "step")
    /\ i < To[g[1]]
    /\ group' = [group EXCEPT ![g].ctr = @ + 1]
    /\ stack' = [stack EXCEPT ![t] = Append(Front(@), [Top(t) EXCEPT !.pc = "body", !.i = i])]
    /\ UNCHANGED <<pos, queue, calls, begun, ran, returned>>

BugLeaveLoop(t) ==
    LET g == Top(t).group IN
    /\ At(t, "exec", "step")
    /\ Step[g[1]] * group[g].ctr >= To[g[1]]
    /\ group' = [group EXCEPT ![g].ctr = @ + 1]
    /\ Pop(t)
    /\ UNCHANGED <<pos, queue, calls, begun, ran, returned>>

\* There is none: the loop ends. Only WaitForFinished's own loop clears the flag
\* inTaskQueue of a group like these.
LeaveLoop(t) ==
    LET g == Top(t).group IN
    /\ At(t, "exec", "step")
    /\ Step[g[1]] * group[g].ctr >= To[g[1]]
    /\ group' = [group EXCEPT ![g].ctr = @ + 1, ![g].inQueue = @ /\ ~WffCall(t)]
    /\ Pop(t)
    /\ UNCHANGED <<pos, queue, calls, begun, ran, returned>>

\* func(i), where func is read from the group when it is called. A body without
\* a loop is one step.
RunBody(t) ==
    LET g == Top(t).group
        c == IF Top(t).op = "exec" THEN group[g].call ELSE Top(t).call
        after == Append(Front(stack[t]), [Top(t) EXCEPT !.call = c, !.pc = "done"]) IN
    /\ At(t, "exec", "body") \/ At(t, "serial", "body")
    /\ IF Body[g[1]] = NoSite
       THEN /\ stack' = [stack EXCEPT ![t] = after]
            /\ ran' = ran (+) SetToBag({<<c, Top(t).i>>})
            /\ UNCHANGED <<group, pos, begun>>
       ELSE /\ ForMt(t, [after EXCEPT ![Len(after)].pc = "nested"],
                     Append(c, Top(t).i), Body[g[1]])
            /\ UNCHANGED ran
    /\ UNCHANGED <<queue, calls, returned>>

\* The loop in the body has returned, and with it the body.
NestedDone(t) ==
    /\ At(t, "exec", "nested") \/ At(t, "serial", "nested")
    /\ ran' = ran (+) SetToBag({<<Top(t).call, Top(t).i>>})
    /\ Goto(t, "done")
    /\ UNCHANGED <<group, pos, queue, calls, begun, returned>>

\* remainingTasks -= 1.
CountIteration(t) ==
    /\ At(t, "exec", "done")
    /\ group' = [group EXCEPT ![Top(t).group].remaining = @ - 1]
    /\ Goto(t, "step")
    /\ UNCHANGED <<pos, queue, calls, begun, ran, returned>>

\* The for loop of a serial for_mt.
SerialStep(t) ==
    LET f == Top(t) IN
    /\ \/ /\ At(t, "serial", "step") /\ f.i < To[f.group[1]]
          /\ Goto(t, "body")
          /\ UNCHANGED returned
       \/ /\ At(t, "serial", "step") /\ f.i >= To[f.group[1]]
          /\ Pop(t)
          /\ returned' = returned \cup {f.call}
       \/ /\ At(t, "serial", "done")
          /\ stack' = [stack EXCEPT ![t] =
                Append(Front(@), [f EXCEPT !.pc = "step", !.i = @ + Step[f.group[1]]])]
          /\ UNCHANGED returned
    /\ UNCHANGED <<group, pos, queue, calls, begun, ran>>
-----------------------------------------------------------------------------
(* WaitForFinished and DoTask *)

\* What thread t finds in its own queue. Thread 0 looks into the global queue
\* only, where for_mt puts nothing.
Waiting(t) == {g \in Groups : t \in Workers /\ queue[t][g] > 0}

BugFinished(g) == ~group[g].inQueue

\* Whether the caller has not to wait for its group any longer.
Finished(g) == group[g].remaining = 0 /\ ~group[g].inQueue

\* ResetState, and for_mt returns.
Return(t) ==
    LET f == Top(t) IN
    /\ At(t, "for", "loop") /\ Finished(f.group)
    /\ group' = [group EXCEPT ![f.group] =
          [@ EXCEPT !.remaining = 0, !.inQueue = FALSE, !.inUse = FALSE]]
    /\ returned' = returned \cup {f.call}
    /\ Pop(t)
    /\ UNCHANGED <<pos, queue, calls, begun, ran>>

\* The group is not finished: the caller turns to other work. When it gets to the
\* queue the group may have been finished, and it takes a task all the same. The main
\* thread never finds one, and its looking in vain is left out.
Wait(t) ==
    /\ At(t, "for", "loop") /\ ~Finished(Top(t).group) /\ t \in Workers
    /\ Goto(t, "help")
    /\ UNCHANGED <<group, pos, queue, calls, begun, ran, returned>>

\* DoTask takes a group out of the queue: called by an idle worker or by a thread
\* that waits. The queue keeps no order between groups of different threads.
DoTask(t) ==
    /\ Idle(t) \/ At(t, "for", "help")
    /\ \E g \in Waiting(t) :
          /\ queue' = [queue EXCEPT ![t][g] = @ - 1]
          /\ Push(t, ExecuteLoop(g))
    /\ UNCHANGED <<group, pos, calls, begun, ran, returned>>

\* The queue is empty: a waiting thread looks at its group again.
DoneTasks(t) ==
    /\ At(t, "for", "help") /\ Waiting(t) = {}
    /\ Goto(t, "loop")
    /\ UNCHANGED <<group, pos, queue, calls, begun, ran, returned>>
-----------------------------------------------------------------------------
ThreadStep(t) ==
    \/ StoreRemaining(t) \/ StoreCounter(t) \/ StoreFunc(t) \/ PushTaskGroup(t)
    \/ TakeIteration(t) \/ LeaveLoop(t) \/ RunBody(t) \/ NestedDone(t)
    \/ CountIteration(t) \/ SerialStep(t)
    \/ Return(t) \/ Wait(t) \/ DoTask(t) \/ DoneTasks(t)

Next == MainCalls \/ \E t \in Threads : ThreadStep(t)

\* The operating system lets every thread run.
Fairness == WF_vars(MainCalls) /\ \A t \in Threads : WF_vars(ThreadStep(t))

Spec == Init /\ [][Next]_vars /\ Fairness
-----------------------------------------------------------------------------
Frames(t) == {stack[t][k] : k \in 1..Len(stack[t])}
AllFrames == UNION {Frames(t) : t \in Threads}
CallIds == {b[1] : b \in begun}

TypeOK ==
    /\ \A g \in Groups : group[g] \in
          [remaining : Int, ctr : Nat, call : Seq(Nat), inQueue : BOOLEAN, inUse : BOOLEAN]
    /\ pos \in [Sites -> Nat]
    /\ queue \in [Workers -> [Groups -> Nat]]
    /\ \A f \in AllFrames :
          /\ f.op \in {"for", "exec", "serial"} /\ f.group \in Groups /\ f.i \in Nat
          /\ f.pc \in {"remaining", "ctr", "func", "push", "loop", "help",
                       "step", "body", "nested", "done"}
    /\ calls \in 0..Len(Program)
    /\ returned \subseteq CallIds
    /\ \A r \in BagToSet(ran) : r \in CallIds \X Nat

\* remainingTasks is what WaitForFinished believes: from the moment the group is
\* filled it is the number of iterations whose bodies have not been executed and
\* counted. With it at zero the caller returns and the variables its body refers to
\* disappear, so it must never be too small, and never too large for ever.
RemainingExact ==
    \A f \in AllFrames : f.op = "for" /\ f.pc \in {"push", "loop", "help"} =>
        LET s == f.group[1]
            executed == {i \in Iterations(s) : <<f.call, i>> \in BagToSet(ran)}
            uncounted == {t \in Threads : \E h \in Frames(t) :
                             h.op = "exec" /\ h.pc = "done" /\ h.call = f.call}
        IN  group[f.group].remaining =
                Cardinality(Iterations(s)) - Cardinality(executed) + Cardinality(uncounted)

\* Some worker's queue holds group g, or a thread is in its ExecuteLoop.
Held(g) ==
    \/ \E w \in Workers : queue[w][g] > 0
    \/ \E f \in AllFrames : f.op = "exec" /\ f.group = g

\* for_mt returns while workers still have its group in their queues or in ExecuteLoop,
\* and the variables its body refers to are gone then. Whoever has the group of a loop
\* that has returned finds no iteration in it any more, and is not in the middle of one,
\* nor about to count one in a group that ResetState has been applied to (ExecuteStep,
\* WaitForFinished).
NothingLeftBehind ==
    \A g \in Groups : Held(g) /\ group[g].call \in returned =>
        /\ Step[g[1]] * group[g].ctr >= To[g[1]]
        /\ \A f \in AllFrames : f.op = "exec" /\ f.group = g => f.pc = "step"

\* Every iteration of a loop that has returned was executed exactly once, whatever
\* thread did it, as testThreadPool.cpp counts.
EachIterationOnce ==
    \A b \in begun : b[1] \in returned =>
        \A i \in Iterations(b[2]) : BagIn(<<b[1], i>>, ran) /\ ran[<<b[1], i>>] = 1

\* for_mt implements a parallel loop: iterations are executed once each, between the
\* call and the return, and the call returns after the last.
Abstract == INSTANCE ParallelFor
ImplementsParallelFor == Abstract!Spec

\* Every loop that is begun returns, nested ones too: threads that wait for each
\* other's iterations do not wait for ever, although a waiting thread may bury the
\* iteration that somebody else waits for under other work.
EveryCallReturns == <>(calls = Len(Program) /\ returned = CallIds)

\* What GetTaskGroup asserts of the group it hands out, taken at its word: it is nobody's
\* any more. "Not in a job queue" is what the code does not see to when a ring comes round.
Free(g) ==
    /\ \A f \in AllFrames : f.group = g => f.op = "serial"
    /\ \A w \in Workers : queue[w][g] = 0

GivesFreeGroups == \A s \in Sites : pos'[s] # pos[s] => Free(NextGroup(s))

\* for_mt where that is so
FreeSpec == Init /\ [][Next /\ GivesFreeGroups]_vars
=============================================================================
