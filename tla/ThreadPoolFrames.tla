-------------------------- MODULE ThreadPoolFrames --------------------------
(***************************************************************************)
(* Proofs about ThreadPool for any number of workers, call sites, bounds   *)
(* and nesting of loops, and any ring.                                     *)
(***************************************************************************)
EXTENDS ThreadPool, FiniteSetTheorems, SequenceTheorems, TLAPS

Ops == {"for", "exec", "serial"}
ForPcs == {"remaining", "ctr", "func", "push", "loop", "help"}
LoopPcs == {"step", "body", "nested", "done"}

GroupType == [remaining : Int, ctr : Nat, call : Seq(Nat), inQueue : BOOLEAN, inUse : BOOLEAN]

Frame == [op : Ops, pc : ForPcs \cup LoopPcs, group : Groups, call : Seq(Nat), i : Nat]

Stacks == [Threads -> Seq(Frame)]

\* The frames of all threads by their places, which are thread and depth
Place == {p \in Threads \X Nat : p[2] \in 1..Len(stack[p[1]])}
fr == [p \in Place |-> stack[p[1]][p[2]]]
TopPlace(t) == <<t, Len(stack[t])>>
Above(p) == <<p[1], p[2] + 1>>

IsCall(f) == f.op \in {"for", "serial"}

\* Enqueue has not ended.
IsFilling(f) == f.op = "for" /\ f.pc \in {"remaining", "ctr", "func"}

\* An iteration that has been taken and not been counted
IsRunning(f) == f.op = "exec" /\ f.pc \in {"body", "nested", "done"}

Executed == DOMAIN ran
-----------------------------------------------------------------------------
(* What a step makes of the frames *)

\* The frame at q becomes f; a frame f is put at q; both, one above the other; the
\* frame at q disappears.
Becomes(q, f) ==
    /\ q \in Place /\ Place' = Place
    /\ fr'[q] = f /\ \A p \in Place : p # q => fr'[p] = fr[p]

Grows(q, f) ==
    /\ q \notin Place /\ Above(q) \notin Place /\ Place' = Place \cup {q}
    /\ fr'[q] = f /\ \A p \in Place : fr'[p] = fr[p]

BecomesAndGrows(q, f, h) ==
    /\ q \in Place /\ Above(q) \notin Place /\ Above(Above(q)) \notin Place
    /\ Place' = Place \cup {Above(q)}
    /\ fr'[q] = f /\ fr'[Above(q)] = h /\ \A p \in Place : p # q => fr'[p] = fr[p]

Shrinks(q) ==
    /\ q \in Place /\ Place' = Place \ {q}
    /\ \A p \in Place : p # q => fr'[p] = fr[p]

LEMMA TopFacts ==
    ASSUME NEW t \in Threads, stack \in Stacks
    PROVE  /\ ~ Idle(t) => TopPlace(t) \in Place /\ Top(t) = fr[TopPlace(t)] /\ Top(t) \in Frame
           /\ Above(TopPlace(t)) \notin Place
           /\ Idle(t) <=> stack[t] = <<>>
           /\ \A p \in Place : Above(p) = Above(TopPlace(t)) => p = TopPlace(t)
           /\ \A p \in Place : p[1] = t /\ Above(p) \notin Place => p = TopPlace(t)
           /\ \A p \in Place : p # Above(p) /\ p[1] \in Threads /\ Above(p)[1] = p[1]
           /\ fr \in [Place -> Frame]
<1>1. stack[t] \in Seq(Frame) /\ Len(stack[t]) \in Nat
  BY DEF Stacks
<1>2. ~ Idle(t) => Len(stack[t]) \in 1..Len(stack[t]) /\ stack[t][Len(stack[t])] \in Frame
  BY <1>1 DEF Idle
<1>3. \A p \in Place : p[1] \in Threads /\ p[2] \in 1..Len(stack[p[1]]) /\ p = <<p[1], p[2]>>
  BY DEF Place
<1>4. fr \in [Place -> Frame]
  <2>1. \A p \in Place : stack[p[1]][p[2]] \in Frame
    BY <1>3 DEF Stacks
  <2> QED
    BY <2>1 DEF fr
<1>5. ~ Idle(t) => TopPlace(t) \in Place /\ Top(t) = fr[TopPlace(t)] /\ Top(t) \in Frame
  BY <1>1, <1>2 DEF TopPlace, Place, fr, Top, Last
<1>6. Above(TopPlace(t)) \notin Place
  BY <1>1, <1>3 DEF TopPlace, Above
<1>7. \A p \in Place : Above(p) = Above(TopPlace(t)) => p = TopPlace(t)
  BY <1>1, <1>3 DEF TopPlace, Above
<1>8. \A p \in Place : p[1] = t /\ Above(p) \notin Place => p = TopPlace(t)
  <2>1. SUFFICES ASSUME NEW p \in Place, p[1] = t, p[2] # Len(stack[t])
                 PROVE  Above(p) \in Place
    BY <1>3 DEF TopPlace
  <2> QED
    BY <2>1, <1>1, <1>3 DEF Above, Place
<1>9. \A p \in Place : p # Above(p) /\ p[1] \in Threads /\ Above(p)[1] = p[1]
  BY <1>3 DEF Above
<1> QED
  BY <1>4, <1>5, <1>6, <1>7, <1>8, <1>9 DEF Idle

LEMMA FrontFacts ==
    ASSUME NEW t \in Threads, stack \in Stacks, ~ Idle(t)
    PROVE  /\ Front(stack[t]) \in Seq(Frame) /\ Len(Front(stack[t])) = Len(stack[t]) - 1
           /\ \A k \in 1..(Len(stack[t]) - 1) : Front(stack[t])[k] = stack[t][k]
<1>1. stack[t] \in Seq(Frame) /\ Len(stack[t]) \in Nat \ {0}
  BY DEF Stacks, Idle
<1> QED
  BY <1>1 DEF Front

\* Any change of one thread's stack
LEMMA StackChange ==
    ASSUME NEW t \in Threads, stack \in Stacks, stack' \in Stacks,
           \A u \in Threads : u # t => stack'[u] = stack[u]
    PROVE  /\ \A p \in Threads \X Nat : p \in Place <=> p[2] \in 1..Len(stack[p[1]])
           /\ \A p \in Threads \X Nat : p \in Place' <=> p[2] \in 1..Len(stack'[p[1]])
           /\ \A p \in Threads \X Nat : p[1] # t => (p \in Place' <=> p \in Place)
           /\ Place \subseteq Threads \X Nat /\ Place' \subseteq Threads \X Nat
           /\ \A p \in Place' : fr'[p] = stack'[p[1]][p[2]]
           /\ \A p \in Place' : p[1] # t => fr'[p] = fr[p]
           /\ \A p \in Place : fr[p] = stack[p[1]][p[2]]
<1>1. /\ \A p \in Threads \X Nat : p \in Place <=> p[2] \in 1..Len(stack[p[1]])
      /\ \A p \in Threads \X Nat : p \in Place' <=> p[2] \in 1..Len(stack'[p[1]])
      /\ Place \subseteq Threads \X Nat /\ Place' \subseteq Threads \X Nat
  BY DEF Place
<1>2. /\ \A p \in Place' : fr'[p] = stack'[p[1]][p[2]]
      /\ \A p \in Place : fr[p] = stack[p[1]][p[2]]
  BY DEF fr
<1>3. \A p \in Threads \X Nat : p[1] # t => (p \in Place' <=> p \in Place)
  BY <1>1
<1>4. \A p \in Place' : p[1] # t => fr'[p] = fr[p]
  BY <1>1, <1>2, <1>3
<1> QED
  BY <1>1, <1>2, <1>3, <1>4

LEMMA TopBecomes ==
    ASSUME NEW t \in Threads, stack \in Stacks, ~ Idle(t), NEW f \in Frame,
           \/ stack' = [stack EXCEPT ![t] = Append(Front(stack[t]), f)]
           \/ stack' = [stack EXCEPT ![t][Len(stack[t])] = f]
    PROVE  stack' \in Stacks /\ Becomes(TopPlace(t), f)
<1> DEFINE n == Len(stack[t])
           q == TopPlace(t)
<1>1. stack[t] \in Seq(Frame) /\ n \in Nat \ {0}
  BY DEF Stacks, Idle
<1>2. /\ stack' \in Stacks /\ \A u \in Threads : u # t => stack'[u] = stack[u]
      /\ Len(stack'[t]) = n /\ stack'[t][n] = f /\ \A k \in 1..(n - 1) : stack'[t][k] = stack[t][k]
  <2>1. CASE stack' = [stack EXCEPT ![t] = Append(Front(stack[t]), f)]
    <3>1. Append(Front(stack[t]), f) \in Seq(Frame) /\ Len(Append(Front(stack[t]), f)) = n
      BY <1>1, FrontFacts
    <3>2. /\ Append(Front(stack[t]), f)[n] = f
          /\ \A k \in 1..(n - 1) : Append(Front(stack[t]), f)[k] = stack[t][k]
      BY <1>1, FrontFacts
    <3> QED
      BY <2>1, <3>1, <3>2 DEF Stacks
  <2>2. CASE stack' = [stack EXCEPT ![t][n] = f]
    <3>1. [stack[t] EXCEPT ![n] = f] \in Seq(Frame) /\ Len([stack[t] EXCEPT ![n] = f]) = n
      BY <1>1
    <3>2. stack'[t] = [stack[t] EXCEPT ![n] = f]
      BY <2>2 DEF Stacks
    <3>3. stack' \in Stacks
      BY <2>2, <3>1 DEF Stacks
    <3>4. \A u \in Threads : u # t => stack'[u] = stack[u]
      BY <2>2 DEF Stacks
    <3>5. stack'[t][n] = f /\ \A k \in 1..(n - 1) : stack'[t][k] = stack[t][k]
      BY <1>1, <3>2
    <3> QED
      BY <3>1, <3>2, <3>3, <3>4, <3>5
  <2> QED
    BY <2>1, <2>2
<1>3. q \in Place /\ q = <<t, n>>
  BY TopFacts DEF TopPlace
<1> HIDE DEF q
<1>4. Place' = Place
  BY <1>2, StackChange
<1>5. fr'[q] = f
  BY <1>2, <1>3, <1>4, StackChange
<1>6. ASSUME NEW p \in Place, p # q
      PROVE  fr'[p] = fr[p]
  <2>1. CASE p[1] = t
    <3>1. p[2] \in 1..n /\ p[2] # n
      BY <1>2, <1>3, <1>6, <2>1, StackChange
    <3> QED
      BY <1>1, <1>2, <1>4, <2>1, <3>1, StackChange
  <2>2. CASE p[1] # t
    BY <1>2, <1>4, <2>2, StackChange
  <2> QED
    BY <2>1, <2>2
<1> QED
  BY <1>2, <1>3, <1>4, <1>5, <1>6 DEF Becomes, q

LEMMA TopGrows ==
    ASSUME NEW t \in Threads, stack \in Stacks, NEW f \in Frame,
           stack' = [stack EXCEPT ![t] = Append(stack[t], f)]
    PROVE  stack' \in Stacks /\ Grows(Above(TopPlace(t)), f)
<1> DEFINE n == Len(stack[t])
           q == Above(TopPlace(t))
<1>1. stack[t] \in Seq(Frame) /\ n \in Nat
  BY DEF Stacks
<1>2. /\ stack' \in Stacks /\ \A u \in Threads : u # t => stack'[u] = stack[u]
      /\ Len(stack'[t]) = n + 1 /\ stack'[t][n + 1] = f
      /\ \A k \in 1..n : stack'[t][k] = stack[t][k]
  BY <1>1 DEF Stacks
<1>3. q = <<t, n + 1>> /\ q \in Threads \X Nat
  BY <1>1 DEF Above, TopPlace
<1> HIDE DEF q
<1>4. Place' = Place \cup {q} /\ q \notin Place
  <2>1. ASSUME NEW p \in Threads \X Nat
        PROVE  p \in Place' <=> p \in Place \/ p = q
    <3>1. CASE p[1] = t
      <4>1. p \in Place' <=> p[2] \in 1..(n + 1)
        BY <1>2, <3>1, StackChange
      <4>2. p \in Place <=> p[2] \in 1..n
        BY <1>2, <3>1, StackChange
      <4>3. p = q <=> p[2] = n + 1
        BY <1>3, <3>1
      <4> QED
        BY <1>1, <4>1, <4>2, <4>3
    <3>2. CASE p[1] # t
      <4>1. p \in Place' <=> p \in Place
        BY <1>2, <3>2, StackChange
      <4>2. p # q
        BY <1>3, <3>2
      <4> QED
        BY <4>1, <4>2
    <3> QED
      BY <3>1, <3>2
  <2>2. q \notin Place
    BY <1>1, <1>3 DEF Place
  <2>3. Place \subseteq Threads \X Nat /\ Place' \subseteq Threads \X Nat
    BY <1>2, StackChange
  <2> QED
    BY <1>3, <2>1, <2>2, <2>3
<1>5. fr'[q] = f
  <2>1. q \in Place' /\ q[1] = t /\ q[2] = n + 1
    BY <1>3, <1>4
  <2>2. fr'[q] = stack'[q[1]][q[2]]
    BY <1>2, <2>1, StackChange
  <2> QED
    BY <1>2, <2>1, <2>2
<1>6. ASSUME NEW p \in Place
      PROVE  fr'[p] = fr[p]
  <2>1. p \in Place' /\ (p[1] = t => p[2] \in 1..n)
    BY <1>4 DEF Place
  <2>2. fr'[p] = stack'[p[1]][p[2]] /\ fr[p] = stack[p[1]][p[2]] /\ p[1] \in Threads
    BY <1>2, <2>1, StackChange
  <2> QED
    BY <1>2, <2>1, <2>2
<1>7. Above(q) \notin Place
  <2>1. <<t, n + 2>> \notin Place
    BY <1>1 DEF Place
  <2> QED
    BY <1>1, <1>3, <2>1 DEF Above
<1> QED
  BY <1>2, <1>4, <1>5, <1>6, <1>7 DEF Grows, q

LEMMA TopBecomesAndGrows ==
    ASSUME NEW t \in Threads, stack \in Stacks, ~ Idle(t), NEW f \in Frame, NEW h \in Frame,
           stack' = [stack EXCEPT ![t] = Append(Append(Front(stack[t]), f), h)]
    PROVE  stack' \in Stacks /\ BecomesAndGrows(TopPlace(t), f, h)
<1> DEFINE n == Len(stack[t])
           q == TopPlace(t)
           a == Above(q)
<1>1. stack[t] \in Seq(Frame) /\ n \in Nat \ {0}
  BY DEF Stacks, Idle
<1>2. /\ stack' \in Stacks /\ \A u \in Threads : u # t => stack'[u] = stack[u]
      /\ Len(stack'[t]) = n + 1 /\ stack'[t][n] = f /\ stack'[t][n + 1] = h
      /\ \A k \in 1..(n - 1) : stack'[t][k] = stack[t][k]
  <2>1. /\ Append(Front(stack[t]), f) \in Seq(Frame) /\ Len(Append(Front(stack[t]), f)) = n
        /\ Append(Front(stack[t]), f)[n] = f
        /\ \A k \in 1..(n - 1) : Append(Front(stack[t]), f)[k] = stack[t][k]
    BY <1>1, FrontFacts
  <2> DEFINE s == Append(Append(Front(stack[t]), f), h)
  <2>2. /\ s \in Seq(Frame) /\ Len(s) = n + 1 /\ s[n] = f /\ s[n + 1] = h
        /\ \A k \in 1..(n - 1) : s[k] = stack[t][k]
    BY <1>1, <2>1
  <2>3. stack' = [stack EXCEPT ![t] = s]
    OBVIOUS
  <2> HIDE DEF s
  <2> QED
    BY <2>2, <2>3 DEF Stacks
<1>3. q = <<t, n>> /\ a = <<t, n + 1>> /\ a \in Threads \X Nat
  BY <1>1 DEF Above, TopPlace
<1>4. q \in Place /\ a \notin Place
  BY TopFacts
<1> HIDE DEF q, a
<1>5. Place' = Place \cup {a}
  <2>1. ASSUME NEW p \in Threads \X Nat
        PROVE  p \in Place' <=> p \in Place \/ p = a
    <3>1. CASE p[1] = t
      <4>1. p \in Place' <=> p[2] \in 1..(n + 1)
        BY <1>2, <3>1, StackChange
      <4>2. p \in Place <=> p[2] \in 1..n
        BY <1>2, <3>1, StackChange
      <4>3. p = a <=> p[2] = n + 1
        BY <1>3, <3>1
      <4> QED
        BY <1>1, <4>1, <4>2, <4>3
    <3>2. CASE p[1] # t
      <4>1. p \in Place' <=> p \in Place
        BY <1>2, <3>2, StackChange
      <4>2. p # a
        BY <1>3, <3>2
      <4> QED
        BY <4>1, <4>2
    <3> QED
      BY <3>1, <3>2
  <2>2. Place \subseteq Threads \X Nat /\ Place' \subseteq Threads \X Nat
    BY <1>2, StackChange
  <2> QED
    BY <1>3, <2>1, <2>2
<1>6. fr'[q] = f /\ fr'[a] = h
  <2>1. /\ q \in Place' /\ q[1] = t /\ q[2] = n
        /\ a \in Place' /\ a[1] = t /\ a[2] = n + 1
    BY <1>3, <1>4, <1>5
  <2>2. fr'[q] = stack'[q[1]][q[2]] /\ fr'[a] = stack'[a[1]][a[2]]
    BY <1>2, <2>1, StackChange
  <2> QED
    BY <1>2, <2>1, <2>2
<1>7. ASSUME NEW p \in Place, p # q
      PROVE  fr'[p] = fr[p]
  <2>1. CASE p[1] = t
    <3>1. p[2] \in 1..(n - 1)
      BY <1>1, <1>3, <1>7, <2>1 DEF Place
    <3>2. p \in Place' /\ fr'[p] = stack'[p[1]][p[2]] /\ fr[p] = stack[p[1]][p[2]]
      BY <1>2, <1>5, StackChange
    <3> QED
      BY <1>1, <1>2, <2>1, <3>1, <3>2
  <2>2. CASE p[1] # t
    BY <1>2, <1>5, <2>2, StackChange
  <2> QED
    BY <2>1, <2>2
<1>8. Above(a) \notin Place
  <2>1. <<t, n + 2>> \notin Place
    BY <1>1 DEF Place
  <2> QED
    BY <1>1, <1>3, <2>1 DEF Above
<1> QED
  BY <1>2, <1>4, <1>5, <1>6, <1>7, <1>8 DEF BecomesAndGrows, q, a

LEMMA TopShrinks ==
    ASSUME NEW t \in Threads, stack \in Stacks, ~ Idle(t), Pop(t)
    PROVE  stack' \in Stacks /\ Shrinks(TopPlace(t))
<1> DEFINE n == Len(stack[t])
           q == TopPlace(t)
<1>1. stack[t] \in Seq(Frame) /\ n \in Nat \ {0}
  BY DEF Stacks, Idle
<1>2. /\ stack' \in Stacks /\ \A u \in Threads : u # t => stack'[u] = stack[u]
      /\ Len(stack'[t]) = n - 1 /\ \A k \in 1..(n - 1) : stack'[t][k] = stack[t][k]
  BY FrontFacts DEF Pop, Stacks
<1>3. q = <<t, n>> /\ q \in Place
  BY TopFacts DEF TopPlace
<1> HIDE DEF q
<1>4. Place' = Place \ {q}
  BY <1>1, <1>2, <1>3, StackChange
<1>5. ASSUME NEW p \in Place, p # q
      PROVE  fr'[p] = fr[p]
  <2>1. CASE p[1] = t
    <3>1. p[2] \in 1..n /\ p[2] # n
      BY <1>2, <1>3, <1>5, <2>1, StackChange
    <3> QED
      BY <1>1, <1>2, <1>4, <1>5, <2>1, <3>1, StackChange
  <2>2. CASE p[1] # t
    BY <1>2, <1>4, <1>5, <2>2, StackChange
  <2> QED
    BY <2>1, <2>2
<1> QED
  BY <1>2, <1>3, <1>4, <1>5 DEF Shrinks, q
-----------------------------------------------------------------------------
(* The steps of ThreadPool by the place of the frame that takes them. What only decides *)
(* when a thread turns to something else, as inTaskQueue does, is left open.            *)

IsTop(q) == q \in Place /\ Above(q) \notin Place

Advances(q, pc) == Becomes(q, [fr[q] EXCEPT !.pc = pc])

\* What for_mt pushes, and what else it changes
CallFrame(c, s) ==
    IF Serial(s)
    THEN [op |-> "serial", pc |-> "step", group |-> <<s, 0>>, call |-> c, i |-> 0]
    ELSE [op |-> "for", pc |-> "remaining", group |-> NextGroup(s), call |-> c, i |-> 1]

Calls(c, s) ==
    /\ begun' = begun \cup {<<c, s>>}
    /\ IF Serial(s)
       THEN UNCHANGED <<group, pos>>
       ELSE /\ pos' = [pos EXCEPT ![s] = @ + 1]
            /\ group' = [group EXCEPT ![NextGroup(s)] =
                  [@ EXCEPT !.remaining = 0, !.inQueue = TRUE, !.inUse = TRUE]]

MainCallsAt(q) ==
    LET c == <<calls + 1>>
        s == Program[calls + 1] IN
    /\ \A p \in Place : Above(p) # q
    /\ calls < Len(Program) /\ calls' = calls + 1
    /\ Grows(q, CallFrame(c, s)) /\ Calls(c, s)
    /\ UNCHANGED <<queue, ran, returned>>

StoreRemainingAt(q) ==
    /\ fr[q].op = "for" /\ fr[q].pc = "remaining"
    /\ group' = [group EXCEPT ![fr[q].group].remaining = TaskCount(fr[q].group[1])]
    /\ Advances(q, "ctr")
    /\ UNCHANGED <<pos, queue, calls, begun, ran, returned>>

StoreCounterAt(q) ==
    /\ fr[q].op = "for" /\ fr[q].pc = "ctr"
    /\ group' = [group EXCEPT ![fr[q].group].ctr = 0]
    /\ Advances(q, "func")
    /\ UNCHANGED <<pos, queue, calls, begun, ran, returned>>

StoreFuncAt(q) ==
    /\ fr[q].op = "for" /\ fr[q].pc = "func"
    /\ group' = [group EXCEPT ![fr[q].group].call = fr[q].call]
    /\ Advances(q, "push")
    /\ UNCHANGED <<pos, queue, calls, begun, ran, returned>>

PushTaskGroupAt(q) ==
    LET f == fr[q] IN
    /\ f.op = "for" /\ f.pc = "push"
    /\ queue' = [queue EXCEPT ![f.i][f.group] = @ + 1]
    /\ IF f.i < NumWorkers
       THEN Becomes(q, [f EXCEPT !.i = @ + 1])
       ELSE BecomesAndGrows(q, [f EXCEPT !.pc = "loop"], ExecuteLoop(f.group))
    /\ UNCHANGED <<group, pos, calls, begun, ran, returned>>

TakeIterationAt(q) ==
    LET f == fr[q]
        g == f.group
        i == Step[g[1]] * group[g].ctr IN
    /\ f.op = "exec" /\ f.pc = "step"
    /\ i < To[g[1]]
    /\ group' = [group EXCEPT ![g].ctr = @ + 1]
    /\ Becomes(q, [f EXCEPT !.pc = "body", !.i = i])
    /\ UNCHANGED <<pos, queue, calls, begun, ran, returned>>

LeaveLoopAt(q) ==
    /\ fr[q].op = "exec" /\ fr[q].pc = "step"
    /\ \E b \in BOOLEAN : group' = [group EXCEPT ![fr[q].group].ctr = @ + 1,
                                                 ![fr[q].group].inQueue = b]
    /\ Shrinks(q)
    /\ UNCHANGED <<pos, queue, calls, begun, ran, returned>>

RunsCall(f) == IF f.op = "exec" THEN group[f.group].call ELSE f.call

RunBodyAt(q) ==
    LET f == fr[q]
        c == RunsCall(f)
        s == Body[f.group[1]] IN
    /\ f.op \in {"exec", "serial"} /\ f.pc = "body"
    /\ IF s = NoSite
       THEN /\ Becomes(q, [f EXCEPT !.call = c, !.pc = "done"])
            /\ ran' = ran (+) SetToBag({<<c, f.i>>})
            /\ UNCHANGED <<group, pos, begun>>
       ELSE /\ BecomesAndGrows(q, [f EXCEPT !.call = c, !.pc = "nested"],
                               CallFrame(Append(c, f.i), s))
            /\ Calls(Append(c, f.i), s)
            /\ UNCHANGED ran
    /\ UNCHANGED <<queue, calls, returned>>

NestedDoneAt(q) ==
    /\ fr[q].op \in {"exec", "serial"} /\ fr[q].pc = "nested" /\ IsTop(q)
    /\ ran' = ran (+) SetToBag({<<fr[q].call, fr[q].i>>})
    /\ Advances(q, "done")
    /\ UNCHANGED <<group, pos, queue, calls, begun, returned>>

CountIterationAt(q) ==
    /\ fr[q].op = "exec" /\ fr[q].pc = "done"
    /\ group' = [group EXCEPT ![fr[q].group].remaining = @ - 1]
    /\ Advances(q, "step")
    /\ UNCHANGED <<pos, queue, calls, begun, ran, returned>>

SerialStepAt(q) ==
    LET f == fr[q]
        to == To[f.group[1]] IN
    /\ f.op = "serial"
    /\ \/ f.pc = "step" /\ f.i < to /\ Advances(q, "body") /\ UNCHANGED returned
       \/ f.pc = "step" /\ f.i >= to /\ Shrinks(q) /\ returned' = returned \cup {f.call}
       \/ /\ f.pc = "done" /\ UNCHANGED returned
          /\ Becomes(q, [f EXCEPT !.pc = "step", !.i = @ + Step[f.group[1]]])
    /\ UNCHANGED <<group, pos, queue, calls, begun, ran>>

ReturnAt(q) ==
    /\ fr[q].op = "for" /\ fr[q].pc = "loop" /\ group[fr[q].group].remaining = 0
    /\ group' = [group EXCEPT ![fr[q].group] =
          [@ EXCEPT !.remaining = 0, !.inQueue = FALSE, !.inUse = FALSE]]
    /\ returned' = returned \cup {fr[q].call}
    /\ Shrinks(q)
    /\ UNCHANGED <<pos, queue, calls, begun, ran>>

\* Wait and DoneTasks
TurnAt(q) ==
    /\ fr[q].op = "for" /\ fr[q].pc \in {"loop", "help"}
    /\ \E pc \in {"loop", "help"} : Advances(q, pc)
    /\ UNCHANGED <<group, pos, queue, calls, begun, ran, returned>>

DoTaskAt(q) ==
    /\ \A p \in Place : Above(p) = q => fr[p].op = "for" /\ fr[p].pc = "help"
    /\ \E w \in Workers, g \in Groups :
          /\ queue[w][g] > 0
          /\ queue' = [queue EXCEPT ![w][g] = @ - 1]
          /\ Grows(q, ExecuteLoop(g))
    /\ UNCHANGED <<group, pos, calls, begun, ran, returned>>

StepAt(q) ==
    \/ /\ IsTop(q)
       /\ \/ StoreRemainingAt(q) \/ StoreCounterAt(q) \/ StoreFuncAt(q) \/ PushTaskGroupAt(q)
          \/ TakeIterationAt(q) \/ LeaveLoopAt(q) \/ RunBodyAt(q) \/ NestedDoneAt(q)
          \/ CountIterationAt(q) \/ SerialStepAt(q) \/ ReturnAt(q) \/ TurnAt(q)
    \/ MainCallsAt(q) \/ DoTaskAt(q)

\* The types
Shapes ==
    /\ group \in [Groups -> GroupType] /\ pos \in [Sites -> Nat]
    /\ queue \in [Workers -> [Groups -> Nat]]
    /\ stack \in Stacks
    /\ calls \in 0..Len(Program)
    /\ begun \subseteq Seq(Nat) \X Sites /\ returned \subseteq CallIds
    /\ Executed \subseteq CallIds \X Nat /\ ran \in [Executed -> Nat \ {0}]

LEMMA CallIdFacts ==
    ASSUME Shapes
    PROVE  CallIds \subseteq Seq(Nat) /\ \A b \in begun : b[1] \in CallIds /\ b = <<b[1], b[2]>>
BY DEF Shapes, CallIds

LEMMA GroupFacts ==
    /\ \A s \in Sites : <<s, 0>> \in Groups
    /\ \A g \in Groups : g[1] \in Sites /\ g[2] \in 0..(PoolSize - 1) /\ g = <<g[1], g[2]>>
    /\ \A s \in Sites : To[s] \in Nat /\ Step[s] \in Nat \ {0}
    /\ PoolSize \in Nat \ {0} /\ NumWorkers \in Nat \ {0}
BY PoolAssumption DEF Groups

LEMMA CallFrameType ==
    ASSUME Shapes, NEW c \in Seq(Nat), NEW s \in Sites
    PROVE  CallFrame(c, s) \in Frame /\ NextGroup(s) \in Groups
<1>1. pos[s] % PoolSize \in 0..(PoolSize - 1)
  <2>1. pos[s] \in Nat /\ PoolSize \in Nat \ {0}
    BY GroupFacts DEF Shapes
  <2> QED
    BY <2>1
<1>2. NextGroup(s) \in Groups
  BY <1>1 DEF NextGroup, Groups
<1> QED
  BY <1>2, GroupFacts DEF CallFrame, Frame, Ops, ForPcs, LoopPcs

LEMMA ForMtSeen ==
    ASSUME NEW t, NEW st, NEW c, NEW s, ForMt(t, st, c, s)
    PROVE  Calls(c, s) /\ stack' = [stack EXCEPT ![t] = Append(st, CallFrame(c, s))]
BY DEF ForMt, Calls, CallFrame

\* Changing what has just been appended
LEMMA AppendedChanges ==
    ASSUME NEW S, NEW r \in Seq(S), NEW f \in S, NEW d \in S
    PROVE  [Append(r, f) EXCEPT ![Len(r) + 1] = d] = Append(r, d)
<1> DEFINE n == Len(r)
           a == Append(r, f)
<1>1. /\ n \in Nat /\ a \in Seq(S) /\ Len(a) = n + 1 /\ a[n + 1] = f
      /\ \A k \in 1..n : a[k] = r[k]
  BY AppendProperties
<1>2. /\ Append(r, d) \in Seq(S) /\ Len(Append(r, d)) = n + 1 /\ Append(r, d)[n + 1] = d
      /\ \A k \in 1..n : Append(r, d)[k] = r[k]
  BY <1>1, AppendProperties
<1> HIDE DEF a
<1>3. /\ [a EXCEPT ![n + 1] = d] \in Seq(S) /\ Len([a EXCEPT ![n + 1] = d]) = n + 1
      /\ \A k \in 1..(n + 1) : [a EXCEPT ![n + 1] = d][k] = IF k = n + 1 THEN d ELSE a[k]
  BY <1>1, ExceptSeq
<1>4. \A k \in 1..(n + 1) : [a EXCEPT ![n + 1] = d][k] = Append(r, d)[k]
  BY <1>1, <1>2, <1>3
<1>5. [a EXCEPT ![n + 1] = d] = Append(r, d)
  BY <1>1, <1>2, <1>3, <1>4, SeqEqual
<1> QED
  BY <1>5 DEF a

\* Every step is one of these.
LEMMA StepSeen ==
    ASSUME Shapes, NEW t \in Threads, ThreadStep(t)
    PROVE  stack' \in Stacks /\ \E q \in Threads \X Nat : StepAt(q)
<1> DEFINE q == TopPlace(t)
           f == fr[q]
<1>1. stack \in Stacks /\ fr \in [Place -> Frame] /\ Place \subseteq Threads \X Nat
      /\ q \in Threads \X Nat /\ Above(q) \in Threads \X Nat /\ Above(q) \notin Place
  <2>1. Len(stack[t]) \in Nat
    BY DEF Shapes, Stacks
  <2>2. TopPlace(t) \in Threads \X Nat /\ Above(TopPlace(t)) \in Threads \X Nat
    BY <2>1 DEF TopPlace, Above
  <2> QED
    BY <2>2, TopFacts DEF Shapes, Place
<1>2. ~ Idle(t) => IsTop(q) /\ q \in Place /\ Top(t) = f /\ f \in Frame
  BY <1>1, TopFacts DEF IsTop
<1> HIDE DEF q
<1>3. ASSUME NEW op, NEW pc, At(t, op, pc)
      PROVE  IsTop(q) /\ q \in Place /\ Top(t) = f /\ f \in Frame /\ f.op = op /\ f.pc = pc
             /\ f.group \in Groups /\ ~ Idle(t)
  BY <1>2, <1>3 DEF At, Frame
<1>4. ASSUME NEW pc \in ForPcs \cup LoopPcs, ~ Idle(t), Goto(t, pc)
      PROVE  stack' \in Stacks /\ Advances(q, pc)
  <2>1. stack' = [stack EXCEPT ![t][Len(stack[t])] = [f EXCEPT !.pc = pc]]
    BY <1>1, <1>2, <1>4 DEF Goto, Top, Last
  <2>2. [f EXCEPT !.pc = pc] \in Frame
    BY <1>2, <1>4 DEF Frame
  <2> QED
    BY <1>1, <1>4, <2>1, <2>2, TopBecomes DEF Advances, q
<1>5. ASSUME NEW h \in Frame, ~ Idle(t), stack' = [stack EXCEPT ![t] = Append(Front(stack[t]), h)]
      PROVE  stack' \in Stacks /\ Becomes(q, h)
  BY <1>1, <1>5, TopBecomes DEF q
<1>6. ASSUME ~ Idle(t), Pop(t)
      PROVE  stack' \in Stacks /\ Shrinks(q)
  BY <1>1, <1>6, TopShrinks DEF q
<1>7. CASE StoreRemaining(t)
  BY <1>1, <1>3, <1>4, <1>7 DEF StoreRemaining, StepAt, StoreRemainingAt, ForPcs
<1>8. CASE StoreCounter(t)
  BY <1>1, <1>3, <1>4, <1>8 DEF StoreCounter, StepAt, StoreCounterAt, ForPcs
<1>9. CASE StoreFunc(t)
  BY <1>1, <1>3, <1>4, <1>9 DEF StoreFunc, StepAt, StoreFuncAt, ForPcs
<1>10. CASE PushTaskGroup(t)
  <2>1. At(t, "for", "push")
    BY <1>10 DEF PushTaskGroup
  <2>2. /\ IsTop(q) /\ q \in Place /\ Top(t) = f /\ f \in Frame /\ f.op = "for" /\ f.pc = "push"
        /\ f.group \in Groups /\ ~ Idle(t)
    BY <1>3, <2>1
  <2>3. CASE f.i < NumWorkers
    <3>1. [f EXCEPT !.i = @ + 1] \in Frame
      BY <2>2 DEF Frame
    <3>2. stack' = [stack EXCEPT ![t] = Append(Front(stack[t]), [f EXCEPT !.i = @ + 1])]
      BY <1>1, <1>10, <2>2, <2>3 DEF PushTaskGroup, Stacks
    <3>3. stack' \in Stacks /\ Becomes(q, [f EXCEPT !.i = @ + 1])
      BY <1>5, <2>2, <3>1, <3>2
    <3>4. PushTaskGroupAt(q)
      BY <1>10, <2>2, <2>3, <3>3 DEF PushTaskGroup, PushTaskGroupAt
    <3> QED
      BY <1>1, <2>2, <3>3, <3>4 DEF StepAt
  <2>4. CASE ~ (f.i < NumWorkers)
    <3>1. [f EXCEPT !.pc = "loop"] \in Frame /\ ExecuteLoop(f.group) \in Frame
      <4>1. <<>> \in Seq(Nat)
        OBVIOUS
      <4> QED
        BY <2>2, <4>1 DEF Frame, ExecuteLoop, Ops, ForPcs, LoopPcs
    <3>2. stack' = [stack EXCEPT ![t] = Append(Front(stack[t]), [f EXCEPT !.pc = "loop"])
                                            \o <<ExecuteLoop(f.group)>>]
      BY <1>1, <1>10, <2>2, <2>4 DEF PushTaskGroup, Stacks
    <3>3. Append(Front(stack[t]), [f EXCEPT !.pc = "loop"]) \in Seq(Frame)
      BY <1>1, <2>2, <3>1, FrontFacts
    <3>4. stack' = [stack EXCEPT ![t] = Append(Append(Front(stack[t]), [f EXCEPT !.pc = "loop"]),
                                               ExecuteLoop(f.group))]
      BY <3>1, <3>2, <3>3, AppendIsConcat
    <3>5. stack' \in Stacks /\ BecomesAndGrows(q, [f EXCEPT !.pc = "loop"], ExecuteLoop(f.group))
      BY <1>1, <2>2, <3>1, <3>4, TopBecomesAndGrows DEF q
    <3>6. PushTaskGroupAt(q)
      BY <1>10, <2>2, <2>4, <3>5 DEF PushTaskGroup, PushTaskGroupAt
    <3> QED
      BY <1>1, <2>2, <3>5, <3>6 DEF StepAt
  <2> QED
    BY <2>3, <2>4
<1>11. CASE TakeIteration(t)
  <2>1. At(t, "exec", "step")
    BY <1>11 DEF TakeIteration
  <2>2. /\ IsTop(q) /\ q \in Place /\ Top(t) = f /\ f \in Frame /\ f.op = "exec" /\ f.pc = "step"
        /\ f.group \in Groups /\ ~ Idle(t)
    BY <1>3, <2>1
  <2> DEFINE i == Step[f.group[1]] * group[f.group].ctr
  <2>3. [f EXCEPT !.pc = "body", !.i = i] \in Frame
    <3>1. Step[f.group[1]] \in Nat /\ group[f.group].ctr \in Nat
      BY <2>2, GroupFacts DEF Shapes, GroupType
    <3>2. i \in Nat
      BY <3>1
    <3> HIDE DEF i
    <3> QED
      BY <2>2, <3>2 DEF Frame, LoopPcs
  <2>4. stack' = [stack EXCEPT ![t] = Append(Front(stack[t]), [f EXCEPT !.pc = "body", !.i = i])]
    BY <1>1, <1>11, <2>2 DEF TakeIteration, Stacks
  <2>5. stack' \in Stacks /\ Becomes(q, [f EXCEPT !.pc = "body", !.i = i])
    BY <1>5, <2>2, <2>3, <2>4
  <2>6. TakeIterationAt(q)
    BY <1>11, <2>2, <2>5 DEF TakeIteration, TakeIterationAt
  <2> QED
    BY <1>1, <2>2, <2>5, <2>6 DEF StepAt
<1>12. CASE LeaveLoop(t)
  <2>1. At(t, "exec", "step") /\ Pop(t)
    BY <1>12 DEF LeaveLoop
  <2>2. /\ IsTop(q) /\ q \in Place /\ Top(t) = f /\ f \in Frame /\ f.op = "exec" /\ f.pc = "step"
        /\ f.group \in Groups /\ ~ Idle(t)
    BY <1>3, <2>1
  <2>3. \E b \in BOOLEAN : group' = [group EXCEPT ![f.group].ctr = @ + 1, ![f.group].inQueue = b]
    <3> DEFINE b == group[f.group].inQueue /\ ~ WffCall(t)
    <3>1. group' = [group EXCEPT ![f.group].ctr = @ + 1, ![f.group].inQueue = b]
      BY <1>12, <2>2 DEF LeaveLoop
    <3>2. b \in BOOLEAN
      OBVIOUS
    <3> QED
      BY <3>1, <3>2
  <2>4. LeaveLoopAt(q)
    BY <1>6, <1>12, <2>1, <2>2, <2>3 DEF LeaveLoop, LeaveLoopAt
  <2> QED
    BY <1>1, <1>6, <2>1, <2>2, <2>4 DEF StepAt
<1>13. CASE RunBody(t)
  <2>1. PICK op \in {"exec", "serial"} : At(t, op, "body")
    BY <1>13 DEF RunBody
  <2>2. /\ IsTop(q) /\ q \in Place /\ Top(t) = f /\ f \in Frame /\ f.op = op /\ f.pc = "body"
        /\ f.group \in Groups /\ ~ Idle(t)
    BY <1>3, <2>1
  <2> DEFINE c == RunsCall(f)
             s == Body[f.group[1]]
             after == Append(Front(stack[t]), [f EXCEPT !.call = c, !.pc = "done"])
  <2>3. c \in Seq(Nat) /\ f.i \in Nat /\ Append(c, f.i) \in Seq(Nat)
    BY <2>2 DEF RunsCall, Shapes, GroupType, Frame
  <2>4. c = IF f.op = "exec" THEN group[f.group].call ELSE f.call
    BY DEF RunsCall
  <2>5. \A pc \in LoopPcs : [f EXCEPT !.call = c, !.pc = pc] \in Frame
    BY <2>2, <2>3 DEF Frame
  <2> HIDE DEF c
  <2>6. CASE s = NoSite
    <3>1. stack' = [stack EXCEPT ![t] = after] /\ ran' = ran (+) SetToBag({<<c, f.i>>})
      BY <1>13, <2>2, <2>4, <2>6 DEF RunBody
    <3>2. stack' \in Stacks /\ Becomes(q, [f EXCEPT !.call = c, !.pc = "done"])
      BY <1>5, <2>2, <2>5, <3>1 DEF LoopPcs
    <3>3. RunBodyAt(q)
      BY <1>13, <2>2, <2>6, <3>1, <3>2 DEF RunBody, RunBodyAt, c
    <3> QED
      BY <1>1, <2>2, <3>2, <3>3 DEF StepAt
  <2>7. CASE s # NoSite
    <3> DEFINE h == CallFrame(Append(c, f.i), s)
               d == [f EXCEPT !.call = c, !.pc = "nested"]
    <3>1. ForMt(t, [after EXCEPT ![Len(after)].pc = "nested"], Append(c, f.i), s) /\ UNCHANGED ran
      BY <1>13, <2>2, <2>4, <2>7 DEF RunBody
    <3>2. /\ Calls(Append(c, f.i), s)
          /\ stack' = [stack EXCEPT ![t] = Append([after EXCEPT ![Len(after)].pc = "nested"], h)]
      BY <3>1, ForMtSeen
    <3>3. [after EXCEPT ![Len(after)].pc = "nested"] = Append(Front(stack[t]), d)
      <4>1. Front(stack[t]) \in Seq(Frame)
        BY <1>1, <2>2, FrontFacts
      <4> DEFINE e == [f EXCEPT !.call = c, !.pc = "done"]
      <4>2. e \in Frame /\ d \in Frame
        BY <2>5 DEF LoopPcs
      <4>3. d = [e EXCEPT !.pc = "nested"]
        BY <2>2 DEF Frame
      <4>4. after = Append(Front(stack[t]), e)
        OBVIOUS
      <4> DEFINE r == Front(stack[t])
      <4> HIDE DEF e, d, after, r
      <4>5. after = Append(r, e) /\ r \in Seq(Frame)
        BY <4>1, <4>4 DEF r
      <4>6. Len(after) = Len(r) + 1 /\ after[Len(after)] = e /\ Len(after) \in DOMAIN after
        BY <4>2, <4>5, AppendProperties
      <4>7. [after EXCEPT ![Len(after)].pc = "nested"] = [after EXCEPT ![Len(r) + 1] = d]
        BY <4>3, <4>6
      <4>8. [after EXCEPT ![Len(r) + 1] = d] = Append(r, d)
        BY <4>2, <4>5, AppendedChanges
      <4> QED
        BY <4>7, <4>8 DEF r
    <3>4. s \in Sites
      BY <2>2, <2>7, GroupFacts, PoolAssumption
    <3>5. h \in Frame /\ d \in Frame
      BY <2>3, <2>5, <3>4, CallFrameType DEF LoopPcs
    <3>6. stack' \in Stacks /\ BecomesAndGrows(q, d, h)
      BY <1>1, <2>2, <3>2, <3>3, <3>5, TopBecomesAndGrows DEF q
    <3>7. RunBodyAt(q)
      BY <1>13, <2>2, <2>7, <3>1, <3>2, <3>6 DEF RunBody, RunBodyAt, c
    <3> QED
      BY <1>1, <2>2, <3>6, <3>7 DEF StepAt
  <2> QED
    BY <2>6, <2>7
<1>14. CASE NestedDone(t)
  BY <1>1, <1>3, <1>4, <1>14 DEF NestedDone, StepAt, NestedDoneAt, LoopPcs
<1>15. CASE CountIteration(t)
  BY <1>1, <1>3, <1>4, <1>15 DEF CountIteration, StepAt, CountIterationAt, LoopPcs
<1>16. CASE SerialStep(t)
  <2>1. PICK pc \in {"step", "done"} : At(t, "serial", pc)
    BY <1>16 DEF SerialStep
  <2>2. /\ IsTop(q) /\ q \in Place /\ Top(t) = f /\ f \in Frame /\ f.op = "serial" /\ f.pc = pc
        /\ f.group \in Groups /\ ~ Idle(t)
    BY <1>3, <2>1
  <2>3. CASE pc = "step" /\ f.i < To[f.group[1]] /\ Goto(t, "body") /\ UNCHANGED returned
    <3>1. SerialStepAt(q) /\ stack' \in Stacks
      BY <1>4, <1>16, <2>2, <2>3 DEF SerialStep, SerialStepAt, LoopPcs
    <3> QED
      BY <1>1, <2>2, <3>1 DEF StepAt
  <2>4. CASE pc = "step" /\ f.i >= To[f.group[1]] /\ Pop(t) /\ returned' = returned \cup {f.call}
    <3>1. SerialStepAt(q) /\ stack' \in Stacks
      BY <1>6, <1>16, <2>2, <2>4 DEF SerialStep, SerialStepAt
    <3> QED
      BY <1>1, <2>2, <3>1 DEF StepAt
  <2>5. CASE /\ pc = "done" /\ UNCHANGED returned
             /\ stack' = [stack EXCEPT ![t] = Append(Front(@),
                                    [f EXCEPT !.pc = "step", !.i = @ + Step[f.group[1]]])]
    <3> DEFINE h == [f EXCEPT !.pc = "step", !.i = @ + Step[f.group[1]]]
    <3>1. h \in Frame
      <4>1. f.i + Step[f.group[1]] \in Nat
        BY <2>2, GroupFacts DEF Frame
      <4> QED
        BY <2>2, <4>1 DEF Frame, LoopPcs
    <3>2. stack' = [stack EXCEPT ![t] = Append(Front(stack[t]), h)]
      BY <1>1, <2>5 DEF Stacks
    <3>3. stack' \in Stacks /\ Becomes(q, h)
      BY <1>5, <2>2, <3>1, <3>2
    <3>4. SerialStepAt(q)
      BY <1>16, <2>2, <2>5, <3>3 DEF SerialStep, SerialStepAt
    <3> QED
      BY <1>1, <2>2, <3>3, <3>4 DEF StepAt
  <2> QED
    BY <1>16, <2>2, <2>3, <2>4, <2>5 DEF SerialStep, At
<1>17. CASE Return(t)
  <2>1. At(t, "for", "loop") /\ Pop(t)
    BY <1>17 DEF Return
  <2>2. /\ IsTop(q) /\ q \in Place /\ Top(t) = f /\ f \in Frame /\ f.op = "for" /\ f.pc = "loop"
        /\ f.group \in Groups /\ ~ Idle(t)
    BY <1>3, <2>1
  <2>3. ReturnAt(q)
    BY <1>6, <1>17, <2>1, <2>2 DEF Return, ReturnAt, Finished
  <2> QED
    BY <1>1, <1>6, <2>1, <2>2, <2>3 DEF StepAt
<1>18. CASE Wait(t)
  BY <1>1, <1>3, <1>4, <1>18 DEF Wait, StepAt, TurnAt, ForPcs
<1>19. CASE DoTask(t)
  <2>1. PICK g \in Waiting(t) : queue' = [queue EXCEPT ![t][g] = @ - 1] /\ Push(t, ExecuteLoop(g))
    BY <1>19 DEF DoTask
  <2>2. t \in Workers /\ g \in Groups /\ queue[t][g] > 0
    BY <2>1 DEF Waiting
  <2>3. ExecuteLoop(g) \in Frame
    <3>1. <<>> \in Seq(Nat)
      OBVIOUS
    <3> QED
      BY <2>2, <3>1 DEF Frame, ExecuteLoop, Ops, LoopPcs
  <2>4. stack' = [stack EXCEPT ![t] = Append(stack[t], ExecuteLoop(g))]
    BY <2>1 DEF Push
  <2>5. stack' \in Stacks /\ Grows(Above(q), ExecuteLoop(g))
    BY <1>1, <2>3, <2>4, TopGrows DEF q
  <2>6. \A p \in Place : Above(p) = Above(q) => fr[p].op = "for" /\ fr[p].pc = "help"
    <3>1. \A p \in Place : Above(p) = Above(q) => p = q
      BY <1>1, TopFacts DEF q
    <3>2. Idle(t) => q \notin Place
      BY <1>1 DEF q, TopPlace, Idle, Place
    <3>3. At(t, "for", "help") => f.op = "for" /\ f.pc = "help"
      BY <1>3
    <3>4. Idle(t) \/ At(t, "for", "help")
      BY <1>19 DEF DoTask
    <3> QED
      BY <3>1, <3>2, <3>3, <3>4
  <2>7. DoTaskAt(Above(q))
    BY <1>19, <2>1, <2>2, <2>5, <2>6 DEF DoTask, DoTaskAt
  <2> QED
    BY <1>1, <2>5, <2>7 DEF StepAt
<1>20. CASE DoneTasks(t)
  BY <1>1, <1>3, <1>4, <1>20 DEF DoneTasks, StepAt, TurnAt, ForPcs
<1> QED
  BY <1>7, <1>8, <1>9, <1>10, <1>11, <1>12, <1>13, <1>14, <1>15, <1>16, <1>17, <1>18, <1>19, <1>20
  DEF ThreadStep

LEMMA NextSeen ==
    ASSUME Shapes, Next
    PROVE  stack' \in Stacks /\ \E q \in Threads \X Nat : StepAt(q)
<1>1. CASE MainCalls
  <2> DEFINE c == <<calls + 1>>
             s == Program[calls + 1]
             q == Above(TopPlace(0))
  <2>1. 0 \in Threads /\ stack \in Stacks /\ stack[0] = <<>> /\ calls \in Nat /\ calls < Len(Program)
    BY <1>1, GroupFacts, PoolAssumption DEF MainCalls, Idle, Threads, Shapes
  <2>2. c \in Seq(Nat) /\ s \in Sites
    BY <2>1, PoolAssumption
  <2>3. Calls(c, s) /\ stack' = [stack EXCEPT ![0] = Append(<<>>, CallFrame(c, s))]
    BY <1>1, ForMtSeen DEF MainCalls
  <2>4. CallFrame(c, s) \in Frame
    BY <2>2, CallFrameType
  <2> HIDE DEF c, s
  <2>5. stack' \in Stacks /\ Grows(q, CallFrame(c, s))
    BY <2>1, <2>3, <2>4, TopGrows
  <2>6. \A p \in Place : Above(p) # q
    <3>1. TopPlace(0) \notin Place
      BY <2>1 DEF TopPlace, Place
    <3> QED
      BY <2>1, <3>1, TopFacts
  <2>7. q \in Threads \X Nat
    <3>1. q = <<0, 1>>
      BY <2>1 DEF Above, TopPlace
    <3> QED
      BY <2>1, <3>1
  <2>8. MainCallsAt(q)
    BY <1>1, <2>1, <2>3, <2>5, <2>6 DEF MainCalls, MainCallsAt, c, s
  <2> QED
    BY <2>5, <2>7, <2>8 DEF StepAt
<1>2. CASE \E t \in Threads : ThreadStep(t)
  BY <1>2, StepSeen
<1> QED
  BY <1>1, <1>2 DEF Next
-----------------------------------------------------------------------------
(* Types *)

\* What is executed is an iteration of a call that was begun, whatever thread executes it
\* and however often a ring has come round.
KnownCalls ==
    /\ \A p \in Place : IsCall(fr[p]) \/ fr[p].pc = "nested" => fr[p].call \in CallIds
    /\ \A p \in Place : fr[p].op = "exec" \/ fr[p].pc = "push" =>
          group[fr[p].group].call \in CallIds
    /\ \A w \in Workers, g \in Groups : queue[w][g] > 0 => group[g].call \in CallIds

LEMMA InitShapes == Init => Shapes /\ KnownCalls
<1> SUFFICES ASSUME Init
             PROVE  Shapes /\ KnownCalls
  OBVIOUS
<1>1. Place = {}
  BY DEF Init, Place
<1>2. <<>> \in Seq(Nat) /\ <<>> \in Seq(Frame)
  OBVIOUS
<1>3. Executed = {} /\ ran = [x \in {} |-> 1]
  BY DEF Init, Executed, EmptyBag, SetToBag
<1>4. ran \in [Executed -> Nat \ {0}]
  BY <1>3
<1>5. 0 \in 0..Len(Program)
  BY PoolAssumption
<1> QED
  BY <1>1, <1>2, <1>3, <1>4, <1>5 DEF Init, Shapes, KnownCalls, GroupType, Stacks

LEMMA RanFacts ==
    ASSUME NEW x, ran' = ran (+) SetToBag({x}), ran \in [Executed -> Nat \ {0}]
    PROVE  /\ Executed' = Executed \cup {x} /\ ran' \in [Executed' -> Nat \ {0}]
           /\ ran = [y \in Executed |-> 1] /\ x \notin Executed => ran' = [y \in Executed' |-> 1]
<1>1. ran' = [y \in Executed \cup {x} |-> (IF y \in Executed THEN ran[y] ELSE 0)
                                          + (IF y = x THEN 1 ELSE 0)]
  BY DEF (+), SetToBag, Executed
<1>2. Executed' = Executed \cup {x}
  BY <1>1 DEF Executed
<1> HIDE DEF Executed
<1>3. ran' \in [Executed' -> Nat \ {0}]
  <2>1. ASSUME NEW y \in Executed \cup {x}
        PROVE  (IF y \in Executed THEN ran[y] ELSE 0) + (IF y = x THEN 1 ELSE 0) \in Nat \ {0}
    <3>1. y \in Executed => ran[y] \in Nat \ {0}
      OBVIOUS
    <3> QED
      BY <2>1, <3>1
  <2> QED
    BY <1>1, <1>2, <2>1
<1>4. ran = [y \in Executed |-> 1] /\ x \notin Executed => ran' = [y \in Executed' |-> 1]
  BY <1>1, <1>2
<1> QED
  BY <1>2, <1>3, <1>4

LEMMA GroupTypeKept ==
    ASSUME NEW r \in GroupType
    PROVE  /\ \A n \in Int : [r EXCEPT !.remaining = n] \in GroupType
           /\ \A n \in Nat : [r EXCEPT !.ctr = n] \in GroupType
           /\ \A c \in Seq(Nat) : [r EXCEPT !.call = c] \in GroupType
           /\ \A n \in Nat, b \in BOOLEAN : [r EXCEPT !.ctr = n, !.inQueue = b] \in GroupType
           /\ [r EXCEPT !.remaining = 0, !.inQueue = TRUE, !.inUse = TRUE] \in GroupType
           /\ [r EXCEPT !.remaining = 0, !.inQueue = FALSE, !.inUse = FALSE] \in GroupType
<1>1. \A n \in Int : [r EXCEPT !.remaining = n] \in GroupType
  BY DEF GroupType
<1>2. /\ \A n \in Nat : [r EXCEPT !.ctr = n] \in GroupType
      /\ \A n \in Nat, b \in BOOLEAN : [r EXCEPT !.ctr = n, !.inQueue = b] \in GroupType
  BY DEF GroupType
<1>3. \A c \in Seq(Nat) : [r EXCEPT !.call = c] \in GroupType
  BY DEF GroupType
<1>4. ASSUME NEW b \in BOOLEAN, NEW d \in BOOLEAN
      PROVE  [r EXCEPT !.remaining = 0, !.inQueue = b, !.inUse = d] \in GroupType
  <2> DEFINE x == [r EXCEPT !.remaining = 0]
             y == [x EXCEPT !.inQueue = b]
             z == [y EXCEPT !.inUse = d]
  <2>1. z = [r EXCEPT !.remaining = 0, !.inQueue = b, !.inUse = d]
    OBVIOUS
  <2>2. x \in GroupType
    BY <1>1
  <2> HIDE DEF x
  <2>3. y \in GroupType
    BY <2>2 DEF GroupType
  <2> HIDE DEF y
  <2>4. z \in GroupType
    BY <2>3 DEF GroupType
  <2> QED
    BY <2>1, <2>4
<1>5. [r EXCEPT !.remaining = 0, !.inQueue = TRUE, !.inUse = TRUE] \in GroupType
  BY <1>4
<1>6. [r EXCEPT !.remaining = 0, !.inQueue = FALSE, !.inUse = FALSE] \in GroupType
  BY <1>4
<1> QED
  BY <1>1, <1>2, <1>3, <1>5, <1>6

LEMMA CallsFacts ==
    ASSUME Shapes, NEW c \in Seq(Nat), NEW s \in Sites, Calls(c, s)
    PROVE  /\ begun' \subseteq Seq(Nat) \X Sites /\ CallIds' = CallIds \cup {c}
           /\ group' \in [Groups -> GroupType] /\ pos' \in [Sites -> Nat]
           /\ \A g \in Groups : group'[g].call = group[g].call /\ group'[g].ctr = group[g].ctr
<1>1. begun' \subseteq Seq(Nat) \X Sites
  BY DEF Calls, Shapes
<1>2. CallIds' = CallIds \cup {c}
  <2>1. begun' = begun \cup {<<c, s>>}
    BY DEF Calls
  <2>2. /\ \A x : x \in CallIds' <=> \E b \in begun' : x = b[1]
        /\ \A x : x \in CallIds <=> \E b \in begun : x = b[1]
    BY DEF CallIds
  <2>3. <<c, s>>[1] = c
    OBVIOUS
  <2>4. ASSUME NEW x
        PROVE  x \in CallIds' <=> x \in CallIds \/ x = c
    BY <2>1, <2>2, <2>3
  <2> QED
    BY <2>4
<1>3. CASE Serial(s)
  BY <1>1, <1>2, <1>3 DEF Calls, Shapes
<1>4. CASE ~ Serial(s)
  <2>1. NextGroup(s) \in Groups
    BY CallFrameType
  <2>2. group' = [group EXCEPT ![NextGroup(s)] =
                     [group[NextGroup(s)] EXCEPT !.remaining = 0, !.inQueue = TRUE, !.inUse = TRUE]]
    BY <1>4 DEF Calls
  <2>3. \A g \in Groups : group'[g] = IF g = NextGroup(s)
            THEN [group[g] EXCEPT !.remaining = 0, !.inQueue = TRUE, !.inUse = TRUE] ELSE group[g]
    BY <2>1, <2>2 DEF Shapes
  <2>4. group' \in [Groups -> GroupType]
    <3>1. group[NextGroup(s)] \in GroupType
      BY <2>1 DEF Shapes
    <3>2. [group[NextGroup(s)] EXCEPT !.remaining = 0, !.inQueue = TRUE, !.inUse = TRUE] \in GroupType
      BY <3>1, GroupTypeKept
    <3> QED
      BY <2>1, <2>2, <3>2 DEF Shapes
  <2>5. pos' \in [Sites -> Nat]
    BY <1>4 DEF Calls, Shapes
  <2>6. \A g \in Groups : group'[g].call = group[g].call /\ group'[g].ctr = group[g].ctr
    BY <2>3 DEF Shapes, GroupType
  <2> QED
    BY <1>1, <1>2, <2>4, <2>5, <2>6
<1> QED
  BY <1>3, <1>4

\* A step that begins no loop, returns from none and executes no iteration
LEMMA QuietShapes ==
    ASSUME Shapes, stack' \in Stacks, UNCHANGED <<calls, begun, ran, returned>>,
           group' \in [Groups -> GroupType], pos' \in [Sites -> Nat],
           queue' \in [Workers -> [Groups -> Nat]]
    PROVE  Shapes' /\ CallIds' = CallIds
BY DEF Shapes, Executed, CallIds

\* One field of a group changes.
LEMMA GroupChange ==
    ASSUME Shapes, NEW g \in Groups, NEW r \in GroupType, group' = [group EXCEPT ![g] = r]
    PROVE  /\ group' \in [Groups -> GroupType] /\ group'[g] = r
           /\ \A h \in Groups : h # g => group'[h] = group[h]
BY DEF Shapes

LEMMA TaskCountType == \A g \in Groups : TaskCount(g[1]) \in Nat
<1> SUFFICES ASSUME NEW g \in Groups
             PROVE  TaskCount(g[1]) \in Nat
  OBVIOUS
<1>1. To[g[1]] \in Nat /\ Step[g[1]] \in Nat \ {0}
  BY GroupFacts
<1>2. (To[g[1]] + Step[g[1]] - 1) \div Step[g[1]] \in Nat
  BY <1>1
<1> QED
  BY <1>1, <1>2 DEF TaskCount

LEMMA FrameTypes ==
    ASSUME Shapes
    PROVE  /\ \A p \in Place : /\ fr[p] \in Frame /\ fr[p].group \in Groups /\ fr[p].call \in Seq(Nat)
                               /\ fr[p].i \in Nat /\ fr[p].op \in Ops /\ fr[p].pc \in ForPcs \cup LoopPcs
           /\ \A g \in Groups : /\ group[g] \in GroupType /\ group[g].remaining \in Int
                                /\ group[g].ctr \in Nat /\ group[g].call \in Seq(Nat)
<1>1. \A p \in Place : fr[p] \in Frame
  BY DEF Shapes, Stacks, Place, fr
<1> QED
  BY <1>1 DEF Frame, Shapes, GroupType

\* It is enough to look at the frames and entries of queues that have changed.
KnownFrame(f) == /\ IsCall(f) \/ f.pc = "nested" => f.call \in CallIds'
                 /\ f.op = "exec" \/ f.pc = "push" => group'[f.group].call \in CallIds'

LEMMA KnownKept ==
    ASSUME Shapes, KnownCalls, CallIds \subseteq CallIds',
           \A g \in Groups : group'[g].call = group[g].call \/ group'[g].call \in CallIds',
           \A p \in Place' : (p \in Place /\ fr'[p] = fr[p]) \/ KnownFrame(fr'[p]),
           \A w \in Workers, g \in Groups : queue'[w][g] > 0 =>
               queue[w][g] > 0 \/ group'[g].call \in CallIds'
    PROVE  KnownCalls'
<1>1. ASSUME NEW p \in Place'
      PROVE  KnownFrame(fr'[p])
  <2>1. CASE p \in Place /\ fr'[p] = fr[p]
    <3>1. fr[p].group \in Groups
      BY <2>1, FrameTypes
    <3> QED
      BY <2>1, <3>1 DEF KnownCalls, KnownFrame
  <2> QED
    BY <2>1
<1>2. \A w \in Workers, g \in Groups : queue'[w][g] > 0 => group'[g].call \in CallIds'
  BY DEF KnownCalls
<1> QED
  BY <1>1, <1>2 DEF KnownCalls, KnownFrame, IsCall

LEMMA TypesStep ==
    ASSUME Shapes, KnownCalls, stack' \in Stacks, NEW q, StepAt(q)
    PROVE  Shapes' /\ KnownCalls'
<1> DEFINE f == fr[q]
           g == f.group
<1>1. ASSUME IsTop(q)
      PROVE  /\ q \in Place /\ f \in Frame /\ g \in Groups /\ f.call \in Seq(Nat) /\ f.i \in Nat
             /\ group[g] \in GroupType /\ Above(q) \notin Place /\ Above(q) # q
  BY <1>1, FrameTypes DEF IsTop
<1>2. ASSUME MainCallsAt(q)
      PROVE  Shapes' /\ KnownCalls'
  <2> DEFINE c == <<calls + 1>>
             s == Program[calls + 1]
  <2>1. c \in Seq(Nat) /\ s \in Sites /\ calls + 1 \in 0..Len(Program)
    BY <1>2, PoolAssumption DEF MainCallsAt, Shapes
  <2>2. Calls(c, s) /\ Grows(q, CallFrame(c, s))
    BY <1>2 DEF MainCallsAt
  <2> HIDE DEF c, s
  <2>3. /\ begun' \subseteq Seq(Nat) \X Sites /\ CallIds' = CallIds \cup {c}
        /\ group' \in [Groups -> GroupType] /\ pos' \in [Sites -> Nat]
        /\ \A h \in Groups : group'[h].call = group[h].call
    BY <2>1, <2>2, CallsFacts
  <2>4. Shapes'
    BY <1>2, <2>1, <2>3 DEF MainCallsAt, Shapes, Executed
  <2>5. KnownFrame(CallFrame(c, s))
    BY <2>3 DEF KnownFrame, CallFrame
  <2>6. \A p \in Place' : (p \in Place /\ fr'[p] = fr[p]) \/ KnownFrame(fr'[p])
    BY <2>2, <2>5 DEF Grows
  <2>7. KnownCalls'
    BY <1>2, <2>3, <2>6, KnownKept DEF MainCallsAt
  <2> QED
    BY <2>4, <2>7
<1>3. ASSUME IsTop(q), StoreRemainingAt(q)
      PROVE  Shapes' /\ KnownCalls'
  <2> DEFINE r == [group[g] EXCEPT !.remaining = TaskCount(g[1])]
  <2>1. r \in GroupType
    <3>1. group[g] \in GroupType /\ group[g].ctr \in Nat /\ group[g].remaining \in Int /\ g \in Groups
      BY <1>1, <1>3, FrameTypes
    <3>2. TaskCount(g[1]) \in Int
      BY <3>1, TaskCountType
    <3> QED
      BY <3>1, <3>2, GroupTypeKept
  <2>2. group' = [group EXCEPT ![g] = r]
    BY <1>1, <1>3 DEF StoreRemainingAt
  <2>3. r.call = group[g].call
    BY <1>1, <1>3 DEF GroupType
  <2> HIDE DEF r
  <2>4. /\ group' \in [Groups -> GroupType] /\ group'[g] = r
        /\ \A h \in Groups : h # g => group'[h] = group[h]
    BY <1>1, <1>3, <2>1, <2>2, GroupChange
  <2>5. Shapes' /\ CallIds' = CallIds
    BY <1>3, <2>4, QuietShapes DEF StoreRemainingAt, Shapes
  <2>6. \A h \in Groups : group'[h].call = group[h].call
    BY <2>3, <2>4
  <2>7. fr'[q].op = "for" /\ fr'[q].pc = "ctr" /\ fr'[q].group = g /\ fr'[q].call = f.call
    BY <1>1, <1>3 DEF StoreRemainingAt, Advances, Becomes, Frame
  <2>8. KnownFrame(fr'[q])
    BY <1>1, <1>3, <2>5, <2>6, <2>7 DEF KnownCalls, KnownFrame, IsCall, StoreRemainingAt
  <2>9. \A p \in Place' : (p \in Place /\ fr'[p] = fr[p]) \/ KnownFrame(fr'[p])
    BY <1>3, <2>8 DEF StoreRemainingAt, Advances, Becomes
  <2>10. KnownCalls'
    BY <1>3, <2>5, <2>6, <2>9, KnownKept DEF StoreRemainingAt
  <2> QED
    BY <2>5, <2>10
<1>4. ASSUME IsTop(q), StoreCounterAt(q)
      PROVE  Shapes' /\ KnownCalls'
  <2> DEFINE r == [group[g] EXCEPT !.ctr = 0]
  <2>1. r \in GroupType
    <3>1. group[g] \in GroupType /\ group[g].ctr \in Nat /\ group[g].remaining \in Int /\ g \in Groups
      BY <1>1, <1>4, FrameTypes
    <3> QED
      BY <3>1 DEF GroupType
  <2>2. group' = [group EXCEPT ![g] = r]
    BY <1>1, <1>4 DEF StoreCounterAt
  <2>3. r.call = group[g].call
    BY <1>1, <1>4 DEF GroupType
  <2> HIDE DEF r
  <2>4. /\ group' \in [Groups -> GroupType] /\ group'[g] = r
        /\ \A h \in Groups : h # g => group'[h] = group[h]
    BY <1>1, <1>4, <2>1, <2>2, GroupChange
  <2>5. Shapes' /\ CallIds' = CallIds
    BY <1>4, <2>4, QuietShapes DEF StoreCounterAt, Shapes
  <2>6. \A h \in Groups : group'[h].call = group[h].call
    BY <2>3, <2>4
  <2>7. fr'[q].op = "for" /\ fr'[q].pc = "func" /\ fr'[q].group = g /\ fr'[q].call = f.call
    BY <1>1, <1>4 DEF StoreCounterAt, Advances, Becomes, Frame
  <2>8. KnownFrame(fr'[q])
    BY <1>1, <1>4, <2>5, <2>6, <2>7 DEF KnownCalls, KnownFrame, IsCall, StoreCounterAt
  <2>9. \A p \in Place' : (p \in Place /\ fr'[p] = fr[p]) \/ KnownFrame(fr'[p])
    BY <1>4, <2>8 DEF StoreCounterAt, Advances, Becomes
  <2>10. KnownCalls'
    BY <1>4, <2>5, <2>6, <2>9, KnownKept DEF StoreCounterAt
  <2> QED
    BY <2>5, <2>10
<1>5. ASSUME IsTop(q), StoreFuncAt(q)
      PROVE  Shapes' /\ KnownCalls'
  <2> DEFINE r == [group[g] EXCEPT !.call = f.call]
  <2>1. r \in GroupType
    <3>1. group[g] \in GroupType /\ f.call \in Seq(Nat)
      BY <1>1, <1>5, FrameTypes
    <3> QED
      BY <3>1, GroupTypeKept
  <2>2. group' = [group EXCEPT ![g] = r]
    BY <1>1, <1>5 DEF StoreFuncAt
  <2>3. r.call = f.call /\ f.call \in CallIds
    BY <1>1, <1>5 DEF GroupType, KnownCalls, StoreFuncAt, IsCall
  <2> HIDE DEF r
  <2>4. /\ group' \in [Groups -> GroupType] /\ group'[g] = r
        /\ \A h \in Groups : h # g => group'[h] = group[h]
    BY <1>1, <1>5, <2>1, <2>2, GroupChange
  <2>5. Shapes' /\ CallIds' = CallIds
    BY <1>5, <2>4, QuietShapes DEF StoreFuncAt, Shapes
  <2>6. \A h \in Groups : group'[h].call = group[h].call \/ group'[h].call \in CallIds'
    BY <2>3, <2>4, <2>5
  <2>7. fr'[q].op = "for" /\ fr'[q].pc = "push" /\ fr'[q].group = g /\ fr'[q].call = f.call
    BY <1>1, <1>5 DEF StoreFuncAt, Advances, Becomes, Frame
  <2>8. KnownFrame(fr'[q])
    BY <2>3, <2>4, <2>5, <2>7 DEF KnownFrame
  <2>9. \A p \in Place' : (p \in Place /\ fr'[p] = fr[p]) \/ KnownFrame(fr'[p])
    BY <1>5, <2>8 DEF StoreFuncAt, Advances, Becomes
  <2>10. KnownCalls'
    BY <1>5, <2>5, <2>6, <2>9, KnownKept DEF StoreFuncAt
  <2> QED
    BY <2>5, <2>10
<1>6. ASSUME IsTop(q), PushTaskGroupAt(q)
      PROVE  Shapes' /\ KnownCalls'
  <2>1. queue' \in [Workers -> [Groups -> Nat]]
    <3>1. queue' = [queue EXCEPT ![f.i][g] = @ + 1] /\ queue \in [Workers -> [Groups -> Nat]]
      BY <1>6 DEF PushTaskGroupAt, Shapes
    <3>2. CASE f.i \in Workers
      <4>1. [queue[f.i] EXCEPT ![g] = @ + 1] \in [Groups -> Nat]
        BY <1>1, <1>6, <3>1, <3>2
      <4> QED
        BY <3>1, <3>2, <4>1
    <3>3. CASE f.i \notin Workers
      BY <3>1, <3>3
    <3> QED
      BY <3>2, <3>3
  <2>2. Shapes' /\ CallIds' = CallIds /\ group' = group
    BY <1>6, <2>1, QuietShapes DEF PushTaskGroupAt, Shapes
  <2>3. group[g].call \in CallIds /\ f.call \in CallIds /\ f.op = "for"
    BY <1>1, <1>6 DEF KnownCalls, PushTaskGroupAt, IsCall
  <2>4. \A w \in Workers, h \in Groups : queue'[w][h] > 0 =>
            queue[w][h] > 0 \/ group'[h].call \in CallIds'
    BY <1>1, <1>6, <2>2, <2>3 DEF PushTaskGroupAt, Shapes
  <2>5. \A p \in Place' : (p \in Place /\ fr'[p] = fr[p]) \/ KnownFrame(fr'[p])
    <3>1. CASE f.i < NumWorkers
      <4>1. Becomes(q, [f EXCEPT !.i = @ + 1])
        BY <1>6, <3>1 DEF PushTaskGroupAt
      <4>2. KnownFrame([f EXCEPT !.i = @ + 1])
        BY <1>1, <1>6, <2>2, <2>3 DEF KnownFrame, Frame
      <4> QED
        BY <4>1, <4>2 DEF Becomes
    <3>2. CASE ~ (f.i < NumWorkers)
      <4>1. BecomesAndGrows(q, [f EXCEPT !.pc = "loop"], ExecuteLoop(g))
        BY <1>6, <3>2 DEF PushTaskGroupAt
      <4>2. KnownFrame([f EXCEPT !.pc = "loop"]) /\ KnownFrame(ExecuteLoop(g))
        BY <1>1, <1>6, <2>2, <2>3 DEF KnownFrame, Frame, ExecuteLoop, IsCall
      <4> QED
        BY <4>1, <4>2 DEF BecomesAndGrows
    <3> QED
      BY <3>1, <3>2
  <2>6. KnownCalls'
    BY <2>2, <2>4, <2>5, KnownKept
  <2> QED
    BY <2>2, <2>6
<1>7. ASSUME IsTop(q), TakeIterationAt(q)
      PROVE  Shapes' /\ KnownCalls'
  <2> DEFINE r == [group[g] EXCEPT !.ctr = @ + 1]
  <2>1. r \in GroupType
    <3>1. group[g] \in GroupType /\ group[g].ctr + 1 \in Nat
      BY <1>1, <1>7, FrameTypes
    <3> QED
      BY <3>1, GroupTypeKept
  <2>2. group' = [group EXCEPT ![g] = r]
    BY <1>1, <1>7 DEF TakeIterationAt
  <2>3. r.call = group[g].call
    BY <1>1, <1>7 DEF GroupType
  <2> HIDE DEF r
  <2>4. /\ group' \in [Groups -> GroupType] /\ group'[g] = r
        /\ \A h \in Groups : h # g => group'[h] = group[h]
    BY <1>1, <1>7, <2>1, <2>2, GroupChange
  <2>5. Shapes' /\ CallIds' = CallIds
    BY <1>7, <2>4, QuietShapes DEF TakeIterationAt, Shapes
  <2>6. \A h \in Groups : group'[h].call = group[h].call
    BY <2>3, <2>4
  <2>7. fr'[q].op = "exec" /\ fr'[q].pc = "body" /\ fr'[q].group = g /\ fr'[q].call = f.call
    BY <1>1, <1>7 DEF TakeIterationAt, Becomes, Frame
  <2>8. KnownFrame(fr'[q])
    BY <1>1, <1>7, <2>5, <2>6, <2>7 DEF KnownCalls, KnownFrame, IsCall, TakeIterationAt
  <2>9. \A p \in Place' : (p \in Place /\ fr'[p] = fr[p]) \/ KnownFrame(fr'[p])
    BY <1>7, <2>8 DEF TakeIterationAt, Becomes
  <2>10. KnownCalls'
    BY <1>7, <2>5, <2>6, <2>9, KnownKept DEF TakeIterationAt
  <2> QED
    BY <2>5, <2>10
<1>8. ASSUME IsTop(q), LeaveLoopAt(q)
      PROVE  Shapes' /\ KnownCalls'
  <2>1. PICK b \in BOOLEAN : group' = [group EXCEPT ![g].ctr = @ + 1, ![g].inQueue = b]
    BY <1>8 DEF LeaveLoopAt
  <2> DEFINE r == [group[g] EXCEPT !.ctr = @ + 1, !.inQueue = b]
  <2>2. r \in GroupType
    <3>1. group[g] \in GroupType /\ group[g].ctr + 1 \in Nat
      BY <1>1, <1>8, FrameTypes
    <3> QED
      BY <3>1, GroupTypeKept
  <2>3. group' = [group EXCEPT ![g] = r]
    BY <1>1, <1>8, <2>1 DEF Shapes, GroupType
  <2>4. r.call = group[g].call
    BY <1>1, <1>8 DEF GroupType
  <2> HIDE DEF r
  <2>5. /\ group' \in [Groups -> GroupType] /\ group'[g] = r
        /\ \A h \in Groups : h # g => group'[h] = group[h]
    BY <1>1, <1>8, <2>2, <2>3, GroupChange
  <2>6. Shapes' /\ CallIds' = CallIds
    BY <1>8, <2>5, QuietShapes DEF LeaveLoopAt, Shapes
  <2>7. \A h \in Groups : group'[h].call = group[h].call
    BY <2>4, <2>5
  <2>8. \A p \in Place' : p \in Place /\ fr'[p] = fr[p]
    BY <1>8 DEF LeaveLoopAt, Shrinks
  <2>9. KnownCalls'
    BY <1>8, <2>6, <2>7, <2>8, KnownKept DEF LeaveLoopAt
  <2> QED
    BY <2>6, <2>9
<1>9. ASSUME IsTop(q), RunBodyAt(q)
      PROVE  Shapes' /\ KnownCalls'
  <2> DEFINE c == RunsCall(f)
             s == Body[g[1]]
             b == Append(c, f.i)
  <2>1. c \in CallIds /\ c \in Seq(Nat) /\ b \in Seq(Nat)
    <3>1. c \in CallIds
      BY <1>1, <1>9 DEF RunBodyAt, RunsCall, KnownCalls, IsCall
    <3> QED
      BY <1>1, <1>9, <3>1, CallIdFacts
  <2>2. f.op = "exec" => group[g].call \in CallIds
    BY <1>1, <1>9 DEF RunBodyAt, KnownCalls
  <2>3. f.op \in {"exec", "serial"} /\ f.pc = "body" /\ UNCHANGED <<queue, calls, returned>>
    BY <1>9 DEF RunBodyAt
  <2>4. CASE s = NoSite
    <3>1. /\ Becomes(q, [f EXCEPT !.call = c, !.pc = "done"])
          /\ ran' = ran (+) SetToBag({<<c, f.i>>}) /\ UNCHANGED <<group, pos, begun>>
      BY <1>9, <2>4 DEF RunBodyAt
    <3> HIDE DEF c
    <3>2. Executed' = Executed \cup {<<c, f.i>>} /\ ran' \in [Executed' -> Nat \ {0}]
      BY <3>1, RanFacts DEF Shapes
    <3>3. CallIds' = CallIds
      BY <3>1 DEF CallIds
    <3>4. Shapes'
      <4>1. Executed' \subseteq CallIds' \X Nat
        BY <1>1, <1>9, <2>1, <3>2, <3>3 DEF Shapes
      <4> QED
        BY <2>3, <3>1, <3>2, <3>3, <4>1 DEF Shapes
    <3>5. KnownFrame([f EXCEPT !.call = c, !.pc = "done"])
      BY <1>1, <1>9, <2>1, <2>2, <3>1, <3>3 DEF KnownFrame, Frame
    <3>6. \A p \in Place' : (p \in Place /\ fr'[p] = fr[p]) \/ KnownFrame(fr'[p])
      BY <3>1, <3>5 DEF Becomes
    <3>7. KnownCalls'
      BY <2>3, <3>1, <3>3, <3>6, KnownKept
    <3> QED
      BY <3>4, <3>7
  <2>5. CASE s # NoSite
    <3> DEFINE d == [f EXCEPT !.call = c, !.pc = "nested"]
    <3>1. BecomesAndGrows(q, d, CallFrame(b, s)) /\ Calls(b, s) /\ UNCHANGED ran
      BY <1>9, <2>5 DEF RunBodyAt
    <3>2. s \in Sites
      BY <1>1, <1>9, <2>5, GroupFacts, PoolAssumption
    <3>3. d.op = f.op /\ d.pc = "nested" /\ d.call = c /\ d.group = g
      BY <1>1, <1>9 DEF Frame
    <3> HIDE DEF b, c, d, s
    <3>4. /\ begun' \subseteq Seq(Nat) \X Sites /\ CallIds' = CallIds \cup {b}
          /\ group' \in [Groups -> GroupType] /\ pos' \in [Sites -> Nat]
          /\ \A h \in Groups : group'[h].call = group[h].call
      BY <2>1, <3>1, <3>2, CallsFacts
    <3>5. Shapes'
      BY <2>3, <3>1, <3>4 DEF Shapes, Executed
    <3>6. KnownFrame(CallFrame(b, s))
      BY <3>4 DEF KnownFrame, CallFrame
    <3>7. KnownFrame(d)
      BY <1>1, <1>9, <2>1, <2>2, <2>3, <3>3, <3>4 DEF KnownFrame
    <3>8. \A p \in Place' : (p \in Place /\ fr'[p] = fr[p]) \/ KnownFrame(fr'[p])
      BY <3>1, <3>6, <3>7 DEF BecomesAndGrows
    <3>9. KnownCalls'
      BY <2>3, <3>4, <3>8, KnownKept
    <3> QED
      BY <3>5, <3>9
  <2> QED
    BY <2>4, <2>5
<1>10. ASSUME IsTop(q), NestedDoneAt(q)
      PROVE  Shapes' /\ KnownCalls'
  <2>1. f.call \in CallIds /\ f.i \in Nat
    BY <1>1, <1>10 DEF NestedDoneAt, KnownCalls
  <2>2. Executed' = Executed \cup {<<f.call, f.i>>} /\ ran' \in [Executed' -> Nat \ {0}]
    BY <1>10, RanFacts DEF NestedDoneAt, Shapes
  <2>3. CallIds' = CallIds /\ group' = group
    BY <1>10 DEF NestedDoneAt, CallIds
  <2>4. Shapes'
    <3>1. Executed' \subseteq CallIds' \X Nat
      BY <2>1, <2>2, <2>3 DEF Shapes
    <3> QED
      BY <1>10, <2>2, <2>3, <3>1 DEF NestedDoneAt, Shapes
  <2>5. KnownFrame([f EXCEPT !.pc = "done"])
    BY <1>1, <1>10, <2>1, <2>3 DEF KnownFrame, KnownCalls, NestedDoneAt, Frame, IsCall
  <2>6. \A p \in Place' : (p \in Place /\ fr'[p] = fr[p]) \/ KnownFrame(fr'[p])
    BY <1>10, <2>5 DEF NestedDoneAt, Advances, Becomes
  <2>7. KnownCalls'
    BY <1>10, <2>3, <2>6, KnownKept DEF NestedDoneAt
  <2> QED
    BY <2>4, <2>7
<1>11. ASSUME IsTop(q), CountIterationAt(q)
      PROVE  Shapes' /\ KnownCalls'
  <2> DEFINE r == [group[g] EXCEPT !.remaining = @ - 1]
  <2>1. r \in GroupType
    <3>1. group[g] \in GroupType /\ group[g].remaining - 1 \in Int
      BY <1>1, <1>11, FrameTypes
    <3> QED
      BY <3>1, GroupTypeKept
  <2>2. group' = [group EXCEPT ![g] = r]
    BY <1>1, <1>11 DEF CountIterationAt
  <2>3. r.call = group[g].call
    BY <1>1, <1>11 DEF GroupType
  <2> HIDE DEF r
  <2>4. /\ group' \in [Groups -> GroupType] /\ group'[g] = r
        /\ \A h \in Groups : h # g => group'[h] = group[h]
    BY <1>1, <1>11, <2>1, <2>2, GroupChange
  <2>5. Shapes' /\ CallIds' = CallIds
    BY <1>11, <2>4, QuietShapes DEF CountIterationAt, Shapes
  <2>6. \A h \in Groups : group'[h].call = group[h].call
    BY <2>3, <2>4
  <2>7. fr'[q].op = "exec" /\ fr'[q].pc = "step" /\ fr'[q].group = g /\ fr'[q].call = f.call
    BY <1>1, <1>11 DEF CountIterationAt, Advances, Becomes, Frame
  <2>8. KnownFrame(fr'[q])
    BY <1>1, <1>11, <2>5, <2>6, <2>7 DEF KnownCalls, KnownFrame, IsCall, CountIterationAt
  <2>9. \A p \in Place' : (p \in Place /\ fr'[p] = fr[p]) \/ KnownFrame(fr'[p])
    BY <1>11, <2>8 DEF CountIterationAt, Advances, Becomes
  <2>10. KnownCalls'
    BY <1>11, <2>5, <2>6, <2>9, KnownKept DEF CountIterationAt
  <2> QED
    BY <2>5, <2>10
<1>12. ASSUME IsTop(q), SerialStepAt(q)
      PROVE  Shapes' /\ KnownCalls'
  <2>1. f.call \in CallIds /\ f.op = "serial"
    BY <1>1, <1>12 DEF SerialStepAt, KnownCalls, IsCall
  <2>2. CallIds' = CallIds /\ group' = group
    BY <1>12 DEF SerialStepAt, CallIds
  <2>3. Shapes'
    BY <1>12, <2>1, <2>2 DEF SerialStepAt, Shapes, Executed
  <2>4. \A p \in Place' : (p \in Place /\ fr'[p] = fr[p]) \/ KnownFrame(fr'[p])
    <3>1. KnownFrame([f EXCEPT !.pc = "body"])
      BY <1>1, <1>12, <2>1, <2>2 DEF KnownFrame, SerialStepAt, Frame
    <3>2. KnownFrame([f EXCEPT !.pc = "step", !.i = @ + Step[g[1]]])
      BY <1>1, <1>12, <2>1, <2>2 DEF KnownFrame, SerialStepAt, Frame
    <3> QED
      BY <1>12, <3>1, <3>2 DEF SerialStepAt, Advances, Becomes, Shrinks
  <2>5. KnownCalls'
    BY <1>12, <2>2, <2>4, KnownKept DEF SerialStepAt
  <2> QED
    BY <2>3, <2>5
<1>13. ASSUME IsTop(q), ReturnAt(q)
      PROVE  Shapes' /\ KnownCalls'
  <2> DEFINE r == [group[g] EXCEPT !.remaining = 0, !.inQueue = FALSE, !.inUse = FALSE]
  <2>1. r \in GroupType
    BY <1>1, <1>13, GroupTypeKept
  <2>2. group' = [group EXCEPT ![g] = r]
    BY <1>1, <1>13 DEF ReturnAt
  <2>3. r.call = group[g].call /\ f.call \in CallIds
    BY <1>1, <1>13 DEF GroupType, KnownCalls, ReturnAt, IsCall
  <2> HIDE DEF r
  <2>4. /\ group' \in [Groups -> GroupType] /\ group'[g] = r
        /\ \A h \in Groups : h # g => group'[h] = group[h]
    BY <1>1, <1>13, <2>1, <2>2, GroupChange
  <2>5. CallIds' = CallIds
    BY <1>13 DEF ReturnAt, CallIds
  <2>6. Shapes'
    BY <1>13, <2>3, <2>4, <2>5 DEF ReturnAt, Shapes, Executed
  <2>7. \A h \in Groups : group'[h].call = group[h].call
    BY <2>3, <2>4
  <2>8. \A p \in Place' : p \in Place /\ fr'[p] = fr[p]
    BY <1>13 DEF ReturnAt, Shrinks
  <2>9. KnownCalls'
    BY <1>13, <2>5, <2>7, <2>8, KnownKept DEF ReturnAt
  <2> QED
    BY <2>6, <2>9
<1>14. ASSUME IsTop(q), TurnAt(q)
      PROVE  Shapes' /\ KnownCalls'
  <2>1. Shapes' /\ CallIds' = CallIds /\ group' = group
    BY <1>14, QuietShapes DEF TurnAt, Shapes
  <2>2. PICK pc \in {"loop", "help"} : Advances(q, pc)
    BY <1>14 DEF TurnAt
  <2>3. KnownFrame([f EXCEPT !.pc = pc])
    BY <1>1, <1>14, <2>1 DEF KnownFrame, KnownCalls, TurnAt, Frame, IsCall
  <2>4. \A p \in Place' : (p \in Place /\ fr'[p] = fr[p]) \/ KnownFrame(fr'[p])
    BY <2>2, <2>3 DEF Advances, Becomes
  <2>5. KnownCalls'
    BY <1>14, <2>1, <2>4, KnownKept DEF TurnAt
  <2> QED
    BY <2>1, <2>5
<1>15. ASSUME DoTaskAt(q)
      PROVE  Shapes' /\ KnownCalls'
  <2>1. PICK w \in Workers, h \in Groups :
            queue[w][h] > 0 /\ queue' = [queue EXCEPT ![w][h] = @ - 1] /\ Grows(q, ExecuteLoop(h))
    BY <1>15 DEF DoTaskAt
  <2>2. queue' \in [Workers -> [Groups -> Nat]]
    BY <2>1 DEF Shapes
  <2>3. Shapes' /\ CallIds' = CallIds /\ group' = group
    BY <1>15, <2>2, QuietShapes DEF DoTaskAt, Shapes
  <2>4. KnownFrame(ExecuteLoop(h))
    BY <2>1, <2>3 DEF KnownFrame, KnownCalls, ExecuteLoop, IsCall
  <2>5. \A p \in Place' : (p \in Place /\ fr'[p] = fr[p]) \/ KnownFrame(fr'[p])
    BY <2>1, <2>4 DEF Grows
  <2>6. \A v \in Workers, k \in Groups : queue'[v][k] > 0 => queue[v][k] > 0
    BY <2>1 DEF Shapes
  <2>7. KnownCalls'
    BY <2>3, <2>5, <2>6, KnownKept
  <2> QED
    BY <2>3, <2>7
<1> QED
  BY <1>2, <1>3, <1>4, <1>5, <1>6, <1>7, <1>8, <1>9, <1>10, <1>11, <1>12, <1>13, <1>14, <1>15
  DEF StepAt

LEMMA TypesKept == Shapes /\ KnownCalls /\ [Next]_vars => Shapes' /\ KnownCalls'
<1>1. SUFFICES ASSUME Shapes, KnownCalls, [Next]_vars
               PROVE  Shapes' /\ KnownCalls'
  OBVIOUS
<1>2. CASE Next
  BY <1>1, <1>2, NextSeen, TypesStep
<1>3. CASE UNCHANGED vars
  <2>1. Place' = Place /\ fr' = fr /\ CallIds' = CallIds /\ Executed' = Executed
    BY <1>3 DEF vars, Place, fr, CallIds, Executed
  <2> QED
    BY <1>1, <1>3, <2>1 DEF vars, Shapes, KnownCalls
<1> QED
  BY <1>1, <1>2, <1>3

\* Frames, groups, queues and the history of calls keep their types, and whatever a thread
\* executes, or has in its queue, belongs to a call of for_mt that was begun.
THEOREM TypesInvariant == Spec => [](Shapes /\ KnownCalls)
BY InitShapes, TypesKept, PTL DEF Spec

\* The state keeps its types however many loops are run and however often a ring comes round:
\* whatever a thread executes is an iteration of a call of for_mt that was begun (ExecuteLoop).
THEOREM TypeCorrect == Spec => []TypeOK
<1>1. Shapes => TypeOK
  <2>1. SUFFICES ASSUME Shapes
                 PROVE  TypeOK
    OBVIOUS
  <2>2. ASSUME NEW f \in AllFrames
        PROVE  /\ f.op \in {"for", "exec", "serial"} /\ f.group \in Groups /\ f.i \in Nat
               /\ f.pc \in {"remaining", "ctr", "func", "push", "loop", "help",
                            "step", "body", "nested", "done"}
    <3>1. PICK t \in Threads : f \in Frames(t)
      BY DEF AllFrames
    <3>2. PICK k \in 1..Len(stack[t]) : f = stack[t][k]
      BY <3>1 DEF Frames
    <3>3. stack[t] \in Seq(Frame)
      BY <2>1 DEF Shapes, Stacks
    <3>4. f \in Frame
      BY <3>2, <3>3
    <3> QED
      BY <3>4 DEF Frame, Ops, ForPcs, LoopPcs
  <2> QED
    BY <2>1, <2>2 DEF TypeOK, Shapes, GroupType, Executed, BagToSet
<1> QED
  BY <1>1, TypesInvariant, PTL
=============================================================================
