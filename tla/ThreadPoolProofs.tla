-------------------------- MODULE ThreadPoolProofs --------------------------
(***************************************************************************)
(* What ThreadPool guarantees as long as calls of for_mt get groups that   *)
(* nobody has any more, which is so until a ring comes round.              *)
(***************************************************************************)
EXTENDS ThreadPoolFrames

\* What a frame does depends on its kind. Under another frame it waits for that; the loop
\* in a body is that of its iteration, and has returned when nothing is above the body.
FramesInv ==
    /\ \A p \in Place : fr[p].op = "for" =>
          fr[p].pc \in ForPcs /\ (fr[p].pc \notin {"loop", "help"} => fr[p].i \in Workers)
    /\ \A p \in Place : fr[p].op # "for" => fr[p].pc \in LoopPcs
    /\ \A p \in Place : Above(p) \in Place => fr[p].pc \in {"loop", "help", "nested"}
    /\ \A p \in Place : fr[p].pc = "nested" /\ Above(p) \in Place =>
          IsCall(fr[Above(p)]) /\ fr[Above(p)].call = Append(fr[p].call, fr[p].i)
    /\ \A p \in Place : fr[p].pc = "nested" /\ Above(p) \notin Place =>
          Append(fr[p].call, fr[p].i) \in returned

\* An iteration of call c whose body has called for_mt, or is over
Started(c, i) ==
    \/ <<c, i>> \in Executed
    \/ \E p \in Place : fr[p].pc = "nested" /\ fr[p].call = c /\ fr[p].i = i

\* Calls are told apart by their identities.
CallsInv ==
    /\ \A b, d \in begun : b[1] = d[1] => b = d
    /\ \A c \in CallIds : c # <<>> /\ c[1] <= calls
    /\ \A c \in Seq(Nat), i \in Nat : c # <<>> /\ Append(c, i) \in CallIds => Started(c, i)
    /\ \A p \in Place : IsCall(fr[p]) => <<fr[p].call, fr[p].group[1]>> \in begun
    /\ \A p \in Place : IsCall(fr[p]) => fr[p].call \notin returned
    /\ \A p, q \in Place : IsCall(fr[p]) /\ IsCall(fr[q]) /\ fr[p].call = fr[q].call => p = q

\* Groups that some call has got and the last such call has filled
Filled == {g \in Groups : /\ g[2] < pos[g[1]]
                          /\ \A p \in Place : IsFilling(fr[p]) => fr[p].group # g}

\* A group belongs to the call that got it last, which fills it before anybody else gets it.
GroupsInv ==
    /\ \A p \in Place : fr[p].op = "for" =>
          LET g == fr[p].group IN g[2] < pos[g[1]] /\ group[g].inUse
    /\ \A p, q \in Place : fr[p].op = "for" /\ fr[q].op = "for" /\ fr[p].group = fr[q].group => p = q
    /\ \A p \in Place : fr[p].op = "exec" => fr[p].group \in Filled
    /\ \A w \in Workers, g \in Groups : queue[w][g] > 0 => g \in Filled
    /\ \A p \in Place : fr[p].op = "for" /\ ~ IsFilling(fr[p]) => group[fr[p].group].call = fr[p].call
    /\ \A p \in Place : fr[p].op = "for" /\ fr[p].pc = "func" => group[fr[p].group].ctr = 0
    /\ \A g \in Filled : <<group[g].call, g[1]>> \in begun
    /\ \A g, h \in Filled : group[g].call = group[h].call => g = h
    /\ \A g \in Filled, p \in Place : fr[p].op = "serial" \/ IsFilling(fr[p]) =>
          fr[p].call # group[g].call

\* Where the next iteration of a group begins
next == [g \in Groups |-> Step[g[1]] * group[g].ctr]

\* Iterations are taken once each, and those that were taken are being executed or have been.
IterationsInv ==
    /\ \A p \in Place : IsRunning(fr[p]) =>
          LET g == fr[p].group IN
          /\ fr[p].i \in Iterations(g[1]) /\ fr[p].i < next[g]
          /\ fr[p].pc # "body" => fr[p].call = group[g].call
          /\ <<group[g].call, fr[p].i>> \in Executed <=> fr[p].pc = "done"
    /\ \A p, q \in Place : /\ IsRunning(fr[p]) /\ IsRunning(fr[q])
                           /\ fr[p].group = fr[q].group /\ fr[p].i = fr[q].i
                           => p = q
    /\ \A g \in Filled, i \in Nat : <<group[g].call, i>> \in Executed =>
          i \in Iterations(g[1]) /\ i < next[g]
    /\ \A p \in Place, i \in Nat : IsFilling(fr[p]) => <<fr[p].call, i>> \notin Executed
    /\ ran = [x \in Executed |-> 1]

\* A loop that is run by its caller has one iteration at most.
SerialInv ==
    \A p \in Place : fr[p].op = "serial" =>
        LET f == fr[p]
            to == To[f.group[1]] IN
        /\ Serial(f.group[1])
        /\ f.pc # "step" => f.i = 0 /\ 0 < to
        /\ f.i = 0 \/ f.i >= to
        /\ f.i = 0 /\ f.pc # "done" => \A i \in Nat : <<f.call, i>> \notin Executed
        /\ f.i > 0 \/ f.pc = "done" => <<f.call, 0>> \in Executed

\* All iterations of a loop that has returned were executed.
ReturnedInv ==
    \A b \in begun : b[1] \in returned => \A i \in Iterations(b[2]) : <<b[1], i>> \in Executed

ExecutedOf(c, s) == {i \in Iterations(s) : <<c, i>> \in Executed}

\* Threads that have executed an iteration of call c and not counted it
Uncounted(c) == {t \in Threads : \E p \in Place : /\ p[1] = t /\ fr[p].op = "exec"
                                                  /\ fr[p].pc = "done" /\ fr[p].call = c}

CountInv ==
    \A p \in Place : fr[p].op = "for" /\ fr[p].pc # "remaining" =>
        group[fr[p].group].remaining
            = TaskCount(fr[p].group[1]) - Cardinality(ExecutedOf(fr[p].call, fr[p].group[1]))
                                        + Cardinality(Uncounted(fr[p].call))

IndInv ==
    /\ FramesInv /\ CallsInv /\ GroupsInv /\ IterationsInv /\ SerialInv /\ ReturnedInv /\ CountInv
-----------------------------------------------------------------------------
(* Arithmetic and sets *)

LEMMA MultipleFacts ==
    ASSUME NEW b \in Nat \ {0}, NEW k \in Nat
    PROVE  b * k \in Nat /\ (b * k) % b = 0
<1>1. b * k \in Nat
  OBVIOUS
<1>2. (b * k) % b = 0
  OBVIOUS
<1> QED
  BY <1>1, <1>2

LEMMA DivisibleFacts ==
    ASSUME NEW i \in Nat, NEW b \in Nat \ {0}, i % b = 0
    PROVE  i = b * (i \div b) /\ i \div b \in Nat
<1>1. i = b * (i \div b)
  OBVIOUS
<1>2. i \div b \in Nat
  OBVIOUS
<1> QED
  BY <1>1, <1>2

LEMMA RemainderFacts ==
    ASSUME NEW a \in Nat, NEW b \in Nat \ {0}
    PROVE  a % b \in 0..(b - 1) /\ a % b <= a /\ (a < b => a % b = a)
<1>1. a % b \in 0..(b - 1)
  OBVIOUS
<1>2. a < b => a % b = a
  OBVIOUS
<1>3. a >= b => a % b <= a
  BY <1>1
<1> QED
  BY <1>1, <1>2, <1>3

LEMMA NextFacts ==
    ASSUME Shapes, NEW g \in Groups
    PROVE  /\ next[g] \in Nat
           /\ next[g] < To[g[1]] => next[g] \in Iterations(g[1])
           /\ group'[g].ctr \in Nat /\ group[g].ctr <= group'[g].ctr => next[g] <= next'[g]
           /\ group'[g].ctr = group[g].ctr + 1 => next[g] < next'[g]
<1> DEFINE b == Step[g[1]]
           a == group[g].ctr
           d == group'[g].ctr
<1>1. b \in Nat \ {0} /\ a \in Nat /\ To[g[1]] \in Nat
  BY FrameTypes, GroupFacts
<1>2. next[g] = b * a /\ next'[g] = b * d
  BY DEF next
<1> HIDE DEF a, b, d
<1>3. b * a \in Nat /\ (b * a) % b = 0
  BY <1>1, MultipleFacts
<1>4. d \in Nat /\ a <= d => b * a <= b * d
  BY <1>1
<1>5. d = a + 1 => b * a < b * d
  BY <1>1
<1>6. b * a < To[g[1]] => b * a \in Iterations(g[1])
  BY <1>1, <1>3 DEF Iterations, b
<1> QED
  BY <1>2, <1>3, <1>4, <1>5, <1>6 DEF a, d

LEMMA NextTypes ==
    ASSUME Shapes, Shapes'
    PROVE  \A g \in Groups : next[g] \in Nat /\ next'[g] \in Nat
<1>1. \A g \in Groups : /\ Step[g[1]] \in Nat /\ group[g].ctr \in Nat
                        /\ group'[g].ctr \in Nat
  BY GroupFacts DEF Shapes, GroupType
<1>2. ASSUME NEW g \in Groups
      PROVE  next[g] \in Nat /\ next'[g] \in Nat
  <2>1. Step[g[1]] * group[g].ctr \in Nat /\ Step[g[1]] * group'[g].ctr \in Nat
    BY <1>1
  <2> QED
    BY <2>1 DEF next
<1> QED
  BY <1>2

LEMMA AppendElements ==
    ASSUME NEW c \in Seq(Nat), NEW i \in Nat
    PROVE  /\ Len(Append(c, i)) = Len(c) + 1 /\ Append(c, i)[Len(c) + 1] = i
           /\ \A k \in 1..Len(c) : Append(c, i)[k] = c[k]
OBVIOUS

LEMMA AppendFirst ==
    ASSUME NEW c \in Seq(Nat), c # <<>>, NEW i \in Nat
    PROVE  /\ Append(c, i) # <<>> /\ Append(c, i)[1] = c[1]
           /\ \A x : Append(c, i) # <<x>>
<1>1. Len(c) \in Nat \ {0} /\ Len(Append(c, i)) = Len(c) + 1
  BY AppendElements
<1>2. Append(c, i)[1] = c[1]
  BY <1>1, AppendElements
<1>3. Append(c, i) # <<>>
  BY <1>1
<1>4. ASSUME NEW x
      PROVE  Append(c, i) # <<x>>
  <2>1. Len(<<x>>) = 1
    OBVIOUS
  <2> DEFINE a == Append(c, i)
  <2>2. Len(a) # 1
    BY <1>1
  <2> HIDE DEF a
  <2>3. a # <<x>>
    BY <2>1, <2>2
  <2> QED
    BY <2>3 DEF a
<1> QED
  BY <1>2, <1>3, <1>4

\* Enqueue computes the number of the iterations.
LEMMA IterationsCounted ==
    ASSUME NEW s \in Sites
    PROVE  IsFiniteSet(Iterations(s)) /\ Cardinality(Iterations(s)) = TaskCount(s)
<1> DEFINE a == To[s]
           b == Step[s]
           n == TaskCount(s)
           f == [k \in 0..(n - 1) |-> b * k]
<1>1. a \in Nat /\ b \in Nat \ {0}
  BY GroupFacts
<1>2. n \in Nat /\ \A k \in Nat : b * k < a <=> k < n
  <2>1. CASE b = 1
    BY <1>1, <2>1 DEF TaskCount
  <2>2. CASE b # 1
    <3>1. n = (a + b - 1) \div b
      BY <2>2 DEF TaskCount
    <3> HIDE DEF a, b, n
    <3>2. (a + b - 1) \div b \in Nat
      BY <1>1
    <3>3. \A k \in Nat : b * k < a <=> k < (a + b - 1) \div b
      BY <1>1
    <3> QED
      BY <3>1, <3>2, <3>3
  <2> QED
    BY <2>1, <2>2
<1>3. Iterations(s) = {i \in 0..(a - 1) : i % b = 0}
  BY DEF Iterations
<1> HIDE DEF a, b, n
<1>4. ASSUME NEW k \in 0..(n - 1)
      PROVE  b * k \in Iterations(s)
  <2>1. k \in Nat /\ k < n
    BY <1>2, <1>4
  <2>2. b * k \in Nat /\ b * k < a
    BY <1>1, <1>2, <2>1
  <2>3. (b * k) % b = 0
    BY <1>1, <2>1
  <2> QED
    BY <1>1, <1>3, <2>2, <2>3
<1>5. ASSUME NEW k \in 0..(n - 1), NEW l \in 0..(n - 1), b * k = b * l
      PROVE  k = l
  <2>1. k \in Nat /\ l \in Nat
    BY <1>2
  <2> QED
    BY <1>1, <1>5, <2>1
<1>6. ASSUME NEW i \in Iterations(s)
      PROVE  \E k \in 0..(n - 1) : b * k = i
  <2>1. i \in Nat /\ i < a /\ i % b = 0
    BY <1>1, <1>3
  <2>2. PICK k \in Nat : i = b * k
    BY <1>1, <2>1, DivisibleFacts, ZenonT(60)
  <2>3. k < n
    BY <1>2, <2>1, <2>2
  <2> QED
    BY <1>2, <2>2, <2>3
<1>7. f \in Bijection(0..(n - 1), Iterations(s))
  <2>1. f \in [0..(n - 1) -> Iterations(s)]
    BY <1>4
  <2>2. \A x, y \in 0..(n - 1) : f[x] = f[y] => x = y
    BY <1>5
  <2>3. \A i \in Iterations(s) : \E x \in 0..(n - 1) : f[x] = i
    BY <1>6
  <2> HIDE DEF f
  <2>4. f \in Injection(0..(n - 1), Iterations(s))
    BY <2>1, <2>2 DEF Injection, IsInjective
  <2>5. f \in Surjection(0..(n - 1), Iterations(s))
    BY <2>1, <2>3 DEF Surjection
  <2> QED
    BY <2>4, <2>5 DEF Bijection
<1>8. IsFiniteSet(0..(n - 1)) /\ Cardinality(0..(n - 1)) = n
  <2> DEFINE m == n - 1
  <2>1. m \in Int /\ (0 > m => n = 0) /\ (~ (0 > m) => m - 0 + 1 = n)
    BY <1>2
  <2> HIDE DEF m
  <2>2. IsFiniteSet(0..m) /\ Cardinality(0..m) = IF 0 > m THEN 0 ELSE m - 0 + 1
    BY <2>1, FS_Interval
  <2>3. Cardinality(0..m) = n
    BY <2>1, <2>2
  <2> QED
    BY <2>2, <2>3 DEF m
<1>9. ExistsBijection(0..(n - 1), Iterations(s))
  BY <1>7 DEF ExistsBijection
<1> DEFINE S == 0..(n - 1)
<1> HIDE DEF S
<1>10. IsFiniteSet(S) /\ Cardinality(S) = n /\ ExistsBijection(S, Iterations(s))
  BY <1>8, <1>9 DEF S
<1>11. IsFiniteSet(Iterations(s)) /\ Cardinality(Iterations(s)) = n
  BY <1>10, FS_Bijection
<1> QED
  BY <1>11 DEF n
-----------------------------------------------------------------------------
(* Steps that leave calls and iterations as they are *)

\* No call begins, and none finishes to fill its group.
QuietFrames ==
    /\ \A p \in Place' : IsCall(fr'[p]) =>
          /\ p \in Place /\ fr[p].op = fr'[p].op
          /\ fr[p].group = fr'[p].group /\ fr[p].call = fr'[p].call
          /\ IsFilling(fr[p]) <=> IsFilling(fr'[p])
    /\ \A p \in Place : IsFilling(fr[p]) =>
          p \in Place' /\ IsFilling(fr'[p]) /\ fr'[p].group = fr[p].group

LEMMA FilledKept ==
    ASSUME QuietFrames, pos' = pos
    PROVE  Filled' = Filled
<1>1. ASSUME NEW g
      PROVE  g \in Filled' <=> g \in Filled
  BY DEF Filled, QuietFrames, IsFilling, IsCall
<1> QED
  BY <1>1

LEMMA GroupsKept ==
    ASSUME Shapes, GroupsInv, QuietFrames, UNCHANGED <<pos, begun>>,
           \A g \in Groups : group'[g].call = group[g].call,
           \A p \in Place' : fr'[p].group \in Groups,
           \A p \in Place' : fr'[p].op = "exec" => fr'[p].group \in Filled,
           \A p \in Place' : fr'[p].op = "for" => group'[fr'[p].group].inUse,
           \A p \in Place' : fr'[p].op = "for" /\ fr'[p].pc = "func" => group'[fr'[p].group].ctr = 0,
           \A w \in Workers, g \in Groups : queue'[w][g] > 0 => g \in Filled
    PROVE  GroupsInv' /\ Filled' = Filled
<1>1. Filled' = Filled /\ Filled \subseteq Groups
  BY FilledKept DEF Filled
<1>2. \A p \in Place' : fr'[p].op = "for" =>
          LET g == fr'[p].group IN g[2] < pos'[g[1]] /\ group'[g].inUse
  BY DEF QuietFrames, GroupsInv, IsCall
<1>3. \A p, q \in Place' : fr'[p].op = "for" /\ fr'[q].op = "for" /\ fr'[p].group = fr'[q].group => p = q
  BY DEF QuietFrames, GroupsInv, IsCall
<1>4. \A p \in Place' : fr'[p].op = "for" /\ ~ IsFilling(fr'[p]) => group'[fr'[p].group].call = fr'[p].call
  BY DEF QuietFrames, GroupsInv, IsCall
<1>5. \A g \in Filled : <<group'[g].call, g[1]>> \in begun'
  BY <1>1 DEF GroupsInv
<1>6. \A g, h \in Filled : group'[g].call = group'[h].call => g = h
  BY <1>1 DEF GroupsInv
<1>7. \A g \in Filled, p \in Place' : fr'[p].op = "serial" \/ IsFilling(fr'[p]) =>
          fr'[p].call # group'[g].call
  BY <1>1 DEF GroupsInv, QuietFrames, IsCall, IsFilling
<1> QED
  BY <1>1, <1>2, <1>3, <1>4, <1>5, <1>6, <1>7 DEF GroupsInv

LEMMA CallsKept ==
    ASSUME Shapes, CallsInv, QuietFrames, UNCHANGED <<calls, begun>>,
           Executed \subseteq Executed',
           \A p \in Place : fr[p].pc = "nested" =>
               \/ p \in Place' /\ fr'[p] = fr[p]
               \/ <<fr[p].call, fr[p].i>> \in Executed',
           \A p \in Place' : IsCall(fr'[p]) => fr[p].call \notin returned'
    PROVE  CallsInv'
<1>1. CallIds' = CallIds
  BY DEF CallIds
<1>2. ASSUME NEW c \in Seq(Nat), NEW i \in Nat, c # <<>>, Append(c, i) \in CallIds'
      PROVE  Started(c, i)'
  <2>1. Started(c, i)
    BY <1>1, <1>2 DEF CallsInv
  <2> QED
    BY <2>1 DEF Started
<1>3. \A p \in Place' : IsCall(fr'[p]) => <<fr'[p].call, fr'[p].group[1]>> \in begun'
  BY DEF CallsInv, QuietFrames, IsCall
<1>4. \A p \in Place' : IsCall(fr'[p]) => fr'[p].call \notin returned'
  BY DEF QuietFrames
<1>5. \A p, q \in Place' : IsCall(fr'[p]) /\ IsCall(fr'[q]) /\ fr'[p].call = fr'[q].call => p = q
  BY DEF CallsInv, QuietFrames, IsCall
<1> QED
  BY <1>1, <1>2, <1>3, <1>4, <1>5 DEF CallsInv

LEMMA IterationsKept ==
    ASSUME Shapes, Shapes', GroupsInv, IterationsInv, Filled' \subseteq Filled, UNCHANGED ran,
           \A g \in Groups : group'[g].call = group[g].call,
           \A g \in Filled : next[g] <= next'[g],
           \A p \in Place' : IsRunning(fr'[p]) =>
               /\ p \in Place /\ IsRunning(fr[p])
               /\ fr[p].group = fr'[p].group /\ fr[p].i = fr'[p].i
               /\ fr'[p].pc # "body" => fr'[p].call = group[fr[p].group].call
               /\ fr[p].pc = "done" <=> fr'[p].pc = "done",
           \A p \in Place' : IsFilling(fr'[p]) =>
               \/ p \in Place /\ IsFilling(fr[p]) /\ fr[p].call = fr'[p].call
               \/ fr'[p].call \notin CallIds
    PROVE  IterationsInv'
<1>1. Executed' = Executed /\ Filled \subseteq Groups
  BY DEF Executed, Filled
<1>2. \A g \in Filled : next[g] \in Nat /\ next'[g] \in Nat
  BY <1>1, NextTypes
<1>3. ASSUME NEW p \in Place', IsRunning(fr'[p])
      PROVE  LET g == fr'[p].group IN
             /\ fr'[p].i \in Iterations(g[1]) /\ fr'[p].i < next'[g]
             /\ fr'[p].pc # "body" => fr'[p].call = group'[g].call
             /\ <<group'[g].call, fr'[p].i>> \in Executed' <=> fr'[p].pc = "done"
  <2> DEFINE g == fr[p].group
  <2>1. /\ p \in Place /\ IsRunning(fr[p]) /\ fr'[p].group = g /\ fr'[p].i = fr[p].i
        /\ g \in Filled /\ g \in Groups /\ fr[p].i \in Nat
    BY <1>1, <1>3, FrameTypes DEF GroupsInv, IsRunning
  <2>2. /\ fr[p].i \in Iterations(g[1]) /\ fr[p].i < next[g]
        /\ <<group[g].call, fr[p].i>> \in Executed <=> fr[p].pc = "done"
    BY <2>1 DEF IterationsInv
  <2>3. fr[p].i < next'[g]
    BY <1>2, <2>1, <2>2
  <2>4. group'[g].call = group[g].call
    BY <2>1
  <2>5. fr'[p].pc # "body" => fr'[p].call = group'[g].call
    BY <1>3, <2>4
  <2>6. fr[p].pc = "done" <=> fr'[p].pc = "done"
    BY <1>3
  <2> QED
    BY <1>1, <2>1, <2>2, <2>3, <2>4, <2>5, <2>6
<1>4. \A p, r \in Place' : /\ IsRunning(fr'[p]) /\ IsRunning(fr'[r])
                           /\ fr'[p].group = fr'[r].group /\ fr'[p].i = fr'[r].i
                           => p = r
  BY DEF IterationsInv
<1>5. ASSUME NEW g \in Filled, NEW i \in Nat, <<group'[g].call, i>> \in Executed'
      PROVE  i \in Iterations(g[1]) /\ i < next'[g]
  <2>1. i \in Iterations(g[1]) /\ i < next[g]
    BY <1>1, <1>5 DEF IterationsInv
  <2> QED
    BY <1>2, <2>1
<1>6. ASSUME NEW p \in Place', NEW i \in Nat, IsFilling(fr'[p])
      PROVE  <<fr'[p].call, i>> \notin Executed'
  BY <1>1, <1>6 DEF IterationsInv, Shapes
<1>7. ran' = [x \in Executed' |-> 1]
  BY <1>1 DEF IterationsInv
<1> QED
  BY <1>1, <1>3, <1>4, <1>5, <1>6, <1>7 DEF IterationsInv

LEMMA SerialKept ==
    ASSUME SerialInv, UNCHANGED ran,
           \A p \in Place' : fr'[p].op = "serial" => p \in Place /\ fr'[p] = fr[p]
    PROVE  SerialInv'
<1>1. Executed' = Executed
  BY DEF Executed
<1> QED
  BY <1>1 DEF SerialInv

LEMMA ReturnedKept ==
    ASSUME Shapes, ReturnedInv, Executed \subseteq Executed', returned' = returned,
           \A b \in begun' : b \in begun \/ b[1] \notin CallIds
    PROVE  ReturnedInv'
<1>1. \A b \in begun' : b[1] \in returned' => b \in begun
  BY DEF Shapes
<1> QED
  BY <1>1 DEF ReturnedInv

LEMMA CountKept ==
    ASSUME CountInv, UNCHANGED ran,
           \A p \in Place' : fr'[p].op = "for" /\ fr'[p].pc # "remaining" =>
               /\ p \in Place /\ fr[p].op = "for" /\ fr[p].pc # "remaining"
               /\ fr'[p].group = fr[p].group /\ fr'[p].call = fr[p].call
               /\ group'[fr[p].group].remaining = group[fr[p].group].remaining,
           \A p \in Place' : fr'[p].op = "exec" /\ fr'[p].pc = "done" => p \in Place /\ fr'[p] = fr[p],
           \A p \in Place : fr[p].op = "exec" /\ fr[p].pc = "done" => p \in Place' /\ fr'[p] = fr[p]
    PROVE  CountInv'
<1>1. \A c, s : ExecutedOf(c, s)' = ExecutedOf(c, s)
  BY DEF ExecutedOf, Executed
<1>2. ASSUME NEW c
      PROVE  Uncounted(c)' = Uncounted(c)
  BY DEF Uncounted
<1> QED
  BY <1>1, <1>2 DEF CountInv

FrameOK(f) ==
    /\ f.op = "for" => f.pc \in ForPcs /\ (f.pc \notin {"loop", "help"} => f.i \in Workers)
    /\ f.op # "for" => f.pc \in LoopPcs

LEMMA NewFrameTypes ==
    ASSUME Shapes'
    PROVE  \A p \in Place' : fr'[p] \in Frame /\ fr'[p].group \in Groups
<1>1. ASSUME NEW p \in Place'
      PROVE  fr'[p] \in Frame
  <2>1. p[1] \in Threads /\ p[2] \in 1..Len(stack'[p[1]]) /\ fr'[p] = stack'[p[1]][p[2]]
    BY DEF Place, fr
  <2>2. stack'[p[1]] \in Seq(Frame)
    BY <2>1 DEF Shapes, Stacks
  <2> QED
    BY <2>1, <2>2
<1> QED
  BY <1>1 DEF Frame

LEMMA AboveFacts ==
    ASSUME Shapes, Shapes'
    PROVE  /\ \A p \in Place \cup Place' : Above(p) # p /\ Above(Above(p)) # p /\ Above(Above(p)) # Above(p)
           /\ \A p, q \in Place \cup Place' : Above(p) = Above(q) => p = q
<1>1. Place \cup Place' \subseteq Threads \X Nat
  BY DEF Place
<1>2. ASSUME NEW p \in Threads \X Nat
      PROVE  Above(p) # p /\ Above(Above(p)) # p /\ Above(Above(p)) # Above(p)
  <2>1. p = <<p[1], p[2]>> /\ p[2] \in Nat
    OBVIOUS
  <2>2. Above(p) = <<p[1], p[2] + 1>> /\ Above(Above(p)) = <<p[1], p[2] + 1 + 1>>
    BY DEF Above
  <2> QED
    BY <2>1, <2>2
<1>3. ASSUME NEW p \in Threads \X Nat, NEW q \in Threads \X Nat, Above(p) = Above(q)
      PROVE  p = q
  <2>1. p = <<p[1], p[2]>> /\ p[2] \in Nat /\ q = <<q[1], q[2]>> /\ q[2] \in Nat
    OBVIOUS
  <2>2. p[1] = q[1] /\ p[2] + 1 = q[2] + 1
    BY <1>3 DEF Above
  <2> QED
    BY <2>1, <2>2
<1> QED
  BY <1>1, <1>2, <1>3

\* The frame at the top of a thread changes, disappears, or gets one above it.
LEMMA FramesBecome ==
    ASSUME Shapes, Shapes', FramesInv, NEW q, NEW f, IsTop(q), Becomes(q, f),
           FrameOK(f), f.pc # "nested", returned \subseteq returned',
           IsCall(fr[q]) => IsCall(f) /\ f.call = fr[q].call
    PROVE  FramesInv'
<1>1. ASSUME NEW p \in Place'
      PROVE  FrameOK(fr'[p])
  BY <1>1 DEF FramesInv, FrameOK, Becomes
<1>2. ASSUME NEW p \in Place', Above(p) \in Place'
      PROVE  /\ fr'[p].pc \in {"loop", "help", "nested"}
             /\ fr'[p].pc = "nested" =>
                    IsCall(fr'[Above(p)]) /\ fr'[Above(p)].call = Append(fr'[p].call, fr'[p].i)
  <2>1. p # q /\ p \in Place /\ Above(p) \in Place /\ fr'[p] = fr[p]
    BY <1>2 DEF Becomes, IsTop
  <2>2. /\ fr[p].pc \in {"loop", "help", "nested"}
        /\ fr[p].pc = "nested" => IsCall(fr[Above(p)]) /\ fr[Above(p)].call = Append(fr[p].call, fr[p].i)
    BY <2>1 DEF FramesInv
  <2> QED
    BY <2>1, <2>2 DEF Becomes
<1>3. ASSUME NEW p \in Place', fr'[p].pc = "nested", Above(p) \notin Place'
      PROVE  Append(fr'[p].call, fr'[p].i) \in returned'
  BY <1>3 DEF FramesInv, Becomes
<1> QED
  BY <1>1, <1>2, <1>3 DEF FramesInv, FrameOK

LEMMA FramesShrink ==
    ASSUME Shapes, Shapes', FramesInv, NEW q, IsTop(q), Shrinks(q), returned \subseteq returned',
           IsCall(fr[q]) => fr[q].call \in returned'
    PROVE  FramesInv'
<1>1. \A p \in Place' : p \in Place /\ p # q /\ fr'[p] = fr[p] /\ (Above(p) \in Place' => Above(p) \in Place)
  BY DEF Shrinks
<1>2. ASSUME NEW p \in Place', fr'[p].pc = "nested", Above(p) \notin Place'
      PROVE  Append(fr'[p].call, fr'[p].i) \in returned'
  <2>1. CASE Above(p) \in Place
    <3>1. Above(p) = q
      BY <1>2, <2>1 DEF Shrinks
    <3> QED
      BY <1>1, <1>2, <2>1, <3>1 DEF FramesInv
  <2>2. CASE Above(p) \notin Place
    BY <1>1, <1>2, <2>2 DEF FramesInv
  <2> QED
    BY <2>1, <2>2
<1>3. ASSUME NEW p \in Place', Above(p) \in Place'
      PROVE  /\ fr'[p].pc \in {"loop", "help", "nested"}
             /\ fr'[p].pc = "nested" =>
                    IsCall(fr'[Above(p)]) /\ fr'[Above(p)].call = Append(fr'[p].call, fr'[p].i)
  <2>1. p \in Place /\ Above(p) \in Place /\ fr'[p] = fr[p] /\ fr'[Above(p)] = fr[Above(p)]
    BY <1>1, <1>3
  <2> QED
    BY <2>1 DEF FramesInv
<1> QED
  BY <1>1, <1>2, <1>3 DEF FramesInv

LEMMA FramesGrow ==
    ASSUME Shapes, Shapes', FramesInv, NEW q, NEW f, Grows(q, f),
           FrameOK(f), f.pc # "nested", returned \subseteq returned',
           \A p \in Place : Above(p) = q => fr[p].pc = "help"
    PROVE  FramesInv'
<1>1. /\ q \in Place' /\ Above(q) # q /\ Above(q) \notin Place' /\ q \notin Place
      /\ \A p \in Place : p \in Place' /\ fr'[p] = fr[p] /\ p # q
      /\ \A p \in Place' : p = q \/ p \in Place
  BY AboveFacts DEF Grows
<1>2. ASSUME NEW p \in Place'
      PROVE  FrameOK(fr'[p])
  BY <1>1, <1>2 DEF FramesInv, FrameOK, Grows
<1>3. ASSUME NEW p \in Place', Above(p) \in Place'
      PROVE  /\ fr'[p].pc \in {"loop", "help", "nested"}
             /\ fr'[p].pc = "nested" =>
                    IsCall(fr'[Above(p)]) /\ fr'[Above(p)].call = Append(fr'[p].call, fr'[p].i)
  <2>1. p \in Place /\ fr'[p] = fr[p]
    BY <1>1, <1>3
  <2>2. CASE Above(p) = q
    BY <2>1, <2>2
  <2>3. CASE Above(p) \in Place
    BY <1>1, <2>1, <2>3 DEF FramesInv
  <2> QED
    BY <1>1, <1>3, <2>2, <2>3
<1>4. ASSUME NEW p \in Place', fr'[p].pc = "nested", Above(p) \notin Place'
      PROVE  Append(fr'[p].call, fr'[p].i) \in returned'
  <2>1. p \in Place /\ fr'[p] = fr[p] /\ Above(p) \notin Place
    BY <1>1, <1>4 DEF Grows
  <2> QED
    BY <1>4, <2>1 DEF FramesInv
<1> QED
  BY <1>2, <1>3, <1>4 DEF FramesInv, FrameOK

LEMMA FramesBecomeAndGrow ==
    ASSUME Shapes, Shapes', FramesInv, NEW q, NEW f, NEW h, IsTop(q), BecomesAndGrows(q, f, h),
           FrameOK(f), f.pc \in {"loop", "nested"}, FrameOK(h), h.pc # "nested",
           f.pc = "nested" => IsCall(h) /\ h.call = Append(f.call, f.i),
           returned \subseteq returned',
           IsCall(fr[q]) => IsCall(f) /\ f.call = fr[q].call
    PROVE  FramesInv'
<1>1. /\ q \in Place /\ q \in Place' /\ Above(q) \in Place' /\ Above(q) \notin Place /\ Above(q) # q
      /\ Above(Above(q)) # Above(q) /\ Above(Above(q)) \notin Place'
      /\ \A p \in Place : p \in Place' /\ p # Above(q)
      /\ \A p \in Place' : p = Above(q) \/ p \in Place
      /\ \A p \in Place : Above(p) = Above(q) => p = q
  BY AboveFacts DEF BecomesAndGrows
<1>2. fr'[q] = f /\ fr'[Above(q)] = h /\ \A p \in Place : p # q => fr'[p] = fr[p]
  BY DEF BecomesAndGrows
<1>3. ASSUME NEW p \in Place'
      PROVE  FrameOK(fr'[p])
  BY <1>1, <1>2, <1>3 DEF FramesInv, FrameOK
<1>4. ASSUME NEW p \in Place', Above(p) \in Place'
      PROVE  /\ fr'[p].pc \in {"loop", "help", "nested"}
             /\ fr'[p].pc = "nested" =>
                    IsCall(fr'[Above(p)]) /\ fr'[Above(p)].call = Append(fr'[p].call, fr'[p].i)
  <2>1. CASE p = q
    BY <1>2, <2>1
  <2>2. CASE p # q
    <3>1. p \in Place /\ Above(p) \in Place /\ fr'[p] = fr[p]
      BY <1>1, <1>2, <1>4, <2>2
    <3>2. /\ fr[p].pc \in {"loop", "help", "nested"}
          /\ fr[p].pc = "nested" => IsCall(fr[Above(p)]) /\ fr[Above(p)].call = Append(fr[p].call, fr[p].i)
      BY <3>1 DEF FramesInv
    <3>3. Above(p) # q => fr'[Above(p)] = fr[Above(p)]
      BY <1>2, <3>1
    <3> QED
      BY <1>2, <3>1, <3>2, <3>3
  <2> QED
    BY <2>1, <2>2
<1>5. ASSUME NEW p \in Place', fr'[p].pc = "nested", Above(p) \notin Place'
      PROVE  Append(fr'[p].call, fr'[p].i) \in returned'
  <2>1. p \in Place /\ p # q /\ fr'[p] = fr[p] /\ Above(p) \notin Place
    BY <1>1, <1>2, <1>5
  <2> QED
    BY <1>5, <2>1 DEF FramesInv
<1> QED
  BY <1>3, <1>4, <1>5 DEF FramesInv, FrameOK

\* No body begins to wait for a loop, and no loop is run otherwise than it was.
SameCalls ==
    /\ \A p \in Place' : fr'[p].op # "for" =>
          \/ p \in Place /\ fr'[p] = fr[p]
          \/ fr'[p].op = "exec" /\ fr'[p].pc # "nested" /\ fr'[p].group \in Filled
    /\ \A p \in Place : fr[p].pc = "nested" => p \in Place' /\ fr'[p] = fr[p]

LEMMA CallsStay ==
    ASSUME Shapes, Shapes', IndInv, UNCHANGED <<pos, calls, begun, ran, returned>>,
           QuietFrames, SameCalls,
           \A g \in Groups : group'[g].call = group[g].call /\ group'[g].inUse = group[g].inUse,
           \A p \in Place' : fr'[p].op = "for" /\ fr'[p].pc = "func" => group'[fr'[p].group].ctr = 0,
           \A w \in Workers, g \in Groups : queue'[w][g] > 0 => queue[w][g] > 0 \/ g \in Filled
    PROVE  CallsInv' /\ GroupsInv' /\ SerialInv' /\ ReturnedInv' /\ Filled' = Filled
<1>1. CallsInv /\ GroupsInv /\ SerialInv /\ ReturnedInv
  BY DEF IndInv
<1>2. Executed' = Executed /\ Filled \subseteq Groups
  BY DEF Executed, Filled
<1>3. \A p \in Place' : fr'[p].group \in Groups
  BY NewFrameTypes
<1>4. GroupsInv' /\ Filled' = Filled
  <2>1. \A p \in Place' : fr'[p].op = "exec" => fr'[p].group \in Filled
    BY <1>1 DEF SameCalls, GroupsInv
  <2>2. \A p \in Place' : fr'[p].op = "for" => group'[fr'[p].group].inUse
    BY <1>1, <1>3 DEF QuietFrames, IsCall, GroupsInv
  <2>3. \A w \in Workers, g \in Groups : queue'[w][g] > 0 => g \in Filled
    BY <1>1 DEF GroupsInv
  <2> QED
    BY <1>1, <1>3, <2>1, <2>2, <2>3, GroupsKept
<1>5. CallsInv'
  <2>1. \A p \in Place' : IsCall(fr'[p]) => fr[p].call \notin returned'
    BY <1>1 DEF QuietFrames, CallsInv, IsCall
  <2>2. \A p \in Place : fr[p].pc = "nested" => p \in Place' /\ fr'[p] = fr[p]
    BY DEF SameCalls
  <2> QED
    BY <1>1, <1>2, <2>1, <2>2, CallsKept
<1>6. SerialInv'
  <2>1. \A p \in Place' : fr'[p].op = "serial" => p \in Place /\ fr'[p] = fr[p]
    BY DEF SameCalls
  <2> QED
    BY <1>1, <2>1, SerialKept
<1>7. ReturnedInv'
  BY <1>1, <1>2, ReturnedKept
<1> QED
  BY <1>4, <1>5, <1>6, <1>7

\* Nothing but what calls are doing changes: no iteration is taken or executed.
SameWork ==
    /\ \A p \in Place' : fr'[p].op # "for" =>
          \/ p \in Place /\ fr'[p] = fr[p]
          \/ fr'[p].op = "exec" /\ fr'[p].pc = "step" /\ fr'[p].group \in Filled
    /\ \A p \in Place : fr[p].pc = "nested" => p \in Place' /\ fr'[p] = fr[p]

LEMMA QuietKeeps ==
    ASSUME Shapes, Shapes', IndInv, UNCHANGED <<pos, calls, begun, ran, returned>>,
           QuietFrames, SameWork,
           \A g \in Groups : group'[g].call = group[g].call /\ group'[g].inUse = group[g].inUse,
           \A g \in Filled : group[g].ctr <= group'[g].ctr,
           \A p \in Place' : fr'[p].op = "for" /\ fr'[p].pc = "func" => group'[fr'[p].group].ctr = 0,
           \A w \in Workers, g \in Groups : queue'[w][g] > 0 => queue[w][g] > 0 \/ g \in Filled
    PROVE  CallsInv' /\ GroupsInv' /\ IterationsInv' /\ SerialInv' /\ ReturnedInv'
<1>1. CallsInv' /\ GroupsInv' /\ SerialInv' /\ ReturnedInv' /\ Filled' = Filled
  <2>1. SameCalls
    BY DEF SameWork, SameCalls
  <2> QED
    BY <2>1, CallsStay
<1>2. IterationsInv'
  <2>1. \A g \in Filled : next[g] <= next'[g]
    <3>1. \A g \in Groups : group'[g].ctr \in Nat
      BY DEF Shapes, GroupType
    <3> QED
      BY <3>1, NextFacts DEF Filled
  <2>2. ASSUME NEW p \in Place', IsRunning(fr'[p])
        PROVE  /\ p \in Place /\ fr'[p] = fr[p]
               /\ fr'[p].pc # "body" => fr'[p].call = group[fr[p].group].call
    <3>1. p \in Place /\ fr'[p] = fr[p]
      BY <2>2 DEF SameWork, IsRunning
    <3> QED
      BY <2>2, <3>1 DEF IndInv, IterationsInv
  <2>3. \A p \in Place' : IsFilling(fr'[p]) =>
             p \in Place /\ IsFilling(fr[p]) /\ fr[p].call = fr'[p].call
    BY DEF QuietFrames, IsFilling, IsCall
  <2> QED
    BY <1>1, <2>1, <2>2, <2>3, IterationsKept DEF IndInv
<1> QED
  BY <1>1, <1>2

LEMMA FramePcChange ==
    ASSUME NEW f \in Frame, NEW pc
    PROVE  LET h == [f EXCEPT !.pc = pc] IN
           h.op = f.op /\ h.pc = pc /\ h.group = f.group /\ h.call = f.call /\ h.i = f.i
BY DEF Frame

\* What Advances does to the frame of a for_mt
LEMMA ForAdvances ==
    ASSUME Shapes, IndInv, NEW q, IsTop(q), NEW pc \in ForPcs, Advances(q, pc), fr[q].op = "for",
           IsFilling(fr[q]) <=> pc \in {"remaining", "ctr", "func"},
           fr[q].pc \in {"loop", "help"} => pc \in {"loop", "help"},
           returned \subseteq returned'
    PROVE  /\ QuietFrames /\ SameWork /\ (Shapes' => FramesInv')
           /\ fr'[q].op = "for" /\ fr'[q].pc = pc /\ fr'[q].group = fr[q].group
           /\ fr'[q].call = fr[q].call /\ fr'[q].i = fr[q].i
           /\ Place' = Place /\ \A p \in Place : p # q => fr'[p] = fr[p]
<1> DEFINE f == fr[q]
           h == [f EXCEPT !.pc = pc]
<1>1. q \in Place /\ f \in Frame
  BY FrameTypes DEF IsTop
<1>2. h.op = "for" /\ h.pc = pc /\ h.group = f.group /\ h.call = f.call /\ h.i = f.i
  BY <1>1, FramePcChange
<1>3. Becomes(q, h) /\ Place' = Place /\ fr'[q] = h /\ \A p \in Place : p # q => fr'[p] = fr[p]
  BY DEF Advances, Becomes
<1> HIDE DEF h
<1>4. f.pc # "nested" /\ f.pc \in ForPcs /\ (f.pc \notin {"loop", "help"} => f.i \in Workers)
  BY <1>1 DEF IndInv, FramesInv, ForPcs
<1>5. IsFilling(h) <=> IsFilling(f)
  BY <1>2 DEF IsFilling
<1>6. QuietFrames
  BY <1>1, <1>2, <1>3, <1>5 DEF QuietFrames
<1>7. SameWork
  BY <1>1, <1>2, <1>3, <1>4 DEF SameWork
<1>8. Shapes' => FramesInv'
  <2>1. FrameOK(h) /\ h.pc # "nested" /\ IsCall(h)
    BY <1>2, <1>4 DEF FrameOK, IsCall, ForPcs
  <2> QED
    BY <1>2, <1>3, <2>1, FramesBecome DEF IndInv
<1> QED
  BY <1>2, <1>3, <1>6, <1>7, <1>8

\* A group that is being filled is not counted for anything else.
LEMMA FillingFacts ==
    ASSUME Shapes, IndInv, NEW q \in Place, IsFilling(fr[q])
    PROVE  /\ fr[q].group \in Groups /\ fr[q].group \notin Filled /\ fr[q].group[1] \in Sites
           /\ \A p \in Place : p # q /\ fr[p].op = "for" => fr[p].group # fr[q].group
           /\ \A i \in Nat : <<fr[q].call, i>> \notin Executed
           /\ \A p \in Place : IsRunning(fr[p]) /\ fr[p].pc # "body" => fr[p].call # fr[q].call
<1>1. fr[q].group \in Groups /\ fr[q].group \notin Filled /\ fr[q].group[1] \in Sites
  BY FrameTypes, GroupFacts DEF Filled
<1>2. \A p \in Place : p # q /\ fr[p].op = "for" => fr[p].group # fr[q].group
  BY DEF IndInv, GroupsInv, IsFilling
<1>3. \A i \in Nat : <<fr[q].call, i>> \notin Executed
  BY DEF IndInv, IterationsInv
<1>4. ASSUME NEW p \in Place, IsRunning(fr[p]), fr[p].pc # "body"
      PROVE  fr[p].call # fr[q].call
  <2>1. fr[p].call = group[fr[p].group].call
    BY <1>4 DEF IndInv, IterationsInv
  <2>2. fr[p].group \in Filled
    BY <1>4 DEF IndInv, GroupsInv, IsRunning
  <2> QED
    BY <2>1, <2>2 DEF IndInv, GroupsInv
<1> QED
  BY <1>1, <1>2, <1>3, <1>4

LEMMA StoreRemainingKeeps ==
    ASSUME Shapes, Shapes', IndInv, NEW q, IsTop(q), StoreRemainingAt(q)
    PROVE  IndInv'
<1> DEFINE f == fr[q]
           g == f.group
<1>1. /\ q \in Place /\ f.op = "for" /\ f.pc = "remaining" /\ IsFilling(f) /\ Advances(q, "ctr")
      /\ UNCHANGED <<pos, queue, calls, begun, ran, returned>>
  BY DEF IsTop, StoreRemainingAt, IsFilling
<1>2. /\ g \in Groups /\ g \notin Filled
      /\ \A p \in Place : p # q /\ fr[p].op = "for" => fr[p].group # g
      /\ \A i \in Nat : <<f.call, i>> \notin Executed
      /\ \A p \in Place : IsRunning(fr[p]) /\ fr[p].pc # "body" => fr[p].call # f.call
  BY <1>1, FillingFacts
<1>3. /\ QuietFrames /\ SameWork /\ FramesInv'
      /\ fr'[q].op = "for" /\ fr'[q].pc = "ctr" /\ fr'[q].group = g /\ fr'[q].call = f.call
      /\ Place' = Place /\ \A p \in Place : p # q => fr'[p] = fr[p]
  BY <1>1, ForAdvances DEF ForPcs, IsFilling
<1>4. /\ \A h \in Groups : /\ group'[h].call = group[h].call /\ group'[h].inUse = group[h].inUse
                           /\ group'[h].ctr = group[h].ctr
                           /\ h # g => group'[h].remaining = group[h].remaining
      /\ group'[g].remaining = TaskCount(g[1])
  BY <1>2 DEF StoreRemainingAt, Shapes, GroupType
<1> HIDE DEF f, g
<1>5. CallsInv' /\ GroupsInv' /\ IterationsInv' /\ SerialInv' /\ ReturnedInv'
  <2>1. \A h \in Filled : group[h].ctr <= group'[h].ctr
    BY <1>4, FrameTypes DEF Filled
  <2>2. \A p \in Place' : fr'[p].op = "for" /\ fr'[p].pc = "func" => group'[fr'[p].group].ctr = 0
    BY <1>3, <1>4, FrameTypes DEF IndInv, GroupsInv
  <2> QED
    BY <1>1, <1>3, <1>4, <2>1, <2>2, QuietKeeps
<1>6. CountInv'
  <2>1. Executed' = Executed /\ \A c, s : ExecutedOf(c, s)' = ExecutedOf(c, s)
    BY <1>1 DEF Executed, ExecutedOf
  <2>2. ASSUME NEW c
        PROVE  Uncounted(c)' = Uncounted(c)
    BY <1>1, <1>3 DEF Uncounted, f
  <2>3. ExecutedOf(f.call, g[1]) = {} /\ Uncounted(f.call) = {}
    <3>1. g[1] \in Sites
      BY <1>2, GroupFacts
    <3>2. \A i \in Iterations(g[1]) : i \in Nat
      BY <3>1, GroupFacts DEF Iterations
    <3> QED
      BY <1>2, <3>2 DEF ExecutedOf, Uncounted, IsRunning
  <2>4. TaskCount(g[1]) \in Nat /\ Cardinality({}) = 0
    BY <1>2, TaskCountType, FS_EmptySet
  <2>5. group'[g].remaining = TaskCount(g[1]) - Cardinality(ExecutedOf(f.call, g[1]))
                                             + Cardinality(Uncounted(f.call))
    BY <1>4, <2>3, <2>4
  <2>6. ASSUME NEW p \in Place', fr'[p].op = "for", fr'[p].pc # "remaining"
        PROVE  group'[fr'[p].group].remaining
                   = TaskCount(fr'[p].group[1])
                         - Cardinality(ExecutedOf(fr[p].call, fr[p].group[1])')
                         + Cardinality(Uncounted(fr[p].call)')
    <3>1. CASE p = q
      BY <1>3, <2>1, <2>2, <2>5, <3>1
    <3>2. CASE p # q
      <4>1. p \in Place /\ fr'[p] = fr[p] /\ fr[p].group \in Groups /\ fr[p].group # g
        BY <1>2, <1>3, <2>6, <3>2, FrameTypes
      <4> QED
        BY <1>4, <2>1, <2>2, <2>6, <4>1 DEF IndInv, CountInv
    <3> QED
      BY <3>1, <3>2
  <2> QED
    BY <2>6 DEF CountInv
<1> QED
  BY <1>3, <1>5, <1>6 DEF IndInv

LEMMA StoreCounterKeeps ==
    ASSUME Shapes, Shapes', IndInv, NEW q, IsTop(q), StoreCounterAt(q)
    PROVE  IndInv'
<1> DEFINE f == fr[q]
           g == f.group
<1>1. /\ q \in Place /\ f.op = "for" /\ f.pc = "ctr" /\ IsFilling(f) /\ Advances(q, "func")
      /\ UNCHANGED <<pos, queue, calls, begun, ran, returned>>
  BY DEF IsTop, StoreCounterAt, IsFilling
<1>2. /\ g \in Groups /\ g \notin Filled
      /\ \A p \in Place : p # q /\ fr[p].op = "for" => fr[p].group # g
  BY <1>1, FillingFacts
<1>3. /\ QuietFrames /\ SameWork /\ FramesInv'
      /\ fr'[q].op = "for" /\ fr'[q].pc = "func" /\ fr'[q].group = g /\ fr'[q].call = f.call
      /\ Place' = Place /\ \A p \in Place : p # q => fr'[p] = fr[p]
  BY <1>1, ForAdvances DEF ForPcs, IsFilling
<1>4. /\ \A h \in Groups : /\ group'[h].call = group[h].call /\ group'[h].inUse = group[h].inUse
                           /\ group'[h].remaining = group[h].remaining
                           /\ h # g => group'[h].ctr = group[h].ctr
      /\ group'[g].ctr = 0
  BY <1>2 DEF StoreCounterAt, Shapes, GroupType
<1> HIDE DEF f, g
<1>5. CallsInv' /\ GroupsInv' /\ IterationsInv' /\ SerialInv' /\ ReturnedInv'
  <2>1. \A h \in Filled : group[h].ctr <= group'[h].ctr
    BY <1>2, <1>4, FrameTypes DEF Filled
  <2>2. \A p \in Place' : fr'[p].op = "for" /\ fr'[p].pc = "func" => group'[fr'[p].group].ctr = 0
    BY <1>2, <1>3, <1>4, FrameTypes DEF IndInv, GroupsInv
  <2> QED
    BY <1>1, <1>3, <1>4, <2>1, <2>2, QuietKeeps
<1>6. CountInv'
  <2>1. \A p \in Place' : fr'[p].op = "for" /\ fr'[p].pc # "remaining" =>
            /\ p \in Place /\ fr[p].op = "for" /\ fr[p].pc # "remaining"
            /\ fr'[p].group = fr[p].group /\ fr'[p].call = fr[p].call
            /\ group'[fr[p].group].remaining = group[fr[p].group].remaining
    BY <1>1, <1>3, <1>4, FrameTypes DEF f, g
  <2>2. \A p \in Place : fr'[p].op = "exec" \/ fr[p].op = "exec" => fr'[p] = fr[p]
    BY <1>1, <1>3 DEF f
  <2> QED
    BY <1>1, <1>3, <2>1, <2>2, CountKept DEF IndInv
<1> QED
  BY <1>3, <1>5, <1>6 DEF IndInv

LEMMA TurnKeeps ==
    ASSUME Shapes, Shapes', IndInv, NEW q, IsTop(q), TurnAt(q)
    PROVE  IndInv'
<1> DEFINE f == fr[q]
<1>1. PICK pc \in {"loop", "help"} : Advances(q, pc)
  BY DEF TurnAt
<1>2. /\ q \in Place /\ f.op = "for" /\ f.pc \in {"loop", "help"} /\ ~ IsFilling(f)
      /\ UNCHANGED <<group, pos, queue, calls, begun, ran, returned>>
  BY DEF IsTop, TurnAt, IsFilling
<1>3. /\ QuietFrames /\ SameWork /\ FramesInv'
      /\ fr'[q].op = "for" /\ fr'[q].pc = pc /\ fr'[q].group = f.group /\ fr'[q].call = f.call
      /\ Place' = Place /\ \A p \in Place : p # q => fr'[p] = fr[p]
  BY <1>1, <1>2, ForAdvances DEF ForPcs
<1> HIDE DEF f
<1>5. CallsInv' /\ GroupsInv' /\ IterationsInv' /\ SerialInv' /\ ReturnedInv'
  <2>1. \A h \in Filled : group[h].ctr <= group'[h].ctr
    BY <1>2, FrameTypes DEF Filled
  <2>2. \A p \in Place' : fr'[p].op = "for" /\ fr'[p].pc = "func" => group'[fr'[p].group].ctr = 0
    BY <1>2, <1>3 DEF IndInv, GroupsInv
  <2> QED
    BY <1>2, <1>3, <2>1, <2>2, QuietKeeps
<1>6. CountInv'
  <2>1. \A p \in Place' : fr'[p].op = "for" /\ fr'[p].pc # "remaining" =>
            /\ p \in Place /\ fr[p].op = "for" /\ fr[p].pc # "remaining"
            /\ fr'[p].group = fr[p].group /\ fr'[p].call = fr[p].call
            /\ group'[fr[p].group].remaining = group[fr[p].group].remaining
    BY <1>2, <1>3 DEF f
  <2>2. \A p \in Place : fr'[p].op = "exec" \/ fr[p].op = "exec" => fr'[p] = fr[p]
    BY <1>2, <1>3 DEF f
  <2> QED
    BY <1>2, <1>3, <2>1, <2>2, CountKept DEF IndInv
<1> QED
  BY <1>3, <1>5, <1>6 DEF IndInv

LEMMA PushTaskGroupKeeps ==
    ASSUME Shapes, Shapes', IndInv, NEW q, IsTop(q), PushTaskGroupAt(q)
    PROVE  IndInv'
<1> DEFINE f == fr[q]
           g == f.group
<1>1. /\ q \in Place /\ f.op = "for" /\ f.pc = "push" /\ ~ IsFilling(f) /\ f.i \in Workers
      /\ f \in Frame /\ g \in Groups /\ Above(q) \notin Place
      /\ UNCHANGED <<group, pos, calls, begun, ran, returned>>
      /\ queue' = [queue EXCEPT ![f.i][g] = @ + 1]
  BY FrameTypes DEF IsTop, PushTaskGroupAt, IsFilling, IndInv, FramesInv
<1>2. g \in Filled
  BY <1>1 DEF IndInv, GroupsInv, Filled, IsFilling
<1>3. /\ QuietFrames /\ SameWork /\ FramesInv' /\ q \in Place'
      /\ \A p \in Place : p # q => p \in Place' /\ fr'[p] = fr[p]
      /\ \A p \in Place' : p \in Place \/ (fr'[p].op = "exec" /\ fr'[p].pc = "step")
      /\ fr'[q].op = "for" /\ fr'[q].pc \in {"push", "loop"}
      /\ fr'[q].group = g /\ fr'[q].call = f.call
  <2>1. CASE f.i < NumWorkers
    <3> DEFINE h == [f EXCEPT !.i = @ + 1]
    <3>1. Becomes(q, h)
      BY <2>1 DEF PushTaskGroupAt
    <3>2. h.op = "for" /\ h.pc = "push" /\ h.group = g /\ h.call = f.call /\ h.i \in Workers
      <4>1. f.i + 1 \in Workers
        BY <1>1, <2>1, GroupFacts DEF Workers
      <4> QED
        BY <1>1, <4>1 DEF Frame
    <3> HIDE DEF h
    <3>3. FrameOK(h) /\ IsCall(h) /\ ~ IsFilling(h) /\ h.pc # "nested"
      BY <3>2 DEF FrameOK, IsCall, IsFilling, ForPcs
    <3>4. FramesInv'
      BY <1>1, <3>1, <3>2, <3>3, FramesBecome DEF IndInv
    <3>5. QuietFrames /\ SameWork
      BY <1>1, <3>1, <3>2, <3>3 DEF Becomes, QuietFrames, SameWork
    <3> QED
      BY <1>1, <3>1, <3>2, <3>4, <3>5 DEF Becomes
  <2>2. CASE ~ (f.i < NumWorkers)
    <3> DEFINE h == [f EXCEPT !.pc = "loop"]
               e == ExecuteLoop(g)
    <3>1. BecomesAndGrows(q, h, e)
      BY <2>2 DEF PushTaskGroupAt
    <3>2. /\ h.op = "for" /\ h.pc = "loop" /\ h.group = g /\ h.call = f.call
          /\ e.op = "exec" /\ e.pc = "step" /\ e.group = g
      BY <1>1 DEF Frame, ExecuteLoop
    <3> HIDE DEF h, e
    <3>3. FrameOK(h) /\ FrameOK(e) /\ IsCall(h) /\ ~ IsFilling(h)
      BY <3>2 DEF FrameOK, IsCall, IsFilling, ForPcs, LoopPcs
    <3>4. FramesInv'
      BY <1>1, <3>1, <3>2, <3>3, FramesBecomeAndGrow DEF IndInv
    <3>5. QuietFrames /\ SameWork
      BY <1>1, <1>2, <3>1, <3>2, <3>3 DEF BecomesAndGrows, QuietFrames, SameWork, IsCall, IsFilling
    <3> QED
      BY <1>1, <3>1, <3>2, <3>4, <3>5 DEF BecomesAndGrows
  <2> QED
    BY <2>1, <2>2
<1> HIDE DEF f, g
<1>4. CallsInv' /\ GroupsInv' /\ IterationsInv' /\ SerialInv' /\ ReturnedInv'
  <2>1. \A h \in Filled : group[h].ctr <= group'[h].ctr
    BY <1>1, FrameTypes DEF Filled
  <2>2. \A p \in Place' : fr'[p].op = "for" /\ fr'[p].pc = "func" => group'[fr'[p].group].ctr = 0
    BY <1>1, <1>3 DEF IndInv, GroupsInv
  <2>3. \A w \in Workers, h \in Groups : queue'[w][h] > 0 => queue[w][h] > 0 \/ h \in Filled
    BY <1>1, <1>2 DEF Shapes
  <2> QED
    BY <1>1, <1>3, <2>1, <2>2, <2>3, QuietKeeps
<1>5. CountInv'
  <2>1. \A p \in Place' : fr'[p].op = "for" /\ fr'[p].pc # "remaining" =>
            /\ p \in Place /\ fr[p].op = "for" /\ fr[p].pc # "remaining"
            /\ fr'[p].group = fr[p].group /\ fr'[p].call = fr[p].call
            /\ group'[fr[p].group].remaining = group[fr[p].group].remaining
    BY <1>1, <1>3 DEF f, g
  <2>2. /\ \A p \in Place' : fr'[p].op = "exec" /\ fr'[p].pc = "done" => p \in Place /\ fr'[p] = fr[p]
        /\ \A p \in Place : fr[p].op = "exec" /\ fr[p].pc = "done" => p \in Place' /\ fr'[p] = fr[p]
    BY <1>1, <1>3 DEF f
  <2> QED
    BY <1>1, <1>3, <2>1, <2>2, CountKept DEF IndInv
<1> QED
  BY <1>3, <1>4, <1>5 DEF IndInv

LEMMA DoTaskKeeps ==
    ASSUME Shapes, Shapes', IndInv, NEW q, DoTaskAt(q)
    PROVE  IndInv'
<1>1. PICK w \in Workers, g \in Groups :
          queue[w][g] > 0 /\ queue' = [queue EXCEPT ![w][g] = @ - 1] /\ Grows(q, ExecuteLoop(g))
  BY DEF DoTaskAt
<1> DEFINE e == ExecuteLoop(g)
<1>2. /\ Grows(q, e) /\ e.op = "exec" /\ e.pc = "step" /\ e.group = g
      /\ UNCHANGED <<group, pos, calls, begun, ran, returned>>
  BY <1>1 DEF ExecuteLoop, DoTaskAt
<1> HIDE DEF e
<1>3. /\ g \in Filled
      /\ \A p \in Place : p \in Place' /\ fr'[p] = fr[p]
      /\ \A p \in Place' : p \in Place \/ (fr'[p].op = "exec" /\ fr'[p].pc = "step" /\ fr'[p].group = g)
  BY <1>1, <1>2 DEF Grows, IndInv, GroupsInv
<1>4. FramesInv'
  <2>1. FrameOK(e) /\ ~ IsCall(e)
    BY <1>2 DEF FrameOK, IsCall, LoopPcs
  <2>2. \A p \in Place : Above(p) = q => fr[p].pc = "help"
    BY DEF DoTaskAt
  <2> QED
    BY <1>2, <2>1, <2>2, FramesGrow DEF IndInv
<1>5. QuietFrames /\ SameWork
  BY <1>3 DEF QuietFrames, SameWork, IsCall
<1>6. CallsInv' /\ GroupsInv' /\ IterationsInv' /\ SerialInv' /\ ReturnedInv'
  <2>1. \A h \in Filled : group[h].ctr <= group'[h].ctr
    BY <1>2, FrameTypes DEF Filled
  <2>2. \A p \in Place' : fr'[p].op = "for" /\ fr'[p].pc = "func" => group'[fr'[p].group].ctr = 0
    BY <1>2, <1>3 DEF IndInv, GroupsInv
  <2>3. \A v \in Workers, h \in Groups : queue'[v][h] > 0 => queue[v][h] > 0 \/ h \in Filled
    BY <1>1 DEF Shapes
  <2> QED
    BY <1>2, <1>5, <2>1, <2>2, <2>3, QuietKeeps
<1>7. CountInv'
  <2>1. \A p \in Place' : fr'[p].op = "for" /\ fr'[p].pc # "remaining" =>
            /\ p \in Place /\ fr[p].op = "for" /\ fr[p].pc # "remaining"
            /\ fr'[p].group = fr[p].group /\ fr'[p].call = fr[p].call
            /\ group'[fr[p].group].remaining = group[fr[p].group].remaining
    BY <1>2, <1>3
  <2>2. /\ \A p \in Place' : fr'[p].op = "exec" /\ fr'[p].pc = "done" => p \in Place /\ fr'[p] = fr[p]
        /\ \A p \in Place : fr[p].op = "exec" /\ fr[p].pc = "done" => p \in Place' /\ fr'[p] = fr[p]
    BY <1>3
  <2> QED
    BY <1>2, <2>1, <2>2, CountKept DEF IndInv
<1> QED
  BY <1>4, <1>6, <1>7 DEF IndInv

LEMMA LeaveLoopKeeps ==
    ASSUME Shapes, Shapes', IndInv, NEW q, IsTop(q), LeaveLoopAt(q)
    PROVE  IndInv'
<1> DEFINE f == fr[q]
           g == f.group
<1>1. /\ q \in Place /\ f.op = "exec" /\ f.pc = "step" /\ g \in Groups /\ Shrinks(q)
      /\ UNCHANGED <<pos, queue, calls, begun, ran, returned>>
  BY FrameTypes DEF IsTop, LeaveLoopAt
<1>2. \A h \in Groups : /\ group'[h].call = group[h].call /\ group'[h].inUse = group[h].inUse
                        /\ group'[h].remaining = group[h].remaining
                        /\ group'[h].ctr = IF h = g THEN group[h].ctr + 1 ELSE group[h].ctr
  <2>1. PICK b \in BOOLEAN : group' = [group EXCEPT ![g].ctr = @ + 1, ![g].inQueue = b]
    BY DEF LeaveLoopAt
  <2> QED
    BY <1>1, <2>1, ZenonT(60) DEF Shapes, GroupType
<1>3. /\ \A p \in Place' : p \in Place /\ fr'[p] = fr[p]
      /\ \A p \in Place : p = q \/ (p \in Place' /\ fr'[p] = fr[p])
  BY <1>1 DEF Shrinks
<1>4. FramesInv'
  BY <1>1, FramesShrink DEF IndInv, IsCall
<1> HIDE DEF g
<1>5. QuietFrames /\ SameWork
  BY <1>1, <1>3 DEF QuietFrames, SameWork, IsCall, IsFilling
<1> HIDE DEF f
<1>6. CallsInv' /\ GroupsInv' /\ IterationsInv' /\ SerialInv' /\ ReturnedInv'
  <2>1. \A h \in Filled : group[h].ctr <= group'[h].ctr
    BY <1>2, FrameTypes DEF Filled
  <2>2. \A p \in Place' : fr'[p].op = "for" /\ fr'[p].pc = "func" => group'[fr'[p].group].ctr = 0
    <3>1. ASSUME NEW p \in Place', fr'[p].op = "for", fr'[p].pc = "func"
          PROVE  group'[fr'[p].group].ctr = 0
      <4>1. p \in Place /\ fr[p].op = "for" /\ fr[p].pc = "func" /\ IsFilling(fr[p])
        BY <1>3, <3>1 DEF IsFilling
      <4>2. fr[p].group # g /\ fr[p].group \in Groups
        BY <1>1, <4>1, FillingFacts DEF IndInv, GroupsInv, g, f
      <4> QED
        BY <1>2, <1>3, <4>1, <4>2 DEF IndInv, GroupsInv
    <3> QED
      BY <3>1
  <2> QED
    BY <1>1, <1>2, <1>5, <2>1, <2>2, QuietKeeps
<1>7. CountInv'
  <2>1. \A p \in Place' : fr'[p].op = "for" /\ fr'[p].pc # "remaining" =>
            /\ p \in Place /\ fr[p].op = "for" /\ fr[p].pc # "remaining"
            /\ fr'[p].group = fr[p].group /\ fr'[p].call = fr[p].call
            /\ group'[fr[p].group].remaining = group[fr[p].group].remaining
    BY <1>2, <1>3, FrameTypes
  <2>2. /\ \A p \in Place' : fr'[p].op = "exec" /\ fr'[p].pc = "done" => p \in Place /\ fr'[p] = fr[p]
        /\ \A p \in Place : fr[p].op = "exec" /\ fr[p].pc = "done" => p \in Place' /\ fr'[p] = fr[p]
    BY <1>1, <1>3 DEF f
  <2> QED
    BY <1>1, <2>1, <2>2, CountKept DEF IndInv
<1> QED
  BY <1>4, <1>6, <1>7 DEF IndInv

LEMMA CountingFacts ==
    /\ \A c : IsFiniteSet(Uncounted(c)) /\ Cardinality(Uncounted(c)) \in Nat
    /\ \A c, s : s \in Sites =>
          /\ IsFiniteSet(ExecutedOf(c, s)) /\ Cardinality(ExecutedOf(c, s)) \in Nat
          /\ Cardinality(ExecutedOf(c, s)) <= TaskCount(s)
          /\ Cardinality(ExecutedOf(c, s)) = TaskCount(s) => ExecutedOf(c, s) = Iterations(s)
<1>1. ASSUME NEW c
      PROVE  IsFiniteSet(Uncounted(c)) /\ Cardinality(Uncounted(c)) \in Nat
  <2>1. NumWorkers \in Int /\ 0 \in Int
    BY GroupFacts
  <2>2. IsFiniteSet(Threads)
    BY <2>1, FS_Interval DEF Threads
  <2>3. Uncounted(c) \subseteq Threads
    BY DEF Uncounted
  <2>4. IsFiniteSet(Uncounted(c))
    BY <2>2, <2>3, FS_Subset
  <2> QED
    BY <2>4, FS_CardinalityType
<1>2. ASSUME NEW c, NEW s \in Sites
      PROVE  /\ IsFiniteSet(ExecutedOf(c, s)) /\ Cardinality(ExecutedOf(c, s)) \in Nat
             /\ Cardinality(ExecutedOf(c, s)) <= TaskCount(s)
             /\ Cardinality(ExecutedOf(c, s)) = TaskCount(s) => ExecutedOf(c, s) = Iterations(s)
  <2>1. IsFiniteSet(Iterations(s)) /\ Cardinality(Iterations(s)) = TaskCount(s)
    BY IterationsCounted
  <2>2. ExecutedOf(c, s) \subseteq Iterations(s)
    BY DEF ExecutedOf
  <2>3. IsFiniteSet(ExecutedOf(c, s)) /\ Cardinality(ExecutedOf(c, s)) <= Cardinality(Iterations(s))
        /\ (Cardinality(ExecutedOf(c, s)) = Cardinality(Iterations(s)) => ExecutedOf(c, s) = Iterations(s))
    BY <2>1, <2>2, FS_Subset
  <2> QED
    BY <2>1, <2>3, FS_CardinalityType
<1> QED
  BY <1>1, <1>2

LEMMA TopsUnique ==
    ASSUME Shapes, FramesInv, NEW p \in Place, NEW q \in Place, p[1] = q[1],
           fr[p].pc = "done", Above(q) \notin Place
    PROVE  p = q
<1>1. Above(p) \notin Place
  BY DEF FramesInv
<1>2. p[1] \in Threads /\ stack \in Stacks
  BY DEF Place, Shapes
<1>3. \A r \in Place : r[1] = p[1] /\ Above(r) \notin Place => r = TopPlace(p[1])
  BY <1>2, TopFacts
<1>4. p = TopPlace(p[1]) /\ q = TopPlace(p[1])
  BY <1>1, <1>3
<1> QED
  BY <1>4

\* The iterations taken from a group are those of the call that waits for it.
LEMMA CallOfGroup ==
    ASSUME Shapes, IndInv, NEW g \in Filled,
           NEW p \in Place, fr[p].op = "for", fr[p].pc # "remaining"
    PROVE  /\ fr[p].group = g <=> fr[p].call = group[g].call
           /\ fr[p].group = g => ~ IsFilling(fr[p])
<1>1. CASE IsFilling(fr[p])
  BY <1>1 DEF IndInv, GroupsInv, Filled
<1>2. CASE ~ IsFilling(fr[p])
  <2>1. group[fr[p].group].call = fr[p].call
    BY <1>2 DEF IndInv, GroupsInv
  <2>2. fr[p].group \in Filled
    <3>1. fr[p].group \in Groups /\ fr[p].group[2] < pos[fr[p].group[1]]
      BY FrameTypes DEF IndInv, GroupsInv
    <3>2. \A r \in Place : IsFilling(fr[r]) => fr[r].group # fr[p].group
      BY <1>2 DEF IndInv, GroupsInv, IsFilling
    <3> QED
      BY <3>1, <3>2 DEF Filled
  <2> QED
    BY <1>2, <2>1, <2>2 DEF IndInv, GroupsInv
<1> QED
  BY <1>1, <1>2

LEMMA CountIterationKeeps ==
    ASSUME Shapes, Shapes', IndInv, NEW q, IsTop(q), CountIterationAt(q)
    PROVE  IndInv'
<1> DEFINE f == fr[q]
           g == f.group
           h == [f EXCEPT !.pc = "step"]
<1>1. /\ q \in Place /\ f.op = "exec" /\ f.pc = "done" /\ g \in Groups /\ f \in Frame
      /\ Becomes(q, h) /\ Above(q) \notin Place
      /\ UNCHANGED <<pos, queue, calls, begun, ran, returned>>
  BY FrameTypes DEF IsTop, CountIterationAt, Advances
<1>2. g \in Filled /\ f.call = group[g].call
  BY <1>1 DEF IndInv, GroupsInv, IterationsInv, IsRunning
<1>3. h.op = "exec" /\ h.pc = "step" /\ h.group = g
  BY <1>1 DEF Frame
<1>4. /\ \A k \in Groups : /\ group'[k].call = group[k].call /\ group'[k].inUse = group[k].inUse
                           /\ group'[k].ctr = group[k].ctr
                           /\ k # g => group'[k].remaining = group[k].remaining
      /\ group'[g].remaining = group[g].remaining - 1
  BY <1>1, SMTT(30) DEF CountIterationAt, Shapes, GroupType
<1> HIDE DEF h
<1>5. FramesInv'
  <2>1. FrameOK(h) /\ ~ IsCall(f)
    BY <1>1, <1>3 DEF FrameOK, IsCall, LoopPcs
  <2> QED
    BY <1>1, <1>3, <2>1, FramesBecome DEF IndInv
<1>6. Place' = Place /\ fr'[q] = h /\ \A p \in Place : p # q => fr'[p] = fr[p]
  BY <1>1 DEF Becomes
<1> HIDE DEF g
<1>7. QuietFrames /\ SameWork
  BY <1>1, <1>2, <1>3, <1>6 DEF QuietFrames, SameWork, IsCall, IsFilling
<1> HIDE DEF f
<1>8. CallsInv' /\ GroupsInv' /\ IterationsInv' /\ SerialInv' /\ ReturnedInv'
  <2>1. \A k \in Filled : group[k].ctr <= group'[k].ctr
    BY <1>4, FrameTypes DEF Filled
  <2>2. \A p \in Place' : fr'[p].op = "for" /\ fr'[p].pc = "func" => group'[fr'[p].group].ctr = 0
    BY <1>3, <1>4, <1>6, FrameTypes DEF IndInv, GroupsInv
  <2> QED
    BY <1>1, <1>4, <1>7, <2>1, <2>2, QuietKeeps
<1>9. CountInv'
  <2>1. \A c, s : ExecutedOf(c, s)' = ExecutedOf(c, s)
    BY <1>1 DEF Executed, ExecutedOf
  <2>2. ASSUME NEW c
        PROVE  Uncounted(c)' = IF c = f.call THEN Uncounted(c) \ {q[1]} ELSE Uncounted(c)
    <3>1. ASSUME NEW t \in Threads, NEW p \in Place, p[1] = t, fr'[p].op = "exec", fr'[p].pc = "done",
                 fr'[p].call = c
          PROVE  t \in Uncounted(c) /\ (c = f.call => t # q[1])
      <4>1. p # q /\ fr'[p] = fr[p]
        BY <1>3, <1>6, <3>1
      <4>2. t # q[1]
        BY <1>1, <3>1, <4>1, TopsUnique DEF IndInv
      <4> QED
        BY <3>1, <4>1, <4>2 DEF Uncounted
    <3>2. ASSUME NEW t \in Uncounted(c), c = f.call => t # q[1]
          PROVE  t \in Uncounted(c)'
      <4>1. PICK p \in Place : p[1] = t /\ fr[p].op = "exec" /\ fr[p].pc = "done" /\ fr[p].call = c
        BY DEF Uncounted
      <4>2. p # q
        BY <3>2, <4>1 DEF f
      <4> QED
        BY <1>6, <4>1, <4>2 DEF Uncounted
    <3> QED
      BY <1>6, <3>1, <3>2 DEF Uncounted
  <2>3. q[1] \in Uncounted(f.call)
    BY <1>1 DEF Uncounted, Place, f
  <2>4. Cardinality(Uncounted(f.call) \ {q[1]}) = Cardinality(Uncounted(f.call)) - 1
    BY <2>3, CountingFacts, FS_RemoveElement
  <2>5. ASSUME NEW p \in Place', fr'[p].op = "for", fr'[p].pc # "remaining"
        PROVE  group'[fr'[p].group].remaining
                   = TaskCount(fr'[p].group[1])
                         - Cardinality(ExecutedOf(fr[p].call, fr[p].group[1])')
                         + Cardinality(Uncounted(fr[p].call)')
    <3>1. p \in Place /\ fr'[p] = fr[p] /\ fr[p].group \in Groups
      BY <1>3, <1>6, <2>5, FrameTypes
    <3>2. group[fr[p].group].remaining
              = TaskCount(fr[p].group[1]) - Cardinality(ExecutedOf(fr[p].call, fr[p].group[1]))
                                          + Cardinality(Uncounted(fr[p].call))
      BY <2>5, <3>1 DEF IndInv, CountInv
    <3>3. fr[p].group = g <=> fr[p].call = f.call
      BY <1>2, <2>5, <3>1, CallOfGroup
    <3>4. /\ TaskCount(fr[p].group[1]) \in Nat
          /\ Cardinality(ExecutedOf(fr[p].call, fr[p].group[1])) \in Nat
          /\ Cardinality(Uncounted(fr[p].call)) \in Nat
      BY <3>1, TaskCountType, CountingFacts, GroupFacts
    <3>5. CASE fr[p].group = g
      <4>1. Cardinality(Uncounted(fr[p].call)') = Cardinality(Uncounted(fr[p].call)) - 1
        BY <2>2, <2>4, <3>1, <3>3, <3>5
      <4> QED
        BY <1>4, <2>1, <3>1, <3>2, <3>4, <3>5, <4>1
    <3>6. CASE fr[p].group # g
      BY <1>4, <2>1, <2>2, <3>1, <3>2, <3>3, <3>6
    <3> QED
      BY <3>5, <3>6
  <2> QED
    BY <2>5 DEF CountInv
<1> QED
  BY <1>5, <1>8, <1>9 DEF IndInv

LEMMA TakeIterationKeeps ==
    ASSUME Shapes, Shapes', IndInv, NEW q, IsTop(q), TakeIterationAt(q)
    PROVE  IndInv'
<1> DEFINE f == fr[q]
           g == f.group
           h == [f EXCEPT !.pc = "body", !.i = next[g]]
<1>1. /\ q \in Place /\ f.op = "exec" /\ f.pc = "step" /\ g \in Groups /\ f \in Frame
      /\ Becomes(q, h) /\ next[g] < To[g[1]] /\ next[g] \in Nat
      /\ UNCHANGED <<pos, queue, calls, begun, ran, returned>>
  <2>1. q \in Place /\ f \in Frame /\ g \in Groups
    BY FrameTypes DEF IsTop
  <2>2. next[g] = Step[g[1]] * group[g].ctr /\ next[g] \in Nat
    BY <2>1, NextFacts DEF next
  <2> QED
    BY <2>1, <2>2 DEF TakeIterationAt
<1>2. g \in Filled
  BY <1>1 DEF IndInv, GroupsInv
<1>3. h.op = "exec" /\ h.pc = "body" /\ h.group = g /\ h.i = next[g]
  BY <1>1 DEF Frame
<1>4. \A k \in Groups : /\ group'[k].call = group[k].call /\ group'[k].inUse = group[k].inUse
                        /\ group'[k].ctr = IF k = g THEN group[k].ctr + 1 ELSE group[k].ctr
                        /\ group'[k].remaining = group[k].remaining
  BY <1>1 DEF TakeIterationAt, Shapes, GroupType
<1> HIDE DEF h
<1>5. FramesInv'
  <2>1. FrameOK(h) /\ ~ IsCall(f)
    BY <1>1, <1>3 DEF FrameOK, IsCall, LoopPcs
  <2> QED
    BY <1>1, <1>3, <2>1, FramesBecome DEF IndInv
<1>6. Place' = Place /\ fr'[q] = h /\ \A p \in Place : p # q => fr'[p] = fr[p]
  BY <1>1 DEF Becomes
<1> HIDE DEF g
<1>7. QuietFrames /\ SameCalls
  BY <1>1, <1>2, <1>3, <1>6 DEF QuietFrames, SameCalls, IsCall, IsFilling
<1> HIDE DEF f
<1>8. CallsInv' /\ GroupsInv' /\ SerialInv' /\ ReturnedInv' /\ Filled' = Filled
  <2>1. \A p \in Place' : fr'[p].op = "for" /\ fr'[p].pc = "func" => group'[fr'[p].group].ctr = 0
    <3>1. ASSUME NEW p \in Place', fr'[p].op = "for", fr'[p].pc = "func"
          PROVE  group'[fr'[p].group].ctr = 0
      <4>1. p \in Place /\ fr'[p] = fr[p] /\ IsFilling(fr[p])
        BY <1>3, <1>6, <3>1 DEF IsFilling
      <4>2. fr[p].group # g /\ fr[p].group \in Groups
        BY <1>2, <4>1, FillingFacts
      <4> QED
        BY <1>4, <3>1, <4>1, <4>2 DEF IndInv, GroupsInv
    <3> QED
      BY <3>1
  <2> QED
    BY <1>1, <1>4, <1>7, <2>1, CallsStay
<1>9. IterationsInv'
  <2>1. /\ \A k \in Filled : next[k] <= next'[k] /\ k \in Groups /\ next[k] \in Nat /\ next'[k] \in Nat
        /\ next[g] < next'[g] /\ next[g] \in Iterations(g[1])
    <3>1. \A k \in Groups : group'[k].ctr \in Nat /\ group[k].ctr \in Nat
      BY DEF Shapes, GroupType
    <3>2. \A k \in Groups : group[k].ctr <= group'[k].ctr
      BY <1>4, <3>1
    <3>3. \A k \in Groups : next[k] <= next'[k]
      BY <3>1, <3>2, NextFacts
    <3> QED
      BY <1>1, <1>4, <3>3, NextFacts, NextTypes DEF Filled
  <2>2. Executed' = Executed
    BY <1>1 DEF Executed
  <2>3. \A i \in Nat : <<group[g].call, i>> \in Executed => i < next[g]
    BY <1>2 DEF IndInv, IterationsInv
  <2>4. <<group[g].call, next[g]>> \notin Executed
    BY <1>1, <2>3
  <2>5. \A p \in Place : IsRunning(fr[p]) =>
            /\ fr[p].i \in Nat /\ fr[p].group \in Filled /\ fr[p].i < next[fr[p].group]
            /\ p # q /\ fr'[p] = fr[p]
    BY <1>1, <1>6, FrameTypes DEF IndInv, IterationsInv, GroupsInv, IsRunning, f
  <2>6. \A p \in Place' : IsRunning(fr'[p]) => p = q \/ (p \in Place /\ IsRunning(fr[p]) /\ fr'[p] = fr[p])
    BY <1>6
  <2>7. ASSUME NEW p \in Place', IsRunning(fr'[p])
        PROVE  LET k == fr'[p].group IN
               /\ fr'[p].i \in Iterations(k[1]) /\ fr'[p].i < next'[k]
               /\ fr'[p].pc # "body" => fr'[p].call = group'[k].call
               /\ <<group'[k].call, fr'[p].i>> \in Executed' <=> fr'[p].pc = "done"
    <3>1. CASE p = q
      <4>1. group'[g].call = group[g].call
        BY <1>1, <1>4, <1>2 DEF Filled
      <4> QED
        BY <1>3, <1>6, <2>1, <2>2, <2>4, <3>1, <4>1
    <3>2. CASE p # q
      <4> DEFINE k == fr[p].group
      <4>1. /\ p \in Place /\ IsRunning(fr[p]) /\ fr'[p] = fr[p] /\ fr[p].i \in Nat
            /\ k \in Filled /\ k \in Groups /\ fr[p].i < next[k]
        BY <2>1, <2>5, <2>6, <2>7, <3>2
      <4>2. fr[p].i < next'[k] /\ group'[k].call = group[k].call
        BY <1>4, <2>1, <4>1
      <4>3. /\ fr[p].i \in Iterations(k[1])
            /\ fr[p].pc # "body" => fr[p].call = group[k].call
            /\ <<group[k].call, fr[p].i>> \in Executed <=> fr[p].pc = "done"
        BY <4>1 DEF IndInv, IterationsInv
      <4> QED
        BY <2>2, <4>1, <4>2, <4>3
    <3> QED
      BY <3>1, <3>2
  <2>8. ASSUME NEW p \in Place', NEW r \in Place', IsRunning(fr'[p]), IsRunning(fr'[r]),
               fr'[p].group = fr'[r].group, fr'[p].i = fr'[r].i
        PROVE  p = r
    <3>1. \A x \in Place : IsRunning(fr[x]) /\ fr[x].group = g => fr[x].i # next[g]
      BY <2>1, <2>5
    <3>2. CASE p = q \/ r = q
      BY <1>3, <1>6, <2>6, <2>8, <3>1, <3>2
    <3>3. CASE p # q /\ r # q
      BY <2>6, <2>8, <3>3 DEF IndInv, IterationsInv
    <3> QED
      BY <3>2, <3>3
  <2>9. ASSUME NEW k \in Filled, NEW i \in Nat, <<group'[k].call, i>> \in Executed'
        PROVE  i \in Iterations(k[1]) /\ i < next'[k]
    <3>1. i \in Iterations(k[1]) /\ i < next[k]
      BY <1>4, <2>1, <2>2, <2>9 DEF IndInv, IterationsInv
    <3> QED
      BY <2>1, <3>1
  <2>10. \A p \in Place', i \in Nat : IsFilling(fr'[p]) => <<fr'[p].call, i>> \notin Executed'
    BY <1>3, <1>6, <2>2 DEF IndInv, IterationsInv, IsFilling
  <2>11. ran' = [x \in Executed' |-> 1]
    BY <1>1, <2>2 DEF IndInv, IterationsInv
  <2> QED
    BY <1>8, <2>7, <2>8, <2>9, <2>10, <2>11 DEF IterationsInv
<1>10. CountInv'
  <2>1. \A p \in Place' : fr'[p].op = "for" /\ fr'[p].pc # "remaining" =>
            /\ p \in Place /\ fr[p].op = "for" /\ fr[p].pc # "remaining"
            /\ fr'[p].group = fr[p].group /\ fr'[p].call = fr[p].call
            /\ group'[fr[p].group].remaining = group[fr[p].group].remaining
    BY <1>3, <1>4, <1>6, FrameTypes
  <2>2. /\ \A p \in Place' : fr'[p].op = "exec" /\ fr'[p].pc = "done" => p \in Place /\ fr'[p] = fr[p]
        /\ \A p \in Place : fr[p].op = "exec" /\ fr[p].pc = "done" => p \in Place' /\ fr'[p] = fr[p]
    BY <1>1, <1>3, <1>6 DEF f
  <2> QED
    BY <1>1, <2>1, <2>2, CountKept DEF IndInv
<1> QED
  BY <1>5, <1>8, <1>9, <1>10 DEF IndInv

LEMMA StoreFuncKeeps ==
    ASSUME Shapes, Shapes', IndInv, NEW q, IsTop(q), StoreFuncAt(q)
    PROVE  IndInv'
<1> DEFINE f == fr[q]
           g == f.group
           h == [f EXCEPT !.pc = "push"]
<1>1. /\ q \in Place /\ f.op = "for" /\ f.pc = "func" /\ IsFilling(f) /\ Becomes(q, h) /\ f \in Frame
      /\ IsCall(f) /\ f.call \in Seq(Nat)
      /\ UNCHANGED <<pos, queue, calls, begun, ran, returned>>
  BY FrameTypes DEF IsTop, StoreFuncAt, IsFilling, IsCall, Advances
<1>2. /\ g \in Groups /\ g \notin Filled /\ g[1] \in Sites
      /\ \A p \in Place : p # q /\ fr[p].op = "for" => fr[p].group # g
      /\ \A i \in Nat : <<f.call, i>> \notin Executed
  BY <1>1, FillingFacts
<1>3. h.op = "for" /\ h.pc = "push" /\ h.group = g /\ h.call = f.call /\ h.i = f.i /\ IsCall(h) /\ ~ IsFilling(h)
  BY <1>1 DEF Frame, IsCall, IsFilling
<1> HIDE DEF h
<1>4. Place' = Place /\ fr'[q] = h /\ \A p \in Place : p # q => fr'[p] = fr[p]
  BY <1>1 DEF Becomes
<1>5. /\ \A k \in Groups : /\ group'[k].inUse = group[k].inUse /\ group'[k].ctr = group[k].ctr
                           /\ group'[k].remaining = group[k].remaining
                           /\ k # g => group'[k].call = group[k].call
      /\ group'[g].call = f.call
  BY <1>2 DEF StoreFuncAt, Shapes, GroupType
<1>6. FramesInv'
  <2>1. FrameOK(h)
    BY <1>1, <1>3 DEF FrameOK, ForPcs, IndInv, FramesInv
  <2> QED
    BY <1>1, <1>3, <2>1, FramesBecome DEF IndInv
<1>7. /\ g[2] < pos[g[1]] /\ group[g].inUse /\ group[g].ctr = 0 /\ <<f.call, g[1]>> \in begun
      /\ f.call \notin returned /\ \A p \in Place : IsCall(fr[p]) /\ fr[p].call = f.call => p = q
      /\ \A k \in Filled : group[k].call # f.call
  BY <1>1 DEF IndInv, GroupsInv, CallsInv, IsCall
<1>8. Filled' = Filled \cup {g}
  <2>1. ASSUME NEW k
        PROVE  k \in Filled' <=> k \in Filled \/ k = g
    <3>1. CASE k = g
      BY <1>1, <1>2, <1>3, <1>4, <1>7, <3>1 DEF Filled, IsFilling
    <3>2. CASE k # g
      BY <1>1, <1>3, <1>4, <3>2 DEF Filled, f
    <3> QED
      BY <3>1, <3>2
  <2> QED
    BY <2>1
<1>9. \A k \in Filled : k # g /\ k \in Groups /\ group'[k].call = group[k].call
  BY <1>2, <1>5 DEF Filled
<1>10. \A p \in Place : fr[p].group \in Groups /\ (p # q => fr'[p] = fr[p])
  BY <1>4, FrameTypes
<1> HIDE DEF f, g
<1>11. GroupsInv'
  <2>1. \A p \in Place' : fr'[p].op = "for" =>
            LET k == fr'[p].group IN k[2] < pos'[k[1]] /\ group'[k].inUse
    BY <1>1, <1>2, <1>3, <1>4, <1>5, <1>7, <1>10 DEF IndInv, GroupsInv
  <2>2. \A p, r \in Place' : fr'[p].op = "for" /\ fr'[r].op = "for" /\ fr'[p].group = fr'[r].group => p = r
    BY <1>2, <1>3, <1>4 DEF IndInv, GroupsInv
  <2>3. \A p \in Place' : fr'[p].op = "exec" => fr'[p].group \in Filled'
    BY <1>3, <1>4, <1>8 DEF IndInv, GroupsInv
  <2>4. \A w \in Workers, k \in Groups : queue'[w][k] > 0 => k \in Filled'
    BY <1>1, <1>8 DEF IndInv, GroupsInv
  <2>5. \A p \in Place' : fr'[p].op = "for" /\ ~ IsFilling(fr'[p]) => group'[fr'[p].group].call = fr'[p].call
    BY <1>2, <1>3, <1>4, <1>5, <1>10 DEF IndInv, GroupsInv
  <2>6. \A p \in Place' : fr'[p].op = "for" /\ fr'[p].pc = "func" => group'[fr'[p].group].ctr = 0
    BY <1>3, <1>4, <1>5, <1>10 DEF IndInv, GroupsInv
  <2>7. \A k \in Filled' : <<group'[k].call, k[1]>> \in begun'
    BY <1>1, <1>5, <1>7, <1>8, <1>9 DEF IndInv, GroupsInv
  <2>8. \A k, l \in Filled' : group'[k].call = group'[l].call => k = l
    BY <1>5, <1>7, <1>8, <1>9 DEF IndInv, GroupsInv
  <2>9. ASSUME NEW k \in Filled', NEW p \in Place', fr'[p].op = "serial" \/ IsFilling(fr'[p])
        PROVE  fr'[p].call # group'[k].call
    <3>1. p # q /\ p \in Place /\ fr'[p] = fr[p] /\ IsCall(fr[p])
      BY <1>3, <1>4, <2>9 DEF IsFilling, IsCall
    <3>2. CASE k = g
      BY <1>5, <1>7, <3>1, <3>2
    <3>3. CASE k \in Filled
      BY <1>9, <2>9, <3>1, <3>3 DEF IndInv, GroupsInv
    <3> QED
      BY <1>8, <3>2, <3>3
  <2> QED
    BY <2>1, <2>2, <2>3, <2>4, <2>5, <2>6, <2>7, <2>8, <2>9 DEF GroupsInv
<1>12. Executed' = Executed
  BY <1>1 DEF Executed
<1>13. CallsInv'
  <2>1. CallIds' = CallIds
    BY <1>1 DEF CallIds
  <2>2. ASSUME NEW c \in Seq(Nat), NEW i \in Nat, c # <<>>, Append(c, i) \in CallIds'
        PROVE  Started(c, i)'
    <3>1. Started(c, i)
      BY <2>1, <2>2 DEF IndInv, CallsInv
    <3>2. \A p \in Place : fr[p].pc = "nested" => p \in Place' /\ fr'[p] = fr[p]
      BY <1>1, <1>4 DEF f
    <3> QED
      BY <1>12, <3>1, <3>2 DEF Started
  <2>3. \A p \in Place' : IsCall(fr'[p]) => <<fr'[p].call, fr'[p].group[1]>> \in begun'
    BY <1>1, <1>3, <1>4, <1>7, ZenonT(60) DEF IndInv, CallsInv
  <2>4. \A p \in Place' : IsCall(fr'[p]) => fr'[p].call \notin returned'
    BY <1>1, <1>3, <1>4, <1>7 DEF IndInv, CallsInv
  <2>5. \A p, r \in Place' : IsCall(fr'[p]) /\ IsCall(fr'[r]) /\ fr'[p].call = fr'[r].call => p = r
    BY <1>1, <1>3, <1>4, <1>7 DEF IndInv, CallsInv
  <2> QED
    BY <1>1, <2>1, <2>2, <2>3, <2>4, <2>5 DEF IndInv, CallsInv
<1>14. IterationsInv'
  <2>1. \A k \in Groups : next'[k] = next[k]
    BY <1>5 DEF next
  <2>2. \A p \in Place' : IsRunning(fr'[p]) =>
            /\ p \in Place /\ IsRunning(fr[p]) /\ fr'[p] = fr[p] /\ fr[p].group \in Filled
            /\ fr[p].group \in Groups /\ group'[fr[p].group].call = group[fr[p].group].call
    BY <1>3, <1>4, <1>9 DEF IsRunning, IndInv, GroupsInv
  <2>3. ASSUME NEW p \in Place', IsRunning(fr'[p])
        PROVE  LET k == fr'[p].group IN
               /\ fr'[p].i \in Iterations(k[1]) /\ fr'[p].i < next'[k]
               /\ fr'[p].pc # "body" => fr'[p].call = group'[k].call
               /\ <<group'[k].call, fr'[p].i>> \in Executed' <=> fr'[p].pc = "done"
    <3> DEFINE k == fr[p].group
    <3>1. /\ p \in Place /\ IsRunning(fr[p]) /\ fr'[p] = fr[p] /\ k \in Groups
          /\ group'[k].call = group[k].call /\ next'[k] = next[k]
      BY <2>1, <2>2, <2>3
    <3>2. /\ fr[p].i \in Iterations(k[1]) /\ fr[p].i < next[k]
          /\ fr[p].pc # "body" => fr[p].call = group[k].call
          /\ <<group[k].call, fr[p].i>> \in Executed <=> fr[p].pc = "done"
      BY <3>1 DEF IndInv, IterationsInv
    <3> QED
      BY <1>12, <3>1, <3>2
  <2>4. \A p, r \in Place' : /\ IsRunning(fr'[p]) /\ IsRunning(fr'[r])
                             /\ fr'[p].group = fr'[r].group /\ fr'[p].i = fr'[r].i
                             => p = r
    BY <2>2 DEF IndInv, IterationsInv
  <2>5. \A k \in Filled', i \in Nat : <<group'[k].call, i>> \in Executed' =>
            i \in Iterations(k[1]) /\ i < next'[k]
    BY <1>2, <1>5, <1>8, <1>9, <1>12, <2>1 DEF IndInv, IterationsInv
  <2>6. \A p \in Place', i \in Nat : IsFilling(fr'[p]) => <<fr'[p].call, i>> \notin Executed'
    BY <1>3, <1>4, <1>12 DEF IndInv, IterationsInv
  <2>7. ran' = [x \in Executed' |-> 1]
    BY <1>1, <1>12 DEF IndInv, IterationsInv
  <2> QED
    BY <2>3, <2>4, <2>5, <2>6, <2>7 DEF IterationsInv
<1>15. SerialInv'
  <2>1. \A p \in Place' : fr'[p].op = "serial" => p \in Place /\ fr'[p] = fr[p]
    BY <1>3, <1>4
  <2> QED
    BY <1>1, <2>1, SerialKept DEF IndInv
<1>16. ReturnedInv'
  BY <1>1, <1>12, ReturnedKept DEF IndInv
<1>17. CountInv'
  <2>1. \A p \in Place' : fr'[p].op = "for" /\ fr'[p].pc # "remaining" =>
            /\ p \in Place /\ fr[p].op = "for" /\ fr[p].pc # "remaining"
            /\ fr'[p].group = fr[p].group /\ fr'[p].call = fr[p].call
            /\ group'[fr[p].group].remaining = group[fr[p].group].remaining
    BY <1>1, <1>3, <1>4, <1>5, <1>10 DEF f, g
  <2>2. /\ \A p \in Place' : fr'[p].op = "exec" /\ fr'[p].pc = "done" => p \in Place /\ fr'[p] = fr[p]
        /\ \A p \in Place : fr[p].op = "exec" /\ fr[p].pc = "done" => p \in Place' /\ fr'[p] = fr[p]
    BY <1>1, <1>3, <1>4 DEF f
  <2> QED
    BY <1>1, <2>1, <2>2, CountKept DEF IndInv
<1> QED
  BY <1>6, <1>11, <1>13, <1>14, <1>15, <1>16, <1>17 DEF IndInv

LEMMA ReturnKeeps ==
    ASSUME Shapes, Shapes', IndInv, NEW q, IsTop(q), ReturnAt(q)
    PROVE  IndInv'
<1> DEFINE f == fr[q]
           g == f.group
<1>1. /\ q \in Place /\ f.op = "for" /\ f.pc = "loop" /\ g \in Groups /\ g[1] \in Sites
      /\ ~ IsFilling(f) /\ IsCall(f) /\ Shrinks(q) /\ group[g].remaining = 0
      /\ returned' = returned \cup {f.call}
      /\ UNCHANGED <<pos, queue, calls, begun, ran>>
  BY FrameTypes, GroupFacts DEF IsTop, ReturnAt, IsFilling, IsCall
<1>2. \A h \in Groups : /\ group'[h].call = group[h].call /\ group'[h].ctr = group[h].ctr
                        /\ h # g => group'[h].inUse = group[h].inUse
                        /\ h # g => group'[h].remaining = group[h].remaining
  BY <1>1 DEF ReturnAt, Shapes, GroupType
<1>3. /\ \A p \in Place' : p \in Place /\ p # q /\ fr'[p] = fr[p]
      /\ \A p \in Place : p = q \/ (p \in Place' /\ fr'[p] = fr[p])
  BY <1>1 DEF Shrinks
<1>4. /\ <<f.call, g[1]>> \in begun
      /\ \A p \in Place : p # q /\ IsCall(fr[p]) => fr[p].call # f.call
      /\ \A p \in Place : p # q /\ fr[p].op = "for" => fr[p].group # g
  BY <1>1 DEF IndInv, CallsInv, GroupsInv
<1>5. \A i \in Iterations(g[1]) : <<f.call, i>> \in Executed
  <2>1. 0 = TaskCount(g[1]) - Cardinality(ExecutedOf(f.call, g[1])) + Cardinality(Uncounted(f.call))
    BY <1>1 DEF IndInv, CountInv
  <2>2. /\ Cardinality(ExecutedOf(f.call, g[1])) \in Nat /\ Cardinality(Uncounted(f.call)) \in Nat
        /\ Cardinality(ExecutedOf(f.call, g[1])) <= TaskCount(g[1]) /\ TaskCount(g[1]) \in Nat
        /\ Cardinality(ExecutedOf(f.call, g[1])) = TaskCount(g[1]) => ExecutedOf(f.call, g[1]) = Iterations(g[1])
    BY <1>1, CountingFacts, TaskCountType
  <2> DEFINE m == Cardinality(ExecutedOf(f.call, g[1]))
             n == Cardinality(Uncounted(f.call))
             k == TaskCount(g[1])
  <2>3. m \in Nat /\ n \in Nat /\ k \in Nat /\ m <= k /\ 0 = k - m + n
    BY <2>1, <2>2
  <2>4. m = k => ExecutedOf(f.call, g[1]) = Iterations(g[1])
    BY <2>2
  <2> HIDE DEF k, m, n
  <2>5. m = k
    BY <2>3
  <2>6. ExecutedOf(f.call, g[1]) = Iterations(g[1])
    BY <2>4, <2>5
  <2> QED
    BY <2>6 DEF ExecutedOf
<1>6. FramesInv'
  BY <1>1, FramesShrink DEF IndInv
<1>7. QuietFrames
  BY <1>1, <1>3 DEF QuietFrames
<1>8. Executed' = Executed
  BY <1>1 DEF Executed
<1> HIDE DEF f, g
<1>9. GroupsInv' /\ Filled' = Filled
  <2>1. \A p \in Place' : fr'[p].group \in Groups
    BY NewFrameTypes
  <2>2. \A p \in Place' : fr'[p].op = "exec" => fr'[p].group \in Filled
    BY <1>3 DEF IndInv, GroupsInv
  <2>3. \A p \in Place' : fr'[p].op = "for" => group'[fr'[p].group].inUse
    BY <1>2, <1>3, <1>4, <2>1 DEF IndInv, GroupsInv
  <2>4. \A p \in Place' : fr'[p].op = "for" /\ fr'[p].pc = "func" => group'[fr'[p].group].ctr = 0
    BY <1>2, <1>3, <2>1 DEF IndInv, GroupsInv
  <2>5. \A w \in Workers, h \in Groups : queue'[w][h] > 0 => h \in Filled
    BY <1>1 DEF IndInv, GroupsInv
  <2> QED
    BY <1>1, <1>2, <1>7, <2>1, <2>2, <2>3, <2>4, <2>5, GroupsKept DEF IndInv
<1>10. CallsInv'
  <2>1. \A p \in Place' : IsCall(fr'[p]) => fr[p].call \notin returned'
    BY <1>1, <1>3, <1>4 DEF IndInv, CallsInv
  <2>2. \A p \in Place : fr[p].pc = "nested" => p \in Place' /\ fr'[p] = fr[p]
    BY <1>1, <1>3 DEF f
  <2> QED
    BY <1>1, <1>7, <1>8, <2>1, <2>2, CallsKept DEF IndInv
<1>11. IterationsInv'
  <2>1. \A h \in Filled : next[h] <= next'[h]
    <3>1. \A h \in Groups : group'[h].ctr \in Nat /\ group[h].ctr <= group'[h].ctr
      BY <1>2, FrameTypes
    <3> QED
      BY <3>1, NextFacts DEF Filled
  <2>2. \A p \in Place' : IsRunning(fr'[p]) /\ fr'[p].pc # "body" => fr'[p].call = group[fr[p].group].call
    BY <1>3 DEF IndInv, IterationsInv
  <2> QED
    BY <1>1, <1>2, <1>3, <1>9, <2>1, <2>2, IterationsKept DEF IndInv
<1>12. SerialInv'
  BY <1>1, <1>3, SerialKept DEF IndInv
<1>13. ReturnedInv'
  <2>1. ASSUME NEW b \in begun', b[1] \in returned', NEW i \in Iterations(b[2])
        PROVE  <<b[1], i>> \in Executed'
    <3>1. b \in begun /\ b = <<b[1], b[2]>>
      BY <1>1, CallIdFacts
    <3>2. CASE b[1] \in returned
      BY <1>8, <2>1, <3>1, <3>2 DEF IndInv, ReturnedInv
    <3>3. CASE b[1] = f.call
      <4>1. b = <<f.call, g[1]>>
        BY <1>4, <3>1, <3>3 DEF IndInv, CallsInv
      <4>2. b[2] = g[1]
        BY <4>1
      <4> QED
        BY <1>5, <1>8, <2>1, <3>3, <4>2
    <3> QED
      BY <1>1, <2>1, <3>2, <3>3
  <2> QED
    BY <2>1 DEF ReturnedInv
<1>14. CountInv'
  <2>1. \A p \in Place' : fr'[p].op = "for" /\ fr'[p].pc # "remaining" =>
            /\ p \in Place /\ fr[p].op = "for" /\ fr[p].pc # "remaining"
            /\ fr'[p].group = fr[p].group /\ fr'[p].call = fr[p].call
            /\ group'[fr[p].group].remaining = group[fr[p].group].remaining
    BY <1>2, <1>3, <1>4, FrameTypes
  <2>2. /\ \A p \in Place' : fr'[p].op = "exec" /\ fr'[p].pc = "done" => p \in Place /\ fr'[p] = fr[p]
        /\ \A p \in Place : fr[p].op = "exec" /\ fr[p].pc = "done" => p \in Place' /\ fr'[p] = fr[p]
    BY <1>1, <1>3 DEF f
  <2> QED
    BY <1>1, <2>1, <2>2, CountKept DEF IndInv
<1> QED
  BY <1>6, <1>9, <1>10, <1>11, <1>12, <1>13, <1>14 DEF IndInv

\* Only a loop that its caller runs goes on.
LEMMA SerialGoesOn ==
    ASSUME Shapes, Shapes', IndInv, UNCHANGED <<group, pos, queue, calls, begun, ran>>, QuietFrames,
           \A p \in Place' : fr'[p].op # "serial" => p \in Place /\ fr'[p] = fr[p],
           \A p \in Place : fr[p].op # "serial" \/ fr[p].pc = "nested" => p \in Place' /\ fr'[p] = fr[p],
           \A p \in Place' : IsCall(fr'[p]) => fr[p].call \notin returned'
    PROVE  CallsInv' /\ GroupsInv' /\ IterationsInv' /\ CountInv'
<1>1. Executed' = Executed
  BY DEF Executed
<1>2. GroupsInv' /\ Filled' = Filled
  <2>1. \A p \in Place' : fr'[p].group \in Groups
    BY NewFrameTypes
  <2>2. \A p \in Place' : fr'[p].op = "exec" => fr'[p].group \in Filled
    BY DEF IndInv, GroupsInv
  <2>3. \A p \in Place' : fr'[p].op = "for" => group'[fr'[p].group].inUse
    BY DEF IndInv, GroupsInv
  <2>4. \A p \in Place' : fr'[p].op = "for" /\ fr'[p].pc = "func" => group'[fr'[p].group].ctr = 0
    BY DEF IndInv, GroupsInv
  <2>5. \A w \in Workers, h \in Groups : queue'[w][h] > 0 => h \in Filled
    BY DEF IndInv, GroupsInv
  <2> QED
    BY <2>1, <2>2, <2>3, <2>4, <2>5, GroupsKept DEF IndInv
<1>3. CallsInv'
  BY <1>1, CallsKept DEF IndInv
<1>4. IterationsInv'
  <2>1. \A h \in Filled : next[h] <= next'[h]
    <3>1. \A h \in Groups : group'[h].ctr \in Nat /\ group[h].ctr <= group'[h].ctr
      BY FrameTypes
    <3> QED
      BY <3>1, NextFacts DEF Filled
  <2>2. \A p \in Place' : IsRunning(fr'[p]) =>
            /\ p \in Place /\ fr'[p] = fr[p]
            /\ fr'[p].pc # "body" => fr'[p].call = group[fr[p].group].call
    BY DEF IndInv, IterationsInv, IsRunning
  <2>3. \A p \in Place' : IsFilling(fr'[p]) => p \in Place /\ fr'[p] = fr[p]
    BY DEF IsFilling
  <2> QED
    BY <1>2, <2>1, <2>2, <2>3, IterationsKept DEF IndInv
<1>5. CountInv'
  BY CountKept DEF IndInv
<1> QED
  BY <1>2, <1>3, <1>4, <1>5

LEMMA SerialIterations ==
    ASSUME NEW s \in Sites, Serial(s), NEW i \in Iterations(s)
    PROVE  i = 0 /\ 0 < To[s]
<1>1. To[s] \in Nat /\ Step[s] \in Nat \ {0} /\ To[s] < Step[s]
  BY GroupFacts DEF Serial
<1>2. i \in 0..(To[s] - 1) /\ i % Step[s] = 0
  BY DEF Iterations
<1> DEFINE a == To[s]
           b == Step[s]
<1>3. a \in Nat /\ b \in Nat \ {0} /\ a < b /\ i \in 0..(a - 1) /\ i % b = 0
  BY <1>1, <1>2
<1> HIDE DEF a, b
<1>4. i % b = i
  BY <1>3
<1> QED
  BY <1>3, <1>4 DEF a

LEMMA SerialStepKeeps ==
    ASSUME Shapes, Shapes', IndInv, NEW q, IsTop(q), SerialStepAt(q)
    PROVE  IndInv'
<1> DEFINE f == fr[q]
           s == f.group[1]
<1>1. /\ q \in Place /\ f.op = "serial" /\ s \in Sites /\ f \in Frame /\ f.i \in Nat
      /\ To[s] \in Nat /\ Step[s] \in Nat \ {0}
      /\ IsCall(f) /\ ~ IsFilling(f)
      /\ UNCHANGED <<group, pos, queue, calls, begun, ran>>
  BY FrameTypes, GroupFacts DEF IsTop, SerialStepAt, IsCall, IsFilling
<1>2. Executed' = Executed
  BY <1>1 DEF Executed
<1>3. /\ Serial(s) /\ (f.pc # "step" => f.i = 0 /\ 0 < To[s]) /\ (f.i = 0 \/ f.i >= To[s])
      /\ f.i = 0 /\ f.pc # "done" => \A i \in Nat : <<f.call, i>> \notin Executed
      /\ f.i > 0 \/ f.pc = "done" => <<f.call, 0>> \in Executed
  BY <1>1 DEF IndInv, SerialInv
<1>4. /\ <<f.call, s>> \in begun /\ f.call \notin returned
      /\ \A p \in Place : IsCall(fr[p]) => fr[p].call \notin returned
      /\ \A p \in Place : p # q /\ IsCall(fr[p]) => fr[p].call # f.call
  BY <1>1 DEF IndInv, CallsInv
<1>5. ASSUME NEW h, Becomes(q, h), f.pc # "nested", h.op = "serial", h.group = f.group, h.call = f.call,
             h.pc \in {"step", "body"}, returned' = returned,
             /\ h.pc # "step" => h.i = 0 /\ 0 < To[s]
             /\ h.i = 0 \/ h.i >= To[s]
             /\ h.i = 0 /\ h.pc # "done" => \A i \in Nat : <<f.call, i>> \notin Executed
             /\ h.i > 0 \/ h.pc = "done" => <<f.call, 0>> \in Executed
      PROVE  IndInv'
  <2>1. Place' = Place /\ fr'[q] = h /\ \A p \in Place : p # q => fr'[p] = fr[p]
    BY <1>5 DEF Becomes
  <2>2. IsCall(h) /\ ~ IsFilling(h) /\ FrameOK(h)
    BY <1>5 DEF IsCall, IsFilling, FrameOK, LoopPcs
  <2>3. FramesInv'
    BY <1>1, <1>5, <2>2, FramesBecome DEF IndInv
  <2>4. QuietFrames
    BY <1>1, <1>5, <2>1, <2>2 DEF QuietFrames
  <2>5. SerialInv'
    <3>1. \A p \in Place : p # q /\ fr[p].op = "serial" => fr'[p] = fr[p]
      BY <2>1
    <3> QED
      BY <1>1, <1>2, <1>3, <1>5, <2>1 DEF IndInv, SerialInv
  <2>6. ReturnedInv'
    BY <1>1, <1>2, <1>5, ReturnedKept DEF IndInv
  <2> HIDE DEF f
  <2>7. CallsInv' /\ GroupsInv' /\ IterationsInv' /\ CountInv'
    <3>1. \A p \in Place' : fr'[p].op # "serial" => p \in Place /\ fr'[p] = fr[p]
      BY <1>5, <2>1
    <3>2. \A p \in Place : fr[p].op # "serial" \/ fr[p].pc = "nested" => p \in Place' /\ fr'[p] = fr[p]
      BY <1>1, <1>5, <2>1 DEF f
    <3>3. \A p \in Place' : IsCall(fr'[p]) => fr[p].call \notin returned'
      BY <1>4, <1>5, <2>4 DEF QuietFrames, IsCall
    <3> QED
      BY <1>1, <2>4, <3>1, <3>2, <3>3, SerialGoesOn
  <2> QED
    BY <2>3, <2>5, <2>6, <2>7 DEF IndInv
<1>6. CASE f.pc = "step" /\ f.i < To[s] /\ Advances(q, "body") /\ UNCHANGED returned
  <2> DEFINE h == [f EXCEPT !.pc = "body"]
  <2>1. h.op = "serial" /\ h.group = f.group /\ h.call = f.call /\ h.pc = "body" /\ h.i = f.i /\ Becomes(q, h)
    BY <1>1, <1>6 DEF Frame, Advances
  <2> HIDE DEF h
  <2>2. f.i = 0 /\ 0 < To[s]
    BY <1>1, <1>3, <1>6
  <2> QED
    BY <1>3, <1>5, <1>6, <2>1, <2>2
<1>7. CASE f.pc = "step" /\ f.i >= To[s] /\ Shrinks(q) /\ returned' = returned \cup {f.call}
  <2>1. /\ \A p \in Place' : p \in Place /\ p # q /\ fr'[p] = fr[p]
        /\ \A p \in Place : p = q \/ (p \in Place' /\ fr'[p] = fr[p])
    BY <1>7 DEF Shrinks
  <2>2. FramesInv'
    BY <1>1, <1>7, FramesShrink DEF IndInv
  <2>3. QuietFrames
    BY <1>1, <2>1 DEF QuietFrames
  <2>4. SerialInv'
    BY <1>1, <2>1, SerialKept DEF IndInv
  <2>5. \A i \in Iterations(s) : <<f.call, i>> \in Executed
    <3>1. ASSUME NEW i \in Iterations(s)
          PROVE  i = 0 /\ f.i > 0
      <4>1. i = 0 /\ 0 < To[s]
        BY <1>1, <1>3, SerialIterations
      <4> QED
        BY <1>1, <1>7, <4>1
    <3> QED
      BY <1>3, <3>1
  <2>6. ReturnedInv'
    <3>1. ASSUME NEW b \in begun', b[1] \in returned', NEW i \in Iterations(b[2])
          PROVE  <<b[1], i>> \in Executed'
      <4>1. b \in begun /\ b = <<b[1], b[2]>>
        BY <1>1, CallIdFacts
      <4>2. CASE b[1] \in returned
        BY <1>2, <3>1, <4>1, <4>2 DEF IndInv, ReturnedInv
      <4>3. CASE b[1] = f.call
        <5>1. b = <<f.call, s>>
          BY <1>4, <4>1, <4>3 DEF IndInv, CallsInv
        <5>2. b[2] = s
          BY <5>1
        <5> QED
          BY <1>2, <2>5, <3>1, <4>3, <5>2
      <4> QED
        BY <1>7, <3>1, <4>2, <4>3
    <3> QED
      BY <3>1 DEF ReturnedInv
  <2> HIDE DEF f
  <2>7. CallsInv' /\ GroupsInv' /\ IterationsInv' /\ CountInv'
    <3>1. \A p \in Place : fr[p].op # "serial" \/ fr[p].pc = "nested" => p \in Place' /\ fr'[p] = fr[p]
      BY <1>1, <1>7, <2>1 DEF f
    <3>2. \A p \in Place' : IsCall(fr'[p]) => fr[p].call \notin returned'
      BY <1>4, <1>7, <2>1
    <3> QED
      BY <1>1, <2>1, <2>3, <3>1, <3>2, SerialGoesOn
  <2> QED
    BY <2>2, <2>4, <2>6, <2>7 DEF IndInv
<1>8. CASE /\ f.pc = "done" /\ UNCHANGED returned
           /\ Becomes(q, [f EXCEPT !.pc = "step", !.i = @ + Step[s]])
  <2> DEFINE h == [f EXCEPT !.pc = "step", !.i = @ + Step[s]]
  <2>1. h.op = "serial" /\ h.group = f.group /\ h.call = f.call /\ h.pc = "step" /\ h.i = f.i + Step[s] /\ Becomes(q, h)
    BY <1>1, <1>8 DEF Frame
  <2> HIDE DEF h
  <2>2. h.i >= To[s] /\ h.i > 0
    BY <1>1, <1>3, <2>1, <1>8 DEF Serial
  <2>3. h.i # 0
    BY <1>1, <2>1, <2>2
  <2> QED
    BY <1>3, <1>5, <1>8, <2>1, <2>2, <2>3
<1> QED
  BY <1>6, <1>7, <1>8 DEF SerialStepAt

\* A worker, or a thread that waits, executes an iteration it has taken.
LEMMA ExecutionKeeps ==
    ASSUME Shapes, Shapes', IndInv, NEW q, IsTop(q), NEW h, Becomes(q, h),
           fr[q].op = "exec", fr[q].pc \in {"body", "nested"}, h.op = "exec", h.pc = "done",
           h.group = fr[q].group, h.i = fr[q].i, h.call = group[fr[q].group].call,
           ran' = ran (+) SetToBag({<<h.call, h.i>>}),
           UNCHANGED <<group, pos, queue, calls, begun, returned>>
    PROVE  IndInv'
<1> DEFINE f == fr[q]
           g == f.group
           x == <<h.call, h.i>>
<1>1. /\ q \in Place /\ f \in Frame /\ g \in Groups /\ g[1] \in Sites /\ f.i \in Nat /\ IsRunning(f)
      /\ Above(q) \notin Place /\ g \in Filled
  BY FrameTypes, GroupFacts DEF IsTop, IsRunning, IndInv, GroupsInv
<1>2. /\ f.i \in Iterations(g[1]) /\ f.i < next[g] /\ x \notin Executed
      /\ f.pc = "nested" => f.call = h.call
  BY <1>1 DEF IndInv, IterationsInv
<1>3. Place' = Place /\ fr'[q] = h /\ \A p \in Place : p # q => fr'[p] = fr[p]
  BY DEF Becomes
<1>4. Executed' = Executed \cup {x} /\ ran' = [y \in Executed' |-> 1]
  BY <1>2, RanFacts DEF Shapes, IndInv, IterationsInv
<1>5. FramesInv'
  <2>1. FrameOK(h) /\ ~ IsCall(f)
    BY DEF FrameOK, IsCall, LoopPcs
  <2> QED
    BY <2>1, FramesBecome DEF IndInv
<1>6. QuietFrames
  BY <1>1, <1>3 DEF QuietFrames, IsCall, IsFilling
<1>7. /\ \A p \in Place : fr[p].op = "serial" \/ IsFilling(fr[p]) => fr[p].call # h.call
      /\ \A k \in Filled : k # g => group[k].call # h.call
      /\ \A p \in Place : fr[p].group \in Groups /\ (fr[p].op = "exec" => fr[p].group \in Filled)
  BY <1>1, FrameTypes DEF IndInv, GroupsInv
<1>8. \A c, i : <<c, i>> \in Executed' <=> <<c, i>> \in Executed \/ (c = h.call /\ i = f.i)
  BY <1>4
<1>9. h.call = group[g].call /\ f.op = "exec" /\ f.pc # "done" /\ h.group = g /\ h.i = f.i
  OBVIOUS
<1> HIDE DEF x, g, f
<1>10. GroupsInv' /\ Filled' = Filled
  <2>1. \A p \in Place' : fr'[p].group \in Groups
    BY NewFrameTypes
  <2>2. \A p \in Place' : fr'[p].op = "exec" => fr'[p].group \in Filled
    BY <1>1, <1>3, <1>7, <1>9
  <2>3. \A p \in Place' : fr'[p].op = "for" => group'[fr'[p].group].inUse
    BY <1>3 DEF IndInv, GroupsInv
  <2>4. \A p \in Place' : fr'[p].op = "for" /\ fr'[p].pc = "func" => group'[fr'[p].group].ctr = 0
    BY <1>3 DEF IndInv, GroupsInv
  <2>5. \A w \in Workers, k \in Groups : queue'[w][k] > 0 => k \in Filled
    BY DEF IndInv, GroupsInv
  <2> QED
    BY <1>6, <2>1, <2>2, <2>3, <2>4, <2>5, GroupsKept DEF IndInv
<1>11. CallsInv'
  <2>1. \A p \in Place' : IsCall(fr'[p]) => fr[p].call \notin returned'
    BY <1>3 DEF IsCall, IndInv, CallsInv
  <2>2. \A p \in Place : fr[p].pc = "nested" =>
            \/ p \in Place' /\ fr'[p] = fr[p]
            \/ <<fr[p].call, fr[p].i>> \in Executed'
    BY <1>2, <1>3, <1>8 DEF f
  <2> QED
    BY <1>4, <1>6, <2>1, <2>2, CallsKept DEF IndInv
<1>12. IterationsInv'
  <2>1. next' = next
    BY DEF next
  <2>2. \A p \in Place : IsRunning(fr[p]) /\ fr[p].group = g /\ fr[p].i = f.i => p = q
    BY <1>1 DEF IndInv, IterationsInv, f, g
  <2>3. ASSUME NEW p \in Place', IsRunning(fr'[p])
        PROVE  LET k == fr'[p].group IN
               /\ fr'[p].i \in Iterations(k[1]) /\ fr'[p].i < next'[k]
               /\ fr'[p].pc # "body" => fr'[p].call = group'[k].call
               /\ <<group'[k].call, fr'[p].i>> \in Executed' <=> fr'[p].pc = "done"
    <3>1. CASE p = q
      BY <1>2, <1>3, <1>8, <1>9, <2>1, <3>1
    <3>2. CASE p # q
      <4> DEFINE k == fr[p].group
      <4>1. p \in Place /\ IsRunning(fr[p]) /\ fr'[p] = fr[p] /\ k \in Filled
        BY <1>3, <1>7, <2>3, <3>2 DEF IsRunning
      <4>2. /\ fr[p].i \in Iterations(k[1]) /\ fr[p].i < next[k]
            /\ fr[p].pc # "body" => fr[p].call = group[k].call
            /\ <<group[k].call, fr[p].i>> \in Executed <=> fr[p].pc = "done"
        BY <4>1 DEF IndInv, IterationsInv
      <4>3. group[k].call # h.call \/ fr[p].i # f.i
        BY <1>7, <2>2, <3>2, <4>1
      <4> QED
        BY <1>8, <2>1, <4>1, <4>2, <4>3
    <3> QED
      BY <3>1, <3>2
  <2>4. \A p, r \in Place' : /\ IsRunning(fr'[p]) /\ IsRunning(fr'[r])
                             /\ fr'[p].group = fr'[r].group /\ fr'[p].i = fr'[r].i
                             => p = r
    BY <1>1, <1>3, <1>9, <2>2 DEF IndInv, IterationsInv
  <2>5. ASSUME NEW k \in Filled, NEW i \in Nat, <<group'[k].call, i>> \in Executed'
        PROVE  i \in Iterations(k[1]) /\ i < next'[k]
    <3>1. CASE <<group[k].call, i>> \in Executed
      BY <2>1, <3>1 DEF IndInv, IterationsInv
    <3>2. CASE group[k].call = h.call /\ i = f.i
      BY <1>2, <1>7, <2>1, <3>2
    <3> QED
      BY <1>8, <2>5, <3>1, <3>2
  <2>6. \A p \in Place', i \in Nat : IsFilling(fr'[p]) => <<fr'[p].call, i>> \notin Executed'
    BY <1>3, <1>7, <1>8 DEF IndInv, IterationsInv, IsFilling
  <2> QED
    BY <1>4, <1>10, <2>3, <2>4, <2>5, <2>6 DEF IterationsInv
<1>13. SerialInv'
  <2>1. ASSUME NEW p \in Place', fr'[p].op = "serial"
        PROVE  /\ p \in Place /\ fr'[p] = fr[p]
               /\ \A i \in Nat : <<fr[p].call, i>> \in Executed' <=> <<fr[p].call, i>> \in Executed
    BY <1>3, <1>7, <1>8, <2>1
  <2> QED
    BY <1>8, <2>1 DEF IndInv, SerialInv
<1>14. ReturnedInv'
  BY <1>4, ReturnedKept DEF IndInv
<1>15. CountInv'
  <2>1. ASSUME NEW c, NEW s
        PROVE  ExecutedOf(c, s)' = IF c = h.call /\ f.i \in Iterations(s) THEN ExecutedOf(c, s) \cup {f.i}
                                                                          ELSE ExecutedOf(c, s)
    BY <1>8 DEF ExecutedOf
  <2>2. ASSUME NEW c
        PROVE  Uncounted(c)' = IF c = h.call THEN Uncounted(c) \cup {q[1]} ELSE Uncounted(c)
    <3>1. ASSUME NEW t \in Threads, NEW p \in Place, p[1] = t, fr'[p].op = "exec", fr'[p].pc = "done",
                 fr'[p].call = c
          PROVE  t \in Uncounted(c) \/ (c = h.call /\ t = q[1])
      BY <1>3, <3>1 DEF Uncounted
    <3>2. ASSUME NEW t \in Uncounted(c)
          PROVE  t \in Uncounted(c)'
      <4>1. PICK p \in Place : p[1] = t /\ fr[p].op = "exec" /\ fr[p].pc = "done" /\ fr[p].call = c
        BY DEF Uncounted
      <4>2. p # q
        BY <1>9, <4>1 DEF f
      <4> QED
        BY <1>3, <4>1, <4>2 DEF Uncounted
    <3>3. c = h.call => q[1] \in Uncounted(c)'
      BY <1>1, <1>3 DEF Uncounted, Place
    <3> QED
      BY <1>3, <3>1, <3>2, <3>3 DEF Uncounted
  <2>3. q[1] \notin Uncounted(h.call)
    BY <1>1, <1>9, TopsUnique DEF Uncounted, IndInv, f
  <2>4. f.i \notin ExecutedOf(h.call, g[1])
    BY <1>2, <1>9 DEF ExecutedOf, x
  <2>5. /\ Cardinality(Uncounted(h.call) \cup {q[1]}) = Cardinality(Uncounted(h.call)) + 1
        /\ Cardinality(ExecutedOf(h.call, g[1]) \cup {f.i}) = Cardinality(ExecutedOf(h.call, g[1])) + 1
    BY <1>1, <2>3, <2>4, CountingFacts, FS_AddElement
  <2>6. ASSUME NEW p \in Place', fr'[p].op = "for", fr'[p].pc # "remaining"
        PROVE  group'[fr'[p].group].remaining
                   = TaskCount(fr'[p].group[1])
                         - Cardinality(ExecutedOf(fr[p].call, fr[p].group[1])')
                         + Cardinality(Uncounted(fr[p].call)')
    <3>1. p \in Place /\ fr'[p] = fr[p] /\ fr[p].group \in Groups
      BY <1>3, <2>6, FrameTypes
    <3>2. group[fr[p].group].remaining
              = TaskCount(fr[p].group[1]) - Cardinality(ExecutedOf(fr[p].call, fr[p].group[1]))
                                          + Cardinality(Uncounted(fr[p].call))
      BY <2>6, <3>1 DEF IndInv, CountInv
    <3>3. fr[p].group = g <=> fr[p].call = h.call
      BY <1>1, <1>9, <2>6, <3>1, CallOfGroup
    <3>4. /\ TaskCount(fr[p].group[1]) \in Nat
          /\ Cardinality(ExecutedOf(fr[p].call, fr[p].group[1])) \in Nat
          /\ Cardinality(Uncounted(fr[p].call)) \in Nat
      BY <3>1, TaskCountType, CountingFacts, GroupFacts
    <3>5. CASE fr[p].group = g
      <4>1. /\ Cardinality(Uncounted(fr[p].call)') = Cardinality(Uncounted(fr[p].call)) + 1
            /\ Cardinality(ExecutedOf(fr[p].call, fr[p].group[1])')
                   = Cardinality(ExecutedOf(fr[p].call, fr[p].group[1])) + 1
        BY <1>2, <2>1, <2>2, <2>5, <3>1, <3>3, <3>5
      <4> QED
        BY <3>1, <3>2, <3>4, <4>1
    <3>6. CASE fr[p].group # g
      BY <2>1, <2>2, <3>1, <3>2, <3>3, <3>6
    <3> QED
      BY <3>5, <3>6
  <2> QED
    BY <2>6 DEF CountInv
<1> QED
  BY <1>5, <1>10, <1>11, <1>12, <1>13, <1>14, <1>15 DEF IndInv

\* A caller executes the iteration of a loop that is shorter than its step.
LEMMA SerialExecutionKeeps ==
    ASSUME Shapes, Shapes', IndInv, NEW q, IsTop(q), NEW h, Becomes(q, h),
           fr[q].op = "serial", fr[q].pc \in {"body", "nested"}, h.op = "serial", h.pc = "done",
           h.group = fr[q].group, h.i = fr[q].i, h.call = fr[q].call,
           ran' = ran (+) SetToBag({<<h.call, h.i>>}),
           UNCHANGED <<group, pos, queue, calls, begun, returned>>
    PROVE  IndInv'
<1> DEFINE f == fr[q]
           x == <<h.call, h.i>>
<1>1. /\ q \in Place /\ IsCall(f) /\ ~ IsFilling(f) /\ Above(q) \notin Place
      /\ f.op = "serial" /\ f.pc # "done" /\ h.call = f.call
  BY DEF IsTop, IsCall, IsFilling
<1>2. f.i = 0 /\ h.i = 0 /\ x \notin Executed /\ Serial(f.group[1]) /\ 0 < To[f.group[1]]
  BY <1>1 DEF IndInv, SerialInv
<1>3. Place' = Place /\ fr'[q] = h /\ \A p \in Place : p # q => fr'[p] = fr[p]
  BY DEF Becomes
<1>4. Executed' = Executed \cup {x} /\ ran' = [y \in Executed' |-> 1]
  BY <1>2, RanFacts DEF Shapes, IndInv, IterationsInv
<1>5. FramesInv'
  <2>1. FrameOK(h) /\ IsCall(h)
    BY DEF FrameOK, IsCall, LoopPcs
  <2> QED
    BY <2>1, FramesBecome DEF IndInv
<1>6. QuietFrames
  BY <1>1, <1>3 DEF QuietFrames, IsCall, IsFilling
<1>7. /\ \A k \in Filled : group[k].call # f.call
      /\ \A p \in Place : p # q /\ IsCall(fr[p]) => fr[p].call # f.call
      /\ \A p \in Place : fr[p].op = "exec" => fr[p].group \in Filled
  BY <1>1 DEF IndInv, GroupsInv, CallsInv
<1>8. \A c, i : <<c, i>> \in Executed' <=> <<c, i>> \in Executed \/ (c = f.call /\ i = 0)
  BY <1>1, <1>2, <1>4
<1> HIDE DEF x, f
<1>9. GroupsInv' /\ Filled' = Filled
  <2>1. \A p \in Place' : fr'[p].group \in Groups
    BY NewFrameTypes
  <2>2. \A p \in Place' : fr'[p].op = "exec" => fr'[p].group \in Filled
    BY <1>3, <1>7
  <2>3. \A p \in Place' : fr'[p].op = "for" => group'[fr'[p].group].inUse
    BY <1>3 DEF IndInv, GroupsInv
  <2>4. \A p \in Place' : fr'[p].op = "for" /\ fr'[p].pc = "func" => group'[fr'[p].group].ctr = 0
    BY <1>3 DEF IndInv, GroupsInv
  <2>5. \A w \in Workers, k \in Groups : queue'[w][k] > 0 => k \in Filled
    BY DEF IndInv, GroupsInv
  <2> QED
    BY <1>6, <2>1, <2>2, <2>3, <2>4, <2>5, GroupsKept DEF IndInv
<1>10. CallsInv'
  <2>1. \A p \in Place' : IsCall(fr'[p]) => fr[p].call \notin returned'
    BY <1>6 DEF IndInv, CallsInv, QuietFrames, IsCall
  <2>2. \A p \in Place : fr[p].pc = "nested" =>
            \/ p \in Place' /\ fr'[p] = fr[p]
            \/ <<fr[p].call, fr[p].i>> \in Executed'
    BY <1>2, <1>3, <1>8 DEF f
  <2> QED
    BY <1>4, <1>6, <2>1, <2>2, CallsKept DEF IndInv
<1>11. IterationsInv'
  <2>1. next' = next
    BY DEF next
  <2>2. ASSUME NEW p \in Place', IsRunning(fr'[p])
        PROVE  LET k == fr'[p].group IN
               /\ fr'[p].i \in Iterations(k[1]) /\ fr'[p].i < next'[k]
               /\ fr'[p].pc # "body" => fr'[p].call = group'[k].call
               /\ <<group'[k].call, fr'[p].i>> \in Executed' <=> fr'[p].pc = "done"
    <3> DEFINE k == fr[p].group
    <3>1. p \in Place /\ IsRunning(fr[p]) /\ fr'[p] = fr[p] /\ k \in Filled
      BY <1>3, <1>7, <2>2 DEF IsRunning
    <3>2. /\ fr[p].i \in Iterations(k[1]) /\ fr[p].i < next[k]
          /\ fr[p].pc # "body" => fr[p].call = group[k].call
          /\ <<group[k].call, fr[p].i>> \in Executed <=> fr[p].pc = "done"
      BY <3>1 DEF IndInv, IterationsInv
    <3>3. group[k].call # f.call
      BY <1>7, <3>1
    <3> QED
      BY <1>8, <2>1, <3>1, <3>2, <3>3
  <2>3. \A p, r \in Place' : /\ IsRunning(fr'[p]) /\ IsRunning(fr'[r])
                             /\ fr'[p].group = fr'[r].group /\ fr'[p].i = fr'[r].i
                             => p = r
    BY <1>3 DEF IndInv, IterationsInv, IsRunning
  <2>4. \A k \in Filled, i \in Nat : <<group'[k].call, i>> \in Executed' =>
            i \in Iterations(k[1]) /\ i < next'[k]
    BY <1>7, <1>8, <2>1 DEF IndInv, IterationsInv
  <2>5. \A p \in Place', i \in Nat : IsFilling(fr'[p]) => <<fr'[p].call, i>> \notin Executed'
    BY <1>3, <1>7, <1>8 DEF IndInv, IterationsInv, IsFilling, IsCall
  <2> QED
    BY <1>4, <1>9, <2>2, <2>3, <2>4, <2>5 DEF IterationsInv
<1>12. SerialInv'
  <2>1. ASSUME NEW p \in Place', fr'[p].op = "serial"
        PROVE  LET e == fr'[p]
                   to == To[e.group[1]] IN
               /\ Serial(e.group[1])
               /\ e.pc # "step" => e.i = 0 /\ 0 < to
               /\ e.i = 0 \/ e.i >= to
               /\ e.i = 0 /\ e.pc # "done" => \A i \in Nat : <<e.call, i>> \notin Executed'
               /\ e.i > 0 \/ e.pc = "done" => <<e.call, 0>> \in Executed'
    <3>1. CASE p = q
      BY <1>1, <1>2, <1>3, <1>8, <3>1 DEF f
    <3>2. CASE p # q
      <4>1. p \in Place /\ fr'[p] = fr[p] /\ fr[p].op = "serial" /\ fr[p].call # f.call
        BY <1>3, <1>7, <2>1, <3>2 DEF IsCall
      <4> QED
        BY <1>8, <4>1 DEF IndInv, SerialInv
    <3> QED
      BY <3>1, <3>2
  <2> QED
    BY <2>1 DEF SerialInv
<1>13. ReturnedInv'
  BY <1>4, ReturnedKept DEF IndInv
<1>14. CountInv'
  <2>1. ASSUME NEW c, NEW s, c # f.call
        PROVE  ExecutedOf(c, s)' = ExecutedOf(c, s)
    BY <1>8, <2>1 DEF ExecutedOf
  <2>2. ASSUME NEW c
        PROVE  Uncounted(c)' = Uncounted(c)
    BY <1>1, <1>3 DEF Uncounted, f
  <2>3. ASSUME NEW p \in Place', fr'[p].op = "for", fr'[p].pc # "remaining"
        PROVE  group'[fr'[p].group].remaining
                   = TaskCount(fr'[p].group[1])
                         - Cardinality(ExecutedOf(fr[p].call, fr[p].group[1])')
                         + Cardinality(Uncounted(fr[p].call)')
    <3>1. p \in Place /\ fr'[p] = fr[p] /\ fr[p].call # f.call
      BY <1>3, <1>7, <2>3 DEF IsCall
    <3> QED
      BY <2>1, <2>2, <2>3, <3>1 DEF IndInv, CountInv
  <2> QED
    BY <2>3 DEF CountInv
<1> QED
  BY <1>5, <1>9, <1>10, <1>11, <1>12, <1>13, <1>14 DEF IndInv

LEMMA NestedDoneKeeps ==
    ASSUME Shapes, Shapes', IndInv, NEW q, IsTop(q), NestedDoneAt(q)
    PROVE  IndInv'
<1> DEFINE f == fr[q]
           h == [f EXCEPT !.pc = "done"]
<1>1. q \in Place /\ f \in Frame /\ f.op \in {"exec", "serial"} /\ f.pc = "nested" /\ Becomes(q, h)
  BY FrameTypes DEF IsTop, NestedDoneAt, Advances
<1>2. h.op = f.op /\ h.pc = "done" /\ h.group = f.group /\ h.i = f.i /\ h.call = f.call
  BY <1>1 DEF Frame
<1>3. ran' = ran (+) SetToBag({<<h.call, h.i>>}) /\ UNCHANGED <<group, pos, queue, calls, begun, returned>>
  BY <1>2 DEF NestedDoneAt
<1>4. f.op = "exec" => f.call = group[f.group].call
  BY <1>1 DEF IndInv, IterationsInv, IsRunning
<1> HIDE DEF h
<1>5. CASE f.op = "exec"
  BY <1>1, <1>2, <1>3, <1>4, <1>5, ExecutionKeeps
<1>6. CASE f.op = "serial"
  BY <1>1, <1>2, <1>3, <1>6, SerialExecutionKeeps
<1> QED
  BY <1>1, <1>5, <1>6

-----------------------------------------------------------------------------
(* for_mt begins *)

\* Nobody has group g: Free, by the places of the frames
FreeAt(g) ==
    /\ \A p \in Place : fr[p].op # "serial" => fr[p].group # g
    /\ \A w \in Workers : ~ (queue[w][g] > 0)

LEMMA NextGroupFacts ==
    ASSUME Shapes, NEW c \in Seq(Nat), NEW s \in Sites, Calls(c, s), ~ Serial(s)
    PROVE  LET n == NextGroup(s) IN
           /\ n \in Groups /\ n[1] = s /\ n[2] < pos'[n[1]]
           /\ \A g \in Groups : g # n => (g[2] < pos'[g[1]] <=> g[2] < pos[g[1]]) /\ group'[g] = group[g]
           /\ group'[n].inUse /\ group'[n].call = group[n].call /\ group'[n].ctr = group[n].ctr
<1> DEFINE n == NextGroup(s)
           a == pos[s]
           b == PoolSize
           r == a % b
<1>1. /\ pos \in [Sites -> Nat] /\ a \in Nat /\ b \in Nat \ {0}
      /\ pos' = [pos EXCEPT ![s] = @ + 1]
      /\ group' = [group EXCEPT ![n] = [group[n] EXCEPT !.remaining = 0, !.inQueue = TRUE, !.inUse = TRUE]]
  BY GroupFacts DEF Shapes, Calls
<1>2. pos'[s] = a + 1 /\ \A z \in Sites : z # s => pos'[z] = pos[z]
  BY <1>1
<1>3. n = <<s, r>> /\ n \in Groups
  BY CallFrameType DEF NextGroup
<1> HIDE DEF a, b
<1>4. r \in 0..(b - 1) /\ r <= a /\ (a < b => r = a)
  BY <1>1, RemainderFacts
<1> HIDE DEF r
<1>5. n[1] = s /\ n[2] = r
  BY <1>3
<1> HIDE DEF n
<1>6. n[2] < pos'[n[1]]
  BY <1>1, <1>2, <1>4, <1>5
<1>7. ASSUME NEW g \in Groups, g # n
      PROVE  g[2] < pos'[g[1]] <=> g[2] < pos[g[1]]
  <2>1. g[1] \in Sites /\ g[2] \in 0..(b - 1) /\ g = <<g[1], g[2]>>
    BY GroupFacts DEF b
  <2>2. CASE g[1] = s
    <3>1. g[2] # r
      BY <1>3, <1>7, <2>1, <2>2
    <3>2. g[2] # a
      BY <1>1, <1>4, <2>1, <3>1
    <3>3. g[2] < a + 1 <=> g[2] < a
      BY <1>1, <2>1, <3>2
    <3> QED
      BY <1>2, <2>2, <3>3 DEF a
  <2>3. CASE g[1] # s
    BY <1>2, <2>1, <2>3
  <2> QED
    BY <2>2, <2>3
<1>8. \A g \in Groups : g # n => group'[g] = group[g]
  BY <1>1
<1>9. group'[n].inUse /\ group'[n].call = group[n].call /\ group'[n].ctr = group[n].ctr
  BY <1>1, <1>3 DEF Shapes, GroupType
<1> QED
  BY <1>3, <1>5, <1>6, <1>7, <1>8, <1>9 DEF n

LEMMA FramesPlaced ==
    ASSUME Shapes
    PROVE  /\ \A f : \A t \in Threads : f \in Frames(t) <=> \E p \in Place : p[1] = t /\ fr[p] = f
           /\ \A t \in Threads : \A k \in 1..Len(stack[t]) : <<t, k>> \in Place /\ fr[<<t, k>>] = stack[t][k]
<1>1. ASSUME NEW t \in Threads, NEW k \in 1..Len(stack[t])
      PROVE  <<t, k>> \in Place /\ fr[<<t, k>>] = stack[t][k]
  <2> DEFINE p == <<t, k>>
  <2>1. p \in Threads \X Nat /\ p[1] = t /\ p[2] = k
    BY DEF Shapes, Stacks
  <2>2. p \in Place
    BY <2>1 DEF Place
  <2> QED
    BY <2>1, <2>2 DEF fr
<1>2. ASSUME NEW t \in Threads, NEW p \in Place, p[1] = t
      PROVE  fr[p] \in Frames(t)
  BY <1>2 DEF Place, fr, Frames
<1>3. ASSUME NEW t \in Threads, NEW f \in Frames(t)
      PROVE  \E p \in Place : p[1] = t /\ fr[p] = f
  <2>1. PICK k \in 1..Len(stack[t]) : f = stack[t][k]
    BY DEF Frames
  <2>2. <<t, k>> \in Place /\ fr[<<t, k>>] = f /\ <<t, k>>[1] = t
    BY <1>1, <2>1
  <2> QED
    BY <2>2
<1> QED
  BY <1>1, <1>2, <1>3

LEMMA GivenFree ==
    ASSUME Shapes, GivesFreeGroups, NEW c, NEW s \in Sites, Calls(c, s), ~ Serial(s)
    PROVE  FreeAt(NextGroup(s))
<1>1. pos'[s] # pos[s]
  <2>1. pos \in [Sites -> Nat] /\ pos' = [pos EXCEPT ![s] = @ + 1]
    BY DEF Shapes, Calls
  <2>2. pos[s] \in Nat /\ pos'[s] = pos[s] + 1
    BY <2>1
  <2> QED
    BY <2>2
<1>2. Free(NextGroup(s))
  BY <1>1 DEF GivesFreeGroups
<1>3. \A p \in Place : fr[p] \in AllFrames
  BY FramesPlaced DEF Place, AllFrames
<1> QED
  BY <1>2, <1>3 DEF Free, FreeAt

\* An iteration that has been taken calls for_mt: the loop in its body.
Nests(p) ==
    /\ fr[p].op \in {"exec", "serial"} /\ fr[p].pc = "body" /\ fr'[p].pc = "nested"
    /\ fr'[p].op = fr[p].op /\ fr'[p].group = fr[p].group /\ fr'[p].i = fr[p].i
    /\ fr'[p].call = RunsCall(fr[p])

LEMMA BeginKeeps ==
    ASSUME Shapes, Shapes', IndInv, NEW c \in Seq(Nat), NEW s \in Sites,
           ~ Serial(s) => FreeAt(NextGroup(s)), Calls(c, s), UNCHANGED <<queue, ran, returned>>, calls <= calls',
           c # <<>>, c[1] <= calls', c \notin CallIds,
           \A d \in Seq(Nat), i \in Nat : d # <<>> /\ c = Append(d, i) =>
               \E p \in Place' : fr'[p].pc = "nested" /\ fr'[p].call = d /\ fr'[p].i = i,
           NEW n, n \notin Place, Place' = Place \cup {n}, fr'[n] = CallFrame(c, s),
           \A p \in Place : fr'[p] = fr[p] \/ Nests(p)
    PROVE  CallsInv' /\ GroupsInv' /\ IterationsInv' /\ SerialInv' /\ ReturnedInv' /\ CountInv'
<1> DEFINE e == CallFrame(c, s)
<1>1. CallIds' = CallIds \cup {c} /\ begun' = begun \cup {<<c, s>>}
  BY CallsFacts DEF Calls
<1>2. Executed' = Executed /\ \A i : <<c, i>> \notin Executed
  BY DEF Executed, Shapes
<1>3. /\ \A g \in Groups : /\ group'[g].call = group[g].call /\ group'[g].ctr = group[g].ctr
                           /\ \/ e.op = "for" /\ g = e.group
                              \/ (g[2] < pos'[g[1]] <=> g[2] < pos[g[1]]) /\ group'[g] = group[g]
      /\ e.op = "for" => /\ e.group[2] < pos'[e.group[1]] /\ group'[e.group].inUse
                         /\ e.pc = "remaining" /\ e.group \in Groups /\ FreeAt(e.group)
      /\ e.op \in {"for", "serial"} /\ e.group[1] = s /\ e.call = c
      /\ e.op = "serial" => Serial(s) /\ e.pc = "step" /\ e.i = 0
  <2>1. CASE Serial(s)
    BY <2>1 DEF Calls, CallFrame
  <2>2. CASE ~ Serial(s)
    <3> DEFINE m == NextGroup(s)
    <3>1. /\ m \in Groups /\ m[1] = s /\ m[2] < pos'[m[1]]
          /\ \A g \in Groups : g # m => (g[2] < pos'[g[1]] <=> g[2] < pos[g[1]]) /\ group'[g] = group[g]
          /\ group'[m].inUse /\ group'[m].call = group[m].call /\ group'[m].ctr = group[m].ctr
      BY <2>2, NextGroupFacts
    <3>2. e.op = "for" /\ e.pc = "remaining" /\ e.group = m /\ e.call = c
      BY <2>2 DEF CallFrame
    <3>3. FreeAt(m)
      BY <2>2
    <3> HIDE DEF e, m
    <3> QED
      BY <3>1, <3>2, <3>3
  <2> QED
    BY <2>1, <2>2
<1> HIDE DEF e
<1>4. /\ fr'[n] = e /\ n \in Place' /\ \A p \in Place : p \in Place' /\ p # n
      /\ \A p \in Place' : p = n \/ p \in Place
  BY DEF e
<1>5. \A p \in Place : /\ fr'[p].op = fr[p].op /\ fr'[p].group = fr[p].group /\ fr'[p].i = fr[p].i
                       /\ IsCall(fr[p]) => fr'[p].call = fr[p].call
                       /\ fr[p].op = "for" => fr'[p] = fr[p]
                       /\ IsFilling(fr'[p]) <=> IsFilling(fr[p])
                       /\ fr[p].group \in Groups
  BY FrameTypes DEF Nests, RunsCall, IsCall, IsFilling
<1>6. /\ Filled' \subseteq Filled
      /\ \A g \in Filled : g \in Filled' \/ (e.op = "for" /\ g = e.group)
      /\ \A g \in Filled' : group'[g] = group[g]
  <2>1. ASSUME NEW g \in Groups, e.op = "for", g = e.group
        PROVE  g \notin Filled'
    <3>1. IsFilling(fr'[n]) /\ fr'[n].group = g
      BY <1>3, <1>4, <2>1 DEF IsFilling
    <3> QED
      BY <1>4, <3>1 DEF Filled
  <2>2. ASSUME NEW g \in Groups, ~ (e.op = "for" /\ g = e.group)
        PROVE  (g \in Filled' <=> g \in Filled) /\ group'[g] = group[g]
    <3>1. IsFilling(fr'[n]) => fr'[n].group # g
      BY <1>4, <2>2 DEF IsFilling
    <3>2. (\A p \in Place' : IsFilling(fr'[p]) => fr'[p].group # g)
              <=> (\A p \in Place : IsFilling(fr[p]) => fr[p].group # g)
      BY <1>4, <1>5, <3>1
    <3>3. (g[2] < pos'[g[1]] <=> g[2] < pos[g[1]]) /\ group'[g] = group[g]
      BY <1>3, <2>2
    <3> QED
      BY <3>2, <3>3 DEF Filled
  <2>3. \A g : g \in Filled \/ g \in Filled' => g \in Groups
    BY DEF Filled
  <2> QED
    BY <2>1, <2>2, <2>3
<1>7. /\ \A g \in Filled' : g \in Filled /\ g \in Groups /\ group'[g] = group[g]
                            /\ <<group[g].call, g[1]>> \in begun /\ group[g].call # c
      /\ \A p \in Place : IsCall(fr[p]) => <<fr[p].call, fr[p].group[1]>> \in begun
                                           /\ fr[p].call \notin returned /\ fr[p].call # c
  <2>1. \A b \in begun : b[1] # c
    BY CallIdFacts
  <2>2. \A g \in Filled : <<group[g].call, g[1]>> \in begun
    BY DEF IndInv, GroupsInv
  <2>3. \A g \in Filled' : g \in Filled /\ g \in Groups /\ group'[g] = group[g]
    BY <1>6 DEF Filled
  <2>4. ASSUME NEW g \in Filled
        PROVE  group[g].call # c
    <3> DEFINE b == <<group[g].call, g[1]>>
    <3>1. b[1] = group[g].call /\ b \in begun
      BY <2>2
    <3> QED
      BY <2>1, <3>1
  <2>5. \A p \in Place : IsCall(fr[p]) => <<fr[p].call, fr[p].group[1]>> \in begun /\ fr[p].call \notin returned
    BY DEF IndInv, CallsInv
  <2>6. ASSUME NEW p \in Place, IsCall(fr[p])
        PROVE  fr[p].call # c
    <3> DEFINE b == <<fr[p].call, fr[p].group[1]>>
    <3>1. b[1] = fr[p].call /\ b \in begun
      BY <2>5, <2>6
    <3> QED
      BY <2>1, <3>1
  <2> QED
    BY <2>2, <2>3, <2>4, <2>5, <2>6
<1>8. CallsInv'
  <2>1. ASSUME NEW b \in begun', NEW d \in begun', b[1] = d[1]
        PROVE  b = d
    <3>1. <<c, s>>[1] = c /\ \A x \in begun : x[1] # c
      BY CallIdFacts
    <3>2. b \in begun \/ b = <<c, s>>
      BY <1>1
    <3>3. d \in begun \/ d = <<c, s>>
      BY <1>1
    <3> QED
      BY <2>1, <3>1, <3>2, <3>3 DEF IndInv, CallsInv
  <2>2. \A d \in CallIds' : d # <<>> /\ d[1] <= calls'
    <3>1. \A d \in CallIds : d # <<>> /\ d[1] <= calls
      BY DEF IndInv, CallsInv
    <3>2. \A d \in CallIds : d[1] \in Nat
      BY <3>1, CallIdFacts
    <3>3. calls \in Nat /\ calls' \in Nat
      BY PoolAssumption DEF Shapes
    <3> QED
      BY <1>1, <3>1, <3>2, <3>3
  <2>3. ASSUME NEW d \in Seq(Nat), NEW i \in Nat, d # <<>>, Append(d, i) \in CallIds'
        PROVE  Started(d, i)'
    <3>1. CASE Append(d, i) \in CallIds
      <4>1. Started(d, i)
        BY <2>3, <3>1 DEF IndInv, CallsInv
      <4>2. \A p \in Place : fr[p].pc = "nested" => p \in Place' /\ fr'[p] = fr[p]
        BY <1>4 DEF Nests
      <4> QED
        BY <1>2, <4>1, <4>2 DEF Started
    <3>2. CASE Append(d, i) = c
      BY <2>3, <3>2, ZenonT(60) DEF Started
    <3> QED
      BY <1>1, <2>3, <3>1, <3>2
  <2>4. \A p \in Place' : IsCall(fr'[p]) => <<fr'[p].call, fr'[p].group[1]>> \in begun'
    BY <1>1, <1>3, <1>4, <1>5, <1>7 DEF IsCall
  <2>5. \A p \in Place' : IsCall(fr'[p]) => fr'[p].call \notin returned'
    BY <1>3, <1>4, <1>5, <1>7 DEF IsCall, Shapes
  <2>6. ASSUME NEW p \in Place', NEW r \in Place', IsCall(fr'[p]), IsCall(fr'[r]),
               fr'[p].call = fr'[r].call
        PROVE  p = r
    <3>1. \A w \in Place : IsCall(fr'[w]) => IsCall(fr[w]) /\ fr'[w].call = fr[w].call /\ fr[w].call # c
      BY <1>5, <1>7 DEF IsCall
    <3>2. CASE p \in Place /\ r \in Place
      BY <2>6, <3>1, <3>2 DEF IndInv, CallsInv
    <3>3. fr'[n].call = c
      BY <1>3, <1>4
    <3> QED
      BY <1>4, <2>6, <3>1, <3>2, <3>3
  <2> QED
    BY <2>1, <2>2, <2>3, <2>4, <2>5, <2>6 DEF CallsInv
<1>9. GroupsInv'
  <2>1. ASSUME NEW p \in Place, fr[p].op \in {"for", "exec"}
        PROVE  ~ (e.op = "for" /\ fr[p].group = e.group)
    BY <1>3, <2>1 DEF FreeAt
  <2>2. ASSUME NEW p \in Place', fr'[p].op = "for"
        PROVE  LET g == fr'[p].group IN g[2] < pos'[g[1]] /\ group'[g].inUse
    <3>1. CASE p = n
      BY <1>3, <1>4, <2>2, <3>1
    <3>2. CASE p \in Place
      <4> DEFINE g == fr[p].group
      <4>1. fr[p].op = "for" /\ fr'[p].group = g /\ g \in Groups
        BY <1>5, <2>2, <3>2
      <4>2. g[2] < pos[g[1]] /\ group[g].inUse
        BY <3>2, <4>1 DEF IndInv, GroupsInv
      <4>3. (g[2] < pos'[g[1]] <=> g[2] < pos[g[1]]) /\ group'[g] = group[g]
        BY <1>3, <2>1, <3>2, <4>1
      <4> QED
        BY <4>1, <4>2, <4>3
    <3> QED
      BY <1>4, <3>1, <3>2
  <2>3. ASSUME NEW p \in Place', NEW r \in Place', fr'[p].op = "for", fr'[r].op = "for",
               fr'[p].group = fr'[r].group
        PROVE  p = r
    <3>1. \A w \in Place : fr[w].op = "for" /\ e.op = "for" => fr[w].group # e.group
      BY <2>1
    <3>2. CASE p \in Place /\ r \in Place
      BY <1>5, <2>3, <3>2 DEF IndInv, GroupsInv
    <3> QED
      BY <1>4, <1>5, <2>3, <3>1, <3>2
  <2>4. ASSUME NEW p \in Place', fr'[p].op = "exec"
        PROVE  fr'[p].group \in Filled'
    <3>1. p \in Place /\ fr[p].op = "exec" /\ fr'[p].group = fr[p].group
      BY <1>3, <1>4, <1>5, <2>4
    <3>2. fr[p].group \in Filled
      BY <3>1 DEF IndInv, GroupsInv
    <3> QED
      BY <1>6, <2>1, <3>1, <3>2
  <2>5. ASSUME NEW w \in Workers, NEW g \in Groups, queue'[w][g] > 0
        PROVE  g \in Filled'
    <3>1. g \in Filled /\ ~ (e.op = "for" /\ g = e.group)
      BY <1>3, <2>5 DEF IndInv, GroupsInv, FreeAt
    <3> QED
      BY <1>6, <3>1
  <2>6. ASSUME NEW p \in Place', fr'[p].op = "for", ~ IsFilling(fr'[p])
        PROVE  group'[fr'[p].group].call = fr'[p].call
    <3>1. p \in Place /\ fr[p].op = "for" /\ fr'[p] = fr[p] /\ fr[p].group \in Groups
      BY <1>3, <1>4, <1>5, <2>6 DEF IsFilling
    <3>2. group[fr[p].group].call = fr[p].call
      BY <2>6, <3>1 DEF IndInv, GroupsInv
    <3> QED
      BY <1>3, <3>1, <3>2
  <2>7. ASSUME NEW p \in Place', fr'[p].op = "for", fr'[p].pc = "func"
        PROVE  group'[fr'[p].group].ctr = 0
    <3>1. p \in Place /\ fr[p].op = "for" /\ fr'[p] = fr[p] /\ fr[p].group \in Groups
      BY <1>3, <1>4, <1>5, <2>7
    <3>2. group[fr[p].group].ctr = 0
      BY <2>7, <3>1 DEF IndInv, GroupsInv
    <3> QED
      BY <1>3, <3>1, <3>2
  <2>8. \A g \in Filled' : <<group'[g].call, g[1]>> \in begun'
    BY <1>1, <1>7
  <2>9. \A g, k \in Filled' : group'[g].call = group'[k].call => g = k
    <3>1. \A g, k \in Filled : group[g].call = group[k].call => g = k
      BY DEF IndInv, GroupsInv
    <3> QED
      BY <1>6, <3>1
  <2>10. \A g \in Filled', p \in Place' : fr'[p].op = "serial" \/ IsFilling(fr'[p]) =>
             fr'[p].call # group'[g].call
    <3>1. \A g \in Filled, p \in Place : fr[p].op = "serial" \/ IsFilling(fr[p]) => fr[p].call # group[g].call
      BY DEF IndInv, GroupsInv
    <3>2. \A p \in Place' : fr'[p].op = "serial" \/ IsFilling(fr'[p]) =>
              \/ fr'[p].call = c
              \/ p \in Place /\ (fr[p].op = "serial" \/ IsFilling(fr[p])) /\ fr'[p].call = fr[p].call
      BY <1>3, <1>4, <1>5 DEF IsCall, IsFilling
    <3>3. ASSUME NEW g \in Filled', NEW p \in Place', fr'[p].op = "serial" \/ IsFilling(fr'[p])
          PROVE  fr'[p].call # group'[g].call
      <4>1. g \in Filled /\ group'[g].call = group[g].call /\ group[g].call # c
        BY <1>7, <3>3
      <4>2. CASE fr'[p].call = c
        BY <4>1, <4>2
      <4>3. CASE fr'[p].call # c
        <5>1. p \in Place /\ (fr[p].op = "serial" \/ IsFilling(fr[p])) /\ fr'[p].call = fr[p].call
          BY <3>2, <3>3, <4>3
        <5> QED
          BY <3>1, <4>1, <5>1
      <4> QED
        BY <4>2, <4>3
    <3> QED
      BY <3>3
  <2> QED
    BY <2>2, <2>3, <2>4, <2>5, <2>6, <2>7, <2>8, <2>9, <2>10 DEF GroupsInv
<1>10. IterationsInv'
  <2>1. \A g \in Filled : next[g] <= next'[g]
    <3>1. \A g \in Groups : group'[g].ctr \in Nat /\ group[g].ctr <= group'[g].ctr
      BY <1>3, FrameTypes
    <3> QED
      BY <3>1, NextFacts DEF Filled
  <2>2. \A p \in Place' : IsRunning(fr'[p]) =>
            /\ p \in Place /\ IsRunning(fr[p])
            /\ fr[p].group = fr'[p].group /\ fr[p].i = fr'[p].i
            /\ fr'[p].pc # "body" => fr'[p].call = group[fr[p].group].call
            /\ fr[p].pc = "done" <=> fr'[p].pc = "done"
    <3>1. ASSUME NEW p \in Place', IsRunning(fr'[p])
          PROVE  /\ p \in Place /\ IsRunning(fr[p])
                 /\ fr[p].group = fr'[p].group /\ fr[p].i = fr'[p].i
                 /\ fr'[p].pc # "body" => fr'[p].call = group[fr[p].group].call
                 /\ fr[p].pc = "done" <=> fr'[p].pc = "done"
      <4>1. p \in Place
        BY <1>3, <1>4, <3>1 DEF IsRunning
      <4>2. CASE fr'[p] = fr[p]
        <5>1. IsRunning(fr[p])
          BY <3>1, <4>2
        <5>2. fr[p].pc # "body" => fr[p].call = group[fr[p].group].call
          BY <4>1, <5>1 DEF IndInv, IterationsInv
        <5> QED
          BY <4>1, <4>2, <5>1, <5>2
      <4>3. CASE Nests(p)
        BY <3>1, <4>1, <4>3 DEF Nests, RunsCall, IsRunning
      <4> QED
        BY <4>1, <4>2, <4>3
    <3> QED
      BY <3>1
  <2>3. \A p \in Place' : IsFilling(fr'[p]) =>
            \/ p \in Place /\ IsFilling(fr[p]) /\ fr[p].call = fr'[p].call
            \/ fr'[p].call \notin CallIds
    BY <1>3, <1>4, <1>5 DEF IsCall, IsFilling
  <2> QED
    BY <1>3, <1>6, <2>1, <2>2, <2>3, IterationsKept DEF IndInv
<1>11. SerialInv'
  <2>1. ASSUME NEW p \in Place', fr'[p].op = "serial"
        PROVE  LET f == fr'[p]
                   to == To[f.group[1]] IN
               /\ Serial(f.group[1])
               /\ f.pc # "step" => f.i = 0 /\ 0 < to
               /\ f.i = 0 \/ f.i >= to
               /\ f.i = 0 /\ f.pc # "done" => \A i \in Nat : <<f.call, i>> \notin Executed'
               /\ f.i > 0 \/ f.pc = "done" => <<f.call, 0>> \in Executed'
    <3>1. CASE p = n
      BY <1>2, <1>3, <1>4, <2>1, <3>1
    <3>2. CASE p \in Place /\ fr'[p] = fr[p]
      <4> DEFINE f == fr[p]
                 to == To[f.group[1]]
      <4>1. fr[p].op = "serial"
        BY <2>1, <3>2
      <4>2. /\ Serial(f.group[1])
            /\ f.pc # "step" => f.i = 0 /\ 0 < to
            /\ f.i = 0 \/ f.i >= to
            /\ f.i = 0 /\ f.pc # "done" => \A i \in Nat : <<f.call, i>> \notin Executed
            /\ f.i > 0 \/ f.pc = "done" => <<f.call, 0>> \in Executed
        BY <3>2, <4>1 DEF IndInv, SerialInv
      <4> QED
        BY <1>2, <3>2, <4>2
    <3>3. CASE p \in Place /\ Nests(p)
      <4>1. fr[p].op = "serial" /\ fr[p].pc = "body" /\ fr'[p].pc = "nested"
            /\ fr'[p].group = fr[p].group /\ fr'[p].i = fr[p].i /\ fr'[p].call = fr[p].call
        BY <2>1, <3>3 DEF Nests, RunsCall
      <4> QED
        BY <1>2, <3>3, <4>1 DEF IndInv, SerialInv
    <3> QED
      BY <1>4, <3>1, <3>2, <3>3
  <2> QED
    BY <2>1 DEF SerialInv
<1>12. ReturnedInv'
  <2>1. \A b \in begun' : b \in begun \/ b[1] \notin CallIds
    BY <1>1
  <2> QED
    BY <1>2, <2>1, ReturnedKept DEF IndInv
<1>13. CountInv'
  <2>1. \A p \in Place' : fr'[p].op = "for" /\ fr'[p].pc # "remaining" =>
            /\ p \in Place /\ fr[p].op = "for" /\ fr[p].pc # "remaining"
            /\ fr'[p].group = fr[p].group /\ fr'[p].call = fr[p].call
            /\ group'[fr[p].group].remaining = group[fr[p].group].remaining
    <3>1. \A p \in Place : fr[p].op = "for" => group'[fr[p].group] = group[fr[p].group]
      BY <1>3, <1>5 DEF FreeAt
    <3> QED
      BY <1>3, <1>4, <1>5, <3>1
  <2>2. /\ \A p \in Place' : fr'[p].op = "exec" /\ fr'[p].pc = "done" => p \in Place /\ fr'[p] = fr[p]
        /\ \A p \in Place : fr[p].op = "exec" /\ fr[p].pc = "done" => p \in Place' /\ fr'[p] = fr[p]
    BY <1>3, <1>4 DEF Nests
  <2> QED
    BY <2>1, <2>2, CountKept DEF IndInv
<1> QED
  BY <1>8, <1>9, <1>10, <1>11, <1>12, <1>13


\* The loop in the body of an iteration begins once.
LEMMA FreshCall ==
    ASSUME Shapes, KnownCalls, IndInv, NEW q \in Place,
           fr[q].op \in {"exec", "serial"}, fr[q].pc = "body"
    PROVE  LET c == RunsCall(fr[q]) IN
           /\ c \in CallIds /\ c \in Seq(Nat) /\ c # <<>> /\ c[1] <= calls
           /\ Append(c, fr[q].i) \notin CallIds
<1> DEFINE f == fr[q]
           g == f.group
           c == RunsCall(f)
<1>1. /\ f.op \in {"exec", "serial"} /\ f.pc = "body" /\ g \in Groups /\ f.i \in Nat
      /\ f.op = "exec" => c = group[g].call
      /\ f.op = "serial" => c = f.call
  BY FrameTypes DEF RunsCall
<1> HIDE DEF c
<1>2. c \in CallIds /\ c \in Seq(Nat) /\ c # <<>> /\ c[1] <= calls
  <2>1. c \in CallIds
    BY <1>1 DEF KnownCalls, IsCall
  <2> QED
    BY <2>1, CallIdFacts DEF IndInv, CallsInv
<1>3. ~ Started(c, f.i)
  <2>1. \A p \in Place : fr[p].pc = "nested" => fr[p].op \in {"exec", "serial"}
    BY FrameTypes DEF IndInv, FramesInv, ForPcs, Ops
  <2>2. \A p \in Place : fr[p].op = "exec" /\ fr[p].pc = "nested" =>
            /\ IsRunning(fr[p]) /\ fr[p].group \in Filled /\ fr[p].call = group[fr[p].group].call
    BY DEF IndInv, GroupsInv, IterationsInv, IsRunning
  <2>3. CASE f.op = "exec"
    <3>1. IsRunning(f) /\ g \in Filled /\ c = group[g].call
      BY <1>1, <2>3 DEF IsRunning, IndInv, GroupsInv
    <3>2. <<c, f.i>> \notin Executed
      BY <1>1, <3>1 DEF IndInv, IterationsInv
    <3>3. ASSUME NEW p \in Place, fr[p].pc = "nested", fr[p].call = c, fr[p].i = f.i
          PROVE  FALSE
      <4>1. CASE fr[p].op = "exec"
        <5>1. fr[p].group = g
          BY <2>2, <3>1, <3>3, <4>1 DEF IndInv, GroupsInv
        <5>2. p = q
          BY <2>2, <3>1, <3>3, <4>1, <5>1 DEF IndInv, IterationsInv
        <5> QED
          BY <1>1, <3>3, <5>2
      <4>2. CASE fr[p].op = "serial"
        BY <3>1, <3>3, <4>2 DEF IndInv, GroupsInv
      <4> QED
        BY <2>1, <3>3, <4>1, <4>2
    <3> QED
      BY <3>2, <3>3 DEF Started
  <2>4. CASE f.op = "serial"
    <3>1. c = f.call /\ IsCall(f)
      BY <1>1, <2>4 DEF IsCall
    <3>2. <<c, f.i>> \notin Executed
      BY <1>1, <2>4, <3>1 DEF IndInv, SerialInv
    <3>3. ASSUME NEW p \in Place, fr[p].pc = "nested", fr[p].call = c, fr[p].i = f.i
          PROVE  FALSE
      <4>1. CASE fr[p].op = "exec"
        BY <2>2, <2>4, <3>1, <3>3, <4>1 DEF IndInv, GroupsInv
      <4>2. CASE fr[p].op = "serial"
        <5>1. p = q
          BY <3>1, <3>3, <4>2 DEF IndInv, CallsInv, IsCall
        <5> QED
          BY <1>1, <3>3, <5>1
      <4> QED
        BY <2>1, <3>3, <4>1, <4>2
    <3> QED
      BY <3>2, <3>3 DEF Started
  <2> QED
    BY <1>1, <2>3, <2>4
<1>4. Append(c, f.i) \notin CallIds
  BY <1>1, <1>2, <1>3 DEF IndInv, CallsInv
<1> QED
  BY <1>2, <1>4 DEF c

LEMMA RunBodyKeeps ==
    ASSUME Shapes, Shapes', KnownCalls, IndInv, GivesFreeGroups, NEW q, IsTop(q), RunBodyAt(q)
    PROVE  IndInv'
<1> DEFINE f == fr[q]
           c == RunsCall(f)
           s == Body[f.group[1]]
<1>1. /\ q \in Place /\ f \in Frame /\ f.op \in {"exec", "serial"} /\ f.pc = "body"
      /\ f.group \in Groups /\ f.i \in Nat /\ s \in Sites \cup {NoSite}
      /\ f.op = "exec" => c = group[f.group].call
      /\ f.op = "serial" => c = f.call
      /\ UNCHANGED <<queue, calls, returned>>
  BY FrameTypes, GroupFacts, PoolAssumption DEF IsTop, RunBodyAt, RunsCall
<1>2. /\ c \in CallIds /\ c \in Seq(Nat) /\ c # <<>> /\ c[1] <= calls
      /\ Append(c, f.i) \notin CallIds
  BY <1>1, FreshCall
<1>3. CASE s = NoSite
  <2> DEFINE h == [f EXCEPT !.call = c, !.pc = "done"]
  <2>1. /\ Becomes(q, h) /\ ran' = ran (+) SetToBag({<<c, f.i>>})
        /\ UNCHANGED <<group, pos, queue, calls, begun, returned>>
    BY <1>1, <1>3 DEF RunBodyAt
  <2>2. h.op = f.op /\ h.pc = "done" /\ h.group = f.group /\ h.i = f.i /\ h.call = c
    BY <1>1 DEF Frame
  <2> HIDE DEF h, c
  <2>3. CASE f.op = "exec"
    BY <1>1, <2>1, <2>2, <2>3, ExecutionKeeps
  <2>4. CASE f.op = "serial"
    BY <1>1, <2>1, <2>2, <2>4, SerialExecutionKeeps
  <2> QED
    BY <1>1, <2>3, <2>4
<1>4. CASE s # NoSite
  <2> DEFINE h == [f EXCEPT !.call = c, !.pc = "nested"]
             b == Append(c, f.i)
             e == CallFrame(b, s)
             n == Above(q)
  <2>1. /\ BecomesAndGrows(q, h, e) /\ Calls(b, s) /\ UNCHANGED <<queue, ran, returned>>
        /\ s \in Sites /\ b \in Seq(Nat)
    BY <1>1, <1>2, <1>4 DEF RunBodyAt
  <2>2. h.op = f.op /\ h.pc = "nested" /\ h.group = f.group /\ h.i = f.i /\ h.call = c
    BY <1>1 DEF Frame
  <2>3. /\ IsCall(e) /\ e.call = b /\ e.pc # "nested" /\ FrameOK(e)
    BY GroupFacts DEF CallFrame, IsCall, FrameOK, ForPcs, LoopPcs, Workers
  <2>4. b # <<>> /\ b[1] <= calls' /\ b \notin CallIds
    BY <1>1, <1>2, AppendFirst
  <2> HIDE DEF h, e
  <2>5. FramesInv'
    <3>1. FrameOK(h) /\ (IsCall(f) => IsCall(h) /\ h.call = f.call)
      BY <1>1, <2>2 DEF FrameOK, LoopPcs, IsCall
    <3> QED
      BY <1>1, <2>1, <2>2, <2>3, <3>1, FramesBecomeAndGrow DEF IndInv
  <2>6. /\ n \notin Place /\ Place' = Place \cup {n} /\ fr'[n] = CallFrame(b, s)
        /\ fr'[q] = h /\ \A p \in Place : p # q => fr'[p] = fr[p]
    BY <2>1 DEF BecomesAndGrows, e
  <2>7. \A p \in Place : fr'[p] = fr[p] \/ Nests(p)
    <3>1. Nests(q)
      BY <1>1, <2>2, <2>6 DEF Nests
    <3> QED
      BY <2>6, <3>1
  <2>8. ASSUME NEW d \in Seq(Nat), NEW i \in Nat, d # <<>>, b = Append(d, i)
        PROVE  \E p \in Place' : fr'[p].pc = "nested" /\ fr'[p].call = d /\ fr'[p].i = i
    <3>1. c = d /\ f.i = i
      BY <1>1, <1>2, <2>8, AppendInjective
    <3>2. q \in Place' /\ fr'[q].pc = "nested" /\ fr'[q].call = c /\ fr'[q].i = f.i
      BY <1>1, <2>2, <2>6
    <3> QED
      BY <3>1, <3>2
  <2>9. calls <= calls'
    BY <1>1, PoolAssumption DEF Shapes
  <2> HIDE DEF b, n, s
  <2>10. \A d \in Seq(Nat), i \in Nat : d # <<>> /\ b = Append(d, i) =>
             \E p \in Place' : fr'[p].pc = "nested" /\ fr'[p].call = d /\ fr'[p].i = i
    BY <2>8
  <2>11. CallsInv' /\ GroupsInv' /\ IterationsInv' /\ SerialInv' /\ ReturnedInv' /\ CountInv'
    BY <2>1, <2>4, <2>6, <2>7, <2>9, <2>10, GivenFree, BeginKeeps
  <2> QED
    BY <2>5, <2>11 DEF IndInv
<1> QED
  BY <1>3, <1>4

LEMMA MainCallsKeeps ==
    ASSUME Shapes, Shapes', IndInv, GivesFreeGroups, NEW q, MainCallsAt(q)
    PROVE  IndInv'
<1> DEFINE c == <<calls + 1>>
           s == Program[calls + 1]
           e == CallFrame(c, s)
<1>1. /\ calls \in Nat /\ calls' = calls + 1 /\ c \in Seq(Nat) /\ s \in Sites
      /\ Grows(q, e) /\ Calls(c, s) /\ UNCHANGED <<queue, ran, returned>>
      /\ \A p \in Place : Above(p) # q
  BY PoolAssumption DEF MainCallsAt, Shapes
<1>2. c # <<>> /\ c[1] = calls + 1
  OBVIOUS
<1>3. c \notin CallIds
  <2>1. c \in CallIds => c[1] <= calls
    BY DEF IndInv, CallsInv
  <2> QED
    BY <1>1, <1>2, <2>1
<1>4. \A d \in Seq(Nat), i \in Nat : d # <<>> => c # Append(d, i)
  BY AppendFirst
<1> HIDE DEF c, s
<1>5. e.pc # "nested" /\ FrameOK(e)
  BY GroupFacts DEF CallFrame, FrameOK, ForPcs, LoopPcs, Workers
<1> HIDE DEF e
<1>6. FramesInv'
  BY <1>1, <1>5, FramesGrow DEF IndInv
<1>7. q \notin Place /\ Place' = Place \cup {q} /\ fr'[q] = CallFrame(c, s) /\ \A p \in Place : fr'[p] = fr[p]
  BY <1>1 DEF Grows, e
<1>8. calls <= calls' /\ c[1] <= calls'
  BY <1>1, <1>2
<1>9. CallsInv' /\ GroupsInv' /\ IterationsInv' /\ SerialInv' /\ ReturnedInv' /\ CountInv'
  BY <1>1, <1>2, <1>3, <1>4, <1>7, <1>8, GivenFree, BeginKeeps
<1> QED
  BY <1>6, <1>9 DEF IndInv
-----------------------------------------------------------------------------
(* The invariant *)

LEMMA InitInvariant == Init => IndInv
<1> SUFFICES ASSUME Init
             PROVE  IndInv
  OBVIOUS
<1>1. Place = {} /\ Executed = {} /\ CallIds = {} /\ begun = {}
  BY DEF Init, Place, Executed, EmptyBag, SetToBag, CallIds
<1>2. ran = [x \in Executed |-> 1]
  BY <1>1 DEF Init, Executed, EmptyBag, SetToBag
<1>3. Filled = {}
  BY GroupFacts DEF Init, Filled
<1>4. \A w \in Workers, g \in Groups : ~ (queue[w][g] > 0)
  BY DEF Init
<1> QED
  BY <1>1, <1>2, <1>3, <1>4
  DEF IndInv, FramesInv, CallsInv, GroupsInv, IterationsInv, SerialInv, ReturnedInv, CountInv

LEMMA StepKeeps ==
    ASSUME Shapes, Shapes', KnownCalls, IndInv, GivesFreeGroups, NEW q, StepAt(q)
    PROVE  IndInv'
BY StoreRemainingKeeps, StoreCounterKeeps, StoreFuncKeeps, PushTaskGroupKeeps, TakeIterationKeeps,
   LeaveLoopKeeps, RunBodyKeeps, NestedDoneKeeps, CountIterationKeeps, SerialStepKeeps, ReturnKeeps,
   TurnKeeps, MainCallsKeeps, DoTaskKeeps DEF StepAt

LEMMA StutteringKeeps ==
    ASSUME IndInv, UNCHANGED vars
    PROVE  IndInv'
<1>1. /\ UNCHANGED <<group, pos, queue, calls, begun, ran, returned>>
      /\ Place' = Place /\ fr' = fr /\ CallIds' = CallIds /\ Executed' = Executed
  BY DEF vars, Place, fr, CallIds, Executed
<1>2. next' = next /\ Filled' = Filled
  BY <1>1 DEF next, Filled
<1>3. FramesInv' /\ SerialInv' /\ ReturnedInv'
  BY <1>1 DEF IndInv, FramesInv, SerialInv, ReturnedInv
<1>4. CallsInv'
  BY <1>1 DEF IndInv, CallsInv, Started
<1>5. GroupsInv'
  BY <1>1, <1>2 DEF IndInv, GroupsInv
<1>6. IterationsInv'
  BY <1>1, <1>2 DEF IndInv, IterationsInv
<1>7. CountInv'
  BY <1>1, CountKept DEF IndInv
<1> QED
  BY <1>3, <1>4, <1>5, <1>6, <1>7 DEF IndInv

LEMMA Inductive == Shapes /\ Shapes' /\ KnownCalls /\ IndInv /\ [Next /\ GivesFreeGroups]_vars => IndInv'
<1>1. SUFFICES ASSUME Shapes, Shapes', KnownCalls, IndInv, [Next /\ GivesFreeGroups]_vars
               PROVE  IndInv'
  OBVIOUS
<1>2. CASE Next /\ GivesFreeGroups
  BY <1>1, <1>2, NextSeen, StepKeeps
<1> QED
  BY <1>1, <1>2, StutteringKeeps

\* The inductive invariant of for_mt, if its calls get groups that nobody has: a group belongs
\* to the last call that got it, its counter divides the iterations into those that were
\* taken and those that were not, and what remains is what was not executed and counted.
THEOREM Invariance == FreeSpec => [](Shapes /\ KnownCalls /\ IndInv)
<1>1. [Next /\ GivesFreeGroups]_vars => [Next]_vars
  OBVIOUS
<1> QED
  BY <1>1, InitShapes, InitInvariant, TypesKept, Inductive, PTL DEF FreeSpec
-----------------------------------------------------------------------------
(* What the code may rely on *)

\* remainingTasks counts the iterations that are still to be executed and counted, whoever
\* executes them, if calls of for_mt get groups that nobody has (ExecuteStep, WaitForFinished).
THEOREM RemainingCounts == FreeSpec => []RemainingExact
<1>1. Shapes /\ IndInv => RemainingExact
  <2>1. SUFFICES ASSUME Shapes, IndInv, NEW f \in AllFrames,
                        f.op = "for", f.pc \in {"push", "loop", "help"}
                 PROVE  LET s == f.group[1]
                            executed == {i \in Iterations(s) : <<f.call, i>> \in BagToSet(ran)}
                            uncounted == {t \in Threads : \E h \in Frames(t) :
                                             h.op = "exec" /\ h.pc = "done" /\ h.call = f.call}
                        IN  group[f.group].remaining =
                                Cardinality(Iterations(s)) - Cardinality(executed)
                                                           + Cardinality(uncounted)
    BY DEF RemainingExact
  <2> DEFINE s == f.group[1]
  <2>2. PICK p \in Place : fr[p] = f
    BY <2>1, FramesPlaced DEF AllFrames
  <2>3. {i \in Iterations(s) : <<f.call, i>> \in BagToSet(ran)} = ExecutedOf(f.call, s)
    BY DEF ExecutedOf, BagToSet, Executed
  <2>4. {t \in Threads : \E h \in Frames(t) : h.op = "exec" /\ h.pc = "done" /\ h.call = f.call}
            = Uncounted(f.call)
    BY <2>1, FramesPlaced DEF Uncounted
  <2>5. Cardinality(Iterations(s)) = TaskCount(s)
    BY <2>1, <2>2, FrameTypes, GroupFacts, IterationsCounted
  <2>6. group[f.group].remaining
            = TaskCount(s) - Cardinality(ExecutedOf(f.call, s)) + Cardinality(Uncounted(f.call))
    BY <2>1, <2>2 DEF IndInv, CountInv
  <2> QED
    BY <2>3, <2>4, <2>5, <2>6
<1> QED
  BY <1>1, Invariance, PTL

\* Every iteration of a loop that has returned was executed exactly once, as
\* testThreadPool.cpp counts, however often the rings come round, if calls of for_mt get
\* groups that nobody has.
THEOREM OncePerIteration == FreeSpec => []EachIterationOnce
<1>1. IndInv => EachIterationOnce
  <2>1. SUFFICES ASSUME IndInv, NEW b \in begun, b[1] \in returned, NEW i \in Iterations(b[2])
                 PROVE  BagIn(<<b[1], i>>, ran) /\ ran[<<b[1], i>>] = 1
    BY DEF EachIterationOnce
  <2>2. <<b[1], i>> \in Executed /\ ran = [x \in Executed |-> 1]
    BY <2>1 DEF IndInv, ReturnedInv, IterationsInv
  <2> QED
    BY <2>2 DEF BagIn, BagToSet, Executed
<1> QED
  BY <1>1, Invariance, PTL

-----------------------------------------------------------------------------
(* for_mt is a parallel loop *)

\* What a thread executes is an iteration of a loop that has begun and not returned, and that
\* nobody has executed.
LEMMA ExecutesOne ==
    ASSUME Shapes, IndInv, NEW q \in Place,
           fr[q].op \in {"exec", "serial"}, fr[q].pc \in {"body", "nested"}
    PROVE  LET c == RunsCall(fr[q])
               s == fr[q].group[1] IN
           /\ <<c, s>> \in begun /\ c \notin returned
           /\ fr[q].i \in Iterations(s) /\ <<c, fr[q].i>> \notin Executed
<1> DEFINE f == fr[q]
           g == f.group
           s == g[1]
           c == RunsCall(f)
<1>1. g \in Groups /\ s \in Sites /\ f.i \in Nat
  BY FrameTypes, GroupFacts
<1>2. CASE f.op = "exec"
  <2>1. IsRunning(f) /\ c = group[g].call /\ f.pc # "done" /\ g \in Filled
    BY <1>2 DEF IsRunning, RunsCall, IndInv, GroupsInv
  <2> HIDE DEF c
  <2>2. <<c, s>> \in begun
    BY <2>1 DEF IndInv, GroupsInv
  <2>3. f.i \in Iterations(s) /\ <<c, f.i>> \notin Executed
    BY <2>1 DEF IndInv, IterationsInv
  <2>4. c \notin returned
    <3> DEFINE b == <<c, s>>
    <3>1. b \in begun /\ b[1] = c /\ b[2] = s
      BY <2>2
    <3> QED
      BY <2>3, <3>1 DEF IndInv, ReturnedInv
  <2> QED
    BY <2>2, <2>3, <2>4 DEF c
<1>3. CASE f.op = "serial"
  <2>1. IsCall(f) /\ c = f.call
    BY <1>3 DEF IsCall, RunsCall
  <2>2. /\ Serial(s) /\ f.i = 0 /\ 0 < To[s]
        /\ \A i \in Nat : <<f.call, i>> \notin Executed
    BY <1>3 DEF IndInv, SerialInv
  <2>3. f.i \in Iterations(s)
    <3> DEFINE a == To[s]
               b == Step[s]
    <3>1. a \in Nat /\ b \in Nat \ {0} /\ 0 < a
      BY <1>1, <2>2, GroupFacts
    <3>2. Iterations(s) = {i \in 0..(a - 1) : i % b = 0}
      BY DEF Iterations
    <3> HIDE DEF a, b
    <3>3. 0 \in 0..(a - 1) /\ 0 % b = 0
      BY <3>1
    <3> QED
      BY <2>2, <3>2, <3>3
  <2>4. <<c, s>> \in begun /\ c \notin returned
    BY <2>1 DEF IndInv, CallsInv
  <2> QED
    BY <1>1, <2>1, <2>2, <2>3, <2>4
<1> QED
  BY <1>2, <1>3

\* The bags of ParallelFor are those of ThreadPool.
LEMMA BagsAgree ==
    /\ EmptyBag = Abstract!EmptyBag
    /\ \A x, r : Abstract!BagIn(x, r) <=> BagIn(x, r)
    /\ \A x, r : Abstract!(+)(r, Abstract!SetToBag({x})) = r (+) SetToBag({x})
<1>1. EmptyBag = Abstract!EmptyBag
  BY DEF EmptyBag, Abstract!EmptyBag, SetToBag, Abstract!SetToBag
<1>2. \A x, r : Abstract!BagIn(x, r) <=> BagIn(x, r)
  BY DEF BagIn, Abstract!BagIn, BagToSet, Abstract!BagToSet
<1>3. \A x : Abstract!SetToBag({x}) = SetToBag({x})
  BY DEF SetToBag, Abstract!SetToBag
<1>4. \A a, b : Abstract!(+)(a, b) = a (+) b
  BY DEF (+), Abstract!(+)
<1> QED
  BY <1>1, <1>2, <1>3, <1>4

\* Every step of a thread is a step of the parallel loop or changes nothing that one sees.
LEMMA StepRefines ==
    ASSUME Shapes, Shapes', KnownCalls, IndInv, IndInv', NEW q, StepAt(q)
    PROVE  Abstract!Next \/ UNCHANGED <<begun, ran, returned>>
<1>1. ASSUME NEW c, NEW s, Calls(c, s), c \notin CallIds, UNCHANGED <<ran, returned>>
      PROVE  Abstract!Next
  <2> DEFINE d == <<c, s>>
  <2>1. begun' = begun \cup {d} /\ d \in begun' /\ d[1] = c /\ d[2] = s
    BY <1>1 DEF Calls
  <2>2. \A b \in begun : b[1] # c
    BY <1>1, CallIdFacts
  <2>3. Abstract!Begin(d[1], d[2])
    BY <1>1, <2>1, <2>2 DEF Abstract!Begin
  <2> QED
    BY <2>1, <2>3 DEF Abstract!Next
<1>2. ASSUME NEW c, NEW s, NEW i, <<c, s>> \in begun, c \notin returned, i \in Iterations(s),
             <<c, i>> \notin Executed, Body[s] # NoSite => Append(c, i) \in returned,
             ran' = ran (+) SetToBag({<<c, i>>}), UNCHANGED <<begun, returned>>
      PROVE  Abstract!Next
  <2> DEFINE d == <<c, s>>
  <2>1. d \in begun /\ d[1] = c /\ d[2] = s
    BY <1>2
  <2>2. i \in Abstract!Iterations(s)
    BY <1>2 DEF Iterations, Abstract!Iterations
  <2>3. ~ BagIn(<<c, i>>, ran)
    BY <1>2 DEF BagIn, BagToSet, Executed
  <2>4. Abstract!Execute(c, s, i)
    BY <1>2, <2>2, <2>3, BagsAgree DEF Abstract!Execute
  <2> QED
    BY <2>1, <2>2, <2>4 DEF Abstract!Next
<1>3. ASSUME NEW c, NEW s, <<c, s>> \in begun, c \notin returned, returned' = returned \cup {c},
             UNCHANGED <<begun, ran>>
      PROVE  Abstract!Next
  <2> DEFINE d == <<c, s>>
  <2>1. d \in begun /\ d \in begun' /\ d[1] = c /\ d[2] = s
    BY <1>3
  <2>2. \A i \in Iterations(s) : <<c, i>> \in Executed'
    BY <1>3, <2>1 DEF IndInv, ReturnedInv
  <2>3. \A i \in Abstract!Iterations(s) : BagIn(<<c, i>>, ran)
    BY <1>3, <2>2 DEF Iterations, Abstract!Iterations, BagIn, BagToSet, Executed
  <2>4. Abstract!Return(c, s)
    BY <1>3, <2>3, BagsAgree DEF Abstract!Return
  <2> QED
    BY <2>1, <2>4 DEF Abstract!Next
<1>4. CASE MainCallsAt(q)
  <2> DEFINE c == <<calls + 1>>
             s == Program[calls + 1]
  <2>1. Calls(c, s) /\ UNCHANGED <<ran, returned>> /\ calls \in Nat /\ c[1] = calls + 1
    BY <1>4, PoolAssumption DEF MainCallsAt, Shapes
  <2>2. c \notin CallIds
    <3>1. c \in CallIds => c[1] <= calls
      BY DEF IndInv, CallsInv
    <3> QED
      BY <2>1, <3>1
  <2> HIDE DEF c, s
  <2> QED
    BY <1>1, <2>1, <2>2
<1>5. CASE IsTop(q) /\ RunBodyAt(q)
  <2> DEFINE f == fr[q]
             c == RunsCall(f)
             s == f.group[1]
  <2>1. /\ q \in Place /\ f.op \in {"exec", "serial"} /\ f.pc = "body"
    BY <1>5 DEF IsTop, RunBodyAt
  <2>2. CASE Body[s] = NoSite
    <3>1. ran' = ran (+) SetToBag({<<c, f.i>>}) /\ UNCHANGED <<begun, returned>>
      BY <1>5, <2>2 DEF RunBodyAt
    <3>2. <<c, s>> \in begun /\ c \notin returned /\ f.i \in Iterations(s) /\ <<c, f.i>> \notin Executed
      BY <2>1, ExecutesOne
    <3> HIDE DEF c, s, f
    <3> QED
      BY <1>2, <2>2, <3>1, <3>2
  <2>3. CASE Body[s] # NoSite
    <3>1. Calls(Append(c, f.i), Body[s]) /\ UNCHANGED <<ran, returned>>
      BY <1>5, <2>3 DEF RunBodyAt
    <3>2. Append(c, f.i) \notin CallIds
      BY <2>1, FreshCall
    <3> HIDE DEF c, s, f
    <3> QED
      BY <1>1, <3>1, <3>2
  <2> QED
    BY <2>2, <2>3
<1>6. CASE IsTop(q) /\ NestedDoneAt(q)
  <2> DEFINE f == fr[q]
             c == f.call
             s == f.group[1]
  <2>1. /\ q \in Place /\ Above(q) \notin Place /\ f.op \in {"exec", "serial"} /\ f.pc = "nested"
        /\ ran' = ran (+) SetToBag({<<c, f.i>>}) /\ UNCHANGED <<begun, returned>>
    BY <1>6 DEF IsTop, NestedDoneAt
  <2>2. RunsCall(f) = c
    BY <2>1 DEF RunsCall, IsRunning, IndInv, IterationsInv
  <2>3. <<c, s>> \in begun /\ c \notin returned /\ f.i \in Iterations(s) /\ <<c, f.i>> \notin Executed
    BY <2>1, <2>2, ExecutesOne
  <2>4. Append(c, f.i) \in returned
    BY <2>1 DEF IndInv, FramesInv
  <2> HIDE DEF c, s, f
  <2> QED
    BY <1>2, <2>1, <2>3, <2>4
<1>7. CASE IsTop(q) /\ SerialStepAt(q)
  <2> DEFINE c == fr[q].call
             s == fr[q].group[1]
  <2>1. <<c, s>> \in begun /\ c \notin returned
    BY <1>7 DEF IsTop, SerialStepAt, IndInv, CallsInv, IsCall
  <2>2. UNCHANGED <<begun, ran>> /\ (returned' = returned \/ returned' = returned \cup {c})
    BY <1>7 DEF SerialStepAt
  <2> HIDE DEF c, s
  <2> QED
    BY <1>3, <2>1, <2>2
<1>8. CASE IsTop(q) /\ ReturnAt(q)
  <2> DEFINE c == fr[q].call
             s == fr[q].group[1]
  <2>1. <<c, s>> \in begun /\ c \notin returned
    BY <1>8 DEF IsTop, ReturnAt, IndInv, CallsInv, IsCall
  <2>2. UNCHANGED <<begun, ran>> /\ returned' = returned \cup {c}
    BY <1>8 DEF ReturnAt
  <2> HIDE DEF c, s
  <2> QED
    BY <1>3, <2>1, <2>2
<1> QED
  BY <1>4, <1>5, <1>6, <1>7, <1>8
  DEF StepAt, StoreRemainingAt, StoreCounterAt, StoreFuncAt, PushTaskGroupAt, TakeIterationAt,
      LeaveLoopAt, CountIterationAt, TurnAt, DoTaskAt

\* If calls of for_mt get groups that nobody has, for_mt is the parallel loop its callers take
\* it for: iterations are executed once each, after the call, after the loops in them have
\* returned, and before the call returns, whatever the threads of the pool do in the meantime.
THEOREM Refinement == FreeSpec => ImplementsParallelFor
<1>1. Init => Abstract!Init
  BY BagsAgree DEF Init, Abstract!Init
<1>2. ASSUME Shapes, KnownCalls, IndInv, Shapes', IndInv', [Next /\ GivesFreeGroups]_vars
      PROVE  [Abstract!Next]_<<begun, ran, returned>>
  <2>1. CASE Next
    BY <1>2, <2>1, NextSeen, StepRefines
  <2>2. CASE UNCHANGED vars
    BY <2>2 DEF vars
  <2> QED
    BY <1>2, <2>1, <2>2
<1> QED
  BY <1>1, <1>2, Invariance, PTL DEF FreeSpec, ImplementsParallelFor, Abstract!Spec
-----------------------------------------------------------------------------
(* Who still has the group of a loop that has returned *)

\* What was executed and has not been counted belongs to loops that are waited for.
CountedInv ==
    \A p \in Place : fr[p].op = "exec" /\ fr[p].pc = "done" => fr[p].call \notin returned

\* remainingTasks is zero only when all executed iterations have been counted.
LEMMA AllCounted ==
    ASSUME Shapes, IndInv, NEW q \in Place, fr[q].op = "for", fr[q].pc # "remaining",
           group[fr[q].group].remaining = 0
    PROVE  Uncounted(fr[q].call) = {}
<1> DEFINE c == fr[q].call
           s == fr[q].group[1]
           m == Cardinality(ExecutedOf(c, s))
           n == Cardinality(Uncounted(c))
           k == TaskCount(s)
<1>1. s \in Sites /\ fr[q].group \in Groups
  BY FrameTypes, GroupFacts
<1>2. m \in Nat /\ n \in Nat /\ m <= k /\ k \in Nat /\ IsFiniteSet(Uncounted(c))
  BY <1>1, CountingFacts, TaskCountType
<1>3. 0 = k - m + n
  BY DEF IndInv, CountInv
<1> HIDE DEF k, m
<1>4. n = 0
  <2> HIDE DEF n
  <2> QED
    BY <1>2, <1>3
<1> QED
  BY <1>2, <1>4, FS_EmptySet

LEMMA CountedKept ==
    ASSUME Shapes, Shapes', IndInv, CountedInv, NEW q, StepAt(q)
    PROVE  CountedInv'
<1>1. SUFFICES ASSUME NEW p \in Place', fr'[p].op = "exec", fr'[p].pc = "done"
               PROVE  fr'[p].call \notin returned'
  BY DEF CountedInv
<1>2. CASE IsTop(q) /\ (RunBodyAt(q) \/ NestedDoneAt(q)) /\ p = q
  <2>1. /\ q \in Place /\ fr[q].op \in {"exec", "serial"} /\ fr[q].pc \in {"body", "nested"}
        /\ returned' = returned
    BY <1>2 DEF IsTop, RunBodyAt, NestedDoneAt
  <2>2. RunsCall(fr[q]) \notin returned
    BY <2>1, ExecutesOne
  <2>3. fr[q].op = "exec" /\ fr'[q].call = RunsCall(fr[q])
    <3>1. CASE NestedDoneAt(q)
      <4>1. fr'[q] = [fr[q] EXCEPT !.pc = "done"] /\ fr[q] \in Frame
        BY <1>2, <2>1, <3>1, FrameTypes DEF NestedDoneAt, Advances, Becomes
      <4>2. fr[q].op = "exec" /\ fr'[q].call = fr[q].call
        BY <1>1, <1>2, <4>1 DEF Frame
      <4> QED
        BY <2>1, <3>1, <4>2 DEF RunsCall, NestedDoneAt, IsRunning, IndInv, IterationsInv
    <3>2. CASE RunBodyAt(q)
      <4>1. \E pc \in {"done", "nested"} :
               fr'[q] = [fr[q] EXCEPT !.call = RunsCall(fr[q]), !.pc = pc]
        BY <3>2 DEF RunBodyAt, Becomes, BecomesAndGrows
      <4>2. fr[q] \in Frame
        BY <2>1, FrameTypes
      <4> QED
        BY <1>1, <1>2, <4>1, <4>2 DEF Frame
    <3> QED
      BY <1>2, <3>1, <3>2
  <2> QED
    BY <1>2, <2>1, <2>2, <2>3
<1>3. CASE ~ (IsTop(q) /\ (RunBodyAt(q) \/ NestedDoneAt(q)) /\ p = q)
  <2>1. p \in Place /\ fr'[p] = fr[p]
    <3>1. ASSUME NEW f, Becomes(q, f), f.pc # "done" \/ f.op # "exec"
          PROVE  p # q /\ p \in Place /\ fr'[p] = fr[p]
      BY <1>1, <3>1 DEF Becomes
    <3>2. ASSUME NEW f, Grows(q, f), f.pc # "done"
          PROVE  p \in Place /\ fr'[p] = fr[p]
      BY <1>1, <3>2 DEF Grows
    <3>3. ASSUME NEW f, NEW h, BecomesAndGrows(q, f, h), f.pc # "done", h.pc # "done"
          PROVE  p \in Place /\ fr'[p] = fr[p]
      BY <1>1, <3>3 DEF BecomesAndGrows
    <3>4. ASSUME NEW f, Becomes(q, f) \/ \E h : BecomesAndGrows(q, f, h) /\ h.pc # "done", p # q
          PROVE  p \in Place /\ fr'[p] = fr[p]
      BY <1>1, <3>4 DEF Becomes, BecomesAndGrows
    <3>5. Shrinks(q) => p \in Place /\ fr'[p] = fr[p]
      BY DEF Shrinks
    <3>6. /\ \A c, s : CallFrame(c, s).pc # "done"
          /\ \A g : ExecuteLoop(g).pc # "done"
      BY DEF CallFrame, ExecuteLoop
    <3>7. q \in Place => fr[q] \in Frame
      BY FrameTypes
    <3>8. CASE IsTop(q) /\ (RunBodyAt(q) \/ NestedDoneAt(q))
      BY <1>3, <3>4, <3>6, <3>8 DEF RunBodyAt, NestedDoneAt, Advances
    <3>9. CASE MainCallsAt(q) \/ DoTaskAt(q)
      BY <3>2, <3>6, <3>9 DEF MainCallsAt, DoTaskAt
    <3>10. CASE IsTop(q) /\ PushTaskGroupAt(q)
      <4>1. fr[q] \in Frame /\ fr[q].pc = "push" /\ fr[q].op = "for"
        BY <3>7, <3>10 DEF IsTop, PushTaskGroupAt
      <4>2. /\ [fr[q] EXCEPT !.i = @ + 1].pc # "done"
            /\ [fr[q] EXCEPT !.pc = "loop"].pc # "done"
        BY <4>1 DEF Frame
      <4> QED
        BY <3>1, <3>3, <3>6, <3>10, <4>2 DEF PushTaskGroupAt
    <3>11. CASE IsTop(q) /\ TakeIterationAt(q)
      <4>1. \A i : [fr[q] EXCEPT !.pc = "body", !.i = i].pc # "done"
        BY <3>7, <3>11 DEF IsTop, Frame
      <4> QED
        BY <3>1, <3>11, <4>1 DEF TakeIterationAt
    <3>12. CASE IsTop(q) /\ SerialStepAt(q)
      <4>1. /\ \A pc, i : [fr[q] EXCEPT !.pc = pc, !.i = i].op # "exec"
            /\ \A pc : [fr[q] EXCEPT !.pc = pc].op # "exec"
        BY <3>7, <3>12 DEF IsTop, Frame, SerialStepAt
      <4> QED
        BY <3>1, <3>5, <3>12, <4>1 DEF SerialStepAt, Advances
    <3>13. ASSUME IsTop(q), NEW pc, Advances(q, pc), pc # "done"
           PROVE  p \in Place /\ fr'[p] = fr[p]
      <4>1. [fr[q] EXCEPT !.pc = pc].pc # "done"
        BY <3>7, <3>13 DEF IsTop, Frame
      <4> QED
        BY <3>1, <3>13, <4>1 DEF Advances
    <3>14. CASE IsTop(q) /\ (StoreRemainingAt(q) \/ StoreCounterAt(q) \/ StoreFuncAt(q)
                                \/ CountIterationAt(q) \/ TurnAt(q))
      BY <3>13, <3>14
      DEF StoreRemainingAt, StoreCounterAt, StoreFuncAt, CountIterationAt, TurnAt
    <3>15. CASE IsTop(q) /\ (LeaveLoopAt(q) \/ ReturnAt(q))
      BY <3>5, <3>15 DEF LeaveLoopAt, ReturnAt
    <3> QED
      BY <3>8, <3>9, <3>10, <3>11, <3>12, <3>14, <3>15 DEF StepAt
  <2>2. /\ fr[p].op = "exec" /\ fr[p].pc = "done" /\ fr[p].call \notin returned
        /\ fr[p].group \in Filled /\ fr[p].call = group[fr[p].group].call
        /\ p[1] \in Uncounted(fr[p].call)
    BY <1>1, <2>1
    DEF CountedInv, IndInv, GroupsInv, IterationsInv, IsRunning, Uncounted, Place
  <2>3. CASE IsTop(q) /\ SerialStepAt(q)
    <3>1. q \in Place /\ fr[q].op = "serial" /\ returned' \subseteq returned \cup {fr[q].call}
      BY <2>3 DEF IsTop, SerialStepAt
    <3>2. fr[q].call # fr[p].call
      BY <2>2, <3>1 DEF IndInv, GroupsInv
    <3> QED
      BY <2>1, <2>2, <3>1, <3>2
  <2>4. CASE IsTop(q) /\ ReturnAt(q)
    <3>1. /\ q \in Place /\ fr[q].op = "for" /\ fr[q].pc = "loop"
          /\ group[fr[q].group].remaining = 0 /\ returned' = returned \cup {fr[q].call}
      BY <2>4 DEF IsTop, ReturnAt
    <3>2. fr[q].call # fr[p].call
      BY <2>2, <3>1, AllCounted
    <3> QED
      BY <2>1, <2>2, <3>1, <3>2
  <2>5. CASE returned' = returned
    BY <2>1, <2>2, <2>5
  <2> QED
    BY <2>3, <2>4, <2>5
    DEF StepAt, StoreRemainingAt, StoreCounterAt, StoreFuncAt, PushTaskGroupAt, TakeIterationAt,
        LeaveLoopAt, RunBodyAt, NestedDoneAt, CountIterationAt, TurnAt, MainCallsAt, DoTaskAt
<1> QED
  BY <1>2, <1>3

\* The group of a loop that has returned has no iteration left to take.
LEMMA NothingLeft ==
    ASSUME Shapes, IndInv, NEW g \in Filled, group[g].call \in returned
    PROVE  To[g[1]] <= next[g]
<1>1. g \in Groups /\ g[1] \in Sites /\ To[g[1]] \in Nat
  BY GroupFacts DEF Filled
<1>2. next[g] \in Nat /\ (next[g] < To[g[1]] => next[g] \in Iterations(g[1]))
  BY <1>1, NextFacts
<1>3. <<group[g].call, g[1]>> \in begun
  BY DEF IndInv, GroupsInv
<1>4. \A i \in Iterations(g[1]) : <<group[g].call, i>> \in Executed
  <2> DEFINE b == <<group[g].call, g[1]>>
  <2>1. b \in begun /\ b[1] = group[g].call /\ b[2] = g[1]
    BY <1>3
  <2> QED
    BY <2>1 DEF IndInv, ReturnedInv
<1>5. next[g] \in Iterations(g[1]) => next[g] < next[g]
  BY <1>2, <1>4 DEF IndInv, IterationsInv
<1> QED
  BY <1>1, <1>2, <1>5

\* However long workers keep the group of a loop that has returned, they find nothing in it
\* to execute and nothing of it is still being executed or counted, so that they never touch
\* what its caller has given up, if calls of for_mt get groups that nobody has.
THEOREM NothingLeftToRun == FreeSpec => []NothingLeftBehind
<1>1. Init => CountedInv
  BY DEF Init, CountedInv, Place
<1>2. ASSUME Shapes, KnownCalls, IndInv, Shapes', CountedInv, [Next /\ GivesFreeGroups]_vars
      PROVE  CountedInv'
  <2>1. CASE Next
    BY <1>2, <2>1, NextSeen, CountedKept
  <2>2. CASE UNCHANGED vars
    BY <1>2, <2>2 DEF vars, CountedInv, Place, fr
  <2> QED
    BY <1>2, <2>1, <2>2
<1>3. Shapes /\ IndInv /\ CountedInv => NothingLeftBehind
  <2>1. SUFFICES ASSUME Shapes, IndInv, CountedInv,
                        NEW g \in Groups, Held(g), group[g].call \in returned
                 PROVE  /\ Step[g[1]] * group[g].ctr >= To[g[1]]
                        /\ \A f \in AllFrames : f.op = "exec" /\ f.group = g => f.pc = "step"
    BY DEF NothingLeftBehind
  <2>2. g \in Filled
    BY <2>1, FramesPlaced DEF Held, AllFrames, IndInv, GroupsInv
  <2>3. Step[g[1]] * group[g].ctr >= To[g[1]]
    <3>1. To[g[1]] <= next[g] /\ next[g] = Step[g[1]] * group[g].ctr
      BY <2>1, <2>2, NothingLeft DEF next
    <3> QED
      BY <3>1
  <2>4. ASSUME NEW p \in Place, fr[p].op = "exec", fr[p].group = g
        PROVE  fr[p].pc = "step"
    <3>1. CASE fr[p].pc \in {"body", "nested"}
      <4>1. RunsCall(fr[p]) = group[g].call
        BY <2>4 DEF RunsCall
      <4> QED
        BY <2>1, <2>4, <3>1, <4>1, ExecutesOne
    <3>2. CASE fr[p].pc = "done"
      <4>1. fr[p].call = group[g].call
        BY <2>1, <2>4, <3>2 DEF IsRunning, IndInv, IterationsInv
      <4> QED
        BY <2>1, <2>4, <3>2, <4>1 DEF CountedInv
    <3>3. fr[p].pc \in LoopPcs
      BY <2>1, <2>4 DEF IndInv, FramesInv
    <3> QED
      BY <3>1, <3>2, <3>3 DEF LoopPcs
  <2> QED
    BY <2>1, <2>3, <2>4, FramesPlaced DEF AllFrames
<1> QED
  BY <1>1, <1>2, <1>3, Invariance, PTL DEF FreeSpec
-----------------------------------------------------------------------------
(* Until a ring comes round *)

\* No call of for_mt so far has got a group that another call had before.
NeverRecycled == \A s \in Sites : pos[s] <= PoolSize

LEMMA RingAdvances ==
    ASSUME Shapes, NEW q, StepAt(q), NEW s \in Sites, pos'[s] # pos[s]
    PROVE  pos'[s] = pos[s] + 1
<1>1. ASSUME NEW c, NEW r \in Sites, Calls(c, r)
      PROVE  pos'[s] = pos[s] + 1
  <2>1. pos \in [Sites -> Nat] /\ (pos' = pos \/ pos' = [pos EXCEPT ![r] = @ + 1])
    BY <1>1 DEF Calls, Shapes
  <2> QED
    BY <2>1
<1>2. CASE MainCallsAt(q)
  <2> DEFINE c == <<calls + 1>>
             r == Program[calls + 1]
  <2>1. r \in Sites /\ Calls(c, r)
    BY <1>2, PoolAssumption DEF MainCallsAt, Shapes
  <2> HIDE DEF c, r
  <2> QED
    BY <1>1, <2>1
<1>3. CASE RunBodyAt(q) /\ IsTop(q)
  <2>1. Body[fr[q].group[1]] \in Sites \cup {NoSite}
    BY <1>3, FrameTypes, GroupFacts, PoolAssumption DEF IsTop
  <2> QED
    BY <1>1, <1>3, <2>1 DEF RunBodyAt
<1> QED
  BY <1>2, <1>3
  DEF StepAt, StoreRemainingAt, StoreCounterAt, StoreFuncAt, PushTaskGroupAt, TakeIterationAt,
      LeaveLoopAt, NestedDoneAt, CountIterationAt, SerialStepAt, ReturnAt, TurnAt, DoTaskAt

\* A group that no call has had is nobody's.
LEMMA FirstRoundFree ==
    ASSUME Shapes, IndInv, NeverRecycled', NEW q, StepAt(q)
    PROVE  GivesFreeGroups
<1> SUFFICES ASSUME NEW s \in Sites, pos'[s] # pos[s]
             PROVE  Free(NextGroup(s))
  BY DEF GivesFreeGroups
<1> DEFINE n == NextGroup(s)
           a == pos[s]
           b == PoolSize
<1>1. a \in Nat /\ b \in Nat \ {0} /\ a < b
  <2>1. a \in Nat /\ b \in Nat \ {0} /\ pos'[s] = a + 1
    BY RingAdvances, GroupFacts DEF Shapes
  <2>2. a + 1 <= b
    BY <2>1 DEF NeverRecycled
  <2> QED
    BY <2>1, <2>2
<1> HIDE DEF a, b
<1>2. a % b = a /\ a \in 0..(b - 1)
  BY <1>1
<1>3. n = <<s, a>>
  BY <1>2 DEF NextGroup, a, b
<1>4. n \in Groups /\ n[1] = s /\ n[2] = a
  BY <1>2, <1>3 DEF Groups, b
<1>5. ~ (n[2] < pos[n[1]])
  BY <1>1, <1>4 DEF a
<1> HIDE DEF n
<1>6. n \notin Filled
  BY <1>5 DEF Filled
<1>7. ASSUME NEW f \in AllFrames, f.group = n
      PROVE  f.op = "serial"
  <2>1. PICK p \in Place : fr[p] = f
    BY FramesPlaced DEF AllFrames
  <2>2. f.op # "for"
    BY <1>5, <1>7, <2>1 DEF IndInv, GroupsInv
  <2>3. f.op # "exec"
    BY <1>6, <1>7, <2>1 DEF IndInv, GroupsInv
  <2> QED
    BY <2>1, <2>2, <2>3, FrameTypes DEF Ops
<1>8. ASSUME NEW w \in Workers
      PROVE  queue[w][n] = 0
  <2>1. queue[w][n] \in Nat /\ ~ (queue[w][n] > 0)
    BY <1>4, <1>6 DEF Shapes, IndInv, GroupsInv
  <2> QED
    BY <2>1
<1> QED
  BY <1>7, <1>8 DEF Free, n

\* As long as no call site has used up its ring of groups (256 calls of for_mt), every call
\* gets a group that nobody has: all of the above holds of the code without any assumption.
THEOREM FirstRound == Spec /\ []NeverRecycled => FreeSpec
<1>1. ASSUME Shapes, KnownCalls, IndInv, NeverRecycled', [Next]_vars
      PROVE  [Next /\ GivesFreeGroups]_vars
  BY <1>1, NextSeen, FirstRoundFree
<1> QED
  BY <1>1, TypesInvariant, InitInvariant, Inductive, PTL DEF Spec, FreeSpec
=============================================================================
