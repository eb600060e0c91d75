------------------------ MODULE MessageStreamProofs -------------------------
(***************************************************************************)
(* What TLAPS proves of the messages between server and client.            *)
(*                                                                         *)
(* The client finds every message whole and in order wherever a flush cuts *)
(* it. A flush, the assembly of what is received and the look through the  *)
(* queue are loops; each has an invariant of its own, kept by a turn, and  *)
(* a bound on its turns. Of the program as a whole, the bytes on the way   *)
(* (the fragment that is kept and the chunks behind it) are those of a     *)
(* sequence of whole messages, and what waits of it comes between what     *)
(* waits in the queue and what is still to be flushed.                     *)
(***************************************************************************)
EXTENDS MessageStream, InductionFacts, SequenceTheorems

-----------------------------------------------------------------------------
(* Sequences behind one another *)

\* Concatenation as a symbol, so that the provers use the laws below and not its definition
Joined(a, b) == a \o b
One(x) == <<x>>

\* Its type and its length.
LEMMA JoinedType ==
    ASSUME NEW B, NEW a \in Seq(B), NEW b \in Seq(B)
    PROVE  Joined(a, b) \in Seq(B) /\ Len(Joined(a, b)) = Len(a) + Len(b)
BY ConcatProperties DEF Joined

\* Concatenation is associative.
LEMMA JoinedAssociative ==
    ASSUME NEW B, NEW a \in Seq(B), NEW b \in Seq(B), NEW c \in Seq(B)
    PROVE  Joined(Joined(a, b), c) = Joined(a, Joined(b, c))
BY ConcatAssociative DEF Joined

\* Nothing is neutral.
LEMMA JoinedEmpty ==
    ASSUME NEW B, NEW a \in Seq(B)
    PROVE  Joined(a, <<>>) = a /\ Joined(<<>>, a) = a
BY ConcatEmptySeq DEF Joined

\* What follows equal beginnings is equal.
LEMMA JoinedCancel ==
    ASSUME NEW B, NEW a \in Seq(B), NEW b \in Seq(B), NEW c \in Seq(B),
           Joined(a, b) = Joined(a, c)
    PROVE  b = c
BY ConcatSimplifications DEF Joined

\* Append in terms of Joined.
LEMMA AppendIsJoined ==
    ASSUME NEW B, NEW a \in Seq(B), NEW x \in B
    PROVE  Append(a, x) = Joined(a, One(x)) /\ One(x) \in Seq(B)
<1>1. <<x>> \in Seq(B)
  OBVIOUS
<1>2. Append(a, x) = a \o <<x>>
  BY AppendIsConcat
<1> QED
  BY <1>1, <1>2 DEF Joined, One

\* Joined and Append
LEMMA JoinedAppend ==
    ASSUME NEW B, NEW a \in Seq(B), NEW b \in Seq(B), NEW x \in B
    PROVE  Joined(a, Append(b, x)) = Append(Joined(a, b), x)
<1>1. Joined(a, b) \in Seq(B)
  BY JoinedType
<1>2. One(x) \in Seq(B) /\ Append(b, x) = Joined(b, One(x))
      /\ Append(Joined(a, b), x) = Joined(Joined(a, b), One(x))
  BY <1>1, AppendIsJoined
<1>3. Joined(Joined(a, b), One(x)) = Joined(a, Joined(b, One(x)))
  BY <1>2, JoinedAssociative
<1> QED
  BY <1>2, <1>3

\* Chains of sequences: what FlattenSeq returns is what its recursion says.
LEMMA FlattenUnrolled ==
    ASSUME NEW B, NEW s \in Seq(Seq(B)), s # <<>>
    PROVE  \E g \in [1..Len(s) -> Seq(B)] :
              /\ g[1] = s[1] /\ \A i \in 2..Len(s) : g[i] = g[i - 1] \o s[i]
              /\ FlattenSeq(s) = g[Len(s)]
<1> DEFINE body(f) == [i \in 1..Len(s) |-> IF i = 1 THEN s[i] ELSE f[i - 1] \o s[i]]
           F == CHOOSE f : f = body(f)
           step == [n \in Nat |-> [x \in Seq(B) |-> IF n + 2 <= Len(s) THEN x \o s[n + 2] ELSE x]]
<1>1. Len(s) \in Nat \ {0} /\ \A i \in 1..Len(s) : s[i] \in Seq(B)
  BY EmptySeq
<1>2. \A n \in Nat, x \in Seq(B) : step[n][x] \in Seq(B)
  BY <1>1
<1>3. step \in StepFunctions(Seq(B))
  BY <1>2 DEF StepFunctions
<1>4. PICK h : Recurs(h, Seq(B), s[1], step)
  <2>1. s[1] \in Seq(B)
    BY <1>1
  <2> HIDE DEF step
  <2> QED
    BY <2>1, <1>3, Recursion
<1> DEFINE g == [i \in 1..Len(s) |-> h[i - 1]]
<1>5. \A i \in 1..Len(s) : g[i] \in Seq(B)
  BY <1>1, <1>4 DEF Recurs
<1>6. g[1] = s[1]
  <2>1. 1 \in 1..Len(s) /\ 1 - 1 = 0
    BY <1>1
  <2>2. h[0] = s[1]
    BY <1>4 DEF Recurs
  <2> QED
    BY <2>1, <2>2
<1>7. ASSUME NEW i \in 2..Len(s)
      PROVE  g[i] = g[i - 1] \o s[i]
  <2>1. i - 2 \in Nat /\ (i - 2) + 1 = i - 1 /\ (i - 2) + 2 = i /\ (i - 1) - 1 = i - 2
    BY <1>1
  <2>2. h[i - 1] = step[i - 2][h[i - 2]] /\ h[i - 2] \in Seq(B)
    <3> HIDE DEF step
    <3>1. h[(i - 2) + 1] = step[i - 2][h[i - 2]] /\ h[i - 2] \in Seq(B)
      BY <1>4, <2>1 DEF Recurs
    <3> QED
      BY <2>1, <3>1
  <2>3. step[i - 2][h[i - 2]] = h[i - 2] \o s[i]
    <3>1. \A n \in Nat, x \in Seq(B) : step[n][x] = IF n + 2 <= Len(s) THEN x \o s[n + 2] ELSE x
      OBVIOUS
    <3> HIDE DEF step
    <3>2. (i - 2) + 2 <= Len(s)
      BY <1>1, <2>1
    <3>3. step[i - 2][h[i - 2]] = h[i - 2] \o s[(i - 2) + 2]
      BY <2>1, <2>2, <3>1, <3>2, Zenon
    <3> QED
      BY <2>1, <3>3
  <2> QED
    <3>1. i \in 1..Len(s) /\ i - 1 \in 1..Len(s)
      BY <1>1
    <3>2. g[i] = h[i - 1] /\ g[i - 1] = h[i - 2]
      BY <2>1, <3>1
    <3> QED
      BY <2>2, <2>3, <3>2
<1>8. g = body(g)
  <2>1. \A i \in 1..Len(s) : g[i] = body(g)[i]
    <3>1. ASSUME NEW i \in 1..Len(s) PROVE g[i] = IF i = 1 THEN s[i] ELSE g[i - 1] \o s[i]
      <4>1. i = 1 \/ i \in 2..Len(s)
        BY <1>1
      <4> HIDE DEF g
      <4> QED
        BY <1>6, <1>7, <4>1
    <3> HIDE DEF g
    <3> QED
      BY <3>1
  <2> QED
    BY <2>1
<1>9. F = body(F)
  <2> HIDE DEF body
  <2> QED
    BY <1>8
<1>10. FlattenSeq(s) = F[Len(s)]
  BY <1>1 DEF FlattenSeq
<1> HIDE DEF F, g
<1> DEFINE A == {n \in Nat : n + 1 \in 1..Len(s) => F[n + 1] = g[n + 1]}
<1>11. 0 \in A
  BY <1>1, <1>6, <1>9
<1>12. ASSUME NEW n \in A PROVE n + 1 \in A
  <2>1. SUFFICES ASSUME n + 2 \in 1..Len(s) PROVE F[n + 2] = g[n + 2]
    OBVIOUS
  <2>2. F[n + 1] = g[n + 1] /\ n + 2 # 1 /\ n + 2 \in 2..Len(s) /\ (n + 2) - 1 = n + 1
    BY <2>1
  <2>3. F[n + 2] = F[n + 1] \o s[n + 2]
    BY <1>9, <2>1, <2>2
  <2>4. g[n + 2] = g[n + 1] \o s[n + 2]
    BY <1>7, <2>2
  <2> QED
    BY <2>2, <2>3, <2>4
<1> HIDE DEF A
<1>13. Nat \subseteq A
  BY <1>11, <1>12, Induction
<1>14. F[Len(s)] = g[Len(s)]
  <2>1. Len(s) - 1 \in Nat /\ (Len(s) - 1) + 1 = Len(s) /\ Len(s) \in 1..Len(s)
    BY <1>1
  <2> QED
    BY <1>13, <2>1 DEF A
<1>15. g \in [1..Len(s) -> Seq(B)]
  BY <1>5 DEF g
<1> QED
  BY <1>6, <1>7, <1>10, <1>14, <1>15

\* Nothing is made of no sequences.
LEMMA FlattenEmpty == FlattenSeq(<<>>) = <<>>
BY DEF FlattenSeq

\* The type of FlattenSeq.
LEMMA FlattenType ==
    ASSUME NEW B, NEW s \in Seq(Seq(B))
    PROVE  FlattenSeq(s) \in Seq(B)
<1>1. CASE s = <<>>
  BY <1>1, FlattenEmpty, EmptySeq
<1>2. CASE s # <<>>
  <2>1. PICK g \in [1..Len(s) -> Seq(B)] : FlattenSeq(s) = g[Len(s)]
    BY <1>2, FlattenUnrolled
  <2>2. Len(s) \in 1..Len(s)
    BY <1>2, EmptySeq
  <2> QED
    BY <2>1, <2>2
<1> QED
  BY <1>1, <1>2

\* FlattenSeq of a sequence with another member behind it.
LEMMA FlattenAppend ==
    ASSUME NEW B, NEW s \in Seq(Seq(B)), NEW x \in Seq(B)
    PROVE  FlattenSeq(Append(s, x)) = Joined(FlattenSeq(s), x)
<1> DEFINE t == Append(s, x)
<1>1. /\ t \in Seq(Seq(B)) /\ t # <<>> /\ Len(t) = Len(s) + 1 /\ Len(s) \in Nat
      /\ t[Len(s) + 1] = x /\ \A i \in 1..Len(s) : t[i] = s[i]
  BY AppendProperties
<1> HIDE DEF t
<1>2. PICK g \in [1..Len(t) -> Seq(B)] :
         /\ g[1] = t[1] /\ \A i \in 2..Len(t) : g[i] = g[i - 1] \o t[i]
         /\ FlattenSeq(t) = g[Len(t)]
  BY <1>1, FlattenUnrolled
<1>3. CASE s = <<>>
  <2>1. FlattenSeq(t) = x
    BY <1>1, <1>2, <1>3
  <2> QED
    BY <1>3, <2>1, FlattenEmpty, JoinedEmpty DEF t
<1>4. CASE s # <<>>
  <2>1. PICK h \in [1..Len(s) -> Seq(B)] :
           /\ h[1] = s[1] /\ \A i \in 2..Len(s) : h[i] = h[i - 1] \o s[i]
           /\ FlattenSeq(s) = h[Len(s)]
    BY <1>4, FlattenUnrolled
  <2> DEFINE A == {n \in Nat : n + 1 \in 1..Len(s) => g[n + 1] = h[n + 1]}
  <2>2. 0 \in A
    BY <1>1, <1>2, <2>1
  <2>3. ASSUME NEW n \in A PROVE n + 1 \in A
    <3>1. SUFFICES ASSUME n + 2 \in 1..Len(s) PROVE g[n + 2] = h[n + 2]
      OBVIOUS
    <3>2. g[n + 1] = h[n + 1] /\ (n + 2) - 1 = n + 1 /\ n + 2 \in 2..Len(s) /\ n + 2 \in 2..Len(t)
      BY <1>1, <3>1
    <3>3. g[n + 2] = g[n + 1] \o t[n + 2] /\ h[n + 2] = h[n + 1] \o s[n + 2]
      BY <1>2, <2>1, <3>2
    <3>4. t[n + 2] = s[n + 2]
      BY <1>1, <3>1
    <3> QED
      BY <3>2, <3>3, <3>4
  <2> HIDE DEF A
  <2>4. Nat \subseteq A
    BY <2>2, <2>3, Induction
  <2>5. g[Len(s)] = h[Len(s)]
    <3>1. Len(s) - 1 \in Nat /\ (Len(s) - 1) + 1 = Len(s) /\ Len(s) \in 1..Len(s)
      BY <1>1, <1>4, EmptySeq
    <3> QED
      BY <2>4, <3>1 DEF A
  <2>6. Len(t) \in 2..Len(t) /\ Len(t) - 1 = Len(s)
    BY <1>1, <1>4, EmptySeq
  <2> QED
    BY <1>1, <1>2, <2>1, <2>5, <2>6 DEF t, Joined
<1> QED
  BY <1>3, <1>4

\* FlattenSeq of a single sequence.
LEMMA FlattenOne ==
    ASSUME NEW B, NEW x \in Seq(B)
    PROVE  FlattenSeq(One(x)) = x
<1>1. <<>> \in Seq(Seq(B)) /\ <<x>> = Append(<<>>, x)
  BY EmptySeq
<1>2. FlattenSeq(Append(<<>>, x)) = Joined(FlattenSeq(<<>>), x)
  BY <1>1, FlattenAppend
<1>3. Joined(<<>>, x) = x
  BY JoinedEmpty
<1> QED
  BY <1>1, <1>2, <1>3, FlattenEmpty DEF One

\* FlattenSeq distributes over concatenation.
LEMMA FlattenConcat ==
    ASSUME NEW B, NEW s \in Seq(Seq(B)), NEW t \in Seq(Seq(B))
    PROVE  FlattenSeq(Joined(s, t)) = Joined(FlattenSeq(s), FlattenSeq(t))
<1> DEFINE P(u) == FlattenSeq(Joined(s, u)) = Joined(FlattenSeq(s), FlattenSeq(u))
           A == {n \in Nat : \A u \in Seq(Seq(B)) : Len(u) = n => P(u)}
<1>1. 0 \in A
  <2>1. SUFFICES ASSUME NEW u \in Seq(Seq(B)), Len(u) = 0
                 PROVE  P(u)
    OBVIOUS
  <2>2. u = <<>>
    BY <2>1, EmptySeq
  <2> QED
    BY <2>2, FlattenEmpty, FlattenType, JoinedEmpty
<1>2. ASSUME NEW n \in A
      PROVE  n + 1 \in A
  <2>0. n \in Nat /\ \A v \in Seq(Seq(B)) : Len(v) = n => P(v)
    OBVIOUS
  <2>1. SUFFICES ASSUME NEW u \in Seq(Seq(B)), Len(u) = n + 1
                 PROVE  P(u)
    OBVIOUS
  <2> HIDE DEF A
  <2>2. u # <<>>
    BY <2>0, <2>1
  <2>3. PICK v \in Seq(Seq(B)), x \in Seq(B) : u = Append(v, x)
    BY <2>2, SequenceEmptyOrAppend
  <2>4. P(v)
    BY <2>0, <2>1, <2>3, AppendProperties
  <2>5. Joined(s, u) = Append(Joined(s, v), x) /\ Joined(s, v) \in Seq(Seq(B))
    BY <2>3, JoinedType, JoinedAppend
  <2>6. FlattenSeq(Joined(s, u)) = Joined(Joined(FlattenSeq(s), FlattenSeq(v)), x)
    <3>1. FlattenSeq(Append(Joined(s, v), x)) = Joined(FlattenSeq(Joined(s, v)), x)
      BY <2>5, FlattenAppend
    <3> QED
      BY <2>4, <2>5, <3>1
  <2>7. FlattenSeq(u) = Joined(FlattenSeq(v), x)
    BY <2>3, FlattenAppend
  <2>8. FlattenSeq(s) \in Seq(B) /\ FlattenSeq(v) \in Seq(B)
    BY FlattenType
  <2> QED
    BY <2>6, <2>7, <2>8, JoinedAssociative
<1> HIDE DEF A
<1>3. Nat \subseteq A
  BY <1>1, <1>2, Induction
<1>4. Len(t) \in Nat
  BY LenProperties
<1> QED
  BY <1>3, <1>4 DEF A

-----------------------------------------------------------------------------
(* The messages that wait, of a sequence *)

\* What a message adds to those that wait.
Kept(p) == IF Waits(p) THEN <<p>> ELSE <<>>

\* Each value of the recursion is the one before, with a message that waits behind it.
LEMMA InOrderUnrolled ==
    ASSUME NEW S, NEW s \in Seq(S)
    PROVE  \E g : /\ g[0] = <<>>
                  /\ \A n \in 1..Len(s) : g[n] \in Seq(S) /\ g[n] = g[n - 1] \o Kept(s[n])
                  /\ InOrder(s) = g[Len(s)]
<1> DEFINE T == S \cup {s[n] : n \in Nat}
           add(q, p) == IF Waits(p) THEN Append(q, p) ELSE q
           body(f) == [n \in Nat |-> IF n = 0 THEN <<>>
                                     ELSE IF Waits(s[n]) THEN Append(f[n - 1], s[n]) ELSE f[n - 1]]
           F == CHOOSE f : f = body(f)
           step == [n \in Nat |-> [q \in Seq(T) |-> add(q, s[n + 1])]]
<1>1. \A n \in Nat : s[n] \in T
  OBVIOUS
<1> HIDE DEF T
<1>2. \A n \in Nat, q \in Seq(T) : add(q, s[n + 1]) \in Seq(T)
  BY <1>1
<1>3. step \in StepFunctions(Seq(T))
  BY <1>2 DEF StepFunctions
<1>4. PICK h : Recurs(h, Seq(T), <<>>, step)
  <2> HIDE DEF step
  <2> QED
    BY <1>3, EmptySeq, Recursion
<1>5. h \in [Nat -> Seq(T)] /\ h[0] = <<>> /\ \A n \in Nat : h[n + 1] = add(h[n], s[n + 1])
  <2>1. \A n \in Nat, q \in Seq(T) : step[n][q] = add(q, s[n + 1])
    OBVIOUS
  <2> HIDE DEF step, add
  <2> QED
    BY <1>4, <2>1 DEF Recurs
<1>6. \A n \in Nat \ {0} : h[n] = add(h[n - 1], s[n])
  <2>1. \A n \in Nat \ {0} : n - 1 \in Nat /\ (n - 1) + 1 = n
    OBVIOUS
  <2> HIDE DEF add
  <2> QED
    BY <1>5, <2>1
<1>7. h = body(h)
  <2>1. \A n \in Nat : h[n] = body(h)[n]
    BY <1>5, <1>6
  <2> QED
    BY <1>5, <2>1
<1>8. F = body(F)
  <2> HIDE DEF body
  <2> QED
    BY <1>7
<1>9. InOrder(s) = F[Len(s)]
  BY DEF InOrder
<1> HIDE DEF F
<1>10. F[0] = <<>> /\ \A n \in Nat : F[n + 1] = add(F[n], s[n + 1])
  <2>1. \A n \in Nat : F[n] = body(F)[n]
    <3> HIDE DEF body
    <3> QED
      BY <1>8
  <2>2. \A n \in Nat : F[n] = IF n = 0 THEN <<>> ELSE add(F[n - 1], s[n])
    BY <2>1
  <2>3. \A n \in Nat : n + 1 # 0 /\ (n + 1) - 1 = n /\ n + 1 \in Nat
    OBVIOUS
  <2> HIDE DEF add
  <2> QED
    BY <2>2, <2>3
<1> HIDE DEF add, body
<1> DEFINE A == {n \in Nat : F[n] = h[n]}
<1>11. 0 \in A
  BY <1>5, <1>10
<1>12. ASSUME NEW n \in A PROVE n + 1 \in A
  <2>1. n \in Nat /\ F[n] = h[n]
    OBVIOUS
  <2>2. F[n + 1] = add(F[n], s[n + 1]) /\ h[n + 1] = add(h[n], s[n + 1])
    BY <1>5, <1>10, <2>1
  <2> QED
    BY <2>1, <2>2
<1> HIDE DEF A
<1>13. Nat \subseteq A
  BY <1>11, <1>12, Induction
<1>14. Len(s) \in Nat /\ F[Len(s)] = h[Len(s)]
  BY <1>13 DEF A
<1>15. \A i \in 1..Len(s) : s[i] \in S
  BY <1>14
<1> DEFINE C == {n \in Nat : n <= Len(s) => h[n] \in Seq(S)}
<1>16. 0 \in C
  BY <1>5
<1>17. ASSUME NEW n \in C PROVE n + 1 \in C
  <2>1. SUFFICES ASSUME n + 1 <= Len(s) PROVE h[n + 1] \in Seq(S)
    OBVIOUS
  <2>2. h[n] \in Seq(S) /\ s[n + 1] \in S
    BY <1>14, <1>15, <2>1
  <2>3. h[n + 1] = add(h[n], s[n + 1])
    BY <1>5
  <2> QED
    BY <2>2, <2>3 DEF add
<1> HIDE DEF C
<1>18. Nat \subseteq C
  BY <1>16, <1>17, Induction
<1>19. ASSUME NEW n \in 1..Len(s)
       PROVE  h[n] \in Seq(S) /\ h[n] = h[n - 1] \o Kept(s[n])
  <2>1. n \in Nat /\ n - 1 \in Nat /\ n <= Len(s) /\ n - 1 <= Len(s) /\ n # 0
    BY <1>14
  <2>2. h[n] \in Seq(S) /\ h[n - 1] \in Seq(S)
    BY <1>18, <2>1 DEF C
  <2>3. s[n] \in S
    BY <1>15
  <2> QED
    BY <1>6, <2>1, <2>2, <2>3, AppendIsConcat, ConcatEmptySeq DEF add, Kept
<1> QED
  BY <1>5, <1>9, <1>14, <1>19

\* Nothing waits of nothing.
LEMMA InOrderEmpty == InOrder(<<>>) = <<>>
<1>1. <<>> \in Seq({}) /\ Len(<<>>) = 0
  OBVIOUS
<1> QED
  BY <1>1, InOrderUnrolled

\* The type of InOrder.
LEMMA InOrderType ==
    ASSUME NEW S, NEW s \in Seq(S)
    PROVE  InOrder(s) \in Seq(S)
<1>1. PICK g : /\ g[0] = <<>>
               /\ \A n \in 1..Len(s) : g[n] \in Seq(S)
               /\ InOrder(s) = g[Len(s)]
  BY InOrderUnrolled
<1>2. Len(s) = 0 \/ Len(s) \in 1..Len(s)
  OBVIOUS
<1> QED
  BY <1>1, <1>2

\* InOrder of a sequence with another message behind it.
LEMMA InOrderAppend ==
    ASSUME NEW S, NEW s \in Seq(S), NEW x \in S
    PROVE  InOrder(Append(s, x)) = Joined(InOrder(s), Kept(x))
<1> DEFINE t == Append(s, x)
<1>1. /\ t \in Seq(S) /\ Len(t) = Len(s) + 1 /\ Len(s) \in Nat
      /\ t[Len(s) + 1] = x /\ \A i \in 1..Len(s) : t[i] = s[i]
  BY AppendProperties
<1> HIDE DEF t
<1>2. PICK g : /\ g[0] = <<>>
               /\ \A n \in 1..Len(t) : g[n] = g[n - 1] \o Kept(t[n])
               /\ InOrder(t) = g[Len(t)]
  BY <1>1, InOrderUnrolled
<1>3. PICK h : /\ h[0] = <<>>
               /\ \A n \in 1..Len(s) : h[n] = h[n - 1] \o Kept(s[n])
               /\ InOrder(s) = h[Len(s)]
  BY InOrderUnrolled
<1> DEFINE A == {n \in Nat : n <= Len(s) => g[n] = h[n]}
<1>4. 0 \in A
  BY <1>2, <1>3
<1>5. ASSUME NEW n \in A PROVE n + 1 \in A
  <2>1. SUFFICES ASSUME n + 1 <= Len(s) PROVE g[n + 1] = h[n + 1]
    OBVIOUS
  <2>2. n + 1 \in 1..Len(s) /\ n + 1 \in 1..Len(t) /\ (n + 1) - 1 = n /\ g[n] = h[n]
    BY <1>1, <2>1
  <2>3. g[n + 1] = g[n] \o Kept(t[n + 1]) /\ h[n + 1] = h[n] \o Kept(s[n + 1])
    BY <1>2, <1>3, <2>2
  <2> QED
    BY <1>1, <2>2, <2>3
<1> HIDE DEF A
<1>6. Nat \subseteq A
  BY <1>4, <1>5, Induction
<1>7. g[Len(s)] = h[Len(s)]
  BY <1>1, <1>6 DEF A
<1>8. Len(t) \in 1..Len(t) /\ Len(t) - 1 = Len(s)
  BY <1>1
<1>9. g[Len(t)] = g[Len(s)] \o Kept(x)
  BY <1>1, <1>2, <1>8
<1> QED
  BY <1>2, <1>3, <1>7, <1>9 DEF t, Joined

\* The type of Kept.
LEMMA KeptType ==
    ASSUME NEW S, NEW x \in S
    PROVE  Kept(x) \in Seq(S)
BY DEF Kept

\* InOrder distributes over concatenation.
LEMMA InOrderConcat ==
    ASSUME NEW B, NEW s \in Seq(B), NEW t \in Seq(B)
    PROVE  InOrder(Joined(s, t)) = Joined(InOrder(s), InOrder(t))
<1> DEFINE P(u) == InOrder(Joined(s, u)) = Joined(InOrder(s), InOrder(u))
           A == {n \in Nat : \A u \in Seq(B) : Len(u) = n => P(u)}
<1>1. 0 \in A
  <2>1. SUFFICES ASSUME NEW u \in Seq(B), Len(u) = 0
                 PROVE  P(u)
    OBVIOUS
  <2>2. u = <<>>
    BY <2>1, EmptySeq
  <2>3. Joined(s, <<>>) = s /\ Joined(InOrder(s), <<>>) = InOrder(s)
    BY InOrderType, JoinedEmpty
  <2> QED
    BY <2>2, <2>3, InOrderEmpty
<1>2. ASSUME NEW n \in A
      PROVE  n + 1 \in A
  <2>0. n \in Nat /\ \A v \in Seq(B) : Len(v) = n => P(v)
    OBVIOUS
  <2>1. SUFFICES ASSUME NEW u \in Seq(B), Len(u) = n + 1
                 PROVE  P(u)
    OBVIOUS
  <2> HIDE DEF A
  <2>2. u # <<>>
    BY <2>0, <2>1
  <2>3. PICK v \in Seq(B), x \in B : u = Append(v, x)
    BY <2>2, SequenceEmptyOrAppend
  <2>4. P(v)
    BY <2>0, <2>1, <2>3, AppendProperties
  <2>5. Joined(s, u) = Append(Joined(s, v), x) /\ Joined(s, v) \in Seq(B)
    BY <2>3, JoinedType, JoinedAppend
  <2>6. InOrder(Joined(s, u)) = Joined(Joined(InOrder(s), InOrder(v)), Kept(x))
    <3>1. InOrder(Append(Joined(s, v), x)) = Joined(InOrder(Joined(s, v)), Kept(x))
      BY <2>5, InOrderAppend
    <3> QED
      BY <2>4, <2>5, <3>1
  <2>7. InOrder(u) = Joined(InOrder(v), Kept(x))
    BY <2>3, InOrderAppend
  <2>8. InOrder(s) \in Seq(B) /\ InOrder(v) \in Seq(B) /\ Kept(x) \in Seq(B)
    BY InOrderType, KeptType
  <2> QED
    BY <2>6, <2>7, <2>8, JoinedAssociative
<1> HIDE DEF A
<1>3. Nat \subseteq A
  BY <1>1, <1>2, Induction
<1>4. Len(t) \in Nat
  BY LenProperties
<1> QED
  BY <1>3, <1>4 DEF A

-----------------------------------------------------------------------------
(* ProcessRawPacket: the loop over what was received *)

\* Bytes of messages, and packets of one byte or more of them.
Octets == [msg : Nat, type : DOMAIN Types, at : Nat]
Pieces(B) == Seq(B) \ {<<>>}

\* A packet that is as long as it says.
IsWhole(p) ==
    \E n \in Nat, t \in DOMAIN Types :
        p = Bytes(n, t) /\ Types[t].says >= Types[t].head /\ Types[t].says = Types[t].bytes

\* Whole messages made of bytes of B.
Wholes(B) == {p \in Pieces(B) : IsWhole(p)}

\* The length that is read from a buffer is a number.
LEMMA PacketLengthType ==
    ASSUME NEW B \in SUBSET Octets, NEW p \in Pieces(B)
    PROVE  PacketLength(p) \in Int /\ Len(p) \in Nat \ {0}
<1>1. p[1] \in B /\ Len(p) \in Nat \ {0}
  BY EmptySeq DEF Pieces
<1>2. p[1].type \in DOMAIN Types
  BY <1>1 DEF Octets
<1> QED
  BY <1>1, <1>2, MessageAssumption DEF PacketLength

\* What is taken from the front of a sequence that goes on.
LEMMA Split ==
    ASSUME NEW B, NEW p \in Seq(B), NEW f \in Seq(B), NEW r \in Seq(B), NEW t \in Seq(B),
           Joined(p, f) = Joined(r, t), Len(p) <= Len(r)
    PROVE  LET after == SubSeq(r, Len(p) + 1, Len(r)) IN
           /\ SubSeq(r, 1, Len(p)) = p
           /\ after \in Seq(B) /\ f = Joined(after, t)
<1> DEFINE after == SubSeq(r, Len(p) + 1, Len(r))
           front == SubSeq(r, 1, Len(p))
<1>1. Len(p) \in Nat /\ Len(r) \in Nat
  OBVIOUS
<1>2. /\ front \in Seq(B) /\ Len(front) = Len(p) /\ \A i \in 1..Len(p) : front[i] = r[i]
  BY <1>1, SubSeqProperties
<1>3. after \in Seq(B)
  BY <1>1, SubSeqProperties
<1>4. ASSUME NEW i \in 1..Len(p) PROVE r[i] = p[i]
  <2>1. (p \o f)[i] = p[i]
    BY <1>1, ConcatProperties
  <2>2. (r \o t)[i] = r[i]
    BY <1>1, ConcatProperties
  <2> QED
    BY <2>1, <2>2 DEF Joined
<1>5. front = p
  <2> HIDE DEF front
  <2> QED
    BY <1>2, <1>4, SeqEqual
<1>6. r = front \o after
  <2>1. SubSeq(r, 1, Len(p)) \o SubSeq(r, Len(p) + 1, Len(r)) = SubSeq(r, 1, Len(r))
    <3>1. 1 \in 1..(Len(r) + 1) /\ Len(p) \in (1 - 1)..Len(r) /\ Len(r) \in Len(p)..Len(r)
      BY <1>1
    <3> QED
      BY <3>1, ConcatAdjacentSubSeq
  <2> QED
    BY <2>1, SubSeqFull
<1> HIDE DEF after, front
<1>7. Joined(p, f) = Joined(p, Joined(after, t))
  <2>1. r = Joined(p, after)
    BY <1>5, <1>6 DEF Joined
  <2>2. Joined(Joined(p, after), t) = Joined(p, Joined(after, t))
    BY <1>3, JoinedAssociative
  <2> QED
    BY <2>1, <2>2
<1>8. f = Joined(after, t)
  BY <1>3, <1>7, JoinedType, JoinedCancel
<1> QED
  BY <1>3, <1>5, <1>8 DEF after, front

\* Equal sequences begin with the same byte, wherever they are cut.
LEMMA SameFirst ==
    ASSUME NEW B, NEW p \in Pieces(B), NEW f \in Seq(B), NEW r \in Pieces(B), NEW t \in Seq(B),
           Joined(p, f) = Joined(r, t)
    PROVE  p[1] = r[1]
<1>1. Len(p) \in Nat \ {0} /\ Len(r) \in Nat \ {0} /\ p \in Seq(B) /\ r \in Seq(B)
  BY EmptySeq DEF Pieces
<1>2. (p \o f)[1] = p[1]
  BY <1>1, ConcatProperties
<1>3. (r \o t)[1] = r[1]
  BY <1>1, ConcatProperties
<1> QED
  BY <1>2, <1>3 DEF Joined

\* What is joined to nothing is nothing.
LEMMA JoinedNotEmpty ==
    ASSUME NEW B, NEW a \in Seq(B), NEW b \in Seq(B), Joined(a, b) = <<>>
    PROVE  a = <<>> /\ b = <<>>
BY ConcatSimplifications DEF Joined
-----------------------------------------------------------------------------
\* The states of the loop
ParseStates(B) == [packets : Seq(Pieces(B)), fragment : Seq(B), rest : Seq(B)]

\* A turn keeps the types, and takes at least a byte.
LEMMA ParseTurnType ==
    ASSUME NEW B \in SUBSET Octets, NEW x \in ParseStates(B)
    PROVE  /\ ParseTurn(x) \in ParseStates(B)
           /\ x.rest = <<>> => ParseTurn(x) = x
           /\ x.rest # <<>> => Len(ParseTurn(x).rest) < Len(x.rest)
<1>1. CASE x.rest = <<>>
  BY <1>1 DEF ParseTurn
<1>2. CASE x.rest # <<>>
  <2> DEFINE r == x.rest
             n == PacketLength(r)
  <2>1. r \in Pieces(B) /\ r \in Seq(B) /\ n \in Int /\ Len(r) \in Nat \ {0}
    BY <1>2, PacketLengthType DEF ParseStates, Pieces
  <2>2. CASE IsValidPacket(r)
    <3>1. n > 0 /\ n <= Len(r)
      BY <2>1, <2>2 DEF IsValidPacket
    <3> HIDE DEF n
    <3>2. SubSeq(r, 1, n) \in Seq(B) /\ Len(SubSeq(r, 1, n)) = n
      BY <2>1, <3>1, SubSeqProperties
    <3>3. SubSeq(r, n + 1, Len(r)) \in Seq(B) /\ Len(SubSeq(r, n + 1, Len(r))) < Len(r)
      BY <2>1, <3>1, SubSeqProperties
    <3>4. SubSeq(r, 1, n) \in Pieces(B)
      BY <3>1, <3>2 DEF Pieces
    <3>5. Append(x.packets, SubSeq(r, 1, n)) \in Seq(Pieces(B))
      BY <3>4, AppendProperties DEF ParseStates
    <3>6. ParseTurn(x) = [x EXCEPT !.packets = Append(x.packets, SubSeq(r, 1, n)),
                                   !.rest = SubSeq(r, n + 1, Len(r))]
      BY <1>2, <2>2 DEF ParseTurn, n
    <3> QED
      BY <1>2, <3>3, <3>5, <3>6 DEF ParseStates
  <2>3. CASE ~IsValidPacket(r) /\ n >= 0
    <3>1. ParseTurn(x) = [x EXCEPT !.fragment = r, !.rest = <<>>]
      BY <1>2, <2>3 DEF ParseTurn
    <3>2. ParseTurn(x).rest = <<>>
      BY <3>1 DEF ParseStates
    <3>3. ParseTurn(x) \in ParseStates(B)
      BY <2>1, <3>1, EmptySeq DEF ParseStates
    <3>4. Len(ParseTurn(x).rest) = 0
      BY <3>2
    <3> QED
      BY <1>2, <2>1, <3>3, <3>4
  <2>4. CASE ~IsValidPacket(r) /\ ~(n >= 0)
    <3>1. ParseTurn(x) = [x EXCEPT !.rest = Tail(r)]
      BY <1>2, <2>4 DEF ParseTurn
    <3>2. Tail(r) \in Seq(B) /\ Len(Tail(r)) < Len(r)
      BY <1>2, <2>1, HeadTailProperties
    <3> QED
      BY <1>2, <3>1, <3>2 DEF ParseStates
  <2> QED
    BY <2>2, <2>3, <2>4
<1> QED
  BY <1>1, <1>2

\* Before the first turn
ParseStart(buf) == [packets |-> <<>>, fragment |-> <<>>, rest |-> buf]

\* Parsed is the state after as many turns as there are bytes.
LEMMA ParsedUnrolled ==
    ASSUME NEW B \in SUBSET Octets, NEW buf \in Seq(B)
    PROVE  \E g \in [Nat -> ParseStates(B)] :
              /\ g[0] = ParseStart(buf) /\ \A n \in Nat : g[n + 1] = ParseTurn(g[n])
              /\ Parsed(buf) = g[Len(buf)]
<1> DEFINE body(f) == [n \in Nat |-> IF n = 0 THEN ParseStart(buf) ELSE ParseTurn(f[n - 1])]
           F == CHOOSE f : f = body(f)
           S == ParseStates(B)
           step == [n \in Nat |-> [x \in S |-> ParseTurn(x)]]
<1>1. ParseStart(buf) \in S
  BY EmptySeq DEF ParseStates, ParseStart
<1>2. \A x \in S : ParseTurn(x) \in S
  BY ParseTurnType
<1>3. Parsed(buf) = F[Len(buf)]
  BY DEF Parsed, ParseStart
<1> HIDE DEF S
<1>4. step \in StepFunctions(S)
  BY <1>2 DEF StepFunctions
<1>5. PICK h : Recurs(h, S, ParseStart(buf), step)
  <2> HIDE DEF step
  <2> QED
    BY <1>1, <1>4, Recursion
<1>6. h \in [Nat -> S] /\ h[0] = ParseStart(buf) /\ \A n \in Nat : h[n + 1] = ParseTurn(h[n])
  <2>1. \A n \in Nat, x \in S : step[n][x] = ParseTurn(x)
    OBVIOUS
  <2> HIDE DEF step
  <2> QED
    BY <1>5, <2>1 DEF Recurs
<1>7. \A n \in Nat \ {0} : h[n] = ParseTurn(h[n - 1])
  <2>1. \A n \in Nat \ {0} : n - 1 \in Nat /\ (n - 1) + 1 = n
    OBVIOUS
  <2> QED
    BY <1>6, <2>1
<1>8. h = body(h)
  <2>1. \A n \in Nat : h[n] = body(h)[n]
    BY <1>6, <1>7
  <2> QED
    BY <1>6, <2>1
<1>9. F = body(F)
  <2> HIDE DEF body
  <2> QED
    BY <1>8
<1> HIDE DEF F
<1>10. F[0] = ParseStart(buf) /\ \A n \in Nat : F[n + 1] = ParseTurn(F[n])
  <2>1. \A n \in Nat : F[n] = body(F)[n]
    <3> HIDE DEF body
    <3> QED
      BY <1>9
  <2>2. \A n \in Nat : F[n] = IF n = 0 THEN ParseStart(buf) ELSE ParseTurn(F[n - 1])
    BY <2>1
  <2>3. \A n \in Nat : n + 1 # 0 /\ (n + 1) - 1 = n /\ n + 1 \in Nat
    OBVIOUS
  <2> QED
    BY <2>2, <2>3
<1> DEFINE A == {n \in Nat : F[n] = h[n]}
<1>11. 0 \in A
  BY <1>6, <1>10
<1>12. ASSUME NEW n \in A PROVE n + 1 \in A
  <2>1. n \in Nat /\ F[n] = h[n]
    OBVIOUS
  <2>2. F[n + 1] = ParseTurn(F[n]) /\ h[n + 1] = ParseTurn(h[n])
    BY <1>6, <1>10, <2>1
  <2> QED
    BY <2>1, <2>2
<1> HIDE DEF A
<1>13. Nat \subseteq A
  BY <1>11, <1>12, Induction
<1>14. F[Len(buf)] = h[Len(buf)]
  BY <1>13 DEF A
<1> QED
  BY <1>3, <1>6, <1>14 DEF S

\* Whole messages, some of them queued, what is kept, and what is still to be looked at
ParseInv(B, P, tail, x) ==
    \E Q, R \in Seq(Wholes(B)) :
       /\ P = Joined(Q, R) /\ x.packets = Q
       /\ FlattenSeq(R) = Joined(x.fragment, Joined(x.rest, tail))
       /\ x.fragment # <<>> => x.rest = <<>> /\ R # <<>> /\ Len(x.fragment) < Len(R[1])

\* The first of several whole messages, and the bytes behind it.
LEMMA WholesFlatten ==
    ASSUME NEW B, NEW R \in Seq(Wholes(B)), R # <<>>
    PROVE  \E p \in Wholes(B), rest \in Seq(Wholes(B)) :
              /\ p = R[1] /\ R = Joined(One(p), rest)
              /\ FlattenSeq(R) = Joined(p, FlattenSeq(rest)) /\ FlattenSeq(rest) \in Seq(B)
<1> DEFINE p == R[1]
           rest == Tail(R)
           one == One(p)
<1>1. p \in Wholes(B) /\ rest \in Seq(Wholes(B)) /\ p \in Seq(B)
  <2>1. Len(R) \in Nat \ {0}
    BY EmptySeq
  <2> QED
    BY <2>1, HeadTailProperties DEF Wholes, Pieces
<1>2. Wholes(B) \subseteq Seq(B)
  BY DEF Wholes, Pieces
<1>3. one \in Seq(Wholes(B)) /\ one \in Seq(Seq(B)) /\ rest \in Seq(Seq(B))
  BY <1>1, <1>2, SeqMonotonic DEF One
<1>4. R = one \o rest
  <2>1. one \o rest \in Seq(Wholes(B)) /\ Len(one \o rest) = Len(R)
        /\ \A i \in 1..Len(R) : (one \o rest)[i] = R[i]
    BY <1>1, <1>3, HeadTailProperties, ConcatProperties DEF One
  <2> QED
    BY <2>1, SeqEqual
<1>5. FlattenSeq(one) = p
  BY <1>1, FlattenOne
<1> HIDE DEF one, rest, p
<1>6. FlattenSeq(Joined(one, rest)) = Joined(FlattenSeq(one), FlattenSeq(rest))
  BY <1>3, FlattenConcat
<1>7. FlattenSeq(rest) \in Seq(B)
  BY <1>3, FlattenType
<1> QED
  BY <1>1, <1>4, <1>5, <1>6, <1>7 DEF Joined, one, rest, p

\* The length that a whole message begins with, if there is enough of it.
LEMMA WholeLength ==
    ASSUME NEW B \in SUBSET Octets, NEW p \in Wholes(B), NEW r \in Pieces(B), r[1] = p[1]
    PROVE  /\ Len(r) >= Len(p) => IsValidPacket(r) /\ PacketLength(r) = Len(p)
           /\ Len(r) < Len(p) => ~IsValidPacket(r) /\ PacketLength(r) >= 0
<1>1. PICK m \in Nat, t \in DOMAIN Types :
         p = Bytes(m, t) /\ Types[t].says >= Types[t].head /\ Types[t].says = Types[t].bytes
  BY DEF Wholes, IsWhole
<1>2. Types[t].head \in 1..3 /\ Types[t].says \in Nat /\ Types[t].bytes \in Nat \ {0}
  BY MessageAssumption
<1>3. Len(p) = Types[t].says /\ p[1] = Byte(m, t, 1)
  BY <1>1, <1>2 DEF Bytes
<1>4. r[1].type = t /\ r[1].at = 1
  BY <1>3 DEF Byte
<1>5. Len(r) \in Nat
  BY DEF Pieces
<1>6. PacketLength(r) = IF Len(r) < Types[t].head THEN 0 ELSE Types[t].says
  BY <1>1, <1>2, <1>4, <1>5 DEF PacketLength
<1> QED
  BY <1>1, <1>2, <1>3, <1>5, <1>6 DEF IsValidPacket

\* A turn over whole messages queues the first one or keeps the part that is there of it.
LEMMA ParseTurnWhole ==
    ASSUME NEW B \in SUBSET Octets, NEW P \in Seq(Wholes(B)), NEW tail \in Seq(B),
           NEW x \in ParseStates(B), ParseInv(B, P, tail, x)
    PROVE  ParseInv(B, P, tail, ParseTurn(x))
<1>1. CASE x.rest = <<>>
  BY <1>1, ParseTurnType
<1>2. CASE x.rest # <<>>
  <2>1. PICK Q \in Seq(Wholes(B)), R \in Seq(Wholes(B)) :
           /\ P = Joined(Q, R) /\ x.packets = Q
           /\ FlattenSeq(R) = Joined(x.fragment, Joined(x.rest, tail))
           /\ x.fragment = <<>>
    BY <1>2 DEF ParseInv
  <2> DEFINE r == x.rest
  <2>2. r \in Pieces(B) /\ r \in Seq(B) /\ Len(r) \in Nat \ {0}
    BY <1>2, EmptySeq DEF ParseStates, Pieces
  <2>3. FlattenSeq(R) = Joined(r, tail) /\ Joined(r, tail) \in Seq(B)
    <3>1. Joined(r, tail) \in Seq(B)
      BY <2>2, JoinedType
    <3> HIDE DEF r
    <3>2. Joined(<<>>, Joined(r, tail)) = Joined(r, tail)
      BY <3>1, JoinedEmpty
    <3> QED
      BY <2>1, <3>1, <3>2 DEF r
  <2>4. R # <<>>
    <3> SUFFICES ASSUME R = <<>> PROVE FALSE
      OBVIOUS
    <3>1. Joined(r, tail) = <<>>
      BY <2>3, FlattenEmpty
    <3> QED
      BY <1>2, <2>2, <3>1, JoinedNotEmpty
  <2>5. PICK p \in Wholes(B), after \in Seq(Wholes(B)) :
              /\ p = R[1] /\ R = Joined(One(p), after)
              /\ FlattenSeq(R) = Joined(p, FlattenSeq(after)) /\ FlattenSeq(after) \in Seq(B)
    BY <2>4, WholesFlatten
  <2>6. p \in Pieces(B) /\ p \in Seq(B) /\ Len(p) \in Nat
    BY DEF Wholes, Pieces
  <2>7. r[1] = p[1]
    <3> DEFINE f == FlattenSeq(after)
    <3>1. Joined(p, f) = Joined(r, tail) /\ f \in Seq(B)
      BY <2>3, <2>5
    <3> HIDE DEF r, f
    <3> QED
      BY <2>2, <2>6, <3>1, SameFirst
  <2>8. CASE Len(r) >= Len(p)
    <3> DEFINE left == SubSeq(r, Len(p) + 1, Len(r))
    <3>1. IsValidPacket(r) /\ PacketLength(r) = Len(p)
      <4> HIDE DEF r
      <4> QED
        BY <2>2, <2>7, <2>8, WholeLength
    <3>2. SubSeq(r, 1, Len(p)) = p /\ left \in Seq(B) /\ FlattenSeq(after) = Joined(left, tail)
      <4> DEFINE f == FlattenSeq(after)
      <4>1. Joined(p, f) = Joined(r, tail) /\ f \in Seq(B) /\ Len(p) <= Len(r)
        BY <2>2, <2>3, <2>5, <2>6, <2>8
      <4> HIDE DEF r, f
      <4>2. SubSeq(r, 1, Len(p)) = p /\ left \in Seq(B) /\ f = Joined(left, tail)
        BY <2>2, <2>6, <4>1, Split
      <4> QED
        BY <4>2 DEF f
    <3> HIDE DEF left
    <3>3. ParseTurn(x) = [x EXCEPT !.packets = Append(Q, p), !.rest = left]
      BY <1>2, <2>1, <3>1, <3>2 DEF ParseTurn, left
    <3>4. Append(Q, p) \in Seq(Wholes(B)) /\ P = Joined(Append(Q, p), after)
      <4> DEFINE one == One(p)
      <4>1. one \in Seq(Wholes(B)) /\ Append(Q, p) = Joined(Q, one)
        BY AppendIsJoined
      <4>2. P = Joined(Q, Joined(one, after))
        BY <2>1, <2>5
      <4>3. Append(Q, p) \in Seq(Wholes(B))
        BY AppendProperties
      <4> HIDE DEF one
      <4>4. Joined(Q, Joined(one, after)) = Joined(Joined(Q, one), after)
        BY <4>1, JoinedAssociative
      <4> QED
        BY <4>1, <4>2, <4>3, <4>4
    <3>5. FlattenSeq(after) = Joined(<<>>, Joined(left, tail))
      BY <2>5, <3>2, JoinedEmpty
    <3>6. ParseTurn(x).packets = Append(Q, p) /\ ParseTurn(x).rest = left /\ ParseTurn(x).fragment = <<>>
      BY <2>1, <3>3 DEF ParseStates
    <3> QED
      BY <3>4, <3>5, <3>6 DEF ParseInv
  <2>9. CASE ~(Len(r) >= Len(p))
    <3>1. ~IsValidPacket(r) /\ PacketLength(r) >= 0
      <4> HIDE DEF r
      <4> QED
        <5>1. Len(r) \in Nat /\ Len(p) \in Nat /\ r \in Pieces(B)
          BY <2>2, <2>6 DEF Pieces, Wholes
        <5>2. Len(r) < Len(p)
          BY <2>9, <5>1
        <5> QED
          BY <2>7, <5>1, <5>2, WholeLength
    <3>2. ParseTurn(x) = [x EXCEPT !.fragment = r, !.rest = <<>>]
      BY <1>2, <3>1 DEF ParseTurn
    <3>3. ParseTurn(x).packets = Q /\ ParseTurn(x).rest = <<>> /\ ParseTurn(x).fragment = r
      BY <2>1, <3>2 DEF ParseStates
    <3>4. FlattenSeq(R) = Joined(r, Joined(<<>>, tail))
      BY <2>3, JoinedEmpty
    <3>5. Len(r) < Len(R[1])
      BY <2>2, <2>5, <2>6, <2>9
    <3> QED
      BY <2>1, <2>4, <3>3, <3>4, <3>5 DEF ParseInv
  <2> QED
    BY <2>8, <2>9
<1> QED
  BY <1>1, <1>2

\* The loop ends in so many turns as there are bytes.
LEMMA ParsedAll ==
    ASSUME NEW B \in SUBSET Octets, NEW buf \in Seq(B)
    PROVE  Parsed(buf).rest = <<>> /\ Parsed(buf) \in ParseStates(B)
<1>1. PICK g \in [Nat -> ParseStates(B)] :
              /\ g[0] = ParseStart(buf) /\ \A n \in Nat : g[n + 1] = ParseTurn(g[n])
              /\ Parsed(buf) = g[Len(buf)]
  BY ParsedUnrolled
<1> DEFINE A == {n \in Nat : g[n].rest = <<>> \/ Len(g[n].rest) + n <= Len(buf)}
<1>2. \A n \in Nat : g[n].rest \in Seq(B) /\ Len(g[n].rest) \in Nat
  BY <1>1 DEF ParseStates
<1>3. 0 \in A
  BY <1>1 DEF ParseStart
<1>4. ASSUME NEW n \in A PROVE n + 1 \in A
  <2>1. n \in Nat /\ g[n] \in ParseStates(B) /\ g[n + 1] = ParseTurn(g[n]) /\ n + 1 \in Nat
    BY <1>1
  <2>2. CASE g[n].rest = <<>>
    BY <2>1, <2>2, ParseTurnType
  <2>3. CASE g[n].rest # <<>>
    <3>1. Len(g[n].rest) + n <= Len(buf)
      BY <2>3
    <3>2. Len(g[n + 1].rest) < Len(g[n].rest)
      BY <2>1, <2>3, ParseTurnType
    <3> QED
      BY <1>2, <2>1, <3>1, <3>2
  <2> QED
    BY <2>2, <2>3
<1> HIDE DEF A
<1>5. Nat \subseteq A
  BY <1>3, <1>4, Induction
<1>6. Len(buf) \in Nat
  OBVIOUS
<1>7. g[Len(buf)].rest = <<>>
  <2>1. g[Len(buf)].rest = <<>> \/ Len(g[Len(buf)].rest) + Len(buf) <= Len(buf)
    BY <1>5, <1>6 DEF A
  <2>2. g[Len(buf)].rest \in Seq(B) /\ Len(g[Len(buf)].rest) \in Nat
    BY <1>2, <1>6
  <2> QED
    BY <1>6, <2>1, <2>2, EmptySeq
<1> QED
  BY <1>1, <1>6, <1>7

\* What Parsed returns of the bytes of whole messages that may go on: messages as they were, and
\* less than one more.
LEMMA ParsedWhole ==
    ASSUME NEW B \in SUBSET Octets, NEW P \in Seq(Wholes(B)), NEW buf \in Seq(B),
           NEW tail \in Seq(B), FlattenSeq(P) = Joined(buf, tail)
    PROVE  ParseInv(B, P, tail, Parsed(buf)) /\ Parsed(buf).rest = <<>>
           /\ Parsed(buf) \in ParseStates(B)
<1>1. PICK g \in [Nat -> ParseStates(B)] :
              /\ g[0] = ParseStart(buf) /\ \A n \in Nat : g[n + 1] = ParseTurn(g[n])
              /\ Parsed(buf) = g[Len(buf)]
  BY ParsedUnrolled
<1> DEFINE A == {n \in Nat : ParseInv(B, P, tail, g[n])}
<1>2. 0 \in A
  <2>1. <<>> \in Seq(Wholes(B)) /\ P = Joined(<<>>, P)
    BY EmptySeq, JoinedEmpty
  <2>2. FlattenSeq(P) = Joined(<<>>, Joined(buf, tail))
    BY JoinedType, JoinedEmpty
  <2>3. ParseInv(B, P, tail, ParseStart(buf))
    BY <2>1, <2>2 DEF ParseInv, ParseStart
  <2> QED
    BY <1>1, <2>3
<1>3. ASSUME NEW n \in A PROVE n + 1 \in A
  <2>1. n \in Nat /\ ParseInv(B, P, tail, g[n]) /\ g[n] \in ParseStates(B) /\ g[n + 1] = ParseTurn(g[n])
    BY <1>1
  <2>2. ParseInv(B, P, tail, ParseTurn(g[n]))
    BY <2>1, ParseTurnWhole
  <2> QED
    BY <2>1, <2>2
<1> HIDE DEF A
<1>4. Nat \subseteq A
  BY <1>2, <1>3, Induction
<1>5. Len(buf) \in Nat
  OBVIOUS
<1>6. Parsed(buf).rest = <<>>
  BY ParsedAll
<1> QED
  BY <1>1, <1>4, <1>5, <1>6 DEF A

-----------------------------------------------------------------------------
(* Flush: the loop over what is to be sent *)

\* Chunks, and the states of the loop between turns.
Chunks(B) == {c \in Pieces(B) : Len(c) <= MaxChunkSize}

FillStates(B) ==
    [outgoingData : Seq(Pieces(B)), chunks : Seq(Chunks(B)),
     buffer : {b \in Seq(B) : Len(b) < MaxChunkSize}, partialPacket : BOOLEAN,
     sendMore : BOOLEAN, forced : BOOLEAN, bandwidth : Int]

\* A sequence that is not empty is its head and its tail.
LEMMA HeadAndTail ==
    ASSUME NEW S, NEW s \in Seq(S), s # <<>>
    PROVE  /\ Head(s) \in S /\ Tail(s) \in Seq(S) /\ One(Head(s)) \in Seq(S)
           /\ s = Joined(One(Head(s)), Tail(s))
<1> DEFINE one == <<Head(s)>>
<1>1. Head(s) \in S /\ Tail(s) \in Seq(S) /\ Len(Tail(s)) = Len(s) - 1 /\ one \in Seq(S)
      /\ \A i \in 1..Len(Tail(s)) : Tail(s)[i] = s[i + 1]
  BY HeadTailProperties
<1>2. Len(s) \in Nat \ {0} /\ Head(s) = s[1]
  BY EmptySeq
<1>3. one \o Tail(s) \in Seq(S) /\ Len(one \o Tail(s)) = Len(s)
      /\ \A i \in 1..Len(s) : (one \o Tail(s))[i] = s[i]
  BY <1>1, <1>2, ConcatProperties
<1>4. one \o Tail(s) = s
  <2> HIDE DEF one
  <2> QED
    BY <1>3, SeqEqual
<1> QED
  BY <1>1, <1>4 DEF Joined, One

\* The cut of a packet
LEMMA Cut ==
    ASSUME NEW B, NEW p \in Seq(B), NEW n \in 1..(Len(p) - 1)
    PROVE  /\ SubSeq(p, 1, n) \in Pieces(B) /\ SubSeq(p, n + 1, Len(p)) \in Pieces(B)
           /\ Len(SubSeq(p, 1, n)) = n /\ Len(SubSeq(p, n + 1, Len(p))) = Len(p) - n
           /\ p = Joined(SubSeq(p, 1, n), SubSeq(p, n + 1, Len(p)))
<1>1. Len(p) \in Nat /\ n \in Nat \ {0} /\ n < Len(p)
  OBVIOUS
<1>2. SubSeq(p, 1, n) \in Seq(B) /\ Len(SubSeq(p, 1, n)) = n
  BY <1>1, SubSeqProperties
<1>3. SubSeq(p, n + 1, Len(p)) \in Seq(B) /\ Len(SubSeq(p, n + 1, Len(p))) = Len(p) - n
  BY <1>1, SubSeqProperties
<1>4. SubSeq(p, 1, n) \o SubSeq(p, n + 1, Len(p)) = SubSeq(p, 1, Len(p))
  <2>1. 1 \in 1..(Len(p) + 1) /\ n \in (1 - 1)..Len(p) /\ Len(p) \in n..Len(p)
    BY <1>1
  <2> QED
    BY <2>1, ConcatAdjacentSubSeq
<1>5. SubSeq(p, 1, Len(p)) = p
  BY SubSeqFull
<1>6. SubSeq(p, 1, n) # <<>> /\ SubSeq(p, n + 1, Len(p)) # <<>>
  <2> DEFINE a == SubSeq(p, 1, n)
             b == SubSeq(p, n + 1, Len(p))
  <2>1. Len(a) = n /\ Len(b) = Len(p) - n
    BY <1>2, <1>3
  <2> HIDE DEF a, b
  <2>2. a # <<>> /\ b # <<>>
    BY <1>1, <2>1
  <2> QED
    BY <2>2 DEF a, b
<1> QED
  BY <1>2, <1>3, <1>4, <1>5, <1>6 DEF Joined, Pieces

\* What becomes of the packet p in front, when it is dropped, fits or is cut.
Drops(B, x, y, p, rest) ==
    ~x.partialPacket /\ ~IsValidPacket(p) /\ y = [x EXCEPT !.outgoingData = rest]
Fits(B, x, y, p, rest) ==
    /\ x.partialPacket \/ IsValidPacket(p)
    /\ Len(x.buffer) + Len(p) <= MaxChunkSize
    /\ \E bw \in Int : y = [x EXCEPT !.buffer = Joined(x.buffer, p), !.bandwidth = bw,
                                     !.partialPacket = FALSE, !.outgoingData = rest]
Cuts(B, x, y, p, rest) ==
    /\ x.partialPacket \/ IsValidPacket(p)
    /\ \E bw \in Int, a \in Pieces(B), b \in Pieces(B) :
          /\ p = Joined(a, b) /\ Len(x.buffer) + Len(a) = MaxChunkSize
          /\ y = [x EXCEPT !.buffer = Joined(x.buffer, a), !.bandwidth = bw,
                           !.partialPacket = TRUE, !.outgoingData = Joined(One(b), rest)]

\* Moved drops the packet in front, takes it, or takes a part of it.
LEMMA MovedCases ==
    ASSUME NEW B \in SUBSET Octets, NEW x \in FillStates(B), x.outgoingData # <<>>
    PROVE  \E p \in Pieces(B), rest \in Seq(Pieces(B)) :
              /\ x.outgoingData = Joined(One(p), rest)
              /\ \/ Drops(B, x, Moved(x), p, rest)
                 \/ Fits(B, x, Moved(x), p, rest)
                 \/ Cuts(B, x, Moved(x), p, rest)
<1> DEFINE p == Head(x.outgoingData)
           rest == Tail(x.outgoingData)
           room == MaxChunkSize - Len(x.buffer)
           n == IF Len(p) < room THEN Len(p) ELSE room
           bw == x.bandwidth - n
<1>0. x.outgoingData \in Seq(Pieces(B))
  BY DEF FillStates
<1>1. /\ p \in Pieces(B) /\ rest \in Seq(Pieces(B))
      /\ x.outgoingData = Joined(One(p), rest)
  BY <1>0, HeadAndTail
<1>2. /\ x.buffer \in Seq(B) /\ Len(x.buffer) \in Nat /\ Len(x.buffer) < MaxChunkSize
      /\ MaxChunkSize \in Nat /\ x.bandwidth \in Int
  BY MessageAssumption DEF FillStates
<1>3. p \in Seq(B) /\ Len(p) \in Nat \ {0}
  BY <1>1, EmptySeq DEF Pieces
<1>4. n \in 1..Len(p) /\ bw \in Int /\ (n # Len(p) => n = room)
  <2>1. room \in Nat \ {0}
    BY <1>2
  <2> HIDE DEF room, p
  <2>2. n \in 1..Len(p) /\ (n # Len(p) => n = room)
    BY <1>3, <2>1
  <2> HIDE DEF n
  <2> QED
    BY <1>2, <1>3, <2>2
<1>5. CASE ~x.partialPacket /\ ~IsValidPacket(p)
  <2>1. Moved(x) = [x EXCEPT !.outgoingData = rest]
    BY <1>5 DEF Moved
  <2>2. Drops(B, x, Moved(x), p, rest)
    BY <1>5, <2>1 DEF Drops
  <2> HIDE DEF p, rest
  <2> QED
    BY <1>1, <2>2
<1>6. CASE x.partialPacket \/ IsValidPacket(p)
  <2>1. Moved(x) = [x EXCEPT !.buffer = x.buffer \o SubSeq(p, 1, n), !.bandwidth = bw,
                             !.partialPacket = (n # Len(p)),
                             !.outgoingData = IF n = Len(p) THEN rest
                                              ELSE <<SubSeq(p, n + 1, Len(p))>> \o rest]
    BY <1>6 DEF Moved
  <2> HIDE DEF rest, p
  <2>2. CASE n = Len(p)
    <3>1. SubSeq(p, 1, n) = p
      BY <1>3, <2>2, SubSeqFull
    <3> HIDE DEF n
    <3>2. Moved(x) = [x EXCEPT !.buffer = Joined(x.buffer, p), !.bandwidth = bw,
                               !.partialPacket = FALSE, !.outgoingData = rest]
      BY <2>1, <2>2, <3>1 DEF Joined
    <3>3. Len(x.buffer) + Len(p) <= MaxChunkSize
      BY <1>2, <1>3, <2>2 DEF n
    <3>4. Fits(B, x, Moved(x), p, rest)
      BY <1>4, <1>6, <3>2, <3>3 DEF Fits
    <3> QED
      BY <1>1, <3>4
  <2>3. CASE n # Len(p)
    <3> DEFINE a == SubSeq(p, 1, n)
               b == SubSeq(p, n + 1, Len(p))
    <3>1. n \in 1..(Len(p) - 1) /\ n = MaxChunkSize - Len(x.buffer)
      BY <1>3, <1>4, <2>3
    <3> HIDE DEF n
    <3>2. a \in Pieces(B) /\ b \in Pieces(B) /\ Len(a) = n /\ p = Joined(a, b)
      BY <1>3, <3>1, Cut
    <3>3. Moved(x) = [x EXCEPT !.buffer = Joined(x.buffer, a), !.bandwidth = bw,
                               !.partialPacket = TRUE, !.outgoingData = Joined(One(b), rest)]
      BY <2>1, <2>3 DEF Joined, One
    <3> HIDE DEF a, b
    <3>4. Len(x.buffer) + Len(a) = MaxChunkSize
      BY <1>2, <3>1, <3>2
    <3>5. Cuts(B, x, Moved(x), p, rest)
      BY <1>4, <1>6, <3>2, <3>3, <3>4 DEF Cuts
    <3> QED
      BY <1>1, <3>5
  <2> QED
    BY <2>2, <2>3
<1> QED
  BY <1>5, <1>6

\* Between the two halves of a turn the buffer may be full.
MidStates(B) ==
    [outgoingData : Seq(Pieces(B)), chunks : Seq(Chunks(B)),
     buffer : {b \in Seq(B) : Len(b) <= MaxChunkSize}, partialPacket : BOOLEAN,
     sendMore : BOOLEAN, forced : BOOLEAN, bandwidth : Int]

\* The bytes that are still to be sent
Left(x) == FlattenSeq(x.outgoingData)

\* The bytes of the packet in front are those in front.
LEMMA PiecesFlatten ==
    ASSUME NEW B, NEW p \in Pieces(B), NEW rest \in Seq(Pieces(B))
    PROVE  /\ FlattenSeq(rest) \in Seq(B) /\ Joined(One(p), rest) \in Seq(Pieces(B))
           /\ FlattenSeq(Joined(One(p), rest)) = Joined(p, FlattenSeq(rest))
           /\ Len(FlattenSeq(Joined(One(p), rest))) = Len(p) + Len(FlattenSeq(rest))
           /\ Len(p) \in Nat \ {0} /\ Len(FlattenSeq(rest)) \in Nat
<1>1. Pieces(B) \subseteq Seq(B) /\ p \in Seq(B) /\ Len(p) \in Nat \ {0}
  BY EmptySeq DEF Pieces
<1>2. rest \in Seq(Seq(B))
  BY <1>1, SeqMonotonic
<1>3. One(p) \in Seq(Pieces(B)) /\ One(p) \in Seq(Seq(B))
  BY <1>1 DEF One
<1>4. FlattenSeq(One(p)) = p
  BY <1>1, FlattenOne
<1>5. FlattenSeq(rest) \in Seq(B)
  BY <1>2, FlattenType
<1>6. FlattenSeq(Joined(One(p), rest)) = Joined(p, FlattenSeq(rest))
  BY <1>2, <1>3, <1>4, FlattenConcat
<1>7. Joined(One(p), rest) \in Seq(Pieces(B))
  BY <1>3, JoinedType
<1>8. Len(Joined(p, FlattenSeq(rest))) = Len(p) + Len(FlattenSeq(rest))
  BY <1>1, <1>5, JoinedType
<1>9. Len(FlattenSeq(rest)) \in Nat
  BY <1>5
<1> QED
  BY <1>1, <1>5, <1>6, <1>7, <1>8, <1>9

\* Moved keeps the types, and takes at least a byte from what is to be sent.
LEMMA MovedType ==
    ASSUME NEW B \in SUBSET Octets, NEW x \in FillStates(B), x.outgoingData # <<>>
    PROVE  /\ Moved(x) \in MidStates(B) /\ Moved(x).chunks = x.chunks
           /\ Len(Left(Moved(x))) < Len(Left(x))
           /\ Moved(x).partialPacket => Moved(x).outgoingData # <<>>
           /\ Moved(x).sendMore = x.sendMore /\ Moved(x).forced = x.forced
<1>1. PICK p \in Pieces(B), rest \in Seq(Pieces(B)) :
              /\ x.outgoingData = Joined(One(p), rest)
              /\ \/ Drops(B, x, Moved(x), p, rest)
                 \/ Fits(B, x, Moved(x), p, rest)
                 \/ Cuts(B, x, Moved(x), p, rest)
  BY MovedCases
<1>2. /\ x.buffer \in Seq(B) /\ Len(x.buffer) \in Nat /\ Len(x.buffer) < MaxChunkSize
      /\ MaxChunkSize \in Nat
  BY MessageAssumption DEF FillStates
<1>3. /\ Left(x) = FlattenSeq(Joined(One(p), rest)) /\ Len(Left(x)) = Len(p) + Len(FlattenSeq(rest))
      /\ Len(p) \in Nat \ {0} /\ Len(FlattenSeq(rest)) \in Nat
  BY <1>1, PiecesFlatten DEF Left
<1>4. CASE Drops(B, x, Moved(x), p, rest)
  <2>1. Moved(x) = [x EXCEPT !.outgoingData = rest] /\ ~x.partialPacket
    BY <1>4 DEF Drops
  <2>2. Moved(x) \in MidStates(B)
    <3>1. x \in MidStates(B)
      BY <1>2 DEF FillStates, MidStates
    <3> QED
      BY <2>1, <3>1 DEF MidStates
  <2>3. /\ Moved(x).outgoingData = rest /\ Moved(x).chunks = x.chunks
        /\ Moved(x).partialPacket = x.partialPacket
        /\ Moved(x).sendMore = x.sendMore /\ Moved(x).forced = x.forced
    BY <2>1 DEF FillStates
  <2> QED
    BY <1>3, <2>1, <2>2, <2>3 DEF Left
<1>5. CASE Fits(B, x, Moved(x), p, rest)
  <2>1. PICK bw \in Int : Moved(x) = [x EXCEPT !.buffer = Joined(x.buffer, p), !.bandwidth = bw,
                                     !.partialPacket = FALSE, !.outgoingData = rest]
    BY <1>5 DEF Fits
  <2>2. Joined(x.buffer, p) \in Seq(B) /\ Len(Joined(x.buffer, p)) <= MaxChunkSize
    <3>1. p \in Seq(B)
      BY DEF Pieces
    <3>2. Len(x.buffer) + Len(p) <= MaxChunkSize
      BY <1>5 DEF Fits
    <3> QED
      BY <1>2, <3>1, <3>2, JoinedType
  <2>3. Moved(x) \in MidStates(B)
    BY <2>1, <2>2 DEF FillStates, MidStates
  <2>4. /\ Moved(x).outgoingData = rest /\ Moved(x).chunks = x.chunks
        /\ Moved(x).partialPacket = FALSE
        /\ Moved(x).sendMore = x.sendMore /\ Moved(x).forced = x.forced
    BY <2>1 DEF FillStates
  <2> QED
    BY <1>3, <2>3, <2>4 DEF Left
<1>6. CASE Cuts(B, x, Moved(x), p, rest)
  <2>1. PICK bw \in Int, a \in Pieces(B), b \in Pieces(B) :
          /\ p = Joined(a, b) /\ Len(x.buffer) + Len(a) = MaxChunkSize
          /\ Moved(x) = [x EXCEPT !.buffer = Joined(x.buffer, a), !.bandwidth = bw,
                           !.partialPacket = TRUE, !.outgoingData = Joined(One(b), rest)]
    BY <1>6 DEF Cuts
  <2>2. a \in Seq(B) /\ b \in Seq(B) /\ Len(a) \in Nat \ {0}
    BY EmptySeq DEF Pieces
  <2>3. Joined(x.buffer, a) \in Seq(B) /\ Len(Joined(x.buffer, a)) <= MaxChunkSize
    <3>1. Joined(x.buffer, a) \in Seq(B) /\ Len(Joined(x.buffer, a)) = Len(x.buffer) + Len(a)
      BY <1>2, <2>2, JoinedType
    <3> QED
      BY <1>2, <2>1, <3>1
  <2>4. /\ Joined(One(b), rest) \in Seq(Pieces(B))
        /\ Len(FlattenSeq(Joined(One(b), rest))) = Len(b) + Len(FlattenSeq(rest)) /\ Len(b) \in Nat
    BY PiecesFlatten
  <2>5. Moved(x) \in MidStates(B)
    BY <2>1, <2>3, <2>4 DEF FillStates, MidStates
  <2>6. /\ Moved(x).outgoingData = Joined(One(b), rest) /\ Moved(x).chunks = x.chunks
        /\ Moved(x).sendMore = x.sendMore /\ Moved(x).forced = x.forced
    BY <2>1 DEF FillStates
  <2>7. Len(p) = Len(a) + Len(b)
    BY <2>1, <2>2, JoinedType
  <2>8. Joined(One(b), rest) # <<>>
    <3>1. FlattenSeq(Joined(One(b), rest)) # <<>>
      <4>1. Len(FlattenSeq(Joined(One(b), rest))) # 0
        BY <1>3, <2>4, PiecesFlatten
      <4> QED
        BY <4>1
    <3> QED
      BY <3>1, FlattenEmpty
  <2> QED
    BY <1>3, <2>2, <2>4, <2>5, <2>6, <2>7, <2>8 DEF Left
<1> QED
  BY <1>1, <1>4, <1>5, <1>6

\* The second half of a turn
Close(y, more) ==
    IF ChunkReady(y, more)
    THEN [y EXCEPT !.chunks = Append(@, y.buffer), !.buffer = <<>>]
    ELSE y

\* The first half of a turn
Turned(x, more) == [IF more THEN Moved(x) ELSE x EXCEPT !.sendMore = more]

\* A turn moves a packet, and then perhaps closes the chunk.
LEMMA FlushTurnHalves ==
    ASSUME NEW x
    PROVE  FlushTurn(x) = IF Ended(x) THEN x ELSE Close(Turned(x, SendMore(x)), SendMore(x))
BY DEF FlushTurn, Close, Turned

\* The bytes that were made chunks or are about to be, behind F
Gone(F, x) == Joined(F, Joined(FlattenSeq(x.chunks), x.buffer))

\* The bytes of chunks.
LEMMA ChunksFlatten ==
    ASSUME NEW B, NEW c \in Seq(Chunks(B))
    PROVE  c \in Seq(Seq(B)) /\ FlattenSeq(c) \in Seq(B)
<1>1. Chunks(B) \subseteq Seq(B)
  BY DEF Chunks, Pieces
<1>2. c \in Seq(Seq(B))
  BY <1>1, SeqMonotonic
<1> QED
  BY <1>2, FlattenType

\* Closing a chunk keeps the types and the bytes.
LEMMA CloseType ==
    ASSUME NEW B, NEW y \in MidStates(B), NEW more \in BOOLEAN
    PROVE  LET z == Close(y, more) IN
           /\ z \in FillStates(B)
           /\ z.outgoingData = y.outgoingData /\ z.partialPacket = y.partialPacket
           /\ z.sendMore = y.sendMore /\ z.forced = y.forced
           /\ \A F \in Seq(B) : Gone(F, z) = Gone(F, y)
           /\ (y.outgoingData = <<>> \/ ~more) => z.buffer = <<>>
<1> DEFINE z == Close(y, more)
<1>0. /\ y.buffer \in Seq(B) /\ Len(y.buffer) \in Nat /\ Len(y.buffer) <= MaxChunkSize
      /\ MaxChunkSize \in Nat \ {0} /\ y.chunks \in Seq(Chunks(B))
  BY MessageAssumption DEF MidStates
<1>1. CASE ChunkReady(y, more)
  <2> DEFINE c == Append(y.chunks, y.buffer)
  <2>1. y.buffer \in Chunks(B) /\ y.buffer # <<>>
    BY <1>0, <1>1 DEF ChunkReady, Chunks, Pieces
  <2>2. c \in Seq(Chunks(B))
    BY <1>0, <2>1, AppendProperties
  <2>3. z = [y EXCEPT !.chunks = c, !.buffer = <<>>]
    BY <1>1 DEF Close
  <2>4. <<>> \in Seq(B) /\ Len(<<>>) < MaxChunkSize
    BY <1>0, EmptySeq
  <2>5. FlattenSeq(c) = Joined(FlattenSeq(y.chunks), y.buffer) /\ FlattenSeq(y.chunks) \in Seq(B)
    <3>1. y.chunks \in Seq(Seq(B)) /\ FlattenSeq(y.chunks) \in Seq(B)
      BY <1>0, ChunksFlatten
    <3> QED
      BY <1>0, <3>1, FlattenAppend
  <2> HIDE DEF c, z
  <2>6. z \in FillStates(B)
    BY <2>2, <2>3, <2>4 DEF MidStates, FillStates
  <2>7. /\ z.outgoingData = y.outgoingData /\ z.partialPacket = y.partialPacket
        /\ z.sendMore = y.sendMore /\ z.forced = y.forced
        /\ z.chunks = c /\ z.buffer = <<>>
    BY <2>3 DEF MidStates
  <2>8. ASSUME NEW F \in Seq(B)
        PROVE  Gone(F, z) = Gone(F, y)
    <3>1. Joined(FlattenSeq(y.chunks), y.buffer) \in Seq(B)
      BY <1>0, <2>5, JoinedType
    <3>2. Joined(FlattenSeq(c), <<>>) = Joined(FlattenSeq(y.chunks), y.buffer)
      BY <2>5, <3>1, JoinedEmpty
    <3> QED
      BY <2>7, <3>2 DEF Gone
  <2> QED
    BY <2>6, <2>7, <2>8 DEF z
<1>2. CASE ~ChunkReady(y, more)
  <2>1. z = y
    BY <1>2 DEF Close
  <2>2. y.buffer = <<>> \/ Len(y.buffer) # MaxChunkSize
    BY <1>2 DEF ChunkReady
  <2>3. Len(y.buffer) < MaxChunkSize
    BY <1>0, <2>2
  <2>4. y \in FillStates(B)
    BY <2>3 DEF MidStates, FillStates
  <2>5. (y.outgoingData = <<>> \/ ~more) => y.buffer = <<>>
    BY <1>2 DEF ChunkReady
  <2> HIDE DEF z
  <2> QED
    BY <2>1, <2>4, <2>5 DEF z
<1> QED
  BY <1>1, <1>2

-----------------------------------------------------------------------------
(* Flush loses nothing and leaves no message begun *)

\* A packet is invalid, or as long as it says.
Honest(B) == {p \in Pieces(B) : IsValidPacket(p) => IsWhole(p)}

\* Between packets: V has been taken, and what waits of V and of the rest is Z.
Between(B, F, Z, x) ==
    \E V \in Seq(Wholes(B)) :
       /\ x.outgoingData \in Seq(Honest(B))
       /\ Gone(F, x) = FlattenSeq(V)
       /\ Joined(InOrder(V), InOrder(x.outgoingData)) = Z

\* Within one: what is left of it is in front.
Within(B, F, Z, x) ==
    \E V \in Seq(Wholes(B)), b \in Pieces(B), D \in Seq(Honest(B)) :
       /\ x.outgoingData = Joined(One(b), D)
       /\ Joined(Gone(F, x), b) = FlattenSeq(V)
       /\ Joined(InOrder(V), InOrder(D)) = Z

\* The stream in the middle of a flush.
StreamInv(B, F, Z, x) == IF x.partialPacket THEN Within(B, F, Z, x) ELSE Between(B, F, Z, x)

\* What is put into the buffer comes behind what has gone.
LEMMA GoneMore ==
    ASSUME NEW B, NEW F \in Seq(B), NEW x \in FillStates(B), NEW y \in MidStates(B),
           NEW a \in Seq(B), y.chunks = x.chunks, y.buffer = Joined(x.buffer, a)
    PROVE  Gone(F, y) = Joined(Gone(F, x), a) /\ Gone(F, x) \in Seq(B)
<1>1. FlattenSeq(x.chunks) \in Seq(B) /\ x.buffer \in Seq(B)
  BY ChunksFlatten DEF FillStates
<1>2. Joined(FlattenSeq(x.chunks), x.buffer) \in Seq(B)
  BY <1>1, JoinedType
<1>3. Joined(FlattenSeq(x.chunks), Joined(x.buffer, a)) = Joined(Joined(FlattenSeq(x.chunks), x.buffer), a)
  BY <1>1, JoinedAssociative
<1>4. Joined(F, Joined(Joined(FlattenSeq(x.chunks), x.buffer), a))
         = Joined(Joined(F, Joined(FlattenSeq(x.chunks), x.buffer)), a)
  BY <1>2, JoinedAssociative
<1>5. Joined(F, Joined(FlattenSeq(x.chunks), x.buffer)) \in Seq(B)
  BY <1>2, JoinedType
<1> QED
  BY <1>3, <1>4, <1>5 DEF Gone

\* InOrder of one message.
LEMMA InOrderOne ==
    ASSUME NEW S, NEW p \in S
    PROVE  InOrder(One(p)) = Kept(p)
<1>1. <<>> \in Seq(S) /\ One(p) = Append(<<>>, p)
  BY EmptySeq DEF One
<1>2. InOrder(Append(<<>>, p)) = Joined(InOrder(<<>>), Kept(p))
  BY <1>1, InOrderAppend
<1>3. Joined(<<>>, Kept(p)) = Kept(p)
  BY KeptType, JoinedEmpty
<1> QED
  BY <1>1, <1>2, <1>3, InOrderEmpty

\* InOrder of a sequence by its first message.
LEMMA InOrderFirst ==
    ASSUME NEW S, NEW p \in S, NEW rest \in Seq(S)
    PROVE  InOrder(Joined(One(p), rest)) = Joined(Kept(p), InOrder(rest))
<1>1. One(p) \in Seq(S)
  BY DEF One
<1> QED
  BY <1>1, InOrderOne, InOrderConcat

\* The first of a sequence and what follows it are determined.
LEMMA FirstDetermined ==
    ASSUME NEW S, NEW T, NEW p \in S, NEW rest \in Seq(S), NEW b \in T, NEW D \in Seq(T),
           Joined(One(p), rest) = Joined(One(b), D)
    PROVE  p = b /\ rest = D
<1> DEFINE R == S \cup T
<1>1. p \in R /\ b \in R /\ rest \in Seq(R) /\ D \in Seq(R) /\ <<p>> \in Seq(R) /\ <<b>> \in Seq(R)
  BY SeqMonotonic
<1> HIDE DEF R
<1>2. (<<p>> \o rest)[1] = p
  BY <1>1, ConcatProperties
<1>3. (<<b>> \o D)[1] = b
  BY <1>1, ConcatProperties
<1>4. p = b
  BY <1>2, <1>3 DEF Joined, One
<1>5. One(p) \in Seq(R) /\ Joined(One(p), rest) = Joined(One(p), D)
  BY <1>1, <1>4 DEF One
<1>6. rest = D
  BY <1>1, <1>5, JoinedCancel
<1> QED
  BY <1>4, <1>6

\* The parts of a sequence are of the type of the whole.
LEMMA FirstKept ==
    ASSUME NEW S, NEW T, NEW p \in S, NEW rest \in Seq(S), Joined(One(p), rest) \in Seq(T)
    PROVE  p \in T /\ rest \in Seq(T)
<1> DEFINE s == Joined(One(p), rest)
<1>1. s # <<>>
  <2>1. One(p) \in Seq(S) /\ One(p) # <<>>
    BY DEF One
  <2> QED
    BY <2>1, JoinedNotEmpty
<1>2. Head(s) \in T /\ Tail(s) \in Seq(T) /\ s = Joined(One(Head(s)), Tail(s))
  <2> HIDE DEF s
  <2>1. s \in Seq(T)
    BY DEF s
  <2> QED
    BY <1>1, <2>1, HeadAndTail DEF s
<1> DEFINE h == Head(s)
           t == Tail(s)
<1>3. h \in T /\ t \in Seq(T) /\ Joined(One(p), rest) = Joined(One(h), t)
  BY <1>2
<1> HIDE DEF s, h, t
<1> QED
  BY <1>3, FirstDetermined

\* Moved keeps the stream.
LEMMA MovedInv ==
    ASSUME NEW B \in SUBSET Octets, NEW F \in Seq(B), NEW Z, NEW x \in FillStates(B),
           x.outgoingData # <<>>, StreamInv(B, F, Z, x)
    PROVE  StreamInv(B, F, Z, Moved(x))
<1> DEFINE y == Moved(x)
<1>1. PICK p \in Pieces(B), rest \in Seq(Pieces(B)) :
              /\ x.outgoingData = Joined(One(p), rest)
              /\ Drops(B, x, y, p, rest) \/ Fits(B, x, y, p, rest) \/ Cuts(B, x, y, p, rest)
  BY MovedCases
<1>2. y \in MidStates(B) /\ y.chunks = x.chunks
  BY MovedType
<1> HIDE DEF y
<1>0. p \in Seq(B) /\ Wholes(B) \subseteq Pieces(B) /\ Honest(B) \subseteq Pieces(B)
  BY DEF Pieces, Wholes, Honest
<1>3. CASE Drops(B, x, y, p, rest)
  <2>1. ~x.partialPacket /\ ~IsValidPacket(p)
        /\ y.outgoingData = rest /\ y.partialPacket = x.partialPacket /\ y.buffer = x.buffer
    BY <1>3 DEF Drops, FillStates
  <2>2. PICK V \in Seq(Wholes(B)) :
           /\ Joined(One(p), rest) \in Seq(Honest(B))
           /\ Gone(F, x) = FlattenSeq(V)
           /\ Joined(InOrder(V), InOrder(Joined(One(p), rest))) = Z
    BY <1>1, <2>1 DEF StreamInv, Between
  <2>3. p \in Honest(B) /\ rest \in Seq(Honest(B))
    BY <2>2, FirstKept
  <2>4. InOrder(Joined(One(p), rest)) = InOrder(rest)
    <3>1. Kept(p) = <<>>
      BY <2>1 DEF Kept, Waits
    <3>2. InOrder(rest) \in Seq(Honest(B))
      BY <2>3, InOrderType
    <3> QED
      BY <2>3, <3>1, <3>2, InOrderFirst, JoinedEmpty
  <2>5. Gone(F, y) = Gone(F, x)
    BY <1>2, <2>1 DEF Gone
  <2> QED
    <3>1. Between(B, F, Z, y)
      BY <2>1, <2>2, <2>3, <2>4, <2>5 DEF Between
    <3> QED
      BY <2>1, <3>1 DEF StreamInv, y
\* Where p comes from: it is begun now, or its rest goes on.
<1>4. ASSUME x.partialPacket \/ IsValidPacket(p)
      PROVE  \E V \in Seq(Wholes(B)) :
                /\ rest \in Seq(Honest(B))
                /\ Joined(Gone(F, x), p) = FlattenSeq(V)
                /\ Joined(InOrder(V), InOrder(rest)) = Z
  <2>1. CASE x.partialPacket
    <3>1. PICK V \in Seq(Wholes(B)), b \in Pieces(B), D \in Seq(Honest(B)) :
             /\ Joined(One(p), rest) = Joined(One(b), D)
             /\ Joined(Gone(F, x), b) = FlattenSeq(V)
             /\ Joined(InOrder(V), InOrder(D)) = Z
      BY <1>1, <2>1 DEF StreamInv, Within
    <3>2. p = b /\ rest = D
      <4>1. D \in Seq(Pieces(B))
        BY <1>0, SeqMonotonic
      <4> QED
        BY <3>1, <4>1, FirstDetermined
    <3> QED
      BY <3>1, <3>2
  <2>2. CASE ~x.partialPacket
    <3>1. PICK V \in Seq(Wholes(B)) :
             /\ Joined(One(p), rest) \in Seq(Honest(B))
             /\ Gone(F, x) = FlattenSeq(V)
             /\ Joined(InOrder(V), InOrder(Joined(One(p), rest))) = Z
      BY <1>1, <2>2 DEF StreamInv, Between
    <3>2. p \in Honest(B) /\ rest \in Seq(Honest(B))
      BY <3>1, FirstKept
    <3>3. p \in Wholes(B)
      BY <1>4, <2>2, <3>2 DEF Honest, Wholes
    <3> DEFINE U == Append(V, p)
    <3>4. U \in Seq(Wholes(B)) /\ V \in Seq(Seq(B)) /\ V \in Seq(Pieces(B))
      <4>1. Wholes(B) \subseteq Seq(B)
        BY DEF Wholes, Pieces
      <4> QED
        BY <1>0, <3>3, <4>1, AppendProperties, SeqMonotonic
    <3>5. FlattenSeq(U) = Joined(FlattenSeq(V), p)
      BY <1>0, <3>4, FlattenAppend
    <3>6. InOrder(U) = Joined(InOrder(V), Kept(p))
      BY <3>4, InOrderAppend
    <3>7. InOrder(V) \in Seq(Pieces(B)) /\ InOrder(rest) \in Seq(Pieces(B)) /\ Kept(p) \in Seq(Pieces(B))
      BY <3>4, InOrderType, KeptType
    <3>8. InOrder(Joined(One(p), rest)) = Joined(Kept(p), InOrder(rest))
      BY InOrderFirst
    <3> HIDE DEF U
    <3>9. Joined(InOrder(U), InOrder(rest)) = Z
      BY <3>1, <3>6, <3>7, <3>8, JoinedAssociative
    <3> QED
      BY <3>1, <3>2, <3>4, <3>5, <3>9
  <2> QED
    BY <2>1, <2>2
<1>5. CASE Fits(B, x, y, p, rest)
  <2>1. PICK V \in Seq(Wholes(B)) :
           /\ rest \in Seq(Honest(B))
           /\ Joined(Gone(F, x), p) = FlattenSeq(V)
           /\ Joined(InOrder(V), InOrder(rest)) = Z
    BY <1>4, <1>5 DEF Fits
  <2>2. y.outgoingData = rest /\ y.partialPacket = FALSE /\ y.buffer = Joined(x.buffer, p)
    BY <1>5 DEF Fits, FillStates
  <2>3. Gone(F, y) = Joined(Gone(F, x), p)
    BY <1>0, <1>2, <2>2, GoneMore
  <2> QED
    <3>1. Between(B, F, Z, y)
      BY <2>1, <2>2, <2>3 DEF Between
    <3> QED
      BY <2>2, <3>1 DEF StreamInv, y
<1>6. CASE Cuts(B, x, y, p, rest)
  <2>1. PICK V \in Seq(Wholes(B)) :
           /\ rest \in Seq(Honest(B))
           /\ Joined(Gone(F, x), p) = FlattenSeq(V)
           /\ Joined(InOrder(V), InOrder(rest)) = Z
    BY <1>4, <1>6 DEF Cuts
  <2>2. PICK a \in Pieces(B), b \in Pieces(B) :
           /\ p = Joined(a, b) /\ y.buffer = Joined(x.buffer, a)
           /\ y.partialPacket = TRUE /\ y.outgoingData = Joined(One(b), rest)
    BY <1>6 DEF Cuts, FillStates
  <2>3. a \in Seq(B) /\ b \in Seq(B)
    BY DEF Pieces
  <2>4. Gone(F, y) = Joined(Gone(F, x), a) /\ Gone(F, x) \in Seq(B)
    BY <1>2, <2>2, <2>3, GoneMore
  <2>5. Joined(Gone(F, y), b) = FlattenSeq(V)
    BY <2>1, <2>2, <2>3, <2>4, JoinedAssociative
  <2> QED
    <3>1. Within(B, F, Z, y)
      BY <2>1, <2>2, <2>5 DEF Within
    <3> QED
      BY <2>2, <3>1 DEF StreamInv, y
<1> QED
  BY <1>1, <1>3, <1>5, <1>6 DEF y

\* The first half of a turn keeps the types.
LEMMA TurnedType ==
    ASSUME NEW B \in SUBSET Octets, NEW x \in FillStates(B), ~Ended(x)
    PROVE  LET more == SendMore(x)
               y == Turned(x, more) IN
           /\ more \in BOOLEAN /\ y \in MidStates(B) /\ y.sendMore = more
           /\ more => /\ y.outgoingData = Moved(x).outgoingData
                      /\ y.partialPacket = Moved(x).partialPacket
                      /\ y.chunks = Moved(x).chunks /\ y.buffer = Moved(x).buffer
           /\ ~more => /\ ~x.partialPacket /\ y.outgoingData = x.outgoingData
                       /\ y.partialPacket = x.partialPacket
                       /\ y.chunks = x.chunks /\ y.buffer = x.buffer
<1> DEFINE more == SendMore(x)
<1>1. more \in BOOLEAN
  BY DEF SendMore
<1>2. Moved(x) \in MidStates(B)
  BY MovedType DEF Ended
<1>3. x \in MidStates(B)
  BY MessageAssumption DEF FillStates, MidStates
<1>4. ~more => ~x.partialPacket
  BY DEF SendMore
<1> HIDE DEF more
<1>5. CASE more
  <2>1. Turned(x, more) = [Moved(x) EXCEPT !.sendMore = more]
    BY <1>5 DEF Turned
  <2> QED
    BY <1>1, <1>2, <1>5, <2>1 DEF MidStates, more
<1>6. CASE ~more
  <2>1. Turned(x, more) = [x EXCEPT !.sendMore = more]
    BY <1>6 DEF Turned
  <2> QED
    BY <1>1, <1>3, <1>4, <1>6, <2>1 DEF MidStates, more
<1> QED
  BY <1>5, <1>6

\* A turn keeps the types, and ends the loop or takes at least a byte.
LEMMA FlushTurnType ==
    ASSUME NEW B \in SUBSET Octets, NEW x \in FillStates(B)
    PROVE  /\ FlushTurn(x) \in FillStates(B)
           /\ Ended(x) => FlushTurn(x) = x
           /\ ~Ended(x) => Ended(FlushTurn(x)) \/ Len(Left(FlushTurn(x))) < Len(Left(x))
<1>1. CASE Ended(x)
  BY <1>1, FlushTurnHalves
<1>2. CASE ~Ended(x)
  <2> DEFINE more == SendMore(x)
             y == Turned(x, more)
             z == Close(y, more)
  <2>1. FlushTurn(x) = z
    BY <1>2, FlushTurnHalves
  <2>2. /\ more \in BOOLEAN /\ y \in MidStates(B) /\ y.sendMore = more
        /\ more => y.outgoingData = Moved(x).outgoingData
    BY <1>2, TurnedType
  <2> HIDE DEF y, more
  <2>3. z \in FillStates(B) /\ z.outgoingData = y.outgoingData /\ z.sendMore = y.sendMore
    BY <2>2, CloseType
  <2> HIDE DEF z
  <2>4. CASE more
    <3>1. Len(Left(Moved(x))) < Len(Left(x))
      BY <1>2, MovedType DEF Ended
    <3>2. Left(z) = Left(Moved(x))
      BY <2>2, <2>3, <2>4 DEF Left
    <3> QED
      BY <1>2, <2>1, <2>3, <3>1, <3>2
  <2>5. CASE ~more
    <3>1. Ended(z)
      BY <2>2, <2>3, <2>5 DEF Ended
    <3> QED
      BY <1>2, <2>1, <2>3, <3>1
  <2> QED
    BY <2>4, <2>5
<1> QED
  BY <1>1, <1>2

\* The invariant of the loop of Flush
FillInv(B, F, Z, x) ==
    /\ StreamInv(B, F, Z, x)
    /\ x.partialPacket => x.outgoingData # <<>> /\ x.sendMore
    /\ Ended(x) => x.buffer = <<>>

\* The stream depends only on what is to be sent and what has gone.
LEMMA SameStream ==
    ASSUME NEW B, NEW F, NEW Z, NEW x, NEW y, StreamInv(B, F, Z, x),
           y.outgoingData = x.outgoingData, y.partialPacket = x.partialPacket,
           Gone(F, y) = Gone(F, x)
    PROVE  StreamInv(B, F, Z, y)
BY DEF StreamInv, Between, Within

\* A turn keeps the invariant of the loop.
LEMMA FlushTurnInv ==
    ASSUME NEW B \in SUBSET Octets, NEW F \in Seq(B), NEW Z, NEW x \in FillStates(B),
           FillInv(B, F, Z, x)
    PROVE  FillInv(B, F, Z, FlushTurn(x))
<1>1. CASE Ended(x)
  BY <1>1, FlushTurnHalves
<1>2. CASE ~Ended(x)
  <2> DEFINE more == SendMore(x)
             y == Turned(x, more)
             z == Close(y, more)
  <2>1. FlushTurn(x) = z
    BY <1>2, FlushTurnHalves
  <2>2. /\ more \in BOOLEAN /\ y \in MidStates(B) /\ y.sendMore = more
        /\ more => /\ y.outgoingData = Moved(x).outgoingData
                   /\ y.partialPacket = Moved(x).partialPacket
                   /\ y.chunks = Moved(x).chunks /\ y.buffer = Moved(x).buffer
        /\ ~more => /\ ~x.partialPacket /\ y.outgoingData = x.outgoingData
                    /\ y.partialPacket = x.partialPacket
                    /\ y.chunks = x.chunks /\ y.buffer = x.buffer
    BY <1>2, TurnedType
  <2> HIDE DEF y, more
  <2>3. /\ z \in FillStates(B)
        /\ z.outgoingData = y.outgoingData /\ z.partialPacket = y.partialPacket
        /\ z.sendMore = y.sendMore /\ Gone(F, z) = Gone(F, y)
        /\ (y.outgoingData = <<>> \/ ~more) => z.buffer = <<>>
    BY <2>2, CloseType
  <2> HIDE DEF z
  <2>4. StreamInv(B, F, Z, y) /\ (y.partialPacket => y.outgoingData # <<>> /\ more)
    <3>1. CASE more
      <4>1. StreamInv(B, F, Z, Moved(x)) /\ (Moved(x).partialPacket => Moved(x).outgoingData # <<>>)
        BY <1>2, MovedInv, MovedType DEF FillInv, Ended
      <4>2. Gone(F, y) = Gone(F, Moved(x))
        BY <2>2, <3>1 DEF Gone
      <4> QED
        BY <2>2, <3>1, <4>1, <4>2, SameStream
    <3>2. CASE ~more
      <4>1. Gone(F, y) = Gone(F, x)
        BY <2>2, <3>2 DEF Gone
      <4> QED
        BY <2>2, <3>2, <4>1, SameStream DEF FillInv
    <3> QED
      BY <3>1, <3>2
  <2>5. StreamInv(B, F, Z, z)
    BY <2>3, <2>4, SameStream
  <2>6. Ended(z) => z.buffer = <<>>
    BY <2>2, <2>3 DEF Ended
  <2> QED
    BY <2>1, <2>2, <2>3, <2>4, <2>5, <2>6 DEF FillInv
<1> QED
  BY <1>1, <1>2

\* Before the first turn of the loop of Flush
FillStart(out, c, forced, bandwidth) ==
    [outgoingData |-> out, chunks |-> c, buffer |-> <<>>,
     partialPacket |-> FALSE, sendMore |-> TRUE, forced |-> forced, bandwidth |-> bandwidth]

\* Filled is the state after as many turns as there are bytes.
LEMMA FilledUnrolled ==
    ASSUME NEW B \in SUBSET Octets, NEW s \in FillStates(B)
    PROVE  \E g \in [Nat -> FillStates(B)] :
              /\ g[0] = s /\ \A n \in Nat : g[n + 1] = FlushTurn(g[n])
              /\ Filled(s) = g[Len(Left(s))] /\ Len(Left(s)) \in Nat
<1> DEFINE body(f) == [n \in Nat |-> IF n = 0 THEN s ELSE FlushTurn(f[n - 1])]
           fill == CHOOSE f : f = body(f)
           S == FillStates(B)
           step == [n \in Nat |-> [x \in S |-> FlushTurn(x)]]
<1>1. s \in S
  OBVIOUS
<1>2. \A x \in S : FlushTurn(x) \in S
  BY FlushTurnType
<1>3. Filled(s) = fill[Len(Left(s))]
  BY DEF Filled, Left
<1>0. Len(Left(s)) \in Nat
  <2>1. s.outgoingData \in Seq(Pieces(B)) /\ Pieces(B) \subseteq Seq(B)
    BY DEF FillStates, Pieces
  <2>2. s.outgoingData \in Seq(Seq(B))
    BY <2>1, SeqMonotonic
  <2> QED
    BY <2>2, FlattenType, LenProperties DEF Left
<1> HIDE DEF S
<1>4. step \in StepFunctions(S)
  BY <1>2 DEF StepFunctions
<1>5. PICK h : Recurs(h, S, s, step)
  <2> HIDE DEF step
  <2> QED
    BY <1>1, <1>4, Recursion
<1>6. h \in [Nat -> S] /\ h[0] = s /\ \A n \in Nat : h[n + 1] = FlushTurn(h[n])
  <2>1. \A n \in Nat, x \in S : step[n][x] = FlushTurn(x)
    OBVIOUS
  <2> HIDE DEF step
  <2> QED
    BY <1>5, <2>1 DEF Recurs
<1>7. \A n \in Nat \ {0} : h[n] = FlushTurn(h[n - 1])
  <2>1. \A n \in Nat \ {0} : n - 1 \in Nat /\ (n - 1) + 1 = n
    OBVIOUS
  <2> QED
    BY <1>6, <2>1
<1>8. h = body(h)
  <2>1. \A n \in Nat : h[n] = body(h)[n]
    BY <1>6, <1>7
  <2> QED
    BY <1>6, <2>1
<1>9. fill = body(fill)
  <2> HIDE DEF body
  <2> QED
    BY <1>8
<1> HIDE DEF fill
<1>10. fill[0] = s /\ \A n \in Nat : fill[n + 1] = FlushTurn(fill[n])
  <2>1. \A n \in Nat : fill[n] = body(fill)[n]
    <3> HIDE DEF body
    <3> QED
      BY <1>9
  <2>2. \A n \in Nat : fill[n] = IF n = 0 THEN s ELSE FlushTurn(fill[n - 1])
    BY <2>1
  <2>3. \A n \in Nat : n + 1 # 0 /\ (n + 1) - 1 = n /\ n + 1 \in Nat
    OBVIOUS
  <2> QED
    BY <2>2, <2>3
<1> DEFINE A == {n \in Nat : fill[n] = h[n]}
<1>11. 0 \in A
  BY <1>6, <1>10
<1>12. ASSUME NEW n \in A PROVE n + 1 \in A
  <2>1. n \in Nat /\ fill[n] = h[n]
    OBVIOUS
  <2>2. fill[n + 1] = FlushTurn(fill[n]) /\ h[n + 1] = FlushTurn(h[n])
    BY <1>6, <1>10, <2>1
  <2> QED
    BY <2>1, <2>2
<1> HIDE DEF A
<1>13. Nat \subseteq A
  BY <1>11, <1>12, Induction
<1>14. fill[Len(Left(s))] = h[Len(Left(s))]
  BY <1>0, <1>13 DEF A
<1> QED
  BY <1>0, <1>3, <1>6, <1>14 DEF S

\* The types before the loop.
LEMMA FillStartType ==
    ASSUME NEW B, NEW out \in Seq(Pieces(B)), NEW c \in Seq(Chunks(B)),
           NEW forced \in BOOLEAN, NEW bandwidth \in Int
    PROVE  FillStart(out, c, forced, bandwidth) \in FillStates(B)
<1>1. <<>> \in Seq(B) /\ Len(<<>>) < MaxChunkSize
  BY EmptySeq, MessageAssumption
<1> QED
  BY <1>1 DEF FillStart, FillStates

\* The loop ends in so many turns as there are bytes.
LEMMA FilledType ==
    ASSUME NEW B \in SUBSET Octets, NEW s \in FillStates(B)
    PROVE  Filled(s) \in FillStates(B) /\ Ended(Filled(s))
<1>1. PICK g \in [Nat -> FillStates(B)] :
              /\ g[0] = s /\ \A n \in Nat : g[n + 1] = FlushTurn(g[n])
              /\ Filled(s) = g[Len(Left(s))] /\ Len(Left(s)) \in Nat
  BY FilledUnrolled
<1> DEFINE N == Len(Left(s))
           A == {n \in Nat : Ended(g[n]) \/ Len(Left(g[n])) + n <= N}
<1>2. \A n \in Nat : g[n].outgoingData \in Seq(Pieces(B)) /\ Len(Left(g[n])) \in Nat
  <2>1. Pieces(B) \subseteq Seq(B)
    BY DEF Pieces
  <2>2. SUFFICES ASSUME NEW n \in Nat
                 PROVE  g[n].outgoingData \in Seq(Pieces(B)) /\ Len(Left(g[n])) \in Nat
    OBVIOUS
  <2>3. g[n].outgoingData \in Seq(Pieces(B))
    BY DEF FillStates
  <2>4. g[n].outgoingData \in Seq(Seq(B))
    BY <2>1, <2>3, SeqMonotonic
  <2> QED
    BY <2>3, <2>4, FlattenType, LenProperties DEF Left
<1>3. 0 \in A
  BY <1>1
<1>4. ASSUME NEW n \in A PROVE n + 1 \in A
  <2>1. n \in Nat /\ g[n] \in FillStates(B) /\ g[n + 1] = FlushTurn(g[n]) /\ n + 1 \in Nat
    BY <1>1
  <2>2. CASE Ended(g[n])
    BY <2>1, <2>2, FlushTurnType
  <2>3. CASE ~Ended(g[n])
    <3>1. Len(Left(g[n])) + n <= N
      BY <2>3
    <3>2. Ended(g[n + 1]) \/ Len(Left(g[n + 1])) < Len(Left(g[n]))
      BY <2>1, <2>3, FlushTurnType
    <3>3. Len(Left(g[n])) \in Nat /\ Len(Left(g[n + 1])) \in Nat /\ N \in Nat
      BY <1>1, <1>2, <2>1
    <3> HIDE DEF N
    <3> QED
      BY <2>1, <3>1, <3>2, <3>3
  <2> QED
    BY <2>2, <2>3
<1> HIDE DEF A, N
<1>5. Nat \subseteq A
  BY <1>3, <1>4, Induction
<1>6. N \in Nat /\ Filled(s) = g[N] /\ g[N] \in FillStates(B)
  BY <1>1 DEF N
<1>7. Ended(g[N])
  <2>1. Ended(g[N]) \/ Len(Left(g[N])) + N <= N
    BY <1>5, <1>6 DEF A
  <2>2. CASE Len(Left(g[N])) + N <= N
    <3>1. Len(Left(g[N])) = 0
      BY <1>2, <1>6, <2>2
    <3>2. g[N].outgoingData = <<>>
      <4> DEFINE out == g[N].outgoingData
      <4>1. out \in Seq(Pieces(B))
        BY <1>2, <1>6
      <4>2. SUFFICES ASSUME out # <<>> PROVE FALSE
        OBVIOUS
      <4> HIDE DEF out
      <4>3. Head(out) \in Pieces(B) /\ Tail(out) \in Seq(Pieces(B)) /\ out = Joined(One(Head(out)), Tail(out))
        BY <4>1, <4>2, HeadAndTail
      <4>4. Len(FlattenSeq(out)) # 0
        <5> DEFINE h == Head(out)
                   t == Tail(out)
        <5>1. h \in Pieces(B) /\ t \in Seq(Pieces(B)) /\ out = Joined(One(h), t)
          BY <4>3
        <5> HIDE DEF h, t
        <5>2. Len(FlattenSeq(out)) = Len(h) + Len(FlattenSeq(t)) /\ Len(h) \in Nat \ {0}
              /\ Len(FlattenSeq(t)) \in Nat
          BY <5>1, PiecesFlatten
        <5> QED
          BY <5>2
      <4> QED
        BY <3>1, <4>4 DEF Left, out
    <3> QED
      BY <3>2 DEF Ended
  <2> QED
    BY <2>1, <2>2
<1> QED
  BY <1>6, <1>7

\* What Flush makes of whole messages and of those that wait: whole messages, none lost, and none
\* begun that is not finished.
LEMMA FilledWhole ==
    ASSUME NEW B \in SUBSET Octets, NEW F \in Seq(B), NEW W \in Seq(Wholes(B)),
           NEW c \in Seq(Chunks(B)), NEW out \in Seq(Honest(B)), out # <<>>,
           NEW forced \in BOOLEAN, NEW bandwidth \in Int,
           Joined(F, FlattenSeq(c)) = FlattenSeq(W)
    PROVE  LET s == Filled(FillStart(out, c, forced, bandwidth)) IN
           /\ s \in FillStates(B) /\ s.outgoingData \in Seq(Honest(B))
           /\ \E V \in Seq(Wholes(B)) :
                 /\ Joined(F, FlattenSeq(s.chunks)) = FlattenSeq(V)
                 /\ Joined(InOrder(V), InOrder(s.outgoingData)) = Joined(InOrder(W), InOrder(out))
<1> DEFINE x == FillStart(out, c, forced, bandwidth)
           Z == Joined(InOrder(W), InOrder(out))
           s == Filled(x)
<1>1. x \in FillStates(B)
  <2>1. out \in Seq(Pieces(B))
    BY SeqMonotonic DEF Honest
  <2> QED
    BY <2>1, FillStartType
<1>2. /\ x.outgoingData = out /\ x.chunks = c /\ x.buffer = <<>> /\ x.partialPacket = FALSE
      /\ x.sendMore = TRUE
  BY DEF FillStart
<1> HIDE DEF x, Z
<1>3. FillInv(B, F, Z, x)
  <2>1. FlattenSeq(c) \in Seq(B)
    BY ChunksFlatten
  <2>2. Gone(F, x) = FlattenSeq(W)
    BY <1>2, <2>1, JoinedEmpty DEF Gone
  <2>3. Between(B, F, Z, x)
    BY <1>2, <2>2 DEF Between, Z
  <2> QED
    BY <1>2, <2>3 DEF FillInv, StreamInv, Ended
<1>4. PICK g \in [Nat -> FillStates(B)] :
              /\ g[0] = x /\ \A n \in Nat : g[n + 1] = FlushTurn(g[n])
              /\ s = g[Len(Left(x))] /\ Len(Left(x)) \in Nat
  BY <1>1, FilledUnrolled
<1> DEFINE A == {n \in Nat : FillInv(B, F, Z, g[n])}
<1>5. 0 \in A
  BY <1>3, <1>4
<1>6. ASSUME NEW n \in A PROVE n + 1 \in A
  <2>1. n \in Nat /\ FillInv(B, F, Z, g[n]) /\ g[n] \in FillStates(B) /\ g[n + 1] = FlushTurn(g[n])
    BY <1>4
  <2>2. FillInv(B, F, Z, FlushTurn(g[n]))
    BY <2>1, FlushTurnInv
  <2> QED
    BY <2>1, <2>2
<1> HIDE DEF A
<1>7. Nat \subseteq A
  BY <1>5, <1>6, Induction
<1>8. FillInv(B, F, Z, s)
  BY <1>4, <1>7 DEF A
<1>9. s \in FillStates(B) /\ Ended(s)
  BY <1>1, FilledType
<1> HIDE DEF s
<1>10. s.buffer = <<>> /\ ~s.partialPacket
  BY <1>8, <1>9 DEF FillInv, Ended
<1>11. Between(B, F, Z, s)
  BY <1>8, <1>10 DEF FillInv, StreamInv
<1>12. Gone(F, s) = Joined(F, FlattenSeq(s.chunks))
  <2>1. FlattenSeq(s.chunks) \in Seq(B)
    BY <1>9, ChunksFlatten DEF FillStates
  <2> QED
    BY <1>10, <2>1, JoinedEmpty DEF Gone
<1> QED
  BY <1>9, <1>11, <1>12 DEF Between, s, x, Z

-----------------------------------------------------------------------------
(* Pings and the look through the queue *)

\* What a message adds to PingsIn
PingOf(p) == IF IsPing(p) THEN 1 ELSE 0

\* There is no ping in nothing.
LEMMA PingsEmpty == PingsIn(<<>>) = 0
<1>1. {i \in DOMAIN <<>> : IsPing(<<>>[i])} = {}
  OBVIOUS
<1> QED
  BY <1>1, FS_EmptySet DEF PingsIn

\* The type of PingsIn.
LEMMA PingsType ==
    ASSUME NEW S, NEW s \in Seq(S)
    PROVE  PingsIn(s) \in Nat
<1>1. DOMAIN s = 1..Len(s) /\ Len(s) \in Nat
  OBVIOUS
<1>2. IsFiniteSet(1..Len(s))
  BY <1>1, FS_Interval
<1>3. {i \in 1..Len(s) : IsPing(s[i])} \in SUBSET (1..Len(s))
  OBVIOUS
<1>4. IsFiniteSet({i \in 1..Len(s) : IsPing(s[i])})
  BY <1>2, <1>3, FS_Subset
<1> QED
  BY <1>1, <1>4, FS_CardinalityType DEF PingsIn

\* PingsIn of a sequence with another message behind it.
LEMMA PingsAppend ==
    ASSUME NEW S, NEW s \in Seq(S), NEW x \in S
    PROVE  PingsIn(Append(s, x)) = PingsIn(s) + PingOf(x)
<1> DEFINE t == Append(s, x)
           A == {i \in 1..Len(s) : IsPing(s[i])}
           C == {i \in 1..Len(t) : IsPing(t[i])}
<1>1. /\ t \in Seq(S) /\ Len(t) = Len(s) + 1 /\ Len(s) \in Nat
      /\ t[Len(s) + 1] = x /\ \A i \in 1..Len(s) : t[i] = s[i]
  BY AppendProperties
<1>2. PingsIn(s) = Cardinality(A)
  <2>1. DOMAIN s = 1..Len(s)
    OBVIOUS
  <2> QED
    BY <2>1 DEF PingsIn
<1>3. PingsIn(t) = Cardinality(C)
  <2> HIDE DEF t
  <2>1. DOMAIN t = 1..Len(t)
    BY <1>1
  <2> QED
    BY <2>1 DEF PingsIn
<1> HIDE DEF t
<1>4. IsFiniteSet(A) /\ Cardinality(A) \in Nat
  <2>1. IsFiniteSet(1..Len(s)) /\ A \in SUBSET (1..Len(s))
    BY <1>1, FS_Interval
  <2> QED
    BY <2>1, FS_Subset, FS_CardinalityType
<1>5. CASE IsPing(x)
  <2>1. C = A \cup {Len(s) + 1} /\ Len(s) + 1 \notin A
    BY <1>1, <1>5
  <2> HIDE DEF A, C
  <2> QED
    BY <1>2, <1>3, <1>4, <1>5, <2>1, FS_AddElement DEF t, PingOf
<1>6. CASE ~IsPing(x)
  <2>1. C = A
    BY <1>1, <1>6
  <2> HIDE DEF A, C
  <2> QED
    BY <1>2, <1>3, <1>4, <1>6, <2>1 DEF t, PingOf
<1> QED
  BY <1>5, <1>6

\* PingsIn of one message.
LEMMA PingsOne ==
    ASSUME NEW x
    PROVE  PingsIn(One(x)) = PingOf(x)
<1>1. <<>> \in Seq({x}) /\ x \in {x} /\ <<x>> = Append(<<>>, x)
  BY EmptySeq
<1>2. PingsIn(Append(<<>>, x)) = PingsIn(<<>>) + PingOf(x)
  BY <1>1, PingsAppend
<1>3. PingOf(x) \in Nat
  BY DEF PingOf
<1> QED
  BY <1>1, <1>2, <1>3, PingsEmpty DEF One

\* PingsIn of a concatenation.
LEMMA PingsConcat ==
    ASSUME NEW B, NEW s \in Seq(B), NEW t \in Seq(B)
    PROVE  PingsIn(Joined(s, t)) = PingsIn(s) + PingsIn(t)
<1> DEFINE P(u) == PingsIn(Joined(s, u)) = PingsIn(s) + PingsIn(u)
           A == {n \in Nat : \A u \in Seq(B) : Len(u) = n => P(u)}
<1>1. 0 \in A
  <2>1. SUFFICES ASSUME NEW u \in Seq(B), Len(u) = 0
                 PROVE  P(u)
    OBVIOUS
  <2>2. u = <<>>
    BY <2>1, EmptySeq
  <2>3. Joined(s, <<>>) = s /\ PingsIn(s) \in Nat
    BY PingsType, JoinedEmpty
  <2> QED
    BY <2>2, <2>3, PingsEmpty
<1>2. ASSUME NEW n \in A
      PROVE  n + 1 \in A
  <2>0. n \in Nat /\ \A v \in Seq(B) : Len(v) = n => P(v)
    OBVIOUS
  <2>1. SUFFICES ASSUME NEW u \in Seq(B), Len(u) = n + 1
                 PROVE  P(u)
    OBVIOUS
  <2> HIDE DEF A
  <2>2. u # <<>>
    BY <2>0, <2>1
  <2>3. PICK v \in Seq(B), x \in B : u = Append(v, x)
    BY <2>2, SequenceEmptyOrAppend
  <2>4. P(v)
    BY <2>0, <2>1, <2>3, AppendProperties
  <2>5. Joined(s, u) = Append(Joined(s, v), x) /\ Joined(s, v) \in Seq(B)
    BY <2>3, JoinedType, JoinedAppend
  <2>6. PingsIn(Joined(s, u)) = PingsIn(s) + PingsIn(v) + PingOf(x)
    <3>1. PingsIn(Append(Joined(s, v), x)) = PingsIn(Joined(s, v)) + PingOf(x)
      BY <2>5, PingsAppend
    <3> QED
      BY <2>4, <2>5, <3>1
  <2>7. PingsIn(u) = PingsIn(v) + PingOf(x)
    BY <2>3, PingsAppend
  <2>8. PingsIn(s) \in Nat /\ PingsIn(v) \in Nat /\ PingOf(x) \in Nat
    BY PingsType DEF PingOf
  <2> HIDE DEF P
  <2>9. PingsIn(Joined(s, u)) = PingsIn(s) + PingsIn(u)
    BY <2>6, <2>7, <2>8
  <2> QED
    BY <2>9 DEF P
<1> HIDE DEF A
<1>3. Nat \subseteq A
  BY <1>1, <1>2, Induction
<1>4. Len(t) \in Nat
  BY LenProperties
<1> QED
  BY <1>3, <1>4 DEF A

\* Where none skips the queue is no ping.
LEMMA NoPings ==
    ASSUME NEW S, NEW s \in Seq(S), \A k \in 1..Len(s) : ~SkipsQueue(s[k])
    PROVE  PingsIn(s) = 0
<1>1. DOMAIN s = 1..Len(s)
  OBVIOUS
<1>2. {i \in DOMAIN s : IsPing(s[i])} = {}
  BY <1>1 DEF SkipsQueue, IsPing
<1> QED
  BY <1>2, FS_EmptySet DEF PingsIn
-----------------------------------------------------------------------------
\* a and b are what is in front of and behind the i-th member, which RemoveAt removes.
Around(S, q, i, a, b) ==
    /\ q[i] \in S /\ q = Joined(a, Joined(One(q[i]), b)) /\ RemoveAt(q, i) = Joined(a, b)
    /\ Len(a) = i - 1 /\ Len(q) = Len(a) + 1 + Len(b)
    /\ \A k \in 1..(i - 1) : Joined(a, b)[k] = q[k]

\* Each member of a sequence has something in front of it and something behind it.
LEMMA AroundEach ==
    ASSUME NEW S, NEW q \in Seq(S), NEW i \in 1..Len(q)
    PROVE  \E a, b \in Seq(S) : Around(S, q, i, a, b)
<1> DEFINE a == SubSeq(q, 1, i - 1)
           b == SubSeq(q, i + 1, Len(q))
<1>1. Len(q) \in Nat /\ i \in Nat /\ 1 <= i /\ i <= Len(q) /\ \A k \in 1..Len(q) : q[k] \in S
  OBVIOUS
<1>2. a \in Seq(S) /\ Len(a) = i - 1 /\ \A k \in 1..(i - 1) : a[k] = q[k]
  <2>1. \A k \in 1..(i - 1) : q[k] \in S
    BY <1>1
  <2>2. /\ a \in Seq(S) /\ Len(a) = IF 1 <= i - 1 THEN (i - 1) - 1 + 1 ELSE 0
        /\ \A k \in 1..((i - 1) - 1 + 1) : a[k] = q[1 + k - 1]
    BY <1>1, <2>1, SubSeqProperties
  <2> HIDE DEF a
  <2> QED
    BY <1>1, <2>2
<1>3. b \in Seq(S) /\ Len(b) = Len(q) - i
  <2>1. \A k \in (i + 1)..Len(q) : q[k] \in S
    BY <1>1
  <2>2. b \in Seq(S) /\ Len(b) = IF i + 1 <= Len(q) THEN Len(q) - (i + 1) + 1 ELSE 0
    BY <1>1, <2>1, SubSeqProperties
  <2> HIDE DEF b
  <2> QED
    BY <1>1, <2>2
<1>4. SubSeq(q, i, Len(q)) = <<q[i]>> \o b
  <2>1. i \in 1..Len(q) /\ Len(q) \in i..Len(q)
    BY <1>1
  <2> QED
    BY <2>1, SubSeqRecursiveFirst
<1>5. a \o SubSeq(q, i, Len(q)) = q
  <2>1. 1 \in 1..(Len(q) + 1) /\ i - 1 \in (1 - 1)..Len(q) /\ Len(q) \in (i - 1)..Len(q)
    BY <1>1
  <2>2. SubSeq(q, 1, i - 1) \o SubSeq(q, (i - 1) + 1, Len(q)) = SubSeq(q, 1, Len(q))
    BY <2>1, ConcatAdjacentSubSeq
  <2>3. (i - 1) + 1 = i
    BY <1>1
  <2> QED
    BY <2>2, <2>3, SubSeqFull
<1>6. RemoveAt(q, i) = a \o b
  BY DEF RemoveAt
<1> HIDE DEF a, b
<1>7. \A k \in 1..(i - 1) : (a \o b)[k] = q[k]
  BY <1>2, <1>3, ConcatProperties
<1>8. q = Joined(a, Joined(One(q[i]), b)) /\ RemoveAt(q, i) = Joined(a, b)
      /\ \A k \in 1..(i - 1) : Joined(a, b)[k] = q[k]
  BY <1>4, <1>5, <1>6, <1>7, Zenon DEF Joined, One
<1>9. q[i] \in S /\ Len(q) = Len(a) + 1 + Len(b)
  <2>1. (i - 1) + 1 + (Len(q) - i) = Len(q)
    BY <1>1
  <2> QED
    BY <1>1, <1>2, <1>3, <2>1
<1> QED
  BY <1>2, <1>3, <1>8, <1>9 DEF Around

\* The states of the look through the queue
ScanStates(S) == [queue : Seq(S), pings : Int, i : Nat \ {0}]

\* Behind n turns from the queue q
ScanInv(S, q, n, x) ==
    /\ x \in ScanStates(S)
    /\ x.i <= Len(x.queue) + 1
    /\ x.i > Len(x.queue) \/ Len(x.queue) - x.i + 1 + n <= Len(q)
    /\ \A k \in 1..(x.i - 1) : ~SkipsQueue(x.queue[k])
    /\ InOrder(x.queue) = InOrder(q)
    /\ x.pings >= PingsIn(x.queue) /\ (~local => x.pings = PingsIn(x.queue))

\* A turn of the look through the queue keeps its invariant: either it goes on or it removes what
\* need not wait, and counts it.
LEMMA ScanTurnInv ==
    ASSUME NEW S, NEW q \in Seq(S), NEW n \in Nat, NEW x, ScanInv(S, q, n, x)
    PROVE  ScanInv(S, q, n + 1, ScanTurn(x))
<1>1. x \in ScanStates(S) /\ x.queue \in Seq(S) /\ Len(x.queue) \in Nat /\ Len(q) \in Nat
      /\ x.pings \in Int /\ x.i \in Nat \ {0}
  BY DEF ScanInv, ScanStates
<1>0. x.i <= Len(x.queue) + 1 /\ (x.i > Len(x.queue) \/ Len(x.queue) - x.i + 1 + n <= Len(q))
  BY DEF ScanInv
<1>2. CASE x.i > Len(x.queue)
  BY <1>1, <1>2 DEF ScanInv, ScanTurn
<1>3. CASE ~(x.i > Len(x.queue)) /\ ~SkipsQueue(x.queue[x.i])
  <2> DEFINE y == ScanTurn(x)
  <2>1. y = [x EXCEPT !.i = x.i + 1]
    BY <1>3 DEF ScanTurn
  <2> HIDE DEF y
  <2>2. y \in ScanStates(S) /\ y.queue = x.queue /\ y.i = x.i + 1 /\ y.pings = x.pings
    BY <1>1, <2>1 DEF ScanStates
  <2>3. \A k \in 1..(y.i - 1) : k \in 1..(x.i - 1) \/ k = x.i
    BY <1>1, <2>2
  <2>4. \A k \in 1..(y.i - 1) : ~SkipsQueue(y.queue[k])
    BY <1>3, <2>2, <2>3 DEF ScanInv
  <2>5. y.i <= Len(y.queue) + 1
        /\ (y.i > Len(y.queue) \/ Len(y.queue) - y.i + 1 + (n + 1) <= Len(q))
    <3>1. \A i, l, m \in Nat : i <= l + 1 /\ (i > l \/ l - i + 1 + n <= m) /\ ~(i > l)
             => i + 1 <= l + 1 /\ l - (i + 1) + 1 + (n + 1) <= m
      OBVIOUS
    <3>2. x.i + 1 <= Len(x.queue) + 1 /\ Len(x.queue) - (x.i + 1) + 1 + (n + 1) <= Len(q)
      BY <1>0, <1>1, <1>3, <3>1
    <3> QED
      BY <2>2, <3>2
  <2>6. InOrder(y.queue) = InOrder(q)
        /\ y.pings >= PingsIn(y.queue) /\ (~local => y.pings = PingsIn(y.queue))
    BY <2>2 DEF ScanInv
  <2> QED
    BY <2>2, <2>4, <2>5, <2>6 DEF ScanInv, y
<1>4. CASE ~(x.i > Len(x.queue)) /\ SkipsQueue(x.queue[x.i])
  <2> DEFINE y == ScanTurn(x)
             p == x.queue[x.i]
             minus == Uncounted(x.queue, x.i)
  <2>0. x.i \in 1..Len(x.queue)
    BY <1>1, <1>4
  <2>1. y = [x EXCEPT !.queue = RemoveAt(x.queue, x.i), !.pings = x.pings - minus]
    BY <1>4 DEF ScanTurn
  <2>2. PICK a, b \in Seq(S) :
           /\ p \in S /\ x.queue = Joined(a, Joined(One(p), b)) /\ RemoveAt(x.queue, x.i) = Joined(a, b)
           /\ Len(a) = x.i - 1 /\ Len(x.queue) = Len(a) + 1 + Len(b)
           /\ \A k \in 1..(x.i - 1) : Joined(a, b)[k] = x.queue[k]
    <3>1. PICK a, b \in Seq(S) : Around(S, x.queue, x.i, a, b)
      BY <1>1, <2>0, AroundEach
    <3> QED
      BY <3>1 DEF Around
  <2>3. minus = PingOf(x.queue[IF local THEN 1 ELSE x.i])
    <3>1. minus = PingsIn(One(x.queue[IF local THEN 1 ELSE x.i]))
      BY DEF Uncounted, One
    <3> QED
      BY <3>1, PingsOne
  <2> HIDE DEF minus, y
  <2>4. Joined(a, b) \in Seq(S) /\ Len(Joined(a, b)) = Len(a) + Len(b) /\ One(p) \in Seq(S)
        /\ Joined(One(p), b) \in Seq(S) /\ Len(a) \in Nat /\ Len(b) \in Nat
    <3>1. p \in S
      BY <2>2
    <3> HIDE DEF p
    <3>2. <<>> \in Seq(S)
      OBVIOUS
    <3>3. One(p) \in Seq(S)
      BY <3>1, <3>2, AppendIsJoined
    <3>4. Joined(One(p), b) \in Seq(S)
      BY <3>3, JoinedType
    <3>5. Joined(a, b) \in Seq(S) /\ Len(Joined(a, b)) = Len(a) + Len(b)
      BY JoinedType
    <3> QED
      BY <3>3, <3>4, <3>5
  <2>5. PingOf(p) \in 0..1 /\ minus \in 0..1
    <3>1. \A z : PingOf(z) \in 0..1
      BY DEF PingOf
    <3> QED
      BY <2>3, <3>1
  <2>6. y \in ScanStates(S) /\ y.queue = Joined(a, b) /\ y.pings = x.pings - minus /\ y.i = x.i
    <3>1. x.pings - minus \in Int
      BY <1>1, <2>5
    <3>2. y = [x EXCEPT !.queue = Joined(a, b), !.pings = x.pings - minus]
      BY <2>1, <2>2
    <3>3. x = [queue |-> x.queue, pings |-> x.pings, i |-> x.i]
      BY <1>1 DEF ScanStates
    <3>4. y = [queue |-> Joined(a, b), pings |-> x.pings - minus, i |-> x.i]
      BY <3>2, <3>3
    <3> QED
      <4>1. y \in ScanStates(S)
        BY <1>1, <2>4, <3>1, <3>4 DEF ScanStates
      <4>2. y.queue = Joined(a, b) /\ y.pings = x.pings - minus /\ y.i = x.i
        BY <3>4
      <4> QED
        BY <4>1, <4>2
  <2>7. Len(y.queue) = Len(x.queue) - 1
    <3>1. Len(y.queue) = Len(a) + Len(b) /\ Len(x.queue) = Len(a) + 1 + Len(b)
      BY <2>2, <2>4, <2>6
    <3> QED
      BY <2>4, <3>1
  <2>8. y.i <= Len(y.queue) + 1
        /\ (y.i > Len(y.queue) \/ Len(y.queue) - y.i + 1 + (n + 1) <= Len(q))
    <3>1. \A i, l, m \in Nat : i <= l + 1 /\ (i > l \/ l - i + 1 + n <= m) /\ ~(i > l)
             => i <= (l - 1) + 1 /\ (l - 1) - i + 1 + (n + 1) <= m
      OBVIOUS
    <3>2. x.i <= (Len(x.queue) - 1) + 1 /\ (Len(x.queue) - 1) - x.i + 1 + (n + 1) <= Len(q)
      BY <1>0, <1>1, <1>4, <3>1
    <3> QED
      BY <2>6, <2>7, <3>2
  <2>9. \A k \in 1..(y.i - 1) : ~SkipsQueue(y.queue[k])
    BY <2>2, <2>6 DEF ScanInv
  <2>10. InOrder(y.queue) = InOrder(q)
    <3>1. Kept(p) = <<>>
      BY <1>4 DEF Kept, Waits
    <3> HIDE DEF p
    <3>2. InOrder(Joined(One(p), b)) = Joined(Kept(p), InOrder(b))
      BY <2>2, InOrderFirst
    <3>3. InOrder(b) \in Seq(S)
      BY InOrderType
    <3>4. InOrder(Joined(One(p), b)) = InOrder(b)
      BY <3>1, <3>2, <3>3, JoinedEmpty
    <3>5. InOrder(Joined(a, Joined(One(p), b))) = Joined(InOrder(a), InOrder(Joined(One(p), b)))
      BY <2>4, InOrderConcat
    <3>6. InOrder(Joined(a, b)) = Joined(InOrder(a), InOrder(b))
      BY InOrderConcat
    <3>7. InOrder(x.queue) = InOrder(q)
      BY DEF ScanInv
    <3> QED
      BY <2>2, <2>6, <3>4, <3>5, <3>6, <3>7
  <2>11. PingsIn(x.queue) = PingsIn(y.queue) + PingOf(p) /\ PingsIn(y.queue) \in Nat
    <3> HIDE DEF p
    <3>1. PingsIn(Joined(a, b)) = PingsIn(a) + PingsIn(b)
      BY PingsConcat
    <3>2. PingsIn(Joined(One(p), b)) = PingOf(p) + PingsIn(b)
      BY <2>4, PingsConcat, PingsOne
    <3>3. PingsIn(Joined(a, Joined(One(p), b))) = PingsIn(a) + PingsIn(Joined(One(p), b))
      BY <2>4, PingsConcat
    <3>4. PingsIn(a) \in Nat /\ PingsIn(b) \in Nat
      BY PingsType
    <3> QED
      BY <2>2, <2>5, <2>6, <3>1, <3>2, <3>3, <3>4
  <2>12. ~local => y.pings = PingsIn(y.queue)
    <3>1. SUFFICES ASSUME ~local PROVE y.pings = PingsIn(y.queue)
      OBVIOUS
    <3>2. minus = PingOf(p) /\ x.pings = PingsIn(x.queue)
      BY <2>3, <3>1 DEF ScanInv
    <3> HIDE DEF p
    <3> QED
      BY <2>5, <2>6, <2>11, <3>2
  <2>13. y.pings >= PingsIn(y.queue)
    <3>1. CASE ~local
      BY <2>11, <2>12, <3>1
    <3>2. CASE local /\ x.i = 1
      <4>1. minus = PingOf(p)
        BY <2>3, <3>2
      <4> HIDE DEF p
      <4> QED
        BY <1>1, <2>5, <2>6, <2>11, <4>1 DEF ScanInv
    <3>3. CASE local /\ x.i # 1
      <4>1. 1 \in 1..(x.i - 1)
        BY <1>1, <3>3
      <4>2. ~SkipsQueue(x.queue[1])
        BY <4>1 DEF ScanInv
      <4>3. minus = 0
        BY <2>3, <3>3, <4>2 DEF PingOf, SkipsQueue, IsPing
      <4> HIDE DEF p
      <4> QED
        BY <1>1, <2>5, <2>6, <2>11, <4>3 DEF ScanInv
    <3> QED
      BY <3>1, <3>2, <3>3
  <2> QED
    BY <2>6, <2>8, <2>9, <2>10, <2>12, <2>13 DEF ScanInv, y
<1> QED
  BY <1>2, <1>3, <1>4

\* A turn keeps the types.
LEMMA ScanTurnType ==
    ASSUME NEW S, NEW x \in ScanStates(S)
    PROVE  ScanTurn(x) \in ScanStates(S)
<1>1. x.queue \in Seq(S) /\ Len(x.queue) \in Nat /\ x.pings \in Int /\ x.i \in Nat \ {0}
  BY DEF ScanStates
<1>2. CASE x.i > Len(x.queue)
  BY <1>2 DEF ScanTurn
<1>3. CASE ~(x.i > Len(x.queue)) /\ ~SkipsQueue(x.queue[x.i])
  <2>1. ScanTurn(x) = [x EXCEPT !.i = x.i + 1]
    BY <1>3 DEF ScanTurn
  <2> QED
    BY <1>1, <2>1 DEF ScanStates
<1>4. CASE ~(x.i > Len(x.queue)) /\ SkipsQueue(x.queue[x.i])
  <2> DEFINE minus == Uncounted(x.queue, x.i)
  <2>1. ScanTurn(x) = [x EXCEPT !.queue = RemoveAt(x.queue, x.i), !.pings = x.pings - minus]
    BY <1>4 DEF ScanTurn
  <2>2. minus \in Int
    <3>1. minus = PingsIn(One(x.queue[IF local THEN 1 ELSE x.i]))
      BY DEF Uncounted, One
    <3> QED
      BY <3>1, PingsOne DEF PingOf
  <2>3. x.i \in 1..Len(x.queue)
    BY <1>1, <1>4
  <2>4. PICK a, b \in Seq(S) : Around(S, x.queue, x.i, a, b)
    BY <1>1, <2>3, AroundEach
  <2>5. RemoveAt(x.queue, x.i) \in Seq(S)
    BY <2>4, JoinedType DEF Around
  <2> HIDE DEF minus
  <2>6. x.pings - minus \in Int
    BY <1>1, <2>2
  <2> QED
    BY <1>1, <2>1, <2>5, <2>6 DEF ScanStates
<1> QED
  BY <1>2, <1>3, <1>4

\* Before its first turn
ScanStart(q, pings) == [queue |-> q, pings |-> pings, i |-> 1]

\* Scanned is the state after as many turns as there are messages.
LEMMA ScannedUnrolled ==
    ASSUME NEW S, NEW q \in Seq(S), NEW pings \in Int
    PROVE  \E g \in [Nat -> ScanStates(S)] :
              /\ g[0] = ScanStart(q, pings) /\ \A n \in Nat : g[n + 1] = ScanTurn(g[n])
              /\ Scanned(q, pings) = g[Len(q)]
<1> DEFINE body(f) == [n \in Nat |-> IF n = 0 THEN ScanStart(q, pings) ELSE ScanTurn(f[n - 1])]
           F == CHOOSE f : f = body(f)
           X == ScanStates(S)
           step == [n \in Nat |-> [x \in X |-> ScanTurn(x)]]
<1>1. ScanStart(q, pings) \in X
  BY DEF ScanStates, ScanStart
<1>2. \A x \in X : ScanTurn(x) \in X
  BY ScanTurnType
<1>3. Scanned(q, pings) = F[Len(q)]
  BY DEF Scanned, ScanStart
<1> HIDE DEF X
<1>4. step \in StepFunctions(X)
  BY <1>2 DEF StepFunctions
<1>5. PICK h : Recurs(h, X, ScanStart(q, pings), step)
  <2> HIDE DEF step
  <2> QED
    BY <1>1, <1>4, Recursion
<1>6. h \in [Nat -> X] /\ h[0] = ScanStart(q, pings) /\ \A n \in Nat : h[n + 1] = ScanTurn(h[n])
  <2>1. \A n \in Nat, x \in X : step[n][x] = ScanTurn(x)
    OBVIOUS
  <2> HIDE DEF step
  <2> QED
    BY <1>5, <2>1 DEF Recurs
<1>7. \A n \in Nat \ {0} : h[n] = ScanTurn(h[n - 1])
  <2>1. \A n \in Nat \ {0} : n - 1 \in Nat /\ (n - 1) + 1 = n
    OBVIOUS
  <2> QED
    BY <1>6, <2>1
<1>8. h = body(h)
  <2>1. \A n \in Nat : h[n] = body(h)[n]
    BY <1>6, <1>7
  <2> QED
    BY <1>6, <2>1
<1>9. F = body(F)
  <2> HIDE DEF body
  <2> QED
    BY <1>8
<1> HIDE DEF F
<1>10. F[0] = ScanStart(q, pings) /\ \A n \in Nat : F[n + 1] = ScanTurn(F[n])
  <2>1. \A n \in Nat : F[n] = body(F)[n]
    <3> HIDE DEF body
    <3> QED
      BY <1>9
  <2>2. \A n \in Nat : F[n] = IF n = 0 THEN ScanStart(q, pings) ELSE ScanTurn(F[n - 1])
    BY <2>1
  <2>3. \A n \in Nat : n + 1 # 0 /\ (n + 1) - 1 = n /\ n + 1 \in Nat
    OBVIOUS
  <2> QED
    BY <2>2, <2>3
<1> DEFINE A == {n \in Nat : F[n] = h[n]}
<1>11. 0 \in A
  BY <1>6, <1>10
<1>12. ASSUME NEW n \in A PROVE n + 1 \in A
  <2>1. n \in Nat /\ F[n] = h[n]
    OBVIOUS
  <2>2. F[n + 1] = ScanTurn(F[n]) /\ h[n + 1] = ScanTurn(h[n])
    BY <1>6, <1>10, <2>1
  <2> QED
    BY <2>1, <2>2
<1> HIDE DEF A
<1>13. Nat \subseteq A
  BY <1>11, <1>12, Induction
<1>14. F[Len(q)] = h[Len(q)]
  BY <1>13 DEF A
<1> QED
  BY <1>3, <1>6, <1>14 DEF X

\* The scan leaves no ping, and nothing else that need not wait; what waits stays in order.
LEMMA ScannedAll ==
    ASSUME NEW S, NEW q \in Seq(S), NEW pings \in Int, pings >= PingsIn(q),
           ~local => pings = PingsIn(q)
    PROVE  LET s == Scanned(q, pings) IN
           /\ s.queue \in Seq(S) /\ s.pings \in Nat
           /\ PingsIn(s.queue) = 0 /\ (~local => s.pings = 0)
           /\ InOrder(s.queue) = InOrder(q)
<1>1. PICK g \in [Nat -> ScanStates(S)] :
         /\ g[0] = ScanStart(q, pings) /\ \A n \in Nat : g[n + 1] = ScanTurn(g[n])
         /\ Scanned(q, pings) = g[Len(q)]
  BY ScannedUnrolled
<1> DEFINE A == {n \in Nat : ScanInv(S, q, n, g[n])}
<1>2. 0 \in A
  <2>1. ScanStart(q, pings) \in ScanStates(S) /\ ScanStart(q, pings).queue = q
        /\ ScanStart(q, pings).i = 1 /\ ScanStart(q, pings).pings = pings
    BY DEF ScanStates, ScanStart
  <2>2. ScanInv(S, q, 0, ScanStart(q, pings))
    <3>1. 1 <= Len(q) + 1 /\ Len(q) - 1 + 1 + 0 <= Len(q)
      OBVIOUS
    <3>2. \A k \in 1..(1 - 1) : FALSE
      OBVIOUS
    <3> QED
      BY <2>1, <3>1, <3>2 DEF ScanInv
  <2> QED
    BY <1>1, <2>2
<1>3. ASSUME NEW n \in A
      PROVE  n + 1 \in A
  <2>1. n \in Nat /\ ScanInv(S, q, n, g[n])
    OBVIOUS
  <2>2. ScanInv(S, q, n + 1, ScanTurn(g[n]))
    BY <2>1, ScanTurnInv
  <2> QED
    BY <1>1, <2>1, <2>2
<1> HIDE DEF A
<1>4. Nat \subseteq A
  BY <1>2, <1>3, Induction
<1> DEFINE s == Scanned(q, pings)
           N == Len(q)
<1>5. N \in Nat /\ s = g[N] /\ ScanInv(S, q, N, s)
  <2>1. N \in Nat
    OBVIOUS
  <2>2. ScanInv(S, q, N, g[N])
    BY <1>4, <2>1 DEF A
  <2> QED
    BY <1>1, <2>1, <2>2
<1> HIDE DEF s, N
<1>6. s.queue \in Seq(S) /\ Len(s.queue) \in Nat /\ s.pings \in Int /\ s.i \in Nat
  BY <1>5 DEF ScanInv, ScanStates
<1>7. s.i > Len(s.queue)
  <2>1. s.i > Len(s.queue) \/ Len(s.queue) - s.i + 1 + N <= N
    BY <1>5 DEF ScanInv, N
  <2> QED
    BY <1>5, <1>6, <2>1
<1>8. \A k \in 1..Len(s.queue) : ~SkipsQueue(s.queue[k])
  <2>1. \A k \in 1..(s.i - 1) : ~SkipsQueue(s.queue[k])
    BY <1>5 DEF ScanInv
  <2>2. \A k \in 1..Len(s.queue) : k \in 1..(s.i - 1)
    BY <1>6, <1>7
  <2> QED
    BY <2>1, <2>2
<1>9. PingsIn(s.queue) = 0
  BY <1>6, <1>8, NoPings
<1>10. s.pings >= 0 /\ (~local => s.pings = 0) /\ InOrder(s.queue) = InOrder(q)
  BY <1>5, <1>9 DEF ScanInv
<1> QED
  BY <1>6, <1>9, <1>10 DEF s

-----------------------------------------------------------------------------
(* What holds whatever the messages say *)

\* The bytes of the messages m.
BytesOf(m) == UNION {Range(m[i]) : i \in DOMAIN m}

\* What SendData makes: the i-th message is of some type and knows its number.
Sendings(m) ==
    m \in Seq(Pieces(Octets)) /\ \A i \in 1..Len(m) : \E t \in DOMAIN Types : m[i] = Bytes(i, t)

\* A message as the server makes it.
LEMMA BytesType ==
    ASSUME NEW n \in Nat, NEW t \in DOMAIN Types
    PROVE  /\ Bytes(n, t) \in Pieces(Octets) /\ Len(Bytes(n, t)) = Types[t].bytes
           /\ Bytes(n, t)[1] = Byte(n, t, 1)
<1>1. Types[t].bytes \in Nat \ {0}
  BY MessageAssumption
<1>2. \A k \in 1..Types[t].bytes : Byte(n, t, k) \in Octets
  BY <1>1 DEF Byte, Octets
<1>3. Bytes(n, t) \in Seq(Octets) /\ Len(Bytes(n, t)) = Types[t].bytes
  BY <1>1, <1>2 DEF Bytes
<1>4. 1 \in 1..Types[t].bytes
  BY <1>1
<1>5. Bytes(n, t)[1] = Byte(n, t, 1)
  BY <1>4 DEF Bytes
<1> QED
  BY <1>1, <1>3, <1>5 DEF Pieces

\* What is made of some bytes is made of more bytes.
LEMMA Monotone ==
    ASSUME NEW A, NEW B, A \subseteq B
    PROVE  /\ \A s \in Seq(A) : s \in Seq(B)
           /\ \A s \in Seq(Pieces(A)) : s \in Seq(Pieces(B))
           /\ \A s \in Seq(Chunks(A)) : s \in Seq(Chunks(B))
           /\ \A s \in Seq(Honest(A)) : s \in Seq(Honest(B))
           /\ \A s \in Seq(Wholes(A)) : s \in Seq(Wholes(B))
<1>1. \A s \in Seq(A) : s \in Seq(B)
  BY SeqMonotonic
<1>2. Pieces(A) \subseteq Pieces(B)
  BY <1>1 DEF Pieces
<1>3. Chunks(A) \subseteq Chunks(B) /\ Honest(A) \subseteq Honest(B) /\ Wholes(A) \subseteq Wholes(B)
  BY <1>2 DEF Chunks, Honest, Wholes
<1> QED
  BY <1>1, <1>2, <1>3, SeqMonotonic

\* Every message is made of its bytes.
LEMMA BytesOfSendings ==
    ASSUME NEW m, Sendings(m)
    PROVE  BytesOf(m) \in SUBSET Octets /\ m \in Seq(Pieces(BytesOf(m)))
<1>1. m \in Seq(Pieces(Octets)) /\ DOMAIN m = 1..Len(m)
  BY DEF Sendings
<1>2. \A i \in 1..Len(m) : m[i] \in Seq(Octets) /\ m[i] # <<>>
  BY <1>1 DEF Pieces
<1>3. \A i \in 1..Len(m) : Range(m[i]) \subseteq Octets /\ Range(m[i]) \subseteq BytesOf(m)
  BY <1>1, <1>2 DEF Range, BytesOf
<1>4. BytesOf(m) \subseteq Octets
  BY <1>1, <1>3 DEF BytesOf
<1>5. ASSUME NEW i \in 1..Len(m) PROVE m[i] \in Pieces(BytesOf(m))
  <2>1. m[i] \in Seq(Octets) /\ m[i] # <<>> /\ \A k \in 1..Len(m[i]) : m[i][k] \in Range(m[i])
    BY <1>2 DEF Range
  <2>2. \A k \in 1..Len(m[i]) : m[i][k] \in BytesOf(m)
    BY <1>3, <2>1
  <2> QED
    BY <2>1, <2>2 DEF Pieces
<1> QED
  BY <1>1, <1>4, <1>5

\* The next message keeps what is known of the earlier ones.
LEMMA SendingsMore ==
    ASSUME NEW m, Sendings(m), NEW t \in DOMAIN Types
    PROVE  LET p == Bytes(Len(m) + 1, t) IN
           /\ Sendings(Append(m, p)) /\ BytesOf(m) \subseteq BytesOf(Append(m, p))
           /\ p \in Pieces(BytesOf(Append(m, p)))
<1> DEFINE p == Bytes(Len(m) + 1, t)
           z == Append(m, p)
<1>1. m \in Seq(Pieces(Octets)) /\ Len(m) \in Nat /\ DOMAIN m = 1..Len(m)
  BY DEF Sendings
<1>2. p \in Pieces(Octets)
  BY <1>1, BytesType
<1>3. /\ z \in Seq(Pieces(Octets)) /\ Len(z) = Len(m) + 1 /\ z[Len(m) + 1] = p
      /\ \A i \in 1..Len(m) : z[i] = m[i]
  BY <1>1, <1>2, AppendProperties
<1>4. Sendings(z)
  <2>1. ASSUME NEW i \in 1..Len(z) PROVE \E u \in DOMAIN Types : z[i] = Bytes(i, u)
    <3>1. i \in 1..Len(m) \/ i = Len(m) + 1
      BY <1>1, <1>3
    <3> HIDE DEF z
    <3> QED
      BY <1>3, <3>1 DEF Sendings
  <2> HIDE DEF z
  <2> QED
    BY <1>3, <2>1 DEF Sendings
<1> HIDE DEF z, p
<1>5. z \in Seq(Pieces(BytesOf(z)))
  BY <1>4, BytesOfSendings
<1>6. Len(m) + 1 \in 1..Len(z) /\ DOMAIN z = 1..Len(z) /\ \A i \in 1..Len(m) : i \in 1..Len(z)
  BY <1>1, <1>3
<1>7. BytesOf(m) \subseteq BytesOf(z)
  BY <1>1, <1>3, <1>6 DEF BytesOf
<1>8. p \in Pieces(BytesOf(z))
  <2>1. z[Len(m) + 1] \in Pieces(BytesOf(z))
    BY <1>5, <1>6
  <2> QED
    BY <1>3, <2>1
<1> QED
  BY <1>4, <1>7, <1>8 DEF z, p
-----------------------------------------------------------------------------
\* What holds whatever lengths messages state: what is where, and that numPings counts pings.
TypeInv ==
    /\ local \in BOOLEAN /\ reading \in BOOLEAN /\ numPings \in Nat
    /\ Sendings(sent)
    /\ outgoingData \in Seq(Pieces(BytesOf(sent)))
    /\ chunks \in Seq(Chunks(BytesOf(sent)))
    /\ fragmentBuffer \in Seq(BytesOf(sent))
    /\ msgQueue \in Seq(Pieces(BytesOf(sent)))
    /\ taken \in Seq(Pieces(BytesOf(sent)))
    /\ numPings >= PingsIn(msgQueue) /\ (~local => numPings = PingsIn(msgQueue))
    /\ reading /\ ~local => PingsIn(msgQueue) = 0

\* The types at first.
LEMMA InitType == Init => TypeInv
<1> SUFFICES ASSUME Init PROVE TypeInv
  OBVIOUS
<1>1. /\ local \in BOOLEAN /\ reading = FALSE /\ numPings = 0
      /\ sent = <<>> /\ outgoingData = <<>> /\ chunks = <<>> /\ fragmentBuffer = <<>>
      /\ msgQueue = <<>> /\ taken = <<>>
  BY DEF Init
<1>2. \A S : <<>> \in Seq(S)
  BY EmptySeq
<1>3. Sendings(<<>>)
  BY <1>2 DEF Sendings
<1>4. PingsIn(msgQueue) = 0
  BY <1>1, PingsEmpty
<1>5. /\ outgoingData \in Seq(Pieces(BytesOf(sent))) /\ chunks \in Seq(Chunks(BytesOf(sent)))
      /\ fragmentBuffer \in Seq(BytesOf(sent)) /\ msgQueue \in Seq(Pieces(BytesOf(sent)))
      /\ taken \in Seq(Pieces(BytesOf(sent)))
  BY <1>1, <1>2, Zenon
<1>6. Sendings(sent)
  BY <1>1, <1>3
<1>7. numPings \in Nat /\ numPings >= PingsIn(msgQueue) /\ numPings = PingsIn(msgQueue)
  BY <1>1, <1>4
<1> QED
  BY <1>1, <1>5, <1>6, <1>7 DEF TypeInv

\* SendData keeps the types and the count of pings.
LEMMA SendDataType ==
    ASSUME TypeInv, NEW t \in DOMAIN Types, SendData(t)
    PROVE  TypeInv'
<1> DEFINE p == Bytes(Len(sent) + 1, t)
           B == BytesOf(sent)
           C == BytesOf(Append(sent, p))
<1>1. Sendings(Append(sent, p)) /\ B \subseteq C /\ p \in Pieces(C)
  BY SendingsMore DEF TypeInv
<1>2. sent' = Append(sent, p) /\ BytesOf(sent)' = C
  BY DEF SendData
<1>3. UNCHANGED <<local, chunks, fragmentBuffer, reading, taken>>
  BY DEF SendData
<1> HIDE DEF p, C
<1>4. /\ outgoingData \in Seq(Pieces(C)) /\ chunks \in Seq(Chunks(C)) /\ fragmentBuffer \in Seq(C)
      /\ msgQueue \in Seq(Pieces(C)) /\ taken \in Seq(Pieces(C))
  BY <1>1, Monotone DEF TypeInv
<1>5. PingsIn(msgQueue) \in Nat /\ PingOf(p) \in Nat
  BY <1>4, PingsType DEF PingOf
<1>6. /\ outgoingData' \in Seq(Pieces(C)) /\ msgQueue' \in Seq(Pieces(C)) /\ numPings' \in Nat
      /\ numPings' >= PingsIn(msgQueue') /\ (~local => numPings' = PingsIn(msgQueue'))
      /\ ~local => UNCHANGED msgQueue
  <2>1. CASE ~local
    <3>1. outgoingData' = Append(outgoingData, p) /\ UNCHANGED <<msgQueue, numPings>>
      BY <2>1 DEF SendData, p
    <3> QED
      BY <1>1, <1>4, <2>1, <3>1, AppendProperties DEF TypeInv
  <2>2. CASE local /\ ~IsValidPacket(p)
    <3>1. UNCHANGED <<outgoingData, msgQueue, numPings>>
      BY <2>2 DEF SendData, p
    <3> QED
      BY <1>4, <2>2, <3>1 DEF TypeInv
  <2>3. CASE local /\ IsValidPacket(p)
    <3>1. /\ UNCHANGED outgoingData
          /\ msgQueue' = Append(msgQueue, p) /\ numPings' = numPings + PingsIn(One(p))
      BY <2>3 DEF SendData, p, One
    <3>2. Append(msgQueue, p) \in Seq(Pieces(C))
      BY <1>1, <1>4, AppendProperties
    <3>3. PingsIn(Append(msgQueue, p)) = PingsIn(msgQueue) + PingOf(p) /\ PingsIn(One(p)) = PingOf(p)
      BY <1>1, <1>4, PingsAppend, PingsOne
    <3>4. numPings \in Nat /\ numPings >= PingsIn(msgQueue)
      BY DEF TypeInv
    <3>5. /\ numPings + PingOf(p) \in Nat /\ numPings + PingOf(p) >= PingsIn(msgQueue) + PingOf(p)
      BY <1>5, <3>4
    <3> QED
      BY <1>4, <2>3, <3>1, <3>2, <3>3, <3>5
  <2> QED
    BY <2>1, <2>2, <2>3 DEF TypeInv
<1> QED
  BY <1>1, <1>2, <1>3, <1>4, <1>6 DEF TypeInv

\* Flush in terms of Filled from its first state.
LEMMA FlushIs ==
    ASSUME NEW forced, NEW bandwidth, Flush(forced, bandwidth)
    PROVE  LET s == Filled(FillStart(outgoingData, chunks, forced, bandwidth)) IN
           /\ ~local /\ outgoingData # <<>>
           /\ UNCHANGED <<local, fragmentBuffer, msgQueue, numPings, reading, sent, taken>>
           /\ outgoingData' = s.outgoingData /\ chunks' = s.chunks
BY DEF Flush, FillStart

\* Flush keeps the types.
LEMMA FlushType ==
    ASSUME TypeInv, NEW forced \in BOOLEAN, NEW bandwidth \in Int, Flush(forced, bandwidth)
    PROVE  TypeInv'
<1> DEFINE B == BytesOf(sent)
           x == FillStart(outgoingData, chunks, forced, bandwidth)
           s == Filled(x)
<1>1. B \in SUBSET Octets
  BY BytesOfSendings DEF TypeInv
<1>2. x \in FillStates(B)
  BY FillStartType DEF TypeInv
<1> HIDE DEF x
<1>3. s \in FillStates(B)
  BY <1>1, <1>2, FilledType
<1>4. /\ UNCHANGED <<local, fragmentBuffer, msgQueue, numPings, reading, sent, taken>>
      /\ outgoingData' = s.outgoingData /\ chunks' = s.chunks
  BY FlushIs DEF x
<1>5. outgoingData' \in Seq(Pieces(B)) /\ chunks' \in Seq(Chunks(B))
  BY <1>3, <1>4 DEF FillStates
<1> HIDE DEF s
<1> QED
  BY <1>4, <1>5 DEF TypeInv

\* ProcessRawPacket in terms of Parsed.
LEMMA ReceivedIs ==
    ASSUME ProcessRawPacket
    PROVE  LET p == Parsed(Joined(fragmentBuffer, Head(chunks))) IN
           /\ chunks # <<>> /\ ~reading /\ chunks' = Tail(chunks)
           /\ UNCHANGED <<local, outgoingData, reading, sent, taken>>
           /\ msgQueue' = Joined(msgQueue, p.packets)
           /\ numPings' = numPings + PingsIn(p.packets)
           /\ fragmentBuffer' = p.fragment
BY DEF ProcessRawPacket, Continued, Joined

\* ProcessRawPacket keeps the types and counts the pings it queues.
LEMMA ReceivedType ==
    ASSUME TypeInv, ProcessRawPacket
    PROVE  TypeInv'
<1> DEFINE B == BytesOf(sent)
           buf == Joined(fragmentBuffer, Head(chunks))
           p == Parsed(buf)
<1>1. B \in SUBSET Octets
  BY BytesOfSendings DEF TypeInv
<1>2. /\ ~reading /\ chunks' = Tail(chunks) /\ chunks # <<>>
      /\ UNCHANGED <<local, outgoingData, reading, sent, taken>>
      /\ msgQueue' = Joined(msgQueue, p.packets)
      /\ numPings' = numPings + PingsIn(p.packets)
      /\ fragmentBuffer' = p.fragment
  BY ReceivedIs
<1>3. Head(chunks) \in Chunks(B) /\ Tail(chunks) \in Seq(Chunks(B))
  BY <1>2, HeadAndTail DEF TypeInv
<1>4. buf \in Seq(B)
  <2>1. Head(chunks) \in Seq(B) /\ fragmentBuffer \in Seq(B)
    BY <1>3 DEF Chunks, Pieces, TypeInv
  <2> QED
    BY <2>1, JoinedType
<1> HIDE DEF buf
<1>5. p.packets \in Seq(Pieces(B)) /\ p.fragment \in Seq(B)
  BY <1>1, <1>4, ParsedAll DEF ParseStates
<1> HIDE DEF p
<1>6. msgQueue \in Seq(Pieces(B))
  BY DEF TypeInv
<1>7. msgQueue' \in Seq(Pieces(B))
  BY <1>2, <1>5, <1>6, JoinedType
<1>8. PingsIn(msgQueue') = PingsIn(msgQueue) + PingsIn(p.packets)
  BY <1>2, <1>5, <1>6, PingsConcat
<1>9. PingsIn(msgQueue) \in Nat /\ PingsIn(p.packets) \in Nat
  BY <1>5, <1>6, PingsType
<1>10. numPings' \in Nat /\ numPings' >= PingsIn(msgQueue') /\ (~local => numPings' = PingsIn(msgQueue'))
  BY <1>2, <1>8, <1>9 DEF TypeInv
<1> QED
  BY <1>2, <1>3, <1>5, <1>7, <1>10 DEF TypeInv

\* After ClientReadNet's look no ping is in the queue of a UDPConnection, whether it looked or not.
LEMMA ClientReadNetType ==
    ASSUME TypeInv, NEW time \in BOOLEAN, ClientReadNet(time)
    PROVE  TypeInv'
<1> DEFINE B == BytesOf(sent)
           s == Scanned(msgQueue, numPings)
<1>1. UNCHANGED <<local, outgoingData, chunks, fragmentBuffer, sent, taken>> /\ reading' = TRUE
  BY DEF ClientReadNet
<1>2. msgQueue \in Seq(Pieces(B)) /\ numPings \in Nat /\ PingsIn(msgQueue) \in Nat
      /\ numPings >= PingsIn(msgQueue) /\ (~local => numPings = PingsIn(msgQueue))
  BY PingsType DEF TypeInv
<1>3. CASE Scans(time)
  <2>1. msgQueue' = s.queue /\ numPings' = s.pings
    BY <1>3 DEF ClientReadNet
  <2>2. /\ s.queue \in Seq(Pieces(B)) /\ s.pings \in Nat
        /\ PingsIn(s.queue) = 0 /\ (~local => s.pings = 0)
    BY <1>2, ScannedAll
  <2> HIDE DEF s
  <2>3. /\ msgQueue' \in Seq(Pieces(B)) /\ numPings' \in Nat /\ PingsIn(msgQueue') = 0
        /\ numPings' >= PingsIn(msgQueue') /\ (~local => numPings' = PingsIn(msgQueue'))
    BY <2>1, <2>2
  <2> QED
    BY <1>1, <2>3 DEF TypeInv
<1>4. CASE ~Scans(time)
  <2>1. UNCHANGED <<msgQueue, numPings>>
    BY <1>4 DEF ClientReadNet
  <2>2. ~(numPings > 0)
    BY <1>4 DEF Scans
  <2>3. PingsIn(msgQueue) = 0
    BY <1>2, <2>2
  <2> QED
    BY <1>1, <2>1, <2>3 DEF TypeInv
<1> QED
  BY <1>3, <1>4

\* GetData in terms of the first message and the rest.
LEMMA GotIs ==
    ASSUME NEW S, msgQueue \in Seq(S), GetData
    PROVE  /\ reading /\ msgQueue' = Tail(msgQueue) /\ Head(msgQueue) \in S /\ Tail(msgQueue) \in Seq(S)
           /\ msgQueue = Joined(One(Head(msgQueue)), Tail(msgQueue))
           /\ numPings' = numPings - PingOf(Head(msgQueue))
           /\ PingsIn(msgQueue) = PingOf(Head(msgQueue)) + PingsIn(Tail(msgQueue))
           /\ taken' = IF SkipsQueue(Head(msgQueue)) THEN taken ELSE Append(taken, Head(msgQueue))
           /\ UNCHANGED <<local, outgoingData, chunks, fragmentBuffer, reading, sent>>
<1> DEFINE h == Head(msgQueue)
           r == Tail(msgQueue)
<1>1. h \in S /\ r \in Seq(S) /\ One(h) \in Seq(S) /\ msgQueue = Joined(One(h), r)
  BY HeadAndTail DEF GetData
<1>2. numPings' = numPings - PingsIn(One(h))
  BY DEF GetData, One
<1>3. PingsIn(Joined(One(h), r)) = PingsIn(One(h)) + PingsIn(r)
  BY <1>1, PingsConcat
<1>4. PingsIn(One(h)) = PingOf(h)
  BY PingsOne
<1> QED
  BY <1>1, <1>2, <1>3, <1>4 DEF GetData

\* GetData keeps the types and the count of pings.
LEMMA GetDataType ==
    ASSUME TypeInv, GetData
    PROVE  TypeInv'
<1> DEFINE B == BytesOf(sent)
           h == Head(msgQueue)
           r == Tail(msgQueue)
<1>1. msgQueue \in Seq(Pieces(B)) /\ taken \in Seq(Pieces(B))
  BY DEF TypeInv
<1>2. /\ reading /\ msgQueue' = r /\ h \in Pieces(B) /\ r \in Seq(Pieces(B))
      /\ numPings' = numPings - PingOf(h) /\ PingsIn(msgQueue) = PingOf(h) + PingsIn(r)
      /\ taken' = IF SkipsQueue(h) THEN taken ELSE Append(taken, h)
      /\ UNCHANGED <<local, outgoingData, chunks, fragmentBuffer, reading, sent>>
  BY <1>1, GotIs
<1> HIDE DEF h, r
<1>3. PingOf(h) \in Nat /\ PingsIn(r) \in Nat
  BY <1>2, PingsType DEF PingOf
<1>4. /\ numPings' \in Nat /\ numPings' >= PingsIn(r) /\ (~local => numPings' = PingsIn(r))
      /\ reading /\ ~local => PingsIn(r) = 0
  BY <1>2, <1>3 DEF TypeInv
<1>5. taken' \in Seq(Pieces(B))
  BY <1>1, <1>2, AppendProperties
<1> QED
  BY <1>2, <1>4, <1>5 DEF TypeInv

\* Every step keeps the types and the count of pings.
LEMMA TypePreserved == TypeInv /\ [Next]_vars => TypeInv'
<1> SUFFICES ASSUME TypeInv, [Next]_vars
             PROVE  TypeInv'
  OBVIOUS
<1>1. ASSUME NEW t \in DOMAIN Types, SendData(t) PROVE TypeInv'
  BY <1>1, SendDataType
<1>2. ASSUME NEW b \in -1..MaxBandwidth, Flush(FALSE, b) PROVE TypeInv'
  <2>1. b \in Int /\ FALSE \in BOOLEAN
    BY MessageAssumption
  <2> QED
    BY <1>2, <2>1, FlushType
<1>3. CASE Flush(TRUE, -1)
  <2>1. -1 \in Int /\ TRUE \in BOOLEAN
    OBVIOUS
  <2> QED
    BY <1>3, <2>1, FlushType, Zenon
<1>4. CASE ProcessRawPacket
  BY <1>4, ReceivedType
<1>5. ASSUME NEW time \in BOOLEAN, ClientReadNet(time) PROVE TypeInv'
  BY <1>5, ClientReadNetType
<1>6. CASE GetData
  BY <1>6, GetDataType
<1>7. CASE ClientReadNetEnds
  BY <1>7 DEF ClientReadNetEnds, TypeInv
<1>8. CASE UNCHANGED vars
  BY <1>8 DEF vars, TypeInv
<1> QED
  BY <1>1, <1>2, <1>3, <1>4, <1>5, <1>6, <1>7, <1>8 DEF Next

-----------------------------------------------------------------------------
(* Messages as long as they say *)

\* A message is not longer than it says, if the client can read its length at all.
LengthsTold == \A t \in DOMAIN Types : Types[t].says >= Types[t].head => Types[t].says >= Types[t].bytes

\* What waits of the messages sent was taken, or is in the queue, in whole messages W between the
\* two ends, or not yet in chunks.
OnTheWay(W) ==
    /\ Joined(fragmentBuffer, FlattenSeq(chunks)) = FlattenSeq(W)
    /\ InOrder(sent) = Joined(Joined(taken, InOrder(msgQueue)), Joined(InOrder(W), InOrder(outgoingData)))
    /\ local => W = <<>>

\* The invariant of the stream.
WholeInv ==
    /\ local => outgoingData = <<>> /\ chunks = <<>> /\ fragmentBuffer = <<>>
    /\ outgoingData \in Seq(Honest(BytesOf(sent)))
    /\ msgQueue \in Seq(Wholes(BytesOf(sent)))
    /\ \E W \in Seq(Wholes(BytesOf(sent))) : OnTheWay(W)

\* Nothing is on the way at first.
LEMMA InitWhole == Init => WholeInv
<1> SUFFICES ASSUME Init PROVE WholeInv
  OBVIOUS
<1>1. /\ sent = <<>> /\ outgoingData = <<>> /\ chunks = <<>> /\ fragmentBuffer = <<>>
      /\ msgQueue = <<>> /\ taken = <<>>
  BY DEF Init
<1>2. \A S : <<>> \in Seq(S)
  BY EmptySeq
<1>3. Joined(<<>>, <<>>) = <<>>
  BY <1>2, JoinedEmpty
<1>4. OnTheWay(<<>>)
  BY <1>1, <1>3, FlattenEmpty, InOrderEmpty DEF OnTheWay
<1>5. /\ outgoingData \in Seq(Honest(BytesOf(sent))) /\ msgQueue \in Seq(Wholes(BytesOf(sent)))
      /\ <<>> \in Seq(Wholes(BytesOf(sent)))
  BY <1>1, <1>2, Zenon
<1> QED
  BY <1>1, <1>4, <1>5 DEF WholeInv

\* The parts of the stream are sequences of packets.
LEMMA StreamTypes ==
    ASSUME TypeInv, WholeInv, NEW W \in Seq(Wholes(BytesOf(sent)))
    PROVE  LET P == Pieces(BytesOf(sent)) IN
           /\ taken \in Seq(P) /\ InOrder(msgQueue) \in Seq(P) /\ InOrder(W) \in Seq(P)
           /\ InOrder(outgoingData) \in Seq(P) /\ InOrder(sent) \in Seq(P)
           /\ W \in Seq(P) /\ sent \in Seq(P) /\ outgoingData \in Seq(P) /\ msgQueue \in Seq(P)
<1> DEFINE P == Pieces(BytesOf(sent))
<1>1. sent \in Seq(P) /\ outgoingData \in Seq(P) /\ msgQueue \in Seq(P) /\ taken \in Seq(P)
  BY BytesOfSendings DEF TypeInv
<1>2. W \in Seq(P)
  BY SeqMonotonic DEF Wholes
<1> HIDE DEF P
<1>3. InOrder(msgQueue) \in Seq(P) /\ InOrder(W) \in Seq(P) /\ InOrder(outgoingData) \in Seq(P)
      /\ InOrder(sent) \in Seq(P)
  BY <1>1, <1>2, InOrderType
<1> QED
  BY <1>1, <1>2, <1>3 DEF P

\* Four sequences behind one another, and a fifth
LEMMA FourJoined ==
    ASSUME NEW S, NEW a \in Seq(S), NEW b \in Seq(S), NEW c \in Seq(S), NEW d \in Seq(S), NEW e \in Seq(S)
    PROVE  /\ Joined(Joined(Joined(a, b), Joined(c, d)), e) = Joined(Joined(a, b), Joined(c, Joined(d, e)))
           /\ Joined(Joined(a, Joined(b, c)), Joined(d, e)) = Joined(Joined(a, b), Joined(Joined(c, d), e))
           /\ Joined(Joined(a, b), c) = Joined(a, Joined(b, c))
<1>1. Joined(a, b) \in Seq(S) /\ Joined(c, d) \in Seq(S) /\ Joined(b, c) \in Seq(S) /\ Joined(d, e) \in Seq(S)
  BY JoinedType
<1>2. Joined(Joined(Joined(a, b), Joined(c, d)), e) = Joined(Joined(a, b), Joined(Joined(c, d), e))
  BY <1>1, JoinedAssociative
<1>3. Joined(Joined(c, d), e) = Joined(c, Joined(d, e))
  BY JoinedAssociative
<1>4. Joined(a, Joined(b, c)) = Joined(Joined(a, b), c)
  BY JoinedAssociative
<1>5. Joined(Joined(Joined(a, b), c), Joined(d, e)) = Joined(Joined(a, b), Joined(c, Joined(d, e)))
  BY <1>1, JoinedAssociative
<1> QED
  BY <1>2, <1>3, <1>4, <1>5

\* A whole message is valid.
LEMMA WholeIsValid ==
    ASSUME NEW B \in SUBSET Octets, NEW p \in Wholes(B)
    PROVE  IsValidPacket(p)
<1>1. p \in Pieces(B) /\ p[1] = p[1] /\ Len(p) \in Nat
  BY DEF Wholes, Pieces
<1>2. Len(p) >= Len(p)
  BY <1>1
<1> QED
  BY <1>1, <1>2, WholeLength

\* If lengths are told, what SendData makes is whole if it is valid.
LEMMA SentIsHonest ==
    ASSUME LengthsTold, NEW n \in Nat, NEW t \in DOMAIN Types, IsValidPacket(Bytes(n, t))
    PROVE  IsWhole(Bytes(n, t))
<1> DEFINE p == Bytes(n, t)
<1>1. p[1] = Byte(n, t, 1) /\ Len(p) = Types[t].bytes
  BY BytesType
<1>2. p[1].at = 1 /\ p[1].type = t
  BY <1>1 DEF Byte
<1>3. /\ Types[t].head \in Nat \ {0} /\ Types[t].says \in Nat /\ Types[t].bytes \in Nat \ {0}
  BY MessageAssumption
<1> HIDE DEF p
<1>4. PacketLength(p) > 0 /\ Len(p) >= PacketLength(p)
  BY DEF p, IsValidPacket
<1>5. PacketLength(p) = IF Len(p) < Types[t].head THEN 0
                        ELSE IF Types[t].says < Types[t].head THEN -1
                        ELSE Types[t].says
  BY <1>2 DEF PacketLength
<1>6. Types[t].says >= Types[t].head /\ Types[t].says <= Types[t].bytes
  BY <1>1, <1>3, <1>4, <1>5
<1>7. Types[t].says = Types[t].bytes
  BY <1>3, <1>6 DEF LengthsTold
<1> QED
  BY <1>6, <1>7 DEF IsWhole

\* What is sent comes last: behind what is to be flushed or, on a CLocalConnection, in the queue.
LEMMA SendDataWhole ==
    ASSUME LengthsTold, TypeInv, WholeInv, NEW t \in DOMAIN Types, SendData(t)
    PROVE  WholeInv'
<1> DEFINE p == Bytes(Len(sent) + 1, t)
           B == BytesOf(sent)
           C == BytesOf(Append(sent, p))
           P == Pieces(C)
<1>1. Sendings(sent) /\ Sendings(Append(sent, p)) /\ B \subseteq C /\ p \in P
  BY SendingsMore DEF TypeInv
<1>2. sent' = Append(sent, p) /\ BytesOf(sent)' = C
  BY DEF SendData
<1>3. UNCHANGED <<local, chunks, fragmentBuffer, reading, taken>>
  BY DEF SendData
<1>4. PICK W \in Seq(Wholes(B)) : OnTheWay(W)
  BY DEF WholeInv
<1>5. IsValidPacket(p) => IsWhole(p)
  <2>1. Len(sent) + 1 \in Nat
    BY <1>1 DEF Sendings
  <2> QED
    BY <2>1, SentIsHonest
<1>6. /\ taken \in Seq(Pieces(B)) /\ InOrder(msgQueue) \in Seq(Pieces(B)) /\ InOrder(W) \in Seq(Pieces(B))
      /\ InOrder(outgoingData) \in Seq(Pieces(B)) /\ sent \in Seq(Pieces(B)) /\ msgQueue \in Seq(Pieces(B))
  BY StreamTypes
<1> HIDE DEF p, C, B
<1>7. /\ taken \in Seq(P) /\ InOrder(msgQueue) \in Seq(P) /\ InOrder(W) \in Seq(P)
      /\ InOrder(outgoingData) \in Seq(P) /\ sent \in Seq(P) /\ msgQueue \in Seq(P)
  BY <1>1, <1>6, Monotone
<1>8. /\ W \in Seq(Wholes(C)) /\ outgoingData \in Seq(Honest(C)) /\ msgQueue \in Seq(Wholes(C))
  BY <1>1, Monotone DEF WholeInv, B
<1>9. p \in Honest(C) /\ (IsValidPacket(p) => p \in Wholes(C)) /\ Kept(p) \in Seq(P)
  BY <1>1, <1>5, KeptType DEF Honest, Wholes
<1> HIDE DEF P
<1>10. InOrder(sent') = Joined(InOrder(sent), Kept(p))
  BY <1>1, <1>2, <1>7, InOrderAppend
<1>11. /\ Joined(fragmentBuffer, FlattenSeq(chunks)) = FlattenSeq(W)
       /\ InOrder(sent) = Joined(Joined(taken, InOrder(msgQueue)), Joined(InOrder(W), InOrder(outgoingData)))
       /\ local => W = <<>>
  BY <1>4 DEF OnTheWay
<1>12. CASE ~local
  <2>1. outgoingData' = Append(outgoingData, p) /\ UNCHANGED msgQueue
    BY <1>12 DEF SendData, p
  <2>2. outgoingData' \in Seq(Honest(C))
    BY <1>8, <1>9, <2>1, AppendProperties
  <2>3. InOrder(outgoingData') = Joined(InOrder(outgoingData), Kept(p))
    BY <1>8, <1>9, <2>1, InOrderAppend
  <2>4. InOrder(sent') = Joined(Joined(taken, InOrder(msgQueue)), Joined(InOrder(W), InOrder(outgoingData')))
    BY <1>7, <1>9, <1>10, <1>11, <2>3, FourJoined
  <2>5. OnTheWay(W)'
    BY <1>3, <1>11, <1>12, <2>1, <2>4 DEF OnTheWay
  <2> QED
    BY <1>2, <1>3, <1>8, <1>12, <2>1, <2>2, <2>5 DEF WholeInv
<1>13. CASE local /\ ~IsValidPacket(p)
  <2>1. UNCHANGED <<outgoingData, msgQueue>>
    BY <1>13 DEF SendData, p
  <2>2. Kept(p) = <<>>
    BY <1>13 DEF Kept, Waits
  <2>3. InOrder(sent) \in Seq(P)
    BY <1>7, InOrderType
  <2>4. InOrder(sent') = InOrder(sent)
    BY <1>10, <2>2, <2>3, JoinedEmpty
  <2>5. OnTheWay(W)'
    BY <1>3, <1>11, <1>13, <2>1, <2>4 DEF OnTheWay
  <2> QED
    BY <1>2, <1>3, <1>8, <1>13, <2>1, <2>5 DEF WholeInv
<1>14. CASE local /\ IsValidPacket(p)
  <2>1. UNCHANGED outgoingData /\ msgQueue' = Append(msgQueue, p)
    BY <1>14 DEF SendData, p
  <2>2. msgQueue' \in Seq(Wholes(C))
    BY <1>8, <1>9, <1>14, <2>1, AppendProperties
  <2>3. InOrder(msgQueue') = Joined(InOrder(msgQueue), Kept(p))
    BY <1>1, <1>7, <2>1, InOrderAppend
  <2>4. InOrder(W) = <<>> /\ InOrder(outgoingData) = <<>>
    BY <1>11, <1>14, InOrderEmpty DEF WholeInv
  <2>5. \A u \in Seq(P) : Joined(u, Joined(<<>>, <<>>)) = u
    <3>1. <<>> \in Seq(P)
      BY EmptySeq
    <3> QED
      BY <3>1, JoinedEmpty
  <2>6. InOrder(sent) = Joined(taken, InOrder(msgQueue)) /\ Joined(taken, InOrder(msgQueue')) \in Seq(P)
    <3>1. Joined(taken, InOrder(msgQueue)) \in Seq(P) /\ Joined(InOrder(msgQueue), Kept(p)) \in Seq(P)
      BY <1>7, <1>9, JoinedType
    <3>2. Joined(taken, InOrder(msgQueue')) \in Seq(P)
      BY <1>7, <2>3, <3>1, JoinedType
    <3> QED
      BY <1>11, <2>4, <2>5, <3>1, <3>2
  <2>7. InOrder(sent') = Joined(taken, InOrder(msgQueue'))
    BY <1>7, <1>9, <1>10, <2>3, <2>6, JoinedAssociative
  <2>8. InOrder(sent') = Joined(Joined(taken, InOrder(msgQueue')), Joined(InOrder(W), InOrder(outgoingData)))
    BY <2>4, <2>5, <2>6, <2>7
  <2>9. OnTheWay(W)'
    BY <1>3, <1>11, <2>1, <2>8 DEF OnTheWay
  <2> QED
    BY <1>2, <1>3, <1>8, <2>1, <2>2, <2>9 DEF WholeInv
<1> QED
  BY <1>12, <1>13, <1>14 DEF TypeInv

\* A flush moves whole messages from the one end to those on the way.
LEMMA FlushWhole ==
    ASSUME TypeInv, WholeInv, NEW forced \in BOOLEAN, NEW bandwidth \in Int, Flush(forced, bandwidth)
    PROVE  WholeInv'
<1> DEFINE B == BytesOf(sent)
           s == Filled(FillStart(outgoingData, chunks, forced, bandwidth))
<1>1. /\ ~local /\ outgoingData # <<>>
      /\ UNCHANGED <<local, fragmentBuffer, msgQueue, numPings, reading, sent, taken>>
      /\ outgoingData' = s.outgoingData /\ chunks' = s.chunks
  BY FlushIs
<1>2. B \in SUBSET Octets /\ fragmentBuffer \in Seq(B) /\ chunks \in Seq(Chunks(B))
  BY BytesOfSendings DEF TypeInv
<1>3. PICK W \in Seq(Wholes(B)) : OnTheWay(W)
  BY DEF WholeInv
<1>4. outgoingData \in Seq(Honest(B)) /\ msgQueue \in Seq(Wholes(B))
  BY DEF WholeInv
<1>5. /\ Joined(fragmentBuffer, FlattenSeq(chunks)) = FlattenSeq(W)
      /\ InOrder(sent) = Joined(Joined(taken, InOrder(msgQueue)), Joined(InOrder(W), InOrder(outgoingData)))
  BY <1>3 DEF OnTheWay
<1> HIDE DEF B
<1>6. /\ s.outgoingData \in Seq(Honest(B))
      /\ \E V \in Seq(Wholes(B)) :
            /\ Joined(fragmentBuffer, FlattenSeq(s.chunks)) = FlattenSeq(V)
            /\ Joined(InOrder(V), InOrder(s.outgoingData)) = Joined(InOrder(W), InOrder(outgoingData))
  BY <1>1, <1>2, <1>4, <1>5, FilledWhole
<1> HIDE DEF s
<1>7. PICK V \in Seq(Wholes(B)) :
            /\ Joined(fragmentBuffer, FlattenSeq(s.chunks)) = FlattenSeq(V)
            /\ Joined(InOrder(V), InOrder(s.outgoingData)) = Joined(InOrder(W), InOrder(outgoingData))
  BY <1>6
<1>8. OnTheWay(V)'
  BY <1>1, <1>5, <1>7 DEF OnTheWay
<1>9. BytesOf(sent)' = B
  BY <1>1 DEF B
<1> QED
  BY <1>1, <1>4, <1>6, <1>8, <1>9 DEF WholeInv

\* What is received in whole goes to the end of the queue, the rest stays on the way.
LEMMA ReceivedWhole ==
    ASSUME TypeInv, WholeInv, ProcessRawPacket
    PROVE  WholeInv'
<1> DEFINE B == BytesOf(sent)
           buf == Joined(fragmentBuffer, Head(chunks))
           tail == FlattenSeq(Tail(chunks))
           p == Parsed(buf)
<1>1. /\ ~reading /\ chunks' = Tail(chunks) /\ chunks # <<>>
      /\ UNCHANGED <<local, outgoingData, reading, sent, taken>>
      /\ msgQueue' = Joined(msgQueue, p.packets)
      /\ fragmentBuffer' = p.fragment
  BY ReceivedIs
<1>2. B \in SUBSET Octets /\ fragmentBuffer \in Seq(B) /\ chunks \in Seq(Chunks(B))
  BY BytesOfSendings DEF TypeInv
<1>3. PICK W \in Seq(Wholes(B)) : OnTheWay(W)
  BY DEF WholeInv
<1>4. /\ outgoingData \in Seq(Honest(B)) /\ msgQueue \in Seq(Wholes(B)) /\ ~local
  BY <1>1 DEF WholeInv
<1>5. /\ Joined(fragmentBuffer, FlattenSeq(chunks)) = FlattenSeq(W)
      /\ InOrder(sent) = Joined(Joined(taken, InOrder(msgQueue)), Joined(InOrder(W), InOrder(outgoingData)))
  BY <1>3 DEF OnTheWay
<1>6. /\ taken \in Seq(Pieces(B)) /\ InOrder(msgQueue) \in Seq(Pieces(B))
      /\ InOrder(outgoingData) \in Seq(Pieces(B))
  BY StreamTypes
<1> HIDE DEF B
<1>7. /\ Head(chunks) \in Seq(B) /\ tail \in Seq(B) /\ FlattenSeq(chunks) = Joined(Head(chunks), tail)
  <2>1. chunks \in Seq(Pieces(B))
    BY <1>2, SeqMonotonic DEF Chunks
  <2>2. Head(chunks) \in Pieces(B) /\ Tail(chunks) \in Seq(Pieces(B))
        /\ chunks = Joined(One(Head(chunks)), Tail(chunks))
    BY <1>1, <2>1, HeadAndTail
  <2>3. FlattenSeq(Tail(chunks)) \in Seq(B)
        /\ FlattenSeq(Joined(One(Head(chunks)), Tail(chunks))) = Joined(Head(chunks), FlattenSeq(Tail(chunks)))
    BY <2>2, PiecesFlatten
  <2> QED
    BY <2>2, <2>3 DEF Pieces
<1> HIDE DEF tail
<1>8. buf \in Seq(B) /\ FlattenSeq(W) = Joined(buf, tail)
  <2>1. Joined(Joined(fragmentBuffer, Head(chunks)), tail)
           = Joined(fragmentBuffer, Joined(Head(chunks), tail))
    BY <1>2, <1>7, JoinedAssociative
  <2>2. Joined(fragmentBuffer, Head(chunks)) \in Seq(B)
    BY <1>2, <1>7, JoinedType
  <2> QED
    BY <1>5, <1>7, <2>1, <2>2
<1> HIDE DEF buf
<1>9. ParseInv(B, W, tail, p) /\ p.rest = <<>> /\ p \in ParseStates(B)
  BY <1>2, <1>7, <1>8, ParsedWhole
<1> HIDE DEF p
<1>10. PICK Q \in Seq(Wholes(B)), R \in Seq(Wholes(B)) :
          /\ W = Joined(Q, R) /\ p.packets = Q
          /\ FlattenSeq(R) = Joined(p.fragment, Joined(p.rest, tail))
  BY <1>9 DEF ParseInv
<1>11. Joined(p.fragment, tail) = FlattenSeq(R)
  BY <1>7, <1>9, <1>10, JoinedEmpty
<1>12. msgQueue' \in Seq(Wholes(B)) /\ InOrder(msgQueue') = Joined(InOrder(msgQueue), InOrder(Q))
  BY <1>1, <1>4, <1>10, JoinedType, InOrderConcat
<1>13. InOrder(W) = Joined(InOrder(Q), InOrder(R))
  BY <1>10, InOrderConcat
<1>14. InOrder(Q) \in Seq(Pieces(B)) /\ InOrder(R) \in Seq(Pieces(B))
  <2>1. Q \in Seq(Pieces(B)) /\ R \in Seq(Pieces(B))
    BY SeqMonotonic DEF Wholes
  <2> QED
    BY <2>1, InOrderType
<1>15. InOrder(sent) = Joined(Joined(taken, InOrder(msgQueue')), Joined(InOrder(R), InOrder(outgoingData)))
  BY <1>5, <1>6, <1>12, <1>13, <1>14, FourJoined
<1>16. OnTheWay(R)'
  BY <1>1, <1>4, <1>11, <1>15 DEF OnTheWay, tail
<1>17. BytesOf(sent)' = B
  BY <1>1 DEF B
<1> QED
  BY <1>1, <1>4, <1>10, <1>12, <1>16, <1>17 DEF WholeInv

\* What overtakes the others did not wait.
LEMMA ClientReadNetWhole ==
    ASSUME TypeInv, WholeInv, NEW time \in BOOLEAN, ClientReadNet(time)
    PROVE  WholeInv'
<1> DEFINE B == BytesOf(sent)
           s == Scanned(msgQueue, numPings)
<1>1. UNCHANGED <<local, outgoingData, chunks, fragmentBuffer, sent, taken>>
  BY DEF ClientReadNet
<1>2. msgQueue \in Seq(Wholes(B)) /\ outgoingData \in Seq(Honest(B))
      /\ numPings \in Int /\ numPings >= PingsIn(msgQueue) /\ (~local => numPings = PingsIn(msgQueue))
  BY DEF TypeInv, WholeInv
<1>3. s.queue \in Seq(Wholes(B)) /\ InOrder(s.queue) = InOrder(msgQueue)
  BY <1>2, ScannedAll
<1>4. msgQueue' \in Seq(Wholes(B)) /\ InOrder(msgQueue') = InOrder(msgQueue)
  <2>1. CASE Scans(time)
    <3>1. msgQueue' = s.queue
      BY <2>1 DEF ClientReadNet
    <3> QED
      BY <1>3, <3>1
  <2>2. CASE ~Scans(time)
    <3>1. msgQueue' = msgQueue
      BY <2>2 DEF ClientReadNet
    <3> QED
      BY <1>2, <3>1
  <2> QED
    BY <2>1, <2>2
<1>5. PICK W \in Seq(Wholes(B)) : OnTheWay(W)
  BY DEF WholeInv
<1> HIDE DEF s
<1>6. OnTheWay(W)'
  BY <1>1, <1>4, <1>5 DEF OnTheWay
<1> QED
  BY <1>1, <1>2, <1>4, <1>6 DEF WholeInv

\* What is taken is what was in front, if it waits.
LEMMA GotInOrder ==
    ASSUME TypeInv, WholeInv, GetData
    PROVE  /\ Joined(taken', InOrder(msgQueue')) = Joined(taken, InOrder(msgQueue))
           /\ taken' = taken \/ taken' = Append(taken, Head(msgQueue))
<1> DEFINE B == BytesOf(sent)
           h == Head(msgQueue)
           r == Tail(msgQueue)
<1>1. B \in SUBSET Octets /\ msgQueue \in Seq(Wholes(B)) /\ taken \in Seq(Pieces(B))
  BY BytesOfSendings DEF TypeInv, WholeInv
<1> HIDE DEF B
<1>2. /\ msgQueue' = r /\ h \in Wholes(B) /\ r \in Seq(Wholes(B)) /\ msgQueue = Joined(One(h), r)
      /\ taken' = IF SkipsQueue(h) THEN taken ELSE Append(taken, h)
  BY <1>1, GotIs
<1>3. IsValidPacket(h)
  BY <1>1, <1>2, WholeIsValid
<1> HIDE DEF h, r
<1>4. InOrder(msgQueue) = Joined(Kept(h), InOrder(r))
  BY <1>2, InOrderFirst
<1>5. h \in Pieces(B) /\ InOrder(r) \in Seq(Pieces(B)) /\ Kept(h) \in Seq(Pieces(B))
  <2>1. r \in Seq(Pieces(B)) /\ h \in Pieces(B)
    BY <1>2, SeqMonotonic DEF Wholes
  <2> QED
    BY <2>1, InOrderType, KeptType
<1>6. taken' = Joined(taken, Kept(h))
  <2>1. CASE SkipsQueue(h)
    <3>1. Kept(h) = <<>>
      BY <2>1 DEF Kept, Waits
    <3> QED
      BY <1>1, <1>2, <2>1, <3>1, JoinedEmpty
  <2>2. CASE ~SkipsQueue(h)
    <3>1. Kept(h) = One(h)
      BY <1>3, <2>2 DEF Kept, Waits, One
    <3> QED
      BY <1>1, <1>2, <1>5, <2>2, <3>1, AppendIsJoined
  <2> QED
    BY <2>1, <2>2
<1>7. Joined(Joined(taken, Kept(h)), InOrder(r)) = Joined(taken, Joined(Kept(h), InOrder(r)))
  BY <1>1, <1>5, JoinedAssociative
<1> QED
  BY <1>2, <1>4, <1>6, <1>7 DEF h

\* GetData keeps the stream.
LEMMA GetDataWhole ==
    ASSUME TypeInv, WholeInv, GetData
    PROVE  WholeInv'
<1>1. Joined(taken', InOrder(msgQueue')) = Joined(taken, InOrder(msgQueue))
  BY GotInOrder
<1>2. msgQueue \in Seq(Wholes(BytesOf(sent)))
  BY DEF WholeInv
<1>3. msgQueue' = Tail(msgQueue) /\ Tail(msgQueue) \in Seq(Wholes(BytesOf(sent)))
      /\ UNCHANGED <<local, outgoingData, chunks, fragmentBuffer, reading, sent>>
  BY <1>2, GotIs
<1>4. PICK W \in Seq(Wholes(BytesOf(sent))) : OnTheWay(W)
  BY DEF WholeInv
<1>5. OnTheWay(W)'
  BY <1>1, <1>3, <1>4 DEF OnTheWay
<1> QED
  BY <1>3, <1>5 DEF WholeInv

\* Every step keeps the stream.
LEMMA WholePreserved == LengthsTold /\ TypeInv /\ WholeInv /\ [Next]_vars => WholeInv'
<1> SUFFICES ASSUME LengthsTold, TypeInv, WholeInv, [Next]_vars
             PROVE  WholeInv'
  OBVIOUS
<1>1. ASSUME NEW t \in DOMAIN Types, SendData(t) PROVE WholeInv'
  BY <1>1, SendDataWhole
<1>2. ASSUME NEW b \in -1..MaxBandwidth, Flush(FALSE, b) PROVE WholeInv'
  <2>1. b \in Int /\ FALSE \in BOOLEAN
    BY MessageAssumption
  <2> QED
    BY <1>2, <2>1, FlushWhole
<1>3. CASE Flush(TRUE, -1)
  <2>1. -1 \in Int /\ TRUE \in BOOLEAN
    OBVIOUS
  <2> QED
    BY <1>3, <2>1, FlushWhole, Zenon
<1>4. CASE ProcessRawPacket
  BY <1>4, ReceivedWhole
<1>5. ASSUME NEW time \in BOOLEAN, ClientReadNet(time) PROVE WholeInv'
  BY <1>5, ClientReadNetWhole
<1>6. CASE GetData
  BY <1>6, GetDataWhole
<1>7. CASE ClientReadNetEnds
  BY <1>7 DEF ClientReadNetEnds, WholeInv, OnTheWay
<1>8. CASE UNCHANGED vars
  BY <1>8 DEF vars, WholeInv, OnTheWay
<1> QED
  BY <1>1, <1>2, <1>3, <1>4, <1>5, <1>6, <1>7, <1>8 DEF Next

-----------------------------------------------------------------------------
(* The theorems *)

\* Types, and numPings' relation to the pings in the queue, for messages of any kinds and lengths.
THEOREM Invariance == Spec => []TypeInv
<1>1. Init => TypeInv
  BY InitType
<1>2. TypeInv /\ [Next]_vars => TypeInv'
  BY TypePreserved
<1> QED
  BY <1>1, <1>2, PTL DEF Spec

\* The bytes of a packet.
LEMMA PiecesRange ==
    ASSUME NEW B, NEW p \in Pieces(B)
    PROVE  p # <<>> /\ Range(p) \subseteq B
BY DEF Pieces, Range

\* What waits in buffers is made of bytes of messages, and no chunk is empty or too large.
THEOREM TypeCorrect == Spec => []TypeOK
<1>1. TypeInv => TypeOK
  <2> SUFFICES ASSUME TypeInv PROVE TypeOK
    OBVIOUS
  <2> DEFINE B == BytesOf(sent)
  <2>1. B = UNION {Range(sent[i]) : i \in DOMAIN sent}
    BY DEF BytesOf
  <2> HIDE DEF B
  <2>2. /\ outgoingData \in Seq(Pieces(B)) /\ chunks \in Seq(Chunks(B)) /\ fragmentBuffer \in Seq(B)
        /\ msgQueue \in Seq(Pieces(B)) /\ taken \in Seq(Pieces(B))
    BY DEF TypeInv, B
  <2>3. chunks \in Seq(Pieces(B)) /\ \A i \in DOMAIN chunks : Len(chunks[i]) <= MaxChunkSize
    <3>1. \A i \in DOMAIN chunks : chunks[i] \in Chunks(B)
      BY <2>2
    <3> QED
      BY <2>2, <3>1, SeqMonotonic DEF Chunks
  <2>4. \A s \in Seq(Pieces(B)) : \A i \in DOMAIN s : s[i] # <<>> /\ Range(s[i]) \subseteq B
    <3>1. \A s \in Seq(Pieces(B)) : \A i \in DOMAIN s : s[i] \in Pieces(B)
      OBVIOUS
    <3> QED
      BY <3>1, PiecesRange
  <2>5. Range(fragmentBuffer) \subseteq B
    BY <2>2 DEF Range
  <2>6. local \in BOOLEAN /\ reading \in BOOLEAN /\ numPings \in Nat
    BY DEF TypeInv
  <2>7. \A s \in {outgoingData, chunks, msgQueue, taken} :
           \A i \in DOMAIN s : s[i] # <<>> /\ Range(s[i]) \subseteq B
    BY <2>2, <2>3, <2>4
  <2> QED
    BY <2>1, <2>3, <2>5, <2>6, <2>7 DEF TypeOK
<1> QED
  BY <1>1, Invariance, PTL

\* numPings, by which UpdateNumQueuedSimFrames decides to look for pings, is exact on a
\* UDPConnection and never too small on a CLocalConnection.
THEOREM PingsExact == Spec => []PingsCounted
<1>1. TypeInv => PingsCounted
  BY DEF TypeInv, PingsCounted
<1> QED
  BY <1>1, Invariance, PTL

\* While a client that is not the host takes messages, no ping is among them, to be discarded.
THEOREM NoPingWaits == Spec => []PingsSkipQueue
<1>1. TypeInv => PingsSkipQueue
  BY DEF TypeInv, PingsSkipQueue
<1> QED
  BY <1>1, Invariance, PTL

\* The inductive invariant of the stream, if messages are as long as they say.
THEOREM WholeInvariance == ASSUME LengthsTold PROVE Spec => [](TypeInv /\ WholeInv)
<1>1. Init => TypeInv /\ WholeInv
  BY InitType, InitWhole
<1>2. TypeInv /\ WholeInv /\ [Next]_vars => (TypeInv /\ WholeInv)'
  BY TypePreserved, WholePreserved
<1> QED
  BY <1>1, <1>2, PTL DEF Spec

\* A whole message is one that was sent: its first byte knows which.
LEMMA WholeWasSent ==
    ASSUME NEW m, Sendings(m), NEW p \in Wholes(BytesOf(m))
    PROVE  p \in Range(m)
<1>1. PICK n \in Nat, t \in DOMAIN Types : p = Bytes(n, t)
  BY DEF Wholes, IsWhole
<1>2. m \in Seq(Pieces(Octets)) /\ DOMAIN m = 1..Len(m) /\ Len(m) \in Nat
  BY DEF Sendings
<1>3. p[1] = Byte(n, t, 1) /\ p[1] \in BytesOf(m)
  <2>1. p \in Seq(BytesOf(m)) /\ p # <<>>
    BY DEF Wholes, Pieces
  <2>2. p[1] \in BytesOf(m)
    BY <2>1, EmptySeq
  <2> QED
    BY <1>1, <2>2, BytesType
<1>4. PICK i \in 1..Len(m) : p[1] \in Range(m[i])
  BY <1>2, <1>3 DEF BytesOf
<1>5. PICK u \in DOMAIN Types : m[i] = Bytes(i, u)
  BY DEF Sendings
<1>6. PICK k \in 1..Types[u].bytes : p[1] = Byte(i, u, k)
  <2>1. DOMAIN Bytes(i, u) = 1..Types[u].bytes /\ \A k \in 1..Types[u].bytes : Bytes(i, u)[k] = Byte(i, u, k)
    BY DEF Bytes
  <2> QED
    BY <1>4, <1>5, <2>1 DEF Range
<1>7. i = n /\ u = t
  BY <1>3, <1>6 DEF Byte
<1> QED
  BY <1>1, <1>2, <1>5, <1>7 DEF Range

\* However messages are cut and joined, the client queues them as they were sent, and what it
\* keeps of one makes whole messages with the chunks on the way.
THEOREM FramesWhole == ASSUME LengthsTold PROVE Spec => []FramesFound
<1>1. TypeInv /\ WholeInv => FramesFound
  <2> SUFFICES ASSUME TypeInv, WholeInv PROVE FramesFound
    OBVIOUS
  <2> DEFINE B == BytesOf(sent)
             bytes == Joined(fragmentBuffer, FlattenSeq(chunks))
             p == Parsed(bytes)
  <2>1. B \in SUBSET Octets /\ fragmentBuffer \in Seq(B) /\ chunks \in Seq(Chunks(B))
        /\ msgQueue \in Seq(Wholes(B)) /\ Sendings(sent)
    BY BytesOfSendings DEF TypeInv, WholeInv
  <2>2. PICK W \in Seq(Wholes(B)) : OnTheWay(W)
    BY DEF WholeInv
  <2>3. Range(msgQueue) \subseteq Range(sent)
    <3>1. \A i \in DOMAIN msgQueue : msgQueue[i] \in Range(sent)
      BY <2>1, WholeWasSent
    <3> QED
      BY <3>1 DEF Range
  <2> HIDE DEF B
  <2>4. chunks \in Seq(Seq(B)) /\ FlattenSeq(chunks) \in Seq(B) /\ bytes \in Seq(B)
    BY <2>1, ChunksFlatten, JoinedType
  <2>5. FlattenSeq(<<fragmentBuffer>> \o chunks) = bytes
    <3>1. One(fragmentBuffer) \in Seq(Seq(B))
      BY <2>1 DEF One
    <3>2. FlattenSeq(Joined(One(fragmentBuffer), chunks)) = Joined(FlattenSeq(One(fragmentBuffer)), FlattenSeq(chunks))
      BY <2>4, <3>1, FlattenConcat
    <3>3. FlattenSeq(One(fragmentBuffer)) = fragmentBuffer
      BY <2>1, FlattenOne
    <3>4. Joined(One(fragmentBuffer), chunks) = <<fragmentBuffer>> \o chunks
      BY DEF Joined, One
    <3> QED
      BY <3>2, <3>3, <3>4
  <2>6. FlattenSeq(W) = bytes /\ bytes = Joined(bytes, <<>>) /\ <<>> \in Seq(B)
    BY <2>2, <2>4, JoinedEmpty, EmptySeq DEF OnTheWay
  <2> HIDE DEF bytes
  <2>7. ParseInv(B, W, <<>>, p) /\ p.rest = <<>> /\ p \in ParseStates(B)
    <3>1. FlattenSeq(W) = Joined(bytes, <<>>)
      BY <2>6
    <3> QED
      BY <2>1, <2>4, <2>6, <3>1, ParsedWhole
  <2> HIDE DEF p
  <2>8. PICK Q \in Seq(Wholes(B)), R \in Seq(Wholes(B)) :
           /\ W = Joined(Q, R) /\ p.packets = Q
           /\ FlattenSeq(R) = Joined(p.fragment, Joined(p.rest, <<>>))
           /\ p.fragment # <<>> => R # <<>> /\ Len(p.fragment) < Len(R[1])
    BY <2>7 DEF ParseInv
  <2>9. FlattenSeq(R) = p.fragment /\ p.fragment \in Seq(B)
    BY <2>6, <2>7, <2>8, JoinedEmpty DEF ParseStates
  <2>10. p.fragment = <<>>
    <3> SUFFICES ASSUME p.fragment # <<>> PROVE FALSE
      OBVIOUS
    <3>1. PICK q \in Wholes(B), rest \in Seq(Wholes(B)) :
             q = R[1] /\ FlattenSeq(R) = Joined(q, FlattenSeq(rest)) /\ FlattenSeq(rest) \in Seq(B)
      BY <2>8, WholesFlatten
    <3>2. q \in Seq(B)
      BY DEF Wholes, Pieces
    <3>3. Len(FlattenSeq(R)) = Len(q) + Len(FlattenSeq(rest)) /\ Len(FlattenSeq(rest)) \in Nat /\ Len(q) \in Nat
      <4>1. Len(Joined(q, FlattenSeq(rest))) = Len(q) + Len(FlattenSeq(rest))
        BY <3>1, <3>2, JoinedType
      <4>2. Len(q) \in Nat /\ Len(FlattenSeq(rest)) \in Nat
        BY <3>1, <3>2, LenProperties
      <4> QED
        BY <3>1, <4>1, <4>2
    <3> QED
      BY <2>8, <2>9, <3>1, <3>3
  <2>11. FlattenSeq(p.packets) = FlattenSeq(W)
    <3>1. Q \in Seq(Seq(B)) /\ R \in Seq(Seq(B))
      BY SeqMonotonic DEF Wholes, Pieces
    <3>2. FlattenSeq(Joined(Q, R)) = Joined(FlattenSeq(Q), FlattenSeq(R)) /\ FlattenSeq(Q) \in Seq(B)
      BY <3>1, FlattenConcat, FlattenType
    <3> QED
      BY <2>8, <2>9, <2>10, <3>2, JoinedEmpty
  <2>12. FlattenSeq(Parsed(FlattenSeq(<<fragmentBuffer>> \o chunks)).packets)
            = FlattenSeq(<<fragmentBuffer>> \o chunks)
    BY <2>5, <2>6, <2>11, Zenon DEF p
  <2> QED
    BY <2>3, <2>12, Zenon DEF FramesFound
<1> QED
  BY <1>1, WholeInvariance, PTL

\* A sequence that begins another one is its SubSeq.
LEMMA Beginning ==
    ASSUME NEW S, NEW a \in Seq(S), NEW b \in Seq(S)
    PROVE  /\ SubSeq(Joined(a, b), 1, Len(a)) = a
           /\ Len(a) \in Nat /\ Len(Joined(a, b)) \in Nat /\ Len(a) <= Len(Joined(a, b))
<1> DEFINE s == Joined(a, b)
<1>1. s \in Seq(S) /\ Len(s) = Len(a) + Len(b)
  BY JoinedType
<1>2. Len(a) \in Nat /\ Len(b) \in Nat /\ Len(a) <= Len(s)
  BY <1>1, LenProperties
<1> HIDE DEF s
<1>3. Joined(a, b) = Joined(s, <<>>) /\ <<>> \in Seq(S)
  <2>1. s = Joined(s, <<>>)
    BY <1>1, JoinedEmpty
  <2> QED
    BY <2>1, EmptySeq DEF s
<1>4. SubSeq(s, 1, Len(a)) = a
  <2>1. PICK e \in Seq(S) : Joined(a, b) = Joined(s, e)
    BY <1>3
  <2> QED
    BY <1>1, <1>2, <2>1, Split
<1> QED
  BY <1>1, <1>2, <1>4 DEF s

\* What the stream's variables are of this module.
StreamSent == [e \in {"client", "server"} |-> IF e = "server" THEN InOrder(sent) ELSE <<>>]
StreamDelivered == [e \in {"client", "server"} |-> IF e = "client" THEN taken ELSE <<>>]

\* SendData submits the message if it waits, and is invisible otherwise.
LEMMA SubmitOrNothing ==
    ASSUME TypeInv, NEW t \in DOMAIN Types, SendData(t), NEW n \in Nat, n = Len(sent) + 1
    PROVE  Stream!Submit("server", Bytes(n, t)) \/ UNCHANGED <<StreamSent, StreamDelivered>>
<1> DEFINE p == Bytes(n, t)
<1>1. sent' = Append(sent, p) /\ taken' = taken
  BY DEF SendData
<1>2. sent \in Seq(Pieces(Octets)) /\ p \in Pieces(Octets)
  BY BytesType DEF TypeInv, Sendings
<1> HIDE DEF p
<1>3. InOrder(sent') = Joined(InOrder(sent), Kept(p)) /\ InOrder(sent) \in Seq(Pieces(Octets))
  BY <1>1, <1>2, InOrderAppend, InOrderType
<1>4. CASE Waits(p)
  <2>1. Kept(p) = One(p)
    BY <1>4 DEF Kept, One
  <2>2. InOrder(sent') = Append(InOrder(sent), p)
    BY <1>2, <1>3, <2>1, AppendIsJoined
  <2>3. Stream!Submit("server", p)
    BY <1>1, <2>2 DEF Stream!Submit
  <2> QED
    BY <2>3 DEF p
<1>5. CASE ~Waits(p)
  <2>1. Kept(p) = <<>>
    BY <1>5 DEF Kept
  <2>2. InOrder(sent') = InOrder(sent)
    BY <1>3, <2>1, JoinedEmpty
  <2> QED
    BY <1>1, <2>2 DEF StreamSent, StreamDelivered
<1> QED
  BY <1>4, <1>5

\* GetData delivers the message if it waits, and is invisible otherwise.
LEMMA DeliverOrNothing ==
    ASSUME TypeInv, WholeInv, TypeInv', WholeInv', GetData
    PROVE  Stream!Deliver("client") \/ UNCHANGED <<StreamSent, StreamDelivered>>
<1> DEFINE P == Pieces(BytesOf(sent))
           h == Head(msgQueue)
<1>1. sent' = sent /\ (taken' = taken \/ taken' = Append(taken, h))
  BY GotInOrder DEF GetData
<1>2. CASE taken' = taken
  BY <1>1, <1>2 DEF StreamSent, StreamDelivered
<1>3. CASE taken' = Append(taken, h)
  <2>1. PICK W \in Seq(Wholes(BytesOf(sent))) : OnTheWay(W)
    BY DEF WholeInv
  <2>2. /\ taken \in Seq(P) /\ InOrder(msgQueue) \in Seq(P) /\ InOrder(W) \in Seq(P)
        /\ InOrder(outgoingData) \in Seq(P) /\ msgQueue \in Seq(P)
    BY StreamTypes
  <2>3. /\ Joined(taken', InOrder(msgQueue')) = Joined(taken, InOrder(msgQueue))
    BY GotInOrder
  <2> DEFINE rest == Joined(InOrder(W), InOrder(outgoingData))
             more == Joined(InOrder(msgQueue'), rest)
  <2>4. InOrder(sent) = Joined(Joined(taken', InOrder(msgQueue')), rest)
    BY <2>1, <2>3 DEF OnTheWay
  <2>5. taken' \in Seq(P) /\ msgQueue' \in Seq(P)
    BY <1>1 DEF TypeInv
  <2> HIDE DEF P
  <2>6. rest \in Seq(P) /\ InOrder(msgQueue') \in Seq(P)
    BY <2>2, <2>5, InOrderType, JoinedType
  <2> HIDE DEF rest
  <2>7. InOrder(sent) = Joined(taken', more) /\ more \in Seq(P)
    BY <2>4, <2>5, <2>6, JoinedAssociative, JoinedType
  <2> HIDE DEF more
  <2> DEFINE n == Len(taken')
  <2>8. /\ SubSeq(InOrder(sent), 1, n) = taken' /\ n \in Nat
        /\ Len(InOrder(sent)) \in Nat /\ n <= Len(InOrder(sent))
    BY <2>5, <2>7, Beginning
  <2>9. n = Len(taken) + 1 /\ Len(taken) \in Nat
    <3>1. Len(Append(taken, h)) = Len(taken) + 1 /\ Len(taken) \in Nat
      BY <2>2, LenProperties
    <3> QED
      BY <1>3, <3>1
  <2>10. n \in (Len(taken) + 1)..Len(InOrder(sent))
    BY <2>8, <2>9
  <2> HIDE DEF n
  <2>11. Stream!Deliver("client")
    <3>1. Stream!Peer("client") = "server"
      BY DEF Stream!Peer
    <3>2. StreamDelivered["client"] = taken /\ StreamSent["server"] = InOrder(sent)
      BY DEF StreamDelivered, StreamSent
    <3>3. StreamSent' = StreamSent
      BY <1>1 DEF StreamSent
    <3>4. StreamDelivered' = [StreamDelivered EXCEPT !["client"] = taken']
      BY DEF StreamDelivered
    <3>5. StreamDelivered' = [StreamDelivered EXCEPT !["client"] = SubSeq(StreamSent[Stream!Peer("client")], 1, n)]
      BY <2>8, <3>1, <3>2, <3>4
    <3>6. n \in (Len(StreamDelivered["client"]) + 1)..Len(StreamSent[Stream!Peer("client")])
      BY <2>10, <3>1, <3>2
    <3> QED
      BY <3>3, <3>5, <3>6 DEF Stream!Deliver, StreamSent, StreamDelivered
  <2> QED
    BY <2>11
<1> QED
  BY <1>1, <1>2, <1>3

\* SendData, Flush, ProcessRawPacket, ClientReadNet and GetData together implement the FIFO
\* stream of a CConnection for the messages that wait.
THEOREM Refinement == ASSUME LengthsTold PROVE Spec => ImplementsStream
<1>1. Init => Stream!Init
  <2>1. SUFFICES ASSUME Init PROVE Stream!Init
    OBVIOUS
  <2>2. InOrder(sent) = <<>> /\ taken = <<>>
    BY <2>1, InOrderEmpty DEF Init
  <2> QED
    BY <2>2 DEF Stream!Init, Stream!Ends
<1>2. ASSUME TypeInv, WholeInv, TypeInv', WholeInv', [Next]_vars
      PROVE  [Stream!Next]_<<StreamSent, StreamDelivered>>
  <2> DEFINE still == UNCHANGED <<StreamSent, StreamDelivered>>
             Data == {Bytes(n, u) : n \in 1..MaxSend, u \in DOMAIN Types}
  <2>1. sent' = sent /\ taken' = taken => still
    BY DEF StreamSent, StreamDelivered
  <2>2. "client" \in Stream!Ends /\ "server" \in Stream!Ends
    BY DEF Stream!Ends
  <2>3. Stream!Deliver("client") => Stream!Next
    <3> DEFINE e == "client"
    <3>1. e \in Stream!Ends
      BY <2>2
    <3> HIDE DEF e
    <3>2. Stream!Deliver(e) => Stream!Next
      BY <3>1 DEF Stream!Next
    <3> QED
      BY <3>2 DEF e
  <2>4. ASSUME NEW p \in Data PROVE Stream!Submit("server", p) => Stream!Next
    <3> DEFINE e == "server"
    <3>1. e \in Stream!Ends
      BY <2>2
    <3> HIDE DEF e
    <3>2. Stream!Submit(e, p) => Stream!Next
      BY <3>1 DEF Stream!Next
    <3> QED
      BY <3>2 DEF e
  <2>5. ASSUME NEW t \in DOMAIN Types, SendData(t) PROVE Stream!Next \/ still
    <3>1. PICK n \in 1..MaxSend : n = Len(sent) + 1
      <4>1. Len(sent) \in Nat /\ Len(sent) < MaxSend /\ MaxSend \in Nat
        BY <1>2, <2>5, MessageAssumption DEF SendData, TypeInv, Sendings
      <4> QED
        BY <4>1
    <3> DEFINE p == Bytes(n, t)
    <3>2. p \in Data /\ n \in Nat
      OBVIOUS
    <3>3. Stream!Submit("server", p) \/ still
      BY <1>2, <2>5, <3>1, <3>2, SubmitOrNothing
    <3> HIDE DEF p, still, Data
    <3>4. Stream!Submit("server", p) => Stream!Next
      BY <2>4, <3>2
    <3> QED
      BY <3>3, <3>4
  <2>6. GetData => Stream!Next \/ still
    <3>1. GetData => Stream!Deliver("client") \/ still
      BY <1>2, DeliverOrNothing
    <3> QED
      BY <2>3, <3>1
  <2>7. ASSUME NEW b, NEW f, Flush(f, b) PROVE still
    <3>1. sent' = sent /\ taken' = taken
      BY <2>7 DEF Flush
    <3> HIDE DEF still
    <3> QED
      BY <2>1, <3>1
  <2>8. ProcessRawPacket \/ ClientReadNetEnds \/ UNCHANGED vars => sent' = sent /\ taken' = taken
    BY DEF ProcessRawPacket, ClientReadNetEnds, vars
  <2>9. ASSUME NEW time, ClientReadNet(time) PROVE still
    <3>1. sent' = sent /\ taken' = taken
      BY <2>9 DEF ClientReadNet
    <3> HIDE DEF still
    <3> QED
      BY <2>1, <3>1
  <2> HIDE DEF still, Data
  <2>10. CASE Next
    <3>1. (\E t \in DOMAIN Types : SendData(t)) => Stream!Next \/ still
      BY <2>5
    <3>2. (\E b \in -1..MaxBandwidth : Flush(FALSE, b)) \/ Flush(TRUE, -1) => still
      BY <2>7
    <3>3. (\E time \in BOOLEAN : ClientReadNet(time)) => still
      BY <2>9
    <3>4. ProcessRawPacket \/ ClientReadNetEnds => still
      BY <2>1, <2>8
    <3>5. Stream!Next \/ still
      BY <2>6, <2>10, <3>1, <3>2, <3>3, <3>4 DEF Next
    <3> QED
      BY <3>5 DEF still
  <2>11. CASE UNCHANGED vars
    <3>1. still
      BY <2>1, <2>8, <2>11
    <3> QED
      BY <3>1 DEF still
  <2> QED
    BY <1>2, <2>10, <2>11
<1>3. [Stream!Next]_<<StreamSent, StreamDelivered>> =>
         [Stream!Next]_<<[e \in {"client", "server"} |-> IF e = "server" THEN InOrder(sent) ELSE <<>>],
                         [e \in {"client", "server"} |-> IF e = "client" THEN taken ELSE <<>>]>>
  BY DEF StreamSent, StreamDelivered
<1> QED
  BY <1>1, <1>2, <1>3, WholeInvariance, PTL DEF Spec, ImplementsStream, Stream!Spec
=============================================================================
