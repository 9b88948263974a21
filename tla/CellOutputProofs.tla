--------------------------- MODULE CellOutputProofs ---------------------------
(***************************************************************************)
(* Theorems about CellOutput, for all texts, sizes of images and limits:   *)
(* what the variables hold, how much of a text is kept (Overflow), what    *)
(* the console history shows (HistoryFollows), and that the result of a    *)
(* cell is what a front end shows of it (ShowsCell). The first rest on     *)
(* what a text weighs: Bytes is additive, and bounded by the number of     *)
(* characters times the width of the widest. The last rests on two folds:  *)
(* what the host makes of lines, and what the bridge makes of messages.    *)
(* What was collected, through the lines and the messages that are on the  *)
(* way, always comes to what the front end draws of all that was sent.     *)
(* At the end, truncateTail() finds the tail that its definition asks for  *)
(* (TailAgrees), by induction over the lines.                              *)
(***************************************************************************)
EXTENDS CellOutput, SequenceTheorems, FiniteSetTheorems, FunctionTheorems,
        WellFoundedInduction, NaturalsInduction, TLAPS

\* A character is its width, or the newline.
Char == Nat \cup {NL}

-----------------------------------------------------------------------------
(***************************************************************************)
(* Induction over the natural numbers, and functions defined by recursion.  *)
(***************************************************************************)
LEMMA LeastNat ==
  ASSUME NEW S, S \subseteq Nat, S # {}
  PROVE  \E n \in S : \A m \in S : n <= m
<1>1. IsWellFoundedOn(OpToRel(<, Nat), Nat)
  BY NatLessThanWellFounded
<1>2. PICK n \in S : \A m \in S : <<m, n>> \notin OpToRel(<, Nat)
  BY <1>1, WFMin
<1>3. \A m \in S : ~(m < n)
  BY <1>2 DEF OpToRel
<1>4. QED BY <1>3

\* A set of numbers with 0 and every successor is all of them.
LEMMA Induction ==
  ASSUME NEW P, 0 \in P, \A n \in Nat : n \in P => n + 1 \in P
  PROVE  \A n \in Nat : n \in P
<1>1. SUFFICES ASSUME Nat \ P # {} PROVE FALSE
  OBVIOUS
<1>2. PICK n \in Nat \ P : \A m \in Nat \ P : n <= m
  BY <1>1, LeastNat
<1>3. n # 0 /\ n - 1 \in Nat /\ n - 1 \notin Nat \ P
  BY <1>2
<1>4. QED BY <1>2, <1>3

\* A set of numbers up to a bound has a greatest element.
LEMMA GreatestNat ==
  ASSUME NEW N \in Nat, NEW S \in SUBSET (0..N), S # {}
  PROVE  \E n \in S : \A m \in S : m <= n
<1> DEFINE T == {n \in Nat : \A m \in S : m <= n}
<1>1. T \subseteq Nat /\ N \in T
  OBVIOUS
<1> HIDE DEF T
<1>2. PICK n \in T : \A m \in T : n <= m
  BY <1>1, LeastNat
<1>3. n \in Nat /\ \A m \in S : m <= n
  BY <1>2 DEF T
<1>4. n \in S
  <2>1. SUFFICES ASSUME n \notin S PROVE FALSE
    OBVIOUS
  <2>2. PICK k \in S : TRUE
    OBVIOUS
  <2>3. k < n /\ k \in Nat
    BY <1>3, <2>1, <2>2
  <2>4. n - 1 \in Nat
    BY <1>3, <2>3
  <2>5. \A m \in S : m <= n - 1
    BY <1>3, <2>1
  <2>6. n - 1 \in T
    BY <2>4, <2>5 DEF T
  <2>7. QED BY <1>2, <1>3, <2>6
<1>5. QED BY <1>3, <1>4
Agree(f, g, N) == \A n \in 0..N : f[n] = g[n]

\* Functions that agree at first and, where they agree, at the next argument.
LEMMA Same ==
  ASSUME NEW N \in Nat, NEW f, NEW g, f[0] = g[0],
         \A n \in 1..N : f[n - 1] = g[n - 1] => f[n] = g[n]
  PROVE  Agree(f, g, N)
<1> DEFINE P == {n \in Nat : n <= N => f[n] = g[n]}
<1>1. 0 \in P
  OBVIOUS
<1>2. ASSUME NEW n \in Nat, n \in P PROVE n + 1 \in P
  <2>1. CASE n + 1 <= N
    <3>1. n + 1 \in 1..N /\ n + 1 - 1 = n /\ n <= N
      BY <2>1
    <3>2. f[n] = g[n]
      BY <1>2, <3>1
    <3>3. f[n + 1] = g[n + 1]
      BY <3>1, <3>2
    <3>4. QED BY <3>3
  <2>2. CASE ~(n + 1 <= N)
    BY <2>2
  <2>3. QED BY <2>1, <2>2
<1>3. \A n \in Nat : n \in P
  <2> HIDE DEF P
  <2>1. QED BY <1>1, <1>2, Induction
<1>4. QED BY <1>3 DEF Agree

\* Functions of two arguments.
Steps(X, Y, Z) == [X -> [Y -> Z]]

\* A function that is defined by its value before exists.
LEMMA Recursion ==
  ASSUME NEW X, NEW N \in Nat, NEW first \in X, NEW step \in Steps(1..N, X, X)
  PROVE  \E f \in [0..N -> X] : f[0] = first /\ \A n \in 1..N : f[n] = step[n][f[n - 1]]
<1> DEFINE Good(f, n) == f \in [0..n -> X] /\ f[0] = first /\ \A m \in 1..n : f[m] = step[m][f[m - 1]]
           P == {n \in Nat : n <= N => \E f : Good(f, n)}
<1>1. 0 \in P
  <2>1. Good([n \in 0..0 |-> first], 0)
    OBVIOUS
  <2>2. QED BY <2>1
<1>2. ASSUME NEW n \in Nat, n \in P PROVE n + 1 \in P
  <2>1. SUFFICES ASSUME n + 1 <= N PROVE \E f : Good(f, n + 1)
    OBVIOUS
  <2>2. PICK f : Good(f, n)
    BY <1>2, <2>1
  <2>3. n + 1 \in 1..N /\ f[n] \in X
    BY <2>1, <2>2
  <2>4. step[n + 1][f[n]] \in X
    BY <2>3 DEF Steps
  <2> DEFINE g == [m \in 0..n + 1 |-> IF m = n + 1 THEN step[n + 1][f[n]] ELSE f[m]]
  <2>5. g \in [0..n + 1 -> X]
    BY <2>2, <2>4
  <2>6. g[0] = first
    BY <2>2
  <2>7. ASSUME NEW m \in 1..n + 1 PROVE g[m] = step[m][g[m - 1]]
    <3>1. CASE m = n + 1
      BY <3>1
    <3>2. CASE m # n + 1
      <4>1. m \in 1..n /\ m - 1 \in 0..n /\ m - 1 # n + 1
        BY <3>2
      <4>2. g[m] = f[m] /\ g[m - 1] = f[m - 1]
        BY <4>1
      <4>3. QED BY <2>2, <4>1, <4>2
    <3>3. QED BY <3>1, <3>2
  <2>8. Good(g, n + 1)
    BY <2>5, <2>6, <2>7
  <2>9. QED BY <2>8
<1>3. N \in P
  <2> HIDE DEF P
  <2>1. QED BY <1>1, <1>2, Induction
<1>4. QED BY <1>3

\* What is made of h by the steps of w, from the first to the last.
Stepped(f, step, h, w) == f = [n \in 0..Len(w) |-> IF n = 0 THEN h ELSE step[f[n - 1]][w[n]]]
After(step, h, w) == (CHOOSE f : Stepped(f, step, h, w))[Len(w)]

\* The fold exists: it is h before the first element, and each element makes one step.
LEMMA AfterIs ==
  ASSUME NEW X, NEW L, NEW step \in Steps(X, L, X), NEW h \in X, NEW w \in Seq(L)
  PROVE  \E f \in [0..Len(w) -> X] :
           /\ f[0] = h /\ \A n \in 1..Len(w) : f[n] = step[f[n - 1]][w[n]]
           /\ After(step, h, w) = f[Len(w)]
<1> DEFINE u == CHOOSE f : Stepped(f, step, h, w)
           N == Len(w)
           next == [n \in 1..N |-> [x \in X |-> step[x][w[n]]]]
<1>1. N \in Nat /\ \A n \in 1..N : w[n] \in L
  OBVIOUS
<1>2. next \in Steps(1..N, X, X)
  BY <1>1 DEF Steps
<1>3. PICK f \in [0..N -> X] : f[0] = h /\ \A n \in 1..N : f[n] = next[n][f[n - 1]]
  <2> HIDE DEF next, N
  <2>1. QED BY <1>1, <1>2, Recursion
<1>4. ASSUME NEW n \in 1..N PROVE f[n] = step[f[n - 1]][w[n]]
  <2>1. n - 1 \in 0..N
    BY <1>1
  <2>2. f[n - 1] \in X
    BY <1>3, <2>1
  <2>3. QED BY <1>3, <2>2
<1> HIDE DEF next
<1>5. Stepped(f, step, h, w)
  BY <1>1, <1>3, <1>4 DEF Stepped
<1>6. Stepped(u, step, h, w)
  BY <1>5
<1> HIDE DEF u
<1>7. u[0] = f[0]
  BY <1>1, <1>3, <1>6 DEF Stepped
<1>8. ASSUME NEW n \in 1..N, u[n - 1] = f[n - 1] PROVE u[n] = f[n]
  <2>1. u[n] = step[u[n - 1]][w[n]]
    BY <1>1, <1>6 DEF Stepped
  <2>2. QED BY <1>4, <1>8, <2>1
<1>9. u[N] = f[N]
  <2> HIDE DEF N
  <2>1. Agree(u, f, N)
    BY <1>1, <1>7, <1>8, Same
  <2>2. QED BY <1>1, <2>1 DEF Agree
<1>10. QED BY <1>3, <1>4, <1>9 DEF After, u

\* What a fold makes of nothing, of one more element at either end, and of two sequences.
LEMMA AfterType ==
  ASSUME NEW X, NEW L, NEW step \in Steps(X, L, X), NEW h \in X, NEW w \in Seq(L)
  PROVE  After(step, h, w) \in X
  BY AfterIs

LEMMA AfterEmpty ==
  ASSUME NEW X, NEW L, NEW step \in Steps(X, L, X), NEW h \in X
  PROVE  After(step, h, <<>>) = h
<1>1. ASSUME NEW w \in Seq(L), Len(w) = 0 PROVE After(step, h, w) = h
  <2>1. PICK f \in [0..Len(w) -> X] : f[0] = h /\ After(step, h, w) = f[Len(w)]
    BY AfterIs
  <2>2. QED BY <1>1, <2>1
<1>2. <<>> \in Seq(L) /\ Len(<<>>) = 0
  OBVIOUS
<1>3. QED BY <1>1, <1>2

LEMMA AfterAppend ==
  ASSUME NEW X, NEW L, NEW step \in Steps(X, L, X), NEW h \in X, NEW w \in Seq(L), NEW l \in L
  PROVE  After(step, h, Append(w, l)) = step[After(step, h, w)][l]
<1> DEFINE v == Append(w, l)
           N == Len(w)
<1>1. v \in Seq(L) /\ Len(v) = N + 1 /\ N \in Nat /\ v[N + 1] = l /\ \A n \in 1..N : v[n] = w[n]
  BY AppendProperties
<1> HIDE DEF v
<1>2. PICK f \in [0..N -> X] :
        /\ f[0] = h /\ \A n \in 1..N : f[n] = step[f[n - 1]][w[n]]
        /\ After(step, h, w) = f[N]
  BY AfterIs
<1> HIDE DEF N
<1>3. PICK g \in [0..Len(v) -> X] :
        /\ g[0] = h /\ \A n \in 1..Len(v) : g[n] = step[g[n - 1]][v[n]]
        /\ After(step, h, v) = g[Len(v)]
  <2>1. v \in Seq(L)
    BY <1>1
  <2>2. QED BY <2>1, AfterIs
<1>4. f[0] = g[0]
  BY <1>2, <1>3
<1>5. ASSUME NEW n \in 1..N, f[n - 1] = g[n - 1] PROVE f[n] = g[n]
  <2>1. n \in 1..Len(v) /\ v[n] = w[n]
    BY <1>1
  <2>2. f[n] = step[f[n - 1]][w[n]]
    BY <1>2
  <2>3. g[n] = step[g[n - 1]][v[n]]
    BY <1>3, <2>1
  <2>4. QED BY <1>5, <2>1, <2>2, <2>3
<1>6. f[N] = g[N]
  <2>1. N \in Nat
    BY <1>1
  <2>2. Agree(f, g, N)
    BY <1>4, <1>5, <2>1, Same
  <2>3. QED BY <2>1, <2>2 DEF Agree
<1>7. g[N + 1] = step[g[N]][l]
  <2>1. N + 1 \in 1..N + 1 /\ N + 1 - 1 = N
    BY <1>1
  <2>2. QED BY <1>1, <1>3, <2>1
<1>8. QED BY <1>1, <1>2, <1>3, <1>6, <1>7 DEF v

LEMMA AfterConcat ==
  ASSUME NEW X, NEW L, NEW step \in Steps(X, L, X), NEW h \in X, NEW v \in Seq(L)
  PROVE  \A w \in Seq(L) : After(step, h, v \o w) = After(step, After(step, h, v), w)
<1> DEFINE E(w) == After(step, h, v \o w) = After(step, After(step, h, v), w)
           P == {n \in Nat : \A w \in Seq(L) : Len(w) = n => E(w)}
<1>0. After(step, h, v) \in X
  BY AfterType
<1>1. 0 \in P
  <2>1. \A w \in Seq(L) : Len(w) = 0 => w = <<>>
    OBVIOUS
  <2>2. E(<<>>)
    BY <1>0, AfterEmpty, ConcatEmptySeq
  <2>3. QED BY <2>1, <2>2
<1>2. ASSUME NEW n \in Nat, n \in P PROVE n + 1 \in P
  <2>1. SUFFICES ASSUME NEW w \in Seq(L), Len(w) = n + 1 PROVE E(w)
    OBVIOUS
  <2>2. w # <<>>
    BY <2>1
  <2>3. PICK u \in Seq(L), l \in L : w = Append(u, l)
    BY <2>2, SequenceEmptyOrAppend
  <2>4. Len(u) = n /\ v \o u \in Seq(L) /\ v \o w = Append(v \o u, l)
    BY <2>1, <2>3
  <2>5. E(u)
    BY <1>2, <2>4
  <2>6. After(step, h, v \o w) = step[After(step, h, v \o u)][l]
    <3> DEFINE vu == v \o u
    <3>1. vu \in Seq(L) /\ v \o w = Append(vu, l)
      BY <2>4
    <3> HIDE DEF vu
    <3>2. After(step, h, Append(vu, l)) = step[After(step, h, vu)][l]
      BY <3>1, AfterAppend
    <3>3. QED BY <3>1, <3>2 DEF vu
  <2>7. After(step, After(step, h, v), w) = step[After(step, After(step, h, v), u)][l]
    BY <1>0, <2>3, AfterAppend
  <2>8. QED BY <2>5, <2>6, <2>7
<1>3. \A n \in Nat : n \in P
  <2> HIDE DEF P
  <2>1. QED BY <1>1, <1>2, Induction
<1>4. QED BY <1>3, LenProperties

LEMMA AfterOne ==
  ASSUME NEW X, NEW L, NEW step \in Steps(X, L, X), NEW h \in X, NEW l \in L
  PROVE  After(step, h, <<l>>) = step[h][l]
<1> DEFINE none == <<>>
<1>1. none \in Seq(L) /\ <<l>> = Append(none, l)
  OBVIOUS
<1>2. After(step, h, none) = h
  BY AfterEmpty
<1> HIDE DEF none
<1>3. After(step, h, Append(none, l)) = step[After(step, h, none)][l]
  BY <1>1, AfterAppend
<1>4. QED BY <1>1, <1>2, <1>3

LEMMA AfterHead ==
  ASSUME NEW X, NEW L, NEW step \in Steps(X, L, X), NEW h \in X, NEW w \in Seq(L), w # <<>>
  PROVE  After(step, h, w) = After(step, step[h][Head(w)], Tail(w))
<1> DEFINE first == Head(w)
           one == <<first>>
           rest == Tail(w)
<1>1. first \in L /\ rest \in Seq(L) /\ one \in Seq(L) /\ w = one \o rest
  BY HeadTailProperties
<1> HIDE DEF first, rest
<1>2. After(step, h, one) = step[h][first]
  BY <1>1, AfterOne
<1> HIDE DEF one
<1>3. After(step, h, one \o rest) = After(step, After(step, h, one), rest)
  BY <1>1, AfterConcat
<1>4. QED BY <1>1, <1>2, <1>3 DEF first, rest

-----------------------------------------------------------------------------
(***************************************************************************)
(* The weight of texts, and the bytes of images.                           *)
(***************************************************************************)
LEMMA WidthType == \A c \in Char : Width(c) \in Nat
  BY DEF Char, Width

\* The weight of a text, and the bytes of images, are sums.
Totals == Nat
Weigh == [x \in Nat |-> [c \in Char |-> x + Width(c)]]
Plus == [x \in Nat |-> [y \in Nat |-> x + y]]

\* The sum of a sequence, and the bytes of a text, are folds.
LEMMA SumSteps == Weigh \in Steps(Totals, Char, Totals) /\ Plus \in Steps(Totals, Totals, Totals)
                  /\ 0 \in Totals
<1>1. \A x \in Nat, c \in Char : x + Width(c) \in Nat
  BY WidthType
<1>2. QED BY <1>1 DEF Weigh, Plus, Steps, Totals

LEMMA BytesIs == ASSUME NEW s \in Seq(Char) PROVE Bytes(s) = After(Weigh, 0, s)
<1> DEFINE N == Len(s)
           Sums(f) == f = [n \in 0..N |-> IF n = 0 THEN 0 ELSE f[n - 1] + Width(s[n])]
           u == CHOOSE f : Sums(f)
<1>1. N \in Nat /\ \A n \in 1..N : s[n] \in Char
  OBVIOUS
<1> HIDE DEF N
<1>2. PICK f \in [0..Len(s) -> Totals] :
        /\ f[0] = 0 /\ \A n \in 1..Len(s) : f[n] = Weigh[f[n - 1]][s[n]]
        /\ After(Weigh, 0, s) = f[Len(s)]
  BY SumSteps, AfterIs
<1>3. ASSUME NEW n \in 1..N PROVE f[n] = f[n - 1] + Width(s[n])
  <2>1. f[n - 1] \in Nat /\ s[n] \in Char
    BY <1>1, <1>2 DEF N, Totals
  <2>2. QED BY <1>2, <2>1 DEF Weigh, N
<1>4. f \in [0..N -> Nat] /\ f[0] = 0 /\ f[N] = After(Weigh, 0, s)
  BY <1>2 DEF N, Totals
<1>5. Sums(f)
  BY <1>1, <1>3, <1>4
<1>6. Sums(u)
  BY <1>5
<1> HIDE DEF u
<1>7. Agree(u, f, N)
  <2>1. u[0] = f[0]
    BY <1>1, <1>4, <1>6
  <2>2. ASSUME NEW n \in 1..N, u[n - 1] = f[n - 1] PROVE u[n] = f[n]
    BY <1>1, <1>3, <1>6, <2>2
  <2>3. QED BY <1>1, <2>1, <2>2, Same
<1>8. Bytes(s) = u[N]
  BY DEF Bytes, u, N
<1>9. QED BY <1>1, <1>4, <1>7, <1>8 DEF Agree

LEMMA SumIs == ASSUME NEW s \in Seq(Totals) PROVE SumSeq(s) = After(Plus, 0, s)
<1> DEFINE N == Len(s)
           Sums(f) == f = [n \in 0..N |-> IF n = 0 THEN 0 ELSE f[n - 1] + s[n]]
           u == CHOOSE f : Sums(f)
<1>1. N \in Nat /\ \A n \in 1..N : s[n] \in Nat
  BY DEF Totals
<1> HIDE DEF N
<1>2. PICK f \in [0..Len(s) -> Totals] :
        /\ f[0] = 0 /\ \A n \in 1..Len(s) : f[n] = Plus[f[n - 1]][s[n]]
        /\ After(Plus, 0, s) = f[Len(s)]
  BY SumSteps, AfterIs
<1>3. ASSUME NEW n \in 1..N PROVE f[n] = f[n - 1] + s[n]
  <2>1. n - 1 \in 0..N /\ s[n] \in Nat
    BY <1>1
  <2>2. f[n - 1] \in Nat /\ f[n] = Plus[f[n - 1]][s[n]]
    BY <1>2, <2>1 DEF N, Totals
  <2>3. QED BY <2>1, <2>2 DEF Plus
<1>4. f \in [0..N -> Nat] /\ f[0] = 0 /\ f[N] = After(Plus, 0, s)
  BY <1>2 DEF N, Totals
<1>5. Sums(f)
  BY <1>1, <1>3, <1>4
<1>6. Sums(u)
  BY <1>5
<1> HIDE DEF u
<1>7. Agree(u, f, N)
  <2>1. u[0] = f[0]
    BY <1>1, <1>4, <1>6
  <2>2. ASSUME NEW n \in 1..N, u[n - 1] = f[n - 1] PROVE u[n] = f[n]
    BY <1>1, <1>3, <1>6, <2>2
  <2>3. QED BY <1>1, <2>1, <2>2, Same
<1>8. SumSeq(s) = u[N]
  BY DEF SumSeq, u, N
<1>9. QED BY <1>1, <1>4, <1>7, <1>8 DEF Agree

\* What a sum is, of nothing and of one more number.
LEMMA SumType == \A s \in Seq(Nat) : SumSeq(s) \in Nat
<1>1. \A s \in Seq(Totals) : SumSeq(s) \in Totals
  BY SumIs, SumSteps, AfterType
<1>2. QED BY <1>1 DEF Totals

LEMMA SumEmpty == SumSeq(<<>>) = 0
<1>1. After(Plus, 0, <<>>) = 0
  BY SumSteps, AfterEmpty
<1>2. <<>> \in Seq(Totals)
  OBVIOUS
<1>3. QED BY <1>1, <1>2, SumIs

LEMMA SumAppend ==
  ASSUME NEW s \in Seq(Nat), NEW x \in Nat
  PROVE  SumSeq(Append(s, x)) = SumSeq(s) + x
<1>1. s \in Seq(Totals) /\ x \in Totals
  BY DEF Totals
<1>2. After(Plus, 0, Append(s, x)) = Plus[After(Plus, 0, s)][x]
  BY <1>1, SumSteps, AfterAppend
<1>3. Append(s, x) \in Seq(Totals)
  BY <1>1, AppendProperties
<1>4. SumSeq(s) = After(Plus, 0, s) /\ SumSeq(Append(s, x)) = After(Plus, 0, Append(s, x))
  BY <1>1, <1>3, SumIs
<1>5. SumSeq(Append(s, x)) = Plus[SumSeq(s)][x] /\ SumSeq(s) \in Nat
  BY <1>2, <1>4, SumType
<1>6. QED BY <1>5 DEF Plus

\* What a text weighs: nothing, one more character, and two texts.
LEMMA BytesType == \A s \in Seq(Char) : Bytes(s) \in Nat
<1>1. \A s \in Seq(Char) : Bytes(s) \in Totals
  BY BytesIs, SumSteps, AfterType
<1>2. QED BY <1>1 DEF Totals

LEMMA BytesEmpty == Bytes(<<>>) = 0
<1>1. After(Weigh, 0, <<>>) = 0
  BY SumSteps, AfterEmpty
<1>2. <<>> \in Seq(Char)
  OBVIOUS
<1>3. QED BY <1>1, <1>2, BytesIs

LEMMA BytesAppend ==
  ASSUME NEW s \in Seq(Char), NEW c \in Char
  PROVE  Bytes(Append(s, c)) = Bytes(s) + Width(c)
<1>1. After(Weigh, 0, Append(s, c)) = Weigh[After(Weigh, 0, s)][c]
  BY SumSteps, AfterAppend
<1>2. Append(s, c) \in Seq(Char)
  BY AppendProperties
<1>3. Bytes(s) = After(Weigh, 0, s) /\ Bytes(Append(s, c)) = After(Weigh, 0, Append(s, c))
  BY <1>2, BytesIs
<1>4. Bytes(Append(s, c)) = Weigh[Bytes(s)][c] /\ Bytes(s) \in Nat
  BY <1>1, <1>3, BytesType
<1>5. QED BY <1>4 DEF Weigh

LEMMA BytesConcat ==
  ASSUME NEW s \in Seq(Char)
  PROVE  \A t \in Seq(Char) : Bytes(s \o t) = Bytes(s) + Bytes(t)
<1> DEFINE P == {n \in Nat : \A t \in Seq(Char) : Len(t) = n => Bytes(s \o t) = Bytes(s) + Bytes(t)}
<1>1. 0 \in P
  <2>1. SUFFICES ASSUME NEW t \in Seq(Char), Len(t) = 0 PROVE Bytes(s \o t) = Bytes(s) + Bytes(t)
    OBVIOUS
  <2>2. t = <<>> /\ s \o <<>> = s
    BY <2>1, ConcatEmptySeq, EmptySeq
  <2>3. Bytes(s) \in Nat
    BY BytesType
  <2>4. QED BY <2>2, <2>3, BytesEmpty
<1>2. ASSUME NEW n \in Nat, n \in P PROVE n + 1 \in P
  <2>1. SUFFICES ASSUME NEW t \in Seq(Char), Len(t) = n + 1
                 PROVE  Bytes(s \o t) = Bytes(s) + Bytes(t)
    OBVIOUS
  <2>0. t # <<>>
    BY <2>1
  <2>2. PICK u \in Seq(Char), c \in Char : t = Append(u, c)
    BY <2>0, SequenceEmptyOrAppend
  <2>3. Len(u) = n /\ s \o u \in Seq(Char) /\ s \o t = Append(s \o u, c)
    BY <2>1, <2>2
  <2>4. Bytes(s \o u) = Bytes(s) + Bytes(u)
    BY <1>2, <2>3
  <2>5. Bytes(s \o t) = Bytes(s \o u) + Width(c) /\ Bytes(t) = Bytes(u) + Width(c)
    BY <2>2, <2>3, BytesAppend
  <2>6. Bytes(s) \in Nat /\ Bytes(u) \in Nat /\ Width(c) \in Nat
    BY BytesType, WidthType
  <2>7. QED BY <2>4, <2>5, <2>6
<1>3. \A n \in Nat : n \in P
  <2> HIDE DEF P
  <2>1. QED BY <1>1, <1>2, Induction
<1>4. QED BY <1>3, LenProperties

\* A text weighs at most its characters times the widest of them.
LEMMA BytesBound ==
  ASSUME NEW widest \in Nat, NEW C \in SUBSET Char, \A c \in C : Width(c) <= widest
  PROVE  \A t \in Seq(C) : Bytes(t) <= widest * Len(t)
<1> DEFINE P == {n \in Nat : \A t \in Seq(C) : Len(t) = n => Bytes(t) <= widest * n}
<1>1. 0 \in P
  <2>1. \A t \in Seq(C) : Len(t) = 0 => t = <<>>
    OBVIOUS
  <2>2. QED BY <2>1, BytesEmpty
<1>2. ASSUME NEW n \in Nat, n \in P PROVE n + 1 \in P
  <2>1. SUFFICES ASSUME NEW t \in Seq(C), Len(t) = n + 1
                 PROVE  Bytes(t) <= widest * (n + 1)
    OBVIOUS
  <2>2. PICK u \in Seq(C), c \in C : t = Append(u, c)
    BY <2>1, SequenceEmptyOrAppend
  <2>3. Len(u) = n /\ u \in Seq(Char) /\ c \in Char
    BY <2>1, <2>2, SeqMonotonic
  <2>4. Bytes(u) <= widest * n /\ Bytes(t) = Bytes(u) + Width(c)
    BY <1>2, <2>2, <2>3, BytesAppend
  <2>5. Bytes(u) \in Nat /\ Width(c) \in Nat /\ Width(c) <= widest
    BY <2>3, BytesType, WidthType
  <2>6. widest * (n + 1) = widest * n + widest /\ widest * n \in Nat
    OBVIOUS
  <2> DEFINE wn == widest * n
  <2>7. QED
    <3> HIDE DEF wn
    <3>1. Bytes(u) + Width(c) <= wn + widest
      BY <2>4, <2>5, <2>6 DEF wn
    <3>2. QED BY <2>4, <2>6, <3>1 DEF wn
<1>3. \A n \in Nat : n \in P
  <2> HIDE DEF P
  <2>1. QED BY <1>1, <1>2, Induction
<1>4. QED BY <1>3, LenProperties

-----------------------------------------------------------------------------
\* Characters of the cell, what the kernel sends, and the lines it is cut into.
Chars == 1..CharBytes \cup {NL}
Message == [type : {"stream", "block"}, text : Texts] \cup [type : {"image"}, size : Sizes]
             \cup [type : {"clear"}, wait : BOOLEAN] \cup [type : {"foreign", "idle"}]
Piece == {t \in Seq(Chars) : Len(t) <= ChunkChars}
Carried == [type : {"output"}, kind : {"stream", "block"}, text : Piece,
            continuation : BOOLEAN, final : BOOLEAN]
             \cup [type : {"clear", "result"}] \cup [type : {"image"}, size : Sizes]

\* What is on the way, and what was collected.
QueueInv == iopub \in Seq(Message) /\ wire \in Seq(Carried) /\ output \in Seq(Chars)

DataInv == TypeOK /\ QueueInv

\* The overflow is met by the piece that reaches over the limit, and by no other.
BoundInv ==
  /\ armed = "no" => Bytes(output) <= CaptureLimit
  /\ armed # "cancel" => Bytes(output) <= CaptureLimit + CharBytes * ChunkChars + 2

\* The history shows what onOutput() saw last, and it saw all that was not too much.
HistoryInv ==
  /\ full \/ shown = latest
  /\ state = "active" /\ Bytes(output) <= CaptureLimit => latest = output
  /\ state = "answered" => latest = ResultText

\* The characters of the cell are characters of the bounded width.
LEMMA CharsWidth == Chars \subseteq Char /\ \A c \in Chars : Width(c) <= CharBytes
  BY OutputAssumption DEF Chars, Char, Width

LEMMA TextType == ASSUME NEW t \in Seq(Chars) PROVE t \in Seq(Char)
  BY CharsWidth, SeqMonotonic

\* A text that is made to end its line is a text of at most one byte more.
LEMMA OnLineFacts ==
  ASSUME NEW t \in Seq(Chars)
  PROVE  OnLine(t) \in Seq(Chars) /\ Bytes(OnLine(t)) <= Bytes(t) + 1 /\ Bytes(t) <= Bytes(OnLine(t))
<1>1. NL \in Chars /\ NL \in Char /\ Width(NL) = 1
  BY DEF Chars, Char, Width
<1>2. t \in Seq(Char) /\ Bytes(t) \in Nat
  BY TextType, BytesType
<1>3. Append(t, NL) \in Seq(Chars) /\ Bytes(Append(t, NL)) = Bytes(t) + 1
  BY <1>1, <1>2, BytesAppend, AppendProperties
<1>4. QED BY <1>2, <1>3 DEF OnLine

\* A text that a line is added to: it stays a text, of at most a chunk and two newlines more.
LEMMA AddedFacts ==
  ASSUME NEW base \in Seq(Chars), NEW line \in Carried, line.type = "output"
  PROVE  /\ Added(base, line) \in Seq(Chars)
         /\ Bytes(Added(base, line)) <= Bytes(base) + CharBytes * ChunkChars + 2
<1>1. line.text \in Seq(Chars) /\ Len(line.text) <= ChunkChars /\ Len(line.text) \in Nat
      /\ line.kind \in {"stream", "block"}
  BY DEF Carried, Piece
<1>2. Bytes(line.text) <= CharBytes * Len(line.text)
  BY <1>1, CharsWidth, BytesBound, OutputAssumption
<1>3. CharBytes * Len(line.text) <= CharBytes * ChunkChars
  <2>1. \A a, b, c \in Nat : b <= c => a * b <= a * c
    OBVIOUS
  <2>2. QED BY <1>1, <2>1, OutputAssumption
<1>4. CharBytes * Len(line.text) \in Nat /\ CharBytes * ChunkChars \in Nat
  BY <1>1, OutputAssumption
<1> DEFINE most == CharBytes * ChunkChars
<1>5. Bytes(line.text) <= most /\ Bytes(line.text) \in Nat /\ most \in Nat
  BY <1>1, <1>2, <1>3, <1>4, TextType, BytesType
<1> HIDE DEF most
<1>6. ASSUME NEW t \in Seq(Chars)
      PROVE  /\ t \o line.text \in Seq(Chars) /\ Bytes(t \o line.text) = Bytes(t) + Bytes(line.text)
             /\ Bytes(t) \in Nat
  BY <1>1, <1>6, TextType, BytesType, BytesConcat, ConcatProperties
<1>7. base \in Seq(Chars) /\ Bytes(base) \in Nat
  BY TextType, BytesType
<1>8. CASE line.kind = "stream"
  <2>1. Added(base, line) = base \o line.text
    BY <1>8 DEF Added
  <2>2. Bytes(Added(base, line)) <= Bytes(base) + most + 2
    BY <1>5, <1>6, <1>7, <2>1
  <2>3. QED BY <1>6, <1>7, <2>1, <2>2 DEF most
<1>9. CASE line.kind # "stream"
  <2> DEFINE before == IF line.continuation THEN base ELSE OnLine(base)
             text == before \o line.text
  <2>1. before \in Seq(Chars) /\ Bytes(before) <= Bytes(base) + 1
    BY <1>7, OnLineFacts
  <2>2. Added(base, line) = IF line.final THEN OnLine(text) ELSE text
    BY <1>9 DEF Added
  <2> HIDE DEF before
  <2>3. text \in Seq(Chars) /\ Bytes(text) = Bytes(before) + Bytes(line.text) /\ Bytes(before) \in Nat
    BY <1>6, <2>1
  <2> HIDE DEF text
  <2>4. Added(base, line) \in Seq(Chars) /\ Bytes(Added(base, line)) <= Bytes(text) + 1
    <3>1. Bytes(text) \in Nat
      BY <2>3, TextType, BytesType
    <3>2. CASE line.final
      BY <2>2, <2>3, <3>2, OnLineFacts
    <3>3. CASE ~line.final
      BY <2>2, <2>3, <3>1, <3>3
    <3>4. QED BY <3>2, <3>3
  <2>5. Bytes(Added(base, line)) \in Nat /\ Bytes(text) \in Nat
    BY <2>3, <2>4, TextType, BytesType
  <2>6. Bytes(Added(base, line)) <= Bytes(base) + most + 2
    BY <1>5, <1>7, <2>1, <2>3, <2>4, <2>5
  <2>7. QED BY <2>4, <2>6 DEF most
<1>10. QED BY <1>8, <1>9

\* The chunks of a message are lines of the wire.
LEMMA ChunksType ==
  ASSUME NEW kind \in {"stream", "block"}, NEW text \in Texts
  PROVE  Chunks(kind, text) \in Seq(Carried)
<1>1. text \in Seq(Chars) /\ Len(text) \in Nat
  BY OutputAssumption DEF Chars
<1> DEFINE count == (Len(text) + ChunkChars - 1) \div ChunkChars
           start(n) == (n - 1) * ChunkChars
           end(n) == Min({start(n) + ChunkChars, Len(text)})
<1>2. count \in Nat
  <2>1. Len(text) + ChunkChars - 1 \in Nat /\ ChunkChars \in Nat \ {0}
    BY <1>1, OutputAssumption
  <2>2. \A a \in Nat, b \in Nat \ {0} : a \div b \in Nat
    OBVIOUS
  <2>3. QED BY <2>1, <2>2
<1>3. ASSUME NEW n \in 1..count PROVE start(n) \in Nat
  <2>1. n - 1 \in Nat /\ ChunkChars \in Nat
    BY <1>2, OutputAssumption
  <2>2. \A a, b \in Nat : a * b \in Nat
    OBVIOUS
  <2>3. QED BY <2>1, <2>2
<1>4. ASSUME NEW n \in 1..count
      PROVE  end(n) \in Int /\ end(n) <= start(n) + ChunkChars /\ end(n) <= Len(text)
  <2> DEFINE a == start(n) + ChunkChars
             b == Len(text)
  <2>1. a \in Int /\ b \in Int
    BY <1>1, <1>3, OutputAssumption
  <2> HIDE DEF a, b
  <2>2. \E x \in {a, b} : \A y \in {a, b} : x <= y
    BY <2>1
  <2>3. Min({a, b}) \in {a, b} /\ \A y \in {a, b} : Min({a, b}) <= y
    BY <2>2 DEF Min
  <2>4. QED BY <2>1, <2>3 DEF a, b
<1> HIDE DEF count, start, end
<1>5. ASSUME NEW n \in 1..count PROVE SubSeq(text, start(n) + 1, end(n)) \in Piece
  <2> DEFINE from == start(n) + 1
             to == end(n)
  <2>1. from \in Nat /\ from >= 1 /\ to \in Int /\ to - from + 1 <= ChunkChars /\ to <= Len(text)
        /\ ChunkChars \in Nat
    BY <1>2, <1>3, <1>4, OutputAssumption
  <2> HIDE DEF from, to
  <2>2. \A i \in from..to : text[i] \in Chars
    BY <1>1, <2>1
  <2>3. SubSeq(text, from, to) \in Seq(Chars)
        /\ Len(SubSeq(text, from, to)) = IF from <= to THEN to - from + 1 ELSE 0
    BY <2>1, <2>2, SubSeqProperties
  <2>4. QED BY <2>1, <2>3 DEF Piece, from, to
<1> DEFINE chunk(n) == [type |-> "output", kind |-> kind, text |-> SubSeq(text, start(n) + 1, end(n)),
                        continuation |-> Continuation(start(n)), final |-> end(n) = Len(text)]
<1>6. ASSUME NEW n \in 1..count PROVE chunk(n) \in Carried
  BY <1>5 DEF Carried, Continuation
<1>7. Chunks(kind, text) = [n \in 1..count |-> chunk(n)]
  BY DEF Chunks, count, start, end
<1> HIDE DEF chunk
<1>8. [n \in 1..count |-> chunk(n)] \in [1..count -> Carried]
  BY <1>6
<1>9. QED BY <1>2, <1>7, <1>8, SeqDef

\* What the history is given.
LEMMA FollowFacts ==
  ASSUME NEW text \in Seq(Char), TypeOK, Follow(text)
  PROVE  /\ latest' = text /\ shown' \in Seq(Char) /\ recorded' \in Nat /\ full' \in BOOLEAN
         /\ full \/ shown = latest => full' \/ shown' = latest'
<1>1. latest \in Seq(Char) /\ shown \in Seq(Char) /\ recorded \in Nat /\ full \in BOOLEAN
  BY DEF TypeOK, Char
<1>2. ASSUME NEW added \in Seq(Char), NEW view \in Seq(Char), Records(added, view)
      PROVE  /\ shown' \in Seq(Char) /\ recorded' \in Nat /\ full' \in BOOLEAN
             /\ (full' \/ shown' = view) /\ (full => full')
  <2>1. CASE full
    BY <1>1, <1>2, <2>1 DEF Records
  <2>2. CASE ~full
    <3>1. /\ recorded' = recorded + Bytes(added)
          /\ full' = (recorded' > HistoryLimit)
          /\ shown' = IF full' THEN shown ELSE view
      BY <1>2, <2>2 DEF Records
    <3>2. Bytes(added) \in Nat
      BY <1>2, BytesType
    <3>3. recorded' \in Nat
      BY <1>1, <3>1, <3>2
    <3>4. full' \in BOOLEAN
      BY <3>1
    <3>5. QED BY <1>1, <1>2, <2>2, <3>1, <3>3, <3>4
  <2>3. QED BY <2>1, <2>2
<1>3. CASE IsPrefix(latest, text)
  <2> DEFINE more == SubSeq(text, Len(latest) + 1, Len(text))
  <2>1. Len(latest) \in Nat /\ Len(text) \in Nat /\ Len(latest) <= Len(text)
        /\ SubSeq(latest, 1, Len(latest)) = SubSeq(text, 1, Len(latest))
    BY <1>1, <1>3, LenProperties DEF IsPrefix
  <2>2. more \in Seq(Char)
    BY <2>1
  <2>3. latest \o more = text
    <3> DEFINE k == Len(latest)
               n == Len(text)
    <3>0. text \in Seq(Char) /\ 1 \in 1..n + 1 /\ k \in 1 - 1..n /\ n \in k..Len(text)
      BY <2>1
    <3> HIDE DEF k, n
    <3>1. SubSeq(text, 1, Len(latest)) \o more = SubSeq(text, 1, Len(text))
      <4>1. SubSeq(text, 1, k) \o SubSeq(text, k + 1, n) = SubSeq(text, 1, n)
        BY <3>0, ConcatAdjacentSubSeq DEF n
      <4>2. QED BY <4>1 DEF k, n
    <3>2. QED BY <1>1, <2>1, <3>1, SubSeqFull
  <2>4. shown \o more \in Seq(Char)
    BY <1>1, <2>2, ConcatProperties
  <2>5. latest' = text /\ Records(more, shown \o more)
    BY <1>3 DEF Follow
  <2> HIDE DEF more
  <2>6. /\ shown' \in Seq(Char) /\ recorded' \in Nat /\ full' \in BOOLEAN
        /\ (full' \/ shown' = shown \o more) /\ (full => full')
    BY <1>2, <2>2, <2>4, <2>5
  <2>7. QED BY <2>3, <2>5, <2>6
<1>4. CASE ~IsPrefix(latest, text)
  <2>1. latest' = text /\ Records(text, text)
    BY <1>4 DEF Follow
  <2>2. QED BY <1>2, <2>1
<1>5. QED BY <1>3, <1>4

-----------------------------------------------------------------------------
(***************************************************************************)
(* The types.                                                              *)
(***************************************************************************)
LEMMA QueueType == Seq(Carried) \subseteq Seq(Line) /\ Seq(Chars) \subseteq Seq(Nat \cup {NL})
<1>1. Chars \subseteq Nat \cup {NL} /\ Piece \subseteq Seq(Nat \cup {NL})
  BY CharsWidth, TextType DEF Char, Piece
<1>2. Carried \subseteq Line
  BY <1>1 DEF Carried, Line
<1>3. QED BY <1>1, <1>2, SeqMonotonic

\* The text of the result is a text.
LEMMA ResultType == ASSUME QueueInv PROVE ResultText \in Seq(Char)
<1>1. output \in Seq(Char)
  BY TextType DEF QueueInv
<1>2. 3 \in Char /\ NL \in Char
  BY DEF Char
<1>3. Interrupted \in Seq(Char)
  BY <1>2 DEF Interrupted
<1>4. Interrupted \o output \in Seq(Char)
  BY <1>1, <1>3, ConcatProperties
<1>5. QED BY <1>1, <1>4 DEF ResultText

\* Nothing was sent, read or collected yet.
LEMMA InitData == ASSUME Init PROVE DataInv
<1>1. QueueInv
  BY DEF Init, QueueInv
<1>2. \A S : <<>> \in Seq(S)
  OBVIOUS
<1>3. /\ shell = "none" /\ idle = FALSE /\ pending = FALSE /\ full = FALSE
      /\ dropped = 0 /\ recorded = 0 /\ armed = "no" /\ state = "active"
      /\ wire = <<>> /\ images = <<>> /\ output = <<>> /\ latest = <<>> /\ shown = <<>>
  BY Zenon DEF Init
<1>4. /\ wire \in Seq(Line) /\ images \in Seq(Sizes) /\ output \in Seq(Nat \cup {NL})
      /\ latest \in Seq(Nat \cup {NL}) /\ shown \in Seq(Nat \cup {NL})
  BY <1>2, <1>3, Zenon
<1>5. TypeOK
  BY <1>3, <1>4 DEF TypeOK
<1>6. QED BY <1>1, <1>5 DEF DataInv

\* The queues go on holding what their readers expect.
LEMMA StepQueue == ASSUME DataInv, [Next]_vars PROVE QueueInv'
<1>1. iopub \in Seq(Message) /\ wire \in Seq(Carried) /\ output \in Seq(Chars)
  BY DEF DataInv, QueueInv
<1>2. CASE Kernel
  <2>1. PICK message \in Message : Publish(message)
    BY <1>2 DEF Kernel, Shows, ConsoleShows, CellEnds, Message
  <2>2. iopub' \in Seq(Message) /\ wire' = wire /\ output' = output
    BY <1>1, <2>1, AppendProperties DEF Publish, collected
  <2>3. QED BY <1>1, <2>2 DEF QueueInv
<1>3. CASE Bridge
  <2>1. output' = output
    BY <1>3 DEF Bridge, ReadForeign, ReadIdle, ReadReply, FeedText, FeedImage, FeedClear, SendResult,
                Reads, collected
  <2>2. iopub' \in Seq(Message)
    <3>1. iopub' = iopub \/ (iopub # <<>> /\ iopub' = Tail(iopub))
      BY <1>3 DEF Bridge, ReadForeign, ReadIdle, ReadReply, FeedText, FeedImage, FeedClear,
                  SendResult, Reads, channels
    <3>2. QED BY <1>1, <3>1, HeadTailProperties
  <2>3. [type |-> "clear"] \in Carried /\ [type |-> "result"] \in Carried
    BY DEF Carried
  <2>4. Cleared \in Seq(Carried)
    BY <2>3 DEF Cleared
  <2>5. CASE FeedText
    <3>1. Head(iopub) \in Message /\ Head(iopub).type \in {"stream", "block"}
      BY <1>1, <2>5, HeadTailProperties DEF FeedText, Reads
    <3>2. Head(iopub).text \in Texts
      BY <3>1 DEF Message
    <3>3. Chunks(Head(iopub).type, Head(iopub).text) \in Seq(Carried)
      BY <3>1, <3>2, ChunksType
    <3>4. wire' = wire \o Cleared \o Chunks(Head(iopub).type, Head(iopub).text)
      BY <2>5 DEF FeedText
    <3>5. wire' \in Seq(Carried)
      BY <1>1, <2>4, <3>3, <3>4, ConcatProperties
    <3>6. QED BY <1>1, <2>1, <2>2, <3>5 DEF QueueInv
  <2>6. CASE FeedImage
    <3>1. Head(iopub) \in Message /\ Head(iopub).type = "image"
      BY <1>1, <2>6, HeadTailProperties DEF FeedImage, Reads
    <3>2. Head(iopub) \in Carried
      BY <3>1 DEF Message, Carried
    <3>3. wire' = wire \o Cleared \o <<Head(iopub)>>
      BY <2>6 DEF FeedImage
    <3>4. <<Head(iopub)>> \in Seq(Carried)
      BY <3>2
    <3>5. wire' \in Seq(Carried)
      BY <1>1, <2>4, <3>3, <3>4, ConcatProperties
    <3>6. QED BY <1>1, <2>1, <2>2, <3>5 DEF QueueInv
  <2>7. CASE FeedClear \/ SendResult
    <3>1. wire' = wire \/ wire' = Append(wire, [type |-> "clear"])
          \/ wire' = Append(wire, [type |-> "result"])
      BY <2>7 DEF FeedClear, SendResult
    <3>2. Append(wire, [type |-> "clear"]) \in Seq(Carried)
          /\ Append(wire, [type |-> "result"]) \in Seq(Carried)
      BY <1>1, <2>3, AppendProperties
    <3>3. wire' \in Seq(Carried)
      BY <1>1, <3>1, <3>2
    <3>4. QED BY <1>1, <2>1, <2>2, <3>3 DEF QueueInv
  <2>8. CASE ReadForeign \/ ReadIdle \/ ReadReply
    <3>1. wire' = wire
      BY <2>8 DEF ReadForeign, ReadIdle, ReadReply
    <3>2. QED BY <1>1, <2>1, <2>2, <3>1 DEF QueueInv
  <2>9. QED BY <1>3, <2>5, <2>6, <2>7, <2>8 DEF Bridge
<1>4. CASE Host
  <2>1. iopub' = iopub
    BY <1>4 DEF Host, HandleClear, HandleImage, HandleOutput, IgnoreOutput, HandleResult, Cancel,
                Lost, Handles, channels
  <2>2. wire' = wire \/ (wire # <<>> /\ wire' = Tail(wire))
    BY <1>4 DEF Host, HandleClear, HandleImage, HandleOutput, IgnoreOutput, HandleResult, Cancel,
                Lost, Handles
  <2>3. wire' \in Seq(Carried)
    BY <1>1, <2>2, HeadTailProperties
  <2>4. CASE HandleOutput
    <3>1. Head(wire) \in Carried /\ Head(wire).type = "output" /\ output' = Added(output, Head(wire))
      BY <1>1, <2>4, HeadTailProperties DEF HandleOutput, Handles
    <3>2. output' \in Seq(Chars)
      BY <1>1, <3>1, AddedFacts
    <3>3. QED BY <1>1, <2>1, <2>3, <3>2 DEF QueueInv
  <2>5. CASE HandleClear
    <3>1. output' = <<>>
      BY <2>5 DEF HandleClear
    <3>2. QED BY <1>1, <2>1, <2>3, <3>1 DEF QueueInv
  <2>6. CASE HandleImage \/ IgnoreOutput \/ HandleResult \/ Cancel \/ Lost
    <3>1. output' = output
      BY <2>6 DEF HandleImage, IgnoreOutput, HandleResult, Cancel, Lost
    <3>2. QED BY <1>1, <2>1, <2>3, <3>1 DEF QueueInv
  <2>7. QED BY <1>4, <2>4, <2>5, <2>6 DEF Host
<1>5. CASE UNCHANGED vars
  BY <1>1, <1>5 DEF vars, channels, collected, QueueInv
<1>6. QED BY <1>2, <1>3, <1>4, <1>5 DEF Next

\* What onOutput() is given, when it is called.
LEMMA FollowType ==
  ASSUME DataInv, NEW text \in Seq(Char), Follow(text)
  PROVE  /\ latest' \in Seq(Nat \cup {NL}) /\ shown' \in Seq(Nat \cup {NL})
         /\ recorded' \in Nat /\ full' \in BOOLEAN
  BY FollowFacts DEF DataInv, Char

\* Every step keeps the type of every variable.
LEMMA StepType == ASSUME DataInv, [Next]_vars PROVE TypeOK'
<1>1. QueueInv'
  BY StepQueue
<1>2. wire' \in Seq(Line) /\ output' \in Seq(Nat \cup {NL})
  BY <1>1, QueueType DEF QueueInv
<1> DEFINE Channels == shell \in {"none", "sent", "read"} /\ idle \in BOOLEAN /\ pending \in BOOLEAN
           Recording == latest \in Seq(Nat \cup {NL}) /\ shown \in Seq(Nat \cup {NL})
                     /\ recorded \in Nat /\ full \in BOOLEAN
           Collected == images \in Seq(Sizes) /\ dropped \in Nat
           Ends == armed \in {"no", "cancel", "overflow"} /\ state \in {"active", "answered", "lost"}
<1>3. Channels /\ Recording /\ Collected /\ Ends
  BY DEF DataInv, TypeOK
<1>4. Channels' /\ Recording' /\ Collected' /\ Ends'
  <2>1. CASE Kernel
    <3>1. (shell' = shell \/ shell' = "sent") /\ UNCHANGED <<idle, pending, collected>>
      BY <2>1 DEF Kernel, Shows, ConsoleShows, CellEnds, Publish
    <3>2. QED BY <1>3, <3>1 DEF collected, history
  <2>2. CASE Bridge
    <3>1. (shell' = shell \/ shell' = "read") /\ (idle' = idle \/ idle' = TRUE)
          /\ (pending' = pending \/ pending' \in BOOLEAN) /\ UNCHANGED collected
      BY <2>2 DEF Bridge, ReadForeign, ReadIdle, ReadReply, FeedText, FeedImage, FeedClear,
                  SendResult, Reads, channels
    <3>2. QED BY <1>3, <3>1 DEF collected, history
  <2>3. CASE Host
    <3>0. Channels'
      BY <1>3, <2>3 DEF Host, HandleClear, HandleImage, HandleOutput, IgnoreOutput, HandleResult,
                        Cancel, Lost, Handles, channels
    <3>1. CASE HandleClear
      <4>1. <<>> \in Seq(Char) /\ Follow(<<>>)
        BY <3>1 DEF HandleClear
      <4>2. Recording'
        BY <4>1, FollowType
      <4>3. QED BY <1>3, <3>0, <3>1, <4>2 DEF HandleClear
    <3>2. CASE HandleImage
      <4>1. Head(wire) \in Line /\ Head(wire).type = "image"
        BY <3>2, HeadTailProperties DEF HandleImage, Handles, DataInv, TypeOK
      <4>2. Head(wire).size \in Sizes
        BY <4>1 DEF Line
      <4>3. (images' = Append(images, Head(wire).size) /\ dropped' = dropped)
            \/ (images' = images /\ dropped' = dropped + 1)
        BY <3>2, Zenon DEF HandleImage
      <4>4. Collected'
        <5>1. Append(images, Head(wire).size) \in Seq(Sizes)
          BY <1>3, <4>2, AppendProperties
        <5>2. dropped + 1 \in Nat
          BY <1>3
        <5>3. QED BY <1>3, <4>3, <5>1, <5>2
      <4>5. QED BY <1>3, <3>0, <3>2, <4>4 DEF HandleImage, history
    <3>3. CASE HandleOutput
      <4>1. Recording'
        <5>1. output' \in Seq(Char)
          BY <1>2 DEF Char
        <5>2. CASE UNCHANGED history
          BY <1>3, <5>2 DEF history
        <5>3. CASE Follow(output')
          BY <5>1, <5>3, FollowType
        <5>4. QED BY <3>3, <5>2, <5>3 DEF HandleOutput
      <4>2. Ends'
        BY <1>3, <3>3 DEF HandleOutput, Overflows
      <4>3. QED BY <1>3, <3>0, <3>3, <4>1, <4>2 DEF HandleOutput
    <3>4. CASE HandleResult
      <4>1. Recording'
        BY <3>4, ResultType, FollowType DEF HandleResult, DataInv
      <4>2. QED BY <1>3, <3>0, <3>4, <4>1 DEF HandleResult
    <3>5. CASE IgnoreOutput \/ Cancel \/ Lost
      BY <1>3, <3>0, <3>5 DEF IgnoreOutput, Cancel, Lost, history
    <3>6. QED BY <2>3, <3>1, <3>2, <3>3, <3>4, <3>5 DEF Host
  <2>4. CASE UNCHANGED vars
    BY <1>3, <2>4 DEF vars, channels, collected, history
  <2>5. QED BY <2>1, <2>2, <2>3, <2>4 DEF Next
<1>5. QED BY <1>2, <1>4 DEF TypeOK

\* Both together are kept.
LEMMA StepData == ASSUME DataInv, [Next]_vars PROVE DataInv'
  BY StepQueue, StepType DEF DataInv

-----------------------------------------------------------------------------
(***************************************************************************)
(* How much is kept, and what the history shows.                           *)
(***************************************************************************)

\* Only three steps of the host change the text, or whether the cell is interrupted.
LEMMA Quiet ==
  ASSUME [Next]_vars, ~HandleClear, ~HandleOutput, ~Cancel
  PROVE  output' = output /\ armed' = armed
<1>1. CASE Kernel \/ Bridge
  BY <1>1 DEF Kernel, Shows, ConsoleShows, CellEnds, Publish, Bridge, ReadForeign, ReadIdle,
              ReadReply, FeedText, FeedImage, FeedClear, SendResult, Reads, collected
<1>2. CASE Host
  BY <1>2 DEF Host, HandleImage, IgnoreOutput, HandleResult, Lost
<1>3. CASE UNCHANGED vars
  BY <1>3 DEF vars, collected
<1>4. QED BY <1>1, <1>2, <1>3 DEF Next

\* Every step keeps the text below the size at which the host stops the cell.
LEMMA StepBound == ASSUME DataInv, BoundInv, [Next]_vars PROVE BoundInv'
<1>0. CaptureLimit \in Nat /\ CharBytes * ChunkChars \in Nat
  BY OutputAssumption
<1> DEFINE most == CharBytes * ChunkChars
<1> HIDE DEF most
<1>1. CASE HandleClear
  <2>1. output' = <<>> /\ armed' = armed
    BY <1>1 DEF HandleClear
  <2>2. QED BY <1>0, <2>1, BytesEmpty DEF BoundInv
<1>2. CASE HandleOutput
  <2>1. armed # "overflow" /\ output' = Added(output, Head(wire))
    BY <1>2 DEF HandleOutput
  <2>2. Head(wire) \in Carried /\ Head(wire).type = "output"
    BY <1>2, HeadTailProperties DEF HandleOutput, Handles, DataInv, QueueInv
  <2>3. output' \in Seq(Chars) /\ Bytes(output') <= Bytes(output) + most + 2
    BY <2>1, <2>2, AddedFacts DEF most, DataInv, QueueInv
  <2>4. Bytes(output') \in Nat /\ Bytes(output) \in Nat /\ most \in Nat
    BY <1>0, <2>3, TextType, BytesType DEF most, DataInv, QueueInv
  <2>5. armed = "no" => Bytes(output') <= CaptureLimit + most + 2
    BY <1>0, <2>3, <2>4 DEF BoundInv
  <2>6. CASE Bytes(output') <= CaptureLimit /\ armed' = armed
    <3>1. Bytes(output') <= CaptureLimit + most + 2
      BY <1>0, <2>4, <2>6
    <3>2. QED BY <2>6, <3>1 DEF BoundInv, most
  <2>7. CASE Overflows(output')
    <3>1. armed' = IF armed = "no" THEN "overflow" ELSE armed
      BY <2>7 DEF Overflows
    <3>2. armed \in {"no", "cancel", "overflow"}
      BY DEF DataInv, TypeOK
    <3>3. armed' # "no" /\ (armed' # "cancel" => armed = "no")
      BY <2>1, <3>1, <3>2
    <3>4. QED BY <2>5, <3>3 DEF BoundInv, most
  <2>8. QED BY <1>2, <2>6, <2>7 DEF HandleOutput
<1>3. CASE Cancel
  BY <1>3 DEF Cancel, BoundInv
<1>4. CASE ~HandleClear /\ ~HandleOutput /\ ~Cancel
  BY <1>4, Quiet DEF BoundInv
<1>5. QED BY <1>1, <1>2, <1>3, <1>4

\* Every step keeps what the history says of what was shown.
LEMMA StepHistory == ASSUME DataInv, HistoryInv, [Next]_vars PROVE HistoryInv'
<1>1. CASE HandleClear
  <2>1. output' = <<>> /\ Follow(<<>>) /\ state = "active" /\ state' = state
    BY <1>1 DEF HandleClear, Handles
  <2>2. latest' = <<>> /\ (full' \/ shown' = latest')
    <3>1. <<>> \in Seq(Char)
      OBVIOUS
    <3>2. QED BY <2>1, <3>1, FollowFacts DEF DataInv, HistoryInv
  <2>3. QED BY <2>1, <2>2 DEF HistoryInv
<1>2. CASE HandleOutput
  <2>1. state = "active" /\ state' = state
    BY <1>2 DEF HandleOutput, Handles
  <2>2. output' \in Seq(Char)
    BY StepQueue, TextType DEF QueueInv
  <2>3. CASE Bytes(output') <= CaptureLimit /\ Follow(output')
    <3>1. latest' = output' /\ (full' \/ shown' = latest')
      BY <2>2, <2>3, FollowFacts DEF DataInv, HistoryInv
    <3>2. QED BY <2>1, <3>1 DEF HistoryInv
  <2>4. CASE Bytes(output') > CaptureLimit /\ UNCHANGED history
    <3>1. ~(Bytes(output') <= CaptureLimit)
      BY <2>2, <2>4, BytesType, OutputAssumption
    <3>2. QED BY <2>1, <2>4, <3>1 DEF HistoryInv, history
  <2>5. QED BY <1>2, <2>3, <2>4 DEF HandleOutput, Overflows
<1>3. CASE HandleResult
  <2>1. state' = "answered" /\ Follow(ResultText) /\ output' = output /\ armed' = armed
    BY <1>3 DEF HandleResult
  <2>2. latest' = ResultText /\ (full' \/ shown' = latest')
    BY <2>1, ResultType, FollowFacts DEF DataInv, HistoryInv
  <2>3. ResultText' = ResultText
    BY <2>1 DEF ResultText, Interrupted
  <2>4. QED BY <2>1, <2>2, <2>3 DEF HistoryInv
<1>4. CASE ~HandleClear /\ ~HandleOutput /\ ~HandleResult
  <2>1. UNCHANGED <<history, output>>
    BY <1>4 DEF Next, Kernel, Shows, ConsoleShows, CellEnds, Publish, Bridge, ReadForeign, ReadIdle,
                ReadReply, FeedText, FeedImage, FeedClear, SendResult, Reads, Host, HandleImage,
                IgnoreOutput, Cancel, Lost, collected, vars
  <2>2. (state' = state /\ armed' = armed) \/ (state = "active" /\ state' \in {"active", "lost"})
    BY <1>4 DEF Next, Kernel, Shows, ConsoleShows, CellEnds, Publish, Bridge, ReadForeign, ReadIdle,
                ReadReply, FeedText, FeedImage, FeedClear, SendResult, Reads, Host, HandleImage,
                IgnoreOutput, Cancel, Lost, collected, vars
  <2>3. state' = "answered" => state = "answered" /\ ResultText' = ResultText
    BY <2>1, <2>2 DEF ResultText, Interrupted
  <2>4. state' = "active" => state = "active"
    BY <2>2
  <2>5. QED BY <2>1, <2>3, <2>4 DEF HistoryInv, history
<1>5. QED BY <1>1, <1>2, <1>3, <1>4

OutputInv == DataInv /\ BoundInv /\ HistoryInv

\* The invariant of the first three theorems.
LEMMA InductiveOutput == Spec => []OutputInv
<1>1. ASSUME Init PROVE OutputInv
  <2>1. Bytes(<<>>) = 0 /\ CaptureLimit \in Nat /\ CharBytes * ChunkChars \in Nat
    BY BytesEmpty, OutputAssumption
  <2>2. BoundInv
    <3> DEFINE most == CharBytes * ChunkChars
    <3>1. most \in Nat
      BY <2>1
    <3> HIDE DEF most
    <3>2. Bytes(output) <= CaptureLimit + most + 2 /\ Bytes(output) <= CaptureLimit
      BY <1>1, <2>1, <3>1 DEF Init
    <3>3. QED BY <3>2 DEF BoundInv, most
  <2>3. HistoryInv
    BY <1>1 DEF Init, HistoryInv
  <2>4. QED BY <1>1, <2>2, <2>3, InitData DEF OutputInv
<1>2. OutputInv /\ [Next]_vars => OutputInv'
  BY StepData, StepBound, StepHistory DEF OutputInv
<1>3. QED BY <1>1, <1>2, PTL DEF Spec

\* Every variable keeps its type: what the bridge cuts a message into are lines
\* that the host can read, and its text stays one of the characters that were sent.
THEOREM OutputTypeCorrect == Spec => []TypeOK
<1>1. OutputInv => TypeOK
  BY DEF OutputInv, DataInv
<1>2. QED BY <1>1, InductiveOutput, PTL

\* A cell that prints too much is interrupted, and its text stays bounded unless
\* it was cancelled before: one piece of a message may reach over the limit.
THEOREM OverflowCorrect == Spec => []Overflow
<1>1. ASSUME OutputInv PROVE Overflow
  <2>1. Bytes(output) \in Nat
    BY <1>1, TextType, BytesType DEF OutputInv, DataInv, QueueInv
  <2>2. Bytes(output) > CaptureLimit => armed # "no"
    BY <1>1, <2>1, OutputAssumption DEF OutputInv, BoundInv
  <2>3. QED BY <1>1, <2>2 DEF OutputInv, BoundInv, Overflow
<1>2. QED BY <1>1, InductiveOutput, PTL

\* Until it is full, the console history ends with the output of the cell, and in
\* the end with that of its result: onOutput() appends only what continues.
THEOREM HistoryCorrect == Spec => []HistoryFollows
<1>1. ASSUME OutputInv PROVE HistoryFollows
  <2>1. HistoryInv
    BY <1>1 DEF OutputInv
  <2>2. QED BY <2>1 DEF HistoryInv, HistoryFollows
<1>2. QED BY <1>1, InductiveOutput, PTL

-----------------------------------------------------------------------------
(***************************************************************************)
(* What a front end shows of a cell, message by message.                   *)
(***************************************************************************)
\* What a cell shows, and what a front end makes of it.
Printed == [type : {"stream", "block"}, text : Texts] \cup [type : {"image"}, size : Sizes]
             \cup [type : {"clear"}, wait : BOOLEAN]
Picture == [text : Seq(Chars), images : Seq(Sizes)]
Blank == [text |-> <<>>, images |-> <<>>]

\* A picture with one more message drawn is a picture.
LEMMA DrawType ==
  ASSUME NEW screen \in Picture, NEW message \in Printed
  PROVE  Blank \in Picture /\ Draw(screen, message) \in Picture
<1>1. screen.text \in Seq(Chars) /\ screen.images \in Seq(Sizes)
  BY DEF Picture
<1>2. Blank \in Picture
  BY DEF Blank, Picture
<1>3. CASE message.type = "clear"
  BY <1>2, <1>3 DEF Draw
<1>4. CASE message.type = "image"
  <2>1. message.size \in Sizes
    BY <1>4 DEF Printed
  <2>2. Append(screen.images, message.size) \in Seq(Sizes)
    BY <1>1, <2>1, AppendProperties
  <2>3. Draw(screen, message) = [screen EXCEPT !.images = Append(@, message.size)]
    BY <1>4 DEF Draw
  <2>4. QED BY <1>2, <2>2, <2>3 DEF Picture
<1>5. CASE message.type \notin {"clear", "image"}
  <2>1. message.text \in Seq(Chars)
    BY <1>5, OutputAssumption DEF Printed, Chars
  <2>2. OnLine(screen.text) \in Seq(Chars)
    BY <1>1, OnLineFacts
  <2>3. screen.text \o message.text \in Seq(Chars)
        /\ OnLine(screen.text) \o message.text \in Seq(Chars)
    BY <1>1, <2>1, <2>2, ConcatProperties
  <2>4. OnLine(OnLine(screen.text) \o message.text) \in Seq(Chars)
    BY <2>3, OnLineFacts
  <2>5. Draw(screen, message) = [screen EXCEPT !.text = @ \o message.text]
        \/ Draw(screen, message) = [screen EXCEPT !.text = OnLine(OnLine(@) \o message.text)]
    BY <1>5 DEF Draw
  <2>6. QED BY <1>2, <2>3, <2>4, <2>5 DEF Picture
<1>6. QED BY <1>3, <1>4, <1>5

\* The last clear that took effect, if there is one.
TheLast(s, k) ==
  /\ k \in 0..Len(s) /\ (k = 0 \/ (~IsOutput(s[k]) /\ TookEffect(s, k)))
  /\ \A n \in 1..Len(s) : ~IsOutput(s[n]) /\ TookEffect(s, n) => n <= k

\* LastClear is the place that TheLast describes, and the only one.
LEMMA LastClearIs ==
  ASSUME NEW s \in Seq(Printed)
  PROVE  TheLast(s, LastClear(s)) /\ \A k : TheLast(s, k) => LastClear(s) = k
<1> DEFINE N == Len(s)
           S == {0} \cup {n \in DOMAIN s : ~IsOutput(s[n]) /\ TookEffect(s, n)}
<1>1. N \in Nat /\ DOMAIN s = 1..N
  OBVIOUS
<1>2. S \in SUBSET (0..N) /\ S # {}
  BY <1>1
<1>3. \E n \in S : \A m \in S : m <= n
  <2> HIDE DEF S, N
  <2>1. QED BY <1>1, <1>2, GreatestNat
<1>4. LastClear(s) = CHOOSE n \in S : \A m \in S : n >= m
  BY DEF LastClear, Max
<1>5. LastClear(s) \in S /\ \A m \in S : m <= LastClear(s)
  <2>1. \E n \in S : \A m \in S : n >= m
    BY <1>1, <1>2, <1>3
  <2>2. LastClear(s) \in S /\ \A m \in S : LastClear(s) >= m
    <3> HIDE DEF S
    <3>1. QED BY <1>4, <2>1
  <2>3. QED BY <1>1, <1>2, <2>2
<1>6. TheLast(s, LastClear(s))
  BY <1>1, <1>5 DEF TheLast
<1>7. ASSUME NEW k, TheLast(s, k) PROVE LastClear(s) = k
  <2>1. k \in S /\ \A m \in S : m <= k
    BY <1>1, <1>7 DEF TheLast
  <2>2. k \in Nat /\ LastClear(s) \in Nat
    BY <1>1, <1>2, <1>5, <2>1
  <2>3. k <= LastClear(s) /\ LastClear(s) <= k
    BY <1>5, <2>1
  <2>4. QED BY <2>2, <2>3
<1>8. QED BY <1>6, <1>7

\* The screens after each message.
Frames(f, s, k) ==
  f \in [0..Len(s) -> Picture]
  /\ \A n \in 0..Len(s) : f[n] = IF n <= k THEN Blank ELSE Draw(f[n - 1], s[n])

\* Screen draws the messages after the last clear, one by one.
LEMMA ScreenIs ==
  ASSUME NEW s \in Seq(Printed)
  PROVE  \E f : Frames(f, s, LastClear(s)) /\ Screen(s) = f[Len(s)]
<1> DEFINE N == Len(s)
           k == LastClear(s)
           Eq(f) == f = [n \in 0..N |-> IF n <= k THEN Blank ELSE Draw(f[n - 1], s[n])]
           u == CHOOSE f : Eq(f)
           step == [n \in 1..N |-> [p \in Picture |-> IF n <= k THEN Blank ELSE Draw(p, s[n])]]
<1>1. N \in Nat /\ \A n \in 1..N : s[n] \in Printed
  OBVIOUS
<1>2. k \in 0..N
  BY LastClearIs DEF TheLast
<1>3. Screen(s) = u[N]
  BY DEF Screen, Blank
<1> HIDE DEF N, k
<1>4. step \in Steps(1..N, Picture, Picture) /\ Blank \in Picture
  <2>1. Blank \in Picture
    BY DEF Blank, Picture
  <2>2. \A n \in 1..N, p \in Picture : (IF n <= k THEN Blank ELSE Draw(p, s[n])) \in Picture
    BY <1>1, <2>1, DrawType
  <2>3. QED BY <2>1, <2>2 DEF Steps
<1>5. PICK f \in [0..N -> Picture] : f[0] = Blank /\ \A n \in 1..N : f[n] = step[n][f[n - 1]]
  <2> HIDE DEF step
  <2>1. QED BY <1>1, <1>4, Recursion
<1>6. ASSUME NEW n \in 0..N PROVE f[n] = IF n <= k THEN Blank ELSE Draw(f[n - 1], s[n])
  <2>1. CASE n = 0
    BY <1>2, <1>5, <2>1
  <2>2. CASE n # 0
    <3>1. n \in 1..N /\ n - 1 \in 0..N
      BY <1>1, <2>2
    <3>2. f[n - 1] \in Picture /\ f[n] = step[n][f[n - 1]]
      BY <1>5, <3>1
    <3>3. QED BY <3>1, <3>2
  <2>3. QED BY <2>1, <2>2
<1> HIDE DEF step
<1>7. Eq(f)
  BY <1>5, <1>6
<1>8. Eq(u)
  BY <1>7
<1> HIDE DEF u
<1>9. Agree(u, f, N)
  <2>1. u[0] = f[0]
    BY <1>1, <1>2, <1>5, <1>8
  <2>2. ASSUME NEW n \in 1..N, u[n - 1] = f[n - 1] PROVE u[n] = f[n]
    <3>1. n \in 0..N
      BY <1>1
    <3>2. u[n] = IF n <= k THEN Blank ELSE Draw(u[n - 1], s[n])
      BY <1>8, <3>1
    <3>3. QED BY <1>6, <2>2, <3>1, <3>2
  <2>3. QED BY <1>1, <2>1, <2>2, Same
<1>10. Screen(s) = f[N]
  BY <1>1, <1>3, <1>9 DEF Agree
<1>11. Frames(f, s, k)
  BY <1>5, <1>6 DEF Frames, N
<1>12. QED BY <1>10, <1>11 DEF N, k

\* What a front end shows is a picture.
LEMMA ScreenType == ASSUME NEW s \in Seq(Printed) PROVE Screen(s) \in Picture
<1>1. PICK f : Frames(f, s, LastClear(s)) /\ Screen(s) = f[Len(s)]
  BY ScreenIs
<1>2. QED BY <1>1 DEF Frames

\* No clear takes effect with this message.
LEMMA ScreenGoesOn ==
  ASSUME NEW s \in Seq(Printed), NEW message \in Printed,
         LastClear(Append(s, message)) = LastClear(s)
  PROVE  Screen(Append(s, message)) = Draw(Screen(s), message)
<1> DEFINE t == Append(s, message)
           N == Len(s)
           k == LastClear(s)
<1>1. t \in Seq(Printed) /\ Len(t) = N + 1 /\ N \in Nat /\ t[N + 1] = message
      /\ \A n \in 1..N : t[n] = s[n]
  BY AppendProperties
<1>2. k \in 0..N
  BY LastClearIs DEF TheLast
<1>3. LastClear(t) = k
  OBVIOUS
<1> HIDE DEF t, k
<1>4. PICK f : Frames(f, s, k) /\ Screen(s) = f[N]
  BY ScreenIs DEF k
<1>5. PICK g : Frames(g, t, k) /\ Screen(t) = g[Len(t)]
  BY <1>1, <1>3, ScreenIs
<1> HIDE DEF N
<1>6. \A n \in 0..N : f[n] = IF n <= k THEN Blank ELSE Draw(f[n - 1], s[n])
  BY <1>4 DEF Frames, N
<1>7. \A n \in 0..N + 1 : g[n] = IF n <= k THEN Blank ELSE Draw(g[n - 1], t[n])
  BY <1>1, <1>5 DEF Frames
<1>8. Agree(g, f, N)
  <2>1. f[0] = g[0]
    BY <1>1, <1>2, <1>6, <1>7
  <2>2. ASSUME NEW n \in 1..N, g[n - 1] = f[n - 1] PROVE g[n] = f[n]
    <3>1. n \in 0..N /\ n \in 0..N + 1 /\ t[n] = s[n]
      BY <1>1
    <3>2. f[n] = IF n <= k THEN Blank ELSE Draw(f[n - 1], s[n])
      BY <1>6, <3>1
    <3>3. g[n] = IF n <= k THEN Blank ELSE Draw(g[n - 1], t[n])
      BY <1>7, <3>1
    <3>4. QED BY <2>2, <3>1, <3>2, <3>3
  <2>3. QED BY <1>1, <2>1, <2>2, Same
<1>9. g[N + 1] = Draw(g[N], message)
  <2>1. N + 1 \in 0..N + 1 /\ N + 1 - 1 = N /\ ~(N + 1 <= k)
    BY <1>1, <1>2
  <2>2. QED BY <1>1, <1>7, <2>1
<1>10. g[N] = f[N]
  BY <1>1, <1>8 DEF Agree
<1>11. Screen(t) = Draw(Screen(s), message)
  BY <1>1, <1>4, <1>5, <1>9, <1>10
<1>12. QED BY <1>11 DEF t

\* A clear waits when nothing was shown after it.
Waits(s) == s # <<>> /\ ~IsOutput(s[Len(s)]) /\ s[Len(s)].wait

\* One more message: a clear at once, a clear that waits for it, or drawn on what is shown.
LEMMA ScreenAppend ==
  ASSUME NEW s \in Seq(Printed), NEW message \in Printed
  PROVE  LET t == Append(s, message)
         IN  /\ Waits(t) <=> message.type = "clear" /\ message.wait
             /\ Screen(t) = IF message.type # "clear"
                            THEN Draw(IF Waits(s) THEN Blank ELSE Screen(s), message)
                            ELSE IF message.wait THEN Screen(s) ELSE Blank
<1> DEFINE t == Append(s, message)
           N == Len(s)
           k == LastClear(s)
<1>1. t \in Seq(Printed) /\ Len(t) = N + 1 /\ N \in Nat /\ t[N + 1] = message /\ t # <<>>
      /\ \A n \in 1..N : t[n] = s[n]
  BY AppendProperties
<1>2. TheLast(s, k)
  BY LastClearIs
<1>3. \A j : TheLast(t, j) => LastClear(t) = j
  BY <1>1, LastClearIs
<1>4. LastClear(t) = k => Screen(t) = Draw(Screen(s), message)
  BY ScreenGoesOn
<1> HIDE DEF t, k
<1>5. Waits(t) <=> message.type = "clear" /\ message.wait
  BY <1>1 DEF Waits, IsOutput
<1>6. PICK g : Frames(g, t, LastClear(t)) /\ Screen(t) = g[Len(t)]
  BY <1>1, ScreenIs
<1> DEFINE Clears == {n \in 1..N : ~IsOutput(s[n])}
<1>7. CASE message.type # "clear"
  <2>1. IsOutput(t[N + 1])
    BY <1>1, <1>7 DEF IsOutput
  <2>2. ASSUME NEW n \in 1..N PROVE TookEffect(t, n)
    <3>1. N + 1 \in n + 1..Len(t)
      BY <1>1
    <3>2. QED BY <2>1, <3>1 DEF TookEffect
  <2>3. ASSUME NEW j \in 0..N, j = 0 \/ j \in Clears, \A n \in Clears : n <= j
        PROVE  TheLast(t, j)
    <3>1. j \in 0..Len(t)
      BY <1>1
    <3>2. j = 0 \/ (~IsOutput(t[j]) /\ TookEffect(t, j))
      BY <1>1, <2>2, <2>3
    <3>3. ASSUME NEW n \in 1..Len(t), ~IsOutput(t[n]) PROVE n <= j
      <4>1. n \in 1..N
        BY <1>1, <2>1, <3>3
      <4>2. n \in Clears
        BY <1>1, <3>3, <4>1
      <4>3. QED BY <2>3, <4>2
    <3>4. QED BY <3>1, <3>2, <3>3 DEF TheLast
  <2>4. CASE Waits(s)
    <3>1. N \in Clears
      <4>1. N # 0
        BY <2>4 DEF Waits
      <4>2. QED BY <1>1, <2>4, <4>1 DEF Waits
    <3>2. TheLast(t, N)
      BY <1>1, <2>3, <3>1
    <3>3. LastClear(t) = N
      BY <1>3, <3>2
    <3>4. Screen(t) = g[N + 1] /\ g[N] = Blank /\ g[N + 1] = Draw(g[N], message)
      <4>1. N \in 0..Len(t) /\ N + 1 \in 0..Len(t) /\ N + 1 - 1 = N /\ N <= N /\ ~(N + 1 <= N)
        BY <1>1
      <4>2. \A n \in 0..Len(t) : g[n] = IF n <= N THEN Blank ELSE Draw(g[n - 1], t[n])
        BY <1>6, <3>3 DEF Frames
      <4>3. QED BY <1>1, <1>6, <4>1, <4>2
    <3>5. QED BY <1>5, <1>7, <2>4, <3>4 DEF t
  <2>5. CASE ~Waits(s)
    <3>1. \A n \in Clears : n <= k
      <4>1. SUFFICES ASSUME Clears # {} PROVE \A n \in Clears : n <= k
        OBVIOUS
      <4>2. PICK j \in Clears : \A n \in Clears : n <= j
        <5>1. Clears \in SUBSET (0..N)
          BY <1>1
        <5> HIDE DEF Clears, N
        <5>2. QED BY <1>1, <4>1, <5>1, GreatestNat
      <4>3. TookEffect(s, j)
        <5>1. CASE j = N
          BY <1>1, <2>5, <4>2, <5>1 DEF Waits, TookEffect
        <5>2. CASE j # N
          <6>1. j + 1 \in j + 1..Len(s) /\ j + 1 \in 1..N
            BY <1>1, <4>2, <5>2
          <6>2. IsOutput(s[j + 1])
            <7>1. SUFFICES ASSUME ~IsOutput(s[j + 1]) PROVE FALSE
              OBVIOUS
            <7>2. j + 1 <= j
              BY <4>2, <6>1, <7>1
            <7>3. QED BY <4>2, <7>2
          <6>3. QED BY <6>1, <6>2 DEF TookEffect
        <5>3. QED BY <5>1, <5>2
      <4>4. j <= k /\ k \in Nat
        BY <1>1, <1>2, <4>2, <4>3 DEF TheLast
      <4>5. QED BY <4>2, <4>4
    <3>2. k \in 0..N /\ (k = 0 \/ k \in Clears)
      BY <1>1, <1>2 DEF TheLast
    <3>3. TheLast(t, k)
      BY <2>3, <3>1, <3>2
    <3>4. QED BY <1>3, <1>4, <1>5, <1>7, <2>5, <3>3 DEF t
  <2>6. QED BY <2>4, <2>5
<1>8. CASE message.type = "clear" /\ ~message.wait
  <2>1. TheLast(t, N + 1)
    BY <1>1, <1>8 DEF TheLast, TookEffect, IsOutput
  <2>2. LastClear(t) = N + 1
    BY <1>3, <2>1
  <2>3. g[N + 1] = Blank
    <3>1. N + 1 \in 0..Len(t) /\ N + 1 <= N + 1
      BY <1>1
    <3>2. QED BY <1>6, <2>2, <3>1 DEF Frames
  <2>4. QED BY <1>1, <1>5, <1>6, <1>8, <2>3 DEF t
<1>9. CASE message.type = "clear" /\ message.wait
  <2>1. ~TookEffect(t, N + 1) /\ ~IsOutput(t[N + 1])
    <3>1. N + 1 + 1..Len(t) = {}
      BY <1>1
    <3>2. QED BY <1>1, <1>9, <3>1 DEF TookEffect, IsOutput
  <2>2. ASSUME NEW n \in 1..N PROVE TookEffect(t, n) <=> TookEffect(s, n)
    <3>1. \A m \in n + 1..Len(t) : IsOutput(t[m]) => m \in n + 1..Len(s) /\ t[m] = s[m]
      BY <1>1, <2>1
    <3>2. \A m \in n + 1..Len(s) : m \in n + 1..Len(t) /\ t[m] = s[m]
      BY <1>1
    <3>3. t[n] = s[n]
      BY <1>1
    <3>4. QED BY <3>1, <3>2, <3>3 DEF TookEffect
  <2>3. TheLast(t, k)
    <3>1. k \in 0..N /\ k \in 0..Len(t)
      BY <1>1, <1>2 DEF TheLast
    <3>2. k = 0 \/ (~IsOutput(t[k]) /\ TookEffect(t, k))
      BY <1>1, <1>2, <2>2, <3>1 DEF TheLast
    <3>3. ASSUME NEW n \in 1..Len(t), ~IsOutput(t[n]), TookEffect(t, n) PROVE n <= k
      <4>1. n \in 1..N
        BY <1>1, <2>1, <3>3
      <4>2. ~IsOutput(s[n]) /\ TookEffect(s, n)
        BY <1>1, <2>2, <3>3, <4>1
      <4>3. QED BY <1>2, <4>1, <4>2 DEF TheLast
    <3>4. QED BY <3>1, <3>2, <3>3 DEF TheLast
  <2>4. Screen(t) = Draw(Screen(s), message)
    BY <1>3, <1>4, <2>3
  <2>5. Draw(Screen(s), message) = Screen(s)
    BY <1>9 DEF Draw
  <2>6. QED BY <1>5, <1>9, <2>4, <2>5 DEF t
<1>10. QED BY <1>7, <1>8, <1>9

-----------------------------------------------------------------------------
(***************************************************************************)
(* The pieces that a text is cut into, and what the host makes of them.    *)
(***************************************************************************)
LEMMA CountFacts ==
  ASSUME NEW L \in Nat, NEW C \in Nat \ {0}
  PROVE  LET count == (L + C - 1) \div C
         IN  /\ count \in Nat /\ L <= count * C /\ (count = 0 <=> L = 0)
             /\ \A n \in Nat : n < count => n * C \in Nat /\ n * C < L
<1> DEFINE a == L + C - 1
           count == a \div C
<1>1. a \in Nat /\ C \in Nat /\ C > 0
  OBVIOUS
<1>2. count \in Nat /\ C * count <= a /\ a < C * count + C
  <2> HIDE DEF a
  <2>1. QED BY <1>1
<1>3. C * count \in Nat /\ L <= C * count
  <2>1. \A x, y \in Nat : x * y \in Nat
    OBVIOUS
  <2> DEFINE p == C * count
  <2>2. p \in Nat
    BY <1>1, <1>2, <2>1
  <2>3. p <= L + C - 1 /\ L + C - 1 < p + C
    BY <1>2
  <2> HIDE DEF p
  <2>4. L <= p
    BY <2>2, <2>3
  <2>5. QED BY <2>2, <2>4 DEF p
<1> DEFINE p == C * count
<1>4. p \in Nat /\ L <= p /\ p < L + C
  BY <1>2, <1>3
<1> HIDE DEF count
<1>5. ASSUME NEW n \in Nat, n < count PROVE n * C \in Nat /\ n * C < L
  <2>1. \A x, y, z \in Nat : x + 1 <= y => z * x + z <= z * y /\ x * z = z * x /\ z * x \in Nat
    OBVIOUS
  <2>2. C * n + C <= p /\ n * C = C * n /\ C * n \in Nat
    BY <1>1, <1>2, <1>5, <2>1
  <2> DEFINE q == C * n
  <2>3. q \in Nat /\ q + C <= p /\ n * C = q
    BY <2>2
  <2> HIDE DEF q, p
  <2>4. QED BY <1>4, <2>3
<1>6. count = 0 <=> L = 0
  <2>1. count = 0 => L = 0
    BY <1>3
  <2>2. ASSUME count # 0 PROVE L # 0
    <3>1. 0 < count
      BY <1>2, <2>2
    <3>2. QED BY <1>5, <3>1
  <2>3. QED BY <2>1, <2>2
<1>7. L <= count * C
  <2>1. \A x, y \in Nat : x * y = y * x
    OBVIOUS
  <2>2. QED BY <1>1, <1>2, <1>3, <2>1
<1>8. QED BY <1>2, <1>5, <1>6, <1>7 DEF count

\* The pieces of a text follow each other, and know the first and the last.
Cut(pos, kind, text, c) ==
  /\ pos \in [0..Len(c) -> 0..Len(text)] /\ pos[0] = 0 /\ pos[Len(c)] = Len(text)
  /\ Len(c) = 0 <=> text = <<>>
  /\ \A n \in 1..Len(c) :
       /\ pos[n - 1] <= pos[n]
       /\ c[n] = [type |-> "output", kind |-> kind, text |-> SubSeq(text, pos[n - 1] + 1, pos[n]),
                  continuation |-> n # 1, final |-> n = Len(c)]

\* The chunks of a text cut it into parts: only the last is final, all but the first continue.
LEMMA ChunkFacts ==
  ASSUME NEW kind \in {"stream", "block"}, NEW text \in Texts
  PROVE  \E pos : Cut(pos, kind, text, Chunks(kind, text))
<1>1. text \in Seq(Chars) /\ Len(text) \in Nat /\ ChunkChars \in Nat \ {0}
  BY OutputAssumption DEF Chars
<1> DEFINE L == Len(text)
           C == ChunkChars
           count == (L + C - 1) \div C
           c == Chunks(kind, text)
           end(n) == Min({(n - 1) * C + C, L})
           pos == [n \in 0..count |-> IF n < count THEN n * C ELSE L]
<1>2. /\ count \in Nat /\ L <= count * C /\ (count = 0 <=> L = 0)
      /\ \A n \in Nat : n < count => n * C \in Nat /\ n * C < L
  BY <1>1, CountFacts
<1>3. c = [n \in 1..count |->
             [type |-> "output", kind |-> kind, text |-> SubSeq(text, (n - 1) * C + 1, end(n)),
              continuation |-> (n - 1) * C > 0, final |-> end(n) = L]]
  BY DEF Chunks, Continuation
<1> HIDE DEF L, C, count, c, end
<1>4. L \in Nat /\ C \in Nat \ {0} /\ Len(c) = count
  BY <1>1, <1>2, <1>3 DEF L, C
<1>5. pos \in [0..count -> 0..L] /\ pos[0] = 0 /\ pos[count] = L
  <2>1. ASSUME NEW n \in 0..count PROVE (IF n < count THEN n * C ELSE L) \in 0..L
    BY <1>2, <1>4
  <2>2. 0 * C = 0
    BY <1>4
  <2>3. pos[0] = 0
    BY <1>2, <1>4, <2>2
  <2>4. QED BY <1>2, <2>1, <2>3
<1>6. ASSUME NEW n \in 1..count
      PROVE  /\ pos[n - 1] <= pos[n] /\ pos[n - 1] = (n - 1) * C /\ pos[n] = end(n)
             /\ ((n - 1) * C > 0) = (n # 1) /\ (end(n) = L) = (n = count)
  <2> DEFINE before == (n - 1) * C
             next == n * C
  <2>1. n - 1 \in Nat /\ n \in Nat /\ n - 1 < count /\ n <= count
    BY <1>2
  <2>2. before \in Nat /\ before < L /\ pos[n - 1] = before
    <3>1. n - 1 \in 0..count
      BY <1>2
    <3>2. QED BY <1>2, <2>1, <3>1
  <2>3. next = before + C /\ next \in Nat
    <3>1. \A x, y \in Nat : x > 0 => x * y = (x - 1) * y + y /\ x * y \in Nat
      OBVIOUS
    <3>2. n > 0
      OBVIOUS
    <3>3. QED BY <1>4, <2>1, <3>1, <3>2
  <2>4. (n = 1 => before = 0) /\ (n # 1 => before > 0)
    <3>1. \A x, y \in Nat : (x = 0 => x * y = 0) /\ (x > 0 /\ y > 0 => x * y > 0)
      OBVIOUS
    <3>2. (n = 1 <=> n - 1 = 0) /\ (n # 1 <=> n - 1 > 0) /\ C > 0 /\ C \in Nat
      BY <1>4, <2>1
    <3>3. QED BY <2>1, <3>1, <3>2
  <2>5. end(n) = Min({before + C, L})
    BY DEF end
  <2>6. pos[n] = IF n < count THEN next ELSE L
    BY <1>2
  <2>7. (n < count => next < L) /\ (n = count => L <= next)
    BY <1>2, <2>1
  <2> HIDE DEF before, next, pos
  <2>8. end(n) = IF n < count THEN next ELSE L
    <3>1. \A x, y \in Nat : x <= y => Min({x, y}) = x
      BY DEF Min
    <3>2. \A x, y \in Nat : Min({x, y}) = Min({y, x})
      <4>1. \A x, y : {x, y} = {y, x}
        OBVIOUS
      <4>2. QED BY <4>1, Zenon
    <3>3. CASE n < count
      BY <1>4, <2>2, <2>3, <2>5, <2>7, <3>1, <3>3
    <3>4. CASE n = count
      BY <1>4, <2>2, <2>3, <2>5, <2>7, <3>1, <3>2, <3>4
    <3>5. QED BY <1>2, <2>1, <3>3, <3>4
  <2>9. (end(n) = L) = (n = count)
    BY <1>2, <1>4, <2>1, <2>7, <2>8
  <2>10. pos[n - 1] <= pos[n]
    BY <1>2, <1>4, <2>1, <2>2, <2>3, <2>6
  <2>11. ((n - 1) * C > 0) = (n # 1)
    BY <2>2, <2>4 DEF before
  <2>12. QED BY <2>2, <2>6, <2>8, <2>9, <2>10, <2>11 DEF before
<1>7. ASSUME NEW n \in 1..count
      PROVE  c[n] = [type |-> "output", kind |-> kind, text |-> SubSeq(text, pos[n - 1] + 1, pos[n]),
                     continuation |-> n # 1, final |-> n = Len(c)]
  <2> HIDE DEF pos
  <2>1. QED BY <1>3, <1>4, <1>6
<1>8. L = 0 <=> text = <<>>
  BY <1>1 DEF L
<1> HIDE DEF pos
<1>9. Cut(pos, kind, text, c)
  BY <1>2, <1>4, <1>5, <1>6, <1>7, <1>8 DEF Cut, L
<1>10. QED BY <1>9 DEF c

\* What the host makes of a line, while it takes output.
HandleLine(picture, line) ==
  IF line.type = "output" THEN [picture EXCEPT !.text = Added(@, line)]
  ELSE IF line.type = "clear" THEN Blank
  ELSE IF line.type = "image" THEN [picture EXCEPT !.images = Append(@, line.size)]
  ELSE picture
Handling == [picture \in Picture |-> [line \in Carried |-> HandleLine(picture, line)]]

\* Handling a line makes a picture of a picture.
LEMMA HandleSteps == Handling \in Steps(Picture, Carried, Picture)
<1>1. ASSUME NEW picture \in Picture, NEW line \in Carried PROVE HandleLine(picture, line) \in Picture
  <2>1. picture.text \in Seq(Chars) /\ picture.images \in Seq(Sizes)
    BY DEF Picture
  <2>2. CASE line.type = "output"
    <3>1. Added(picture.text, line) \in Seq(Chars)
      BY <2>1, <2>2, AddedFacts
    <3>2. HandleLine(picture, line) = [picture EXCEPT !.text = Added(picture.text, line)]
      BY <2>2 DEF HandleLine
    <3>3. QED BY <3>1, <3>2 DEF Picture
  <2>3. CASE line.type = "image"
    <3>1. line.size \in Sizes
      BY <2>3 DEF Carried
    <3>2. Append(picture.images, line.size) \in Seq(Sizes)
      BY <2>1, <3>1, AppendProperties
    <3>3. HandleLine(picture, line) = [picture EXCEPT !.images = Append(picture.images, line.size)]
      BY <2>3 DEF HandleLine
    <3>4. QED BY <3>2, <3>3 DEF Picture
  <2>4. CASE line.type \notin {"output", "image"}
    <3>1. Blank \in Picture
      BY DEF Blank, Picture
    <3>2. HandleLine(picture, line) \in {Blank, picture}
      BY <2>4 DEF HandleLine
    <3>3. QED BY <3>1, <3>2
  <2>5. QED BY <2>2, <2>3, <2>4
<1>2. QED BY <1>1 DEF Handling, Steps

LEMMA HandlingIs ==
  ASSUME NEW picture \in Picture, NEW line \in Carried
  PROVE  Handling[picture][line] = HandleLine(picture, line)
  BY DEF Handling

\* Joining texts is associative.
LEMMA TextsAssociate == \A s, t, u \in Seq(Chars) : (s \o t) \o u = s \o (t \o u)
  BY ConcatAssociative

\* The pieces of a text put together are the text.
LEMMA ChunksDraw ==
  ASSUME NEW kind \in {"stream", "block"}, NEW text \in Texts, NEW picture \in Picture
  PROVE  After(Handling, picture, Chunks(kind, text))
           = Draw(picture, [type |-> kind, text |-> text])
<1> DEFINE c == Chunks(kind, text)
           N == Len(c)
           base == picture.text
<1>1. /\ text \in Seq(Chars) /\ c \in Seq(Carried) /\ N \in Nat
      /\ base \in Seq(Chars) /\ OnLine(base) \in Seq(Chars)
  <2>1. base \in Seq(Chars)
    BY DEF Picture
  <2>2. text \in Seq(Chars) /\ OnLine(base) \in Seq(Chars)
    BY <2>1, OnLineFacts, OutputAssumption DEF Chars
  <2>3. c \in Seq(Carried)
    BY ChunksType
  <2> HIDE DEF c, base
  <2>4. QED BY <2>1, <2>2, <2>3, LenProperties
<1>2. PICK pos : Cut(pos, kind, text, c)
  BY ChunkFacts
<1>3. PICK f \in [0..Len(c) -> Picture] :
        /\ f[0] = picture /\ \A n \in 1..Len(c) : f[n] = Handling[f[n - 1]][c[n]]
        /\ After(Handling, picture, c) = f[Len(c)]
  <2> HIDE DEF c
  <2>1. QED BY <1>1, HandleSteps, AfterIs
<1> HIDE DEF c, base, N
<1> DEFINE part(n) == SubSeq(text, 1, pos[n])
           shownAt(n) == IF kind = "stream" THEN base \o part(n)
                        ELSE IF n = N THEN OnLine(OnLine(base) \o part(n)) ELSE OnLine(base) \o part(n)
           g == [n \in 0..N |-> IF n = 0 THEN picture ELSE [picture EXCEPT !.text = shownAt(n)]]
<1>4. /\ pos \in [0..N -> 0..Len(text)] /\ pos[0] = 0 /\ pos[N] = Len(text)
      /\ N = 0 <=> text = <<>>
      /\ \A n \in 1..N :
           /\ pos[n - 1] <= pos[n]
           /\ c[n] = [type |-> "output", kind |-> kind, text |-> SubSeq(text, pos[n - 1] + 1, pos[n]),
                      continuation |-> n # 1, final |-> n = N]
  BY <1>2 DEF Cut, N
<1>5. ASSUME NEW n \in 0..N PROVE part(n) \in Seq(Chars)
  <2>1. pos[n] \in 0..Len(text) /\ Len(text) \in Nat
    BY <1>1, <1>4
  <2>2. \A i \in 1..pos[n] : text[i] \in Chars
    BY <1>1, <2>1
  <2>3. QED BY <2>1, <2>2, SubSeqProperties
<1>6. ASSUME NEW n \in 1..N
      PROVE  /\ part(n - 1) \o SubSeq(text, pos[n - 1] + 1, pos[n]) = part(n)
             /\ SubSeq(text, pos[n - 1] + 1, pos[n]) \in Seq(Chars)
  <2> DEFINE k == pos[n - 1]
             m == pos[n]
  <2>1. k \in 0..Len(text) /\ m \in 0..Len(text) /\ k <= m /\ Len(text) \in Nat
    <3>1. n - 1 \in 0..N /\ n \in 0..N
      BY <1>1
    <3>2. pos[n - 1] \in 0..Len(text) /\ pos[n] \in 0..Len(text)
      BY <1>4, <3>1
    <3>3. pos[n - 1] <= pos[n]
      BY <1>4
    <3>4. Len(text) \in Nat
      BY <1>1
    <3>5. QED BY <3>2, <3>3, <3>4
  <2> HIDE DEF k, m
  <2>2. 1 \in 1..Len(text) + 1 /\ k \in 1 - 1..Len(text) /\ m \in k..Len(text)
    BY <2>1
  <2>3. SubSeq(text, 1, k) \o SubSeq(text, k + 1, m) = SubSeq(text, 1, m)
    BY <1>1, <2>2, ConcatAdjacentSubSeq
  <2>4. SubSeq(text, k + 1, m) \in Seq(Chars)
    <3>1. \A i \in k + 1..m : text[i] \in Chars
      BY <1>1, <2>1
    <3>2. k + 1 \in Int /\ m \in Int
      BY <2>1
    <3>3. QED BY <3>1, <3>2, SubSeqProperties
  <2>5. QED BY <2>3, <2>4 DEF k, m
<1>7. part(0) = <<>>
  BY <1>4, SubSeqEmpty
<1> HIDE DEF part
<1>8. Agree(f, g, N)
  <2>1. f[0] = g[0]
    BY <1>1, <1>3
  <2>2. ASSUME NEW n \in 1..N, f[n - 1] = g[n - 1] PROVE f[n] = g[n]
    <3> DEFINE piece == SubSeq(text, pos[n - 1] + 1, pos[n])
               before == g[n - 1]
    <3>1. n - 1 \in 0..N /\ n \in 0..N /\ n - 1 # N /\ (n = 1 <=> n - 1 = 0)
      BY <1>1
    <3>2. /\ c[n].type = "output" /\ c[n].kind = kind /\ c[n].text = piece
          /\ c[n].continuation = (n # 1) /\ c[n].final = (n = N)
      <4>1. c[n] = [type |-> "output", kind |-> kind, text |-> piece,
                    continuation |-> n # 1, final |-> n = N]
        BY <1>4
      <4> HIDE DEF piece, g
      <4>2. QED BY <4>1
    <3>3. piece \in Seq(Chars) /\ part(n - 1) \o piece = part(n)
      BY <1>6
    <3>4. before \in Picture /\ c[n] \in Carried /\ f[n] = Handling[before][c[n]]
      BY <1>1, <1>3, <2>2, <3>1 DEF N
    <3> HIDE DEF piece
    <3>5. f[n] = [before EXCEPT !.text = Added(before.text, c[n])]
      <4> DEFINE line == c[n]
      <4>1. line \in Carried /\ line.type = "output" /\ f[n] = Handling[before][line]
        BY <3>2, <3>4
      <4> HIDE DEF line, before
      <4>2. Handling[before][line] = HandleLine(before, line)
        BY <3>4, <4>1, HandlingIs
      <4>3. HandleLine(before, line) = [before EXCEPT !.text = Added(before.text, line)]
        BY <4>1 DEF HandleLine
      <4>4. QED BY <4>1, <4>2, <4>3 DEF line
    <3>6. Added(before.text, c[n]) = shownAt(n)
      <4>1. CASE n = 1
        <5>1. before = picture /\ piece = part(n)
          BY <1>5, <1>7, <3>1, <3>3, <4>1, ConcatEmptySeq
        <5>2. before.text = base
          BY <5>1 DEF base
        <5> HIDE DEF before
        <5>3. QED BY <3>2, <4>1, <5>1, <5>2 DEF Added
      <4>2. CASE n # 1
        <5>1. before = [picture EXCEPT !.text = shownAt(n - 1)]
          BY <3>1, <4>2
        <5> HIDE DEF before
        <5>2. before.text = shownAt(n - 1)
          BY <5>1 DEF Picture
        <5>3. part(n - 1) \in Seq(Chars) /\ part(n) \in Seq(Chars)
          BY <1>5, <3>1
        <5>4. CASE kind = "stream"
          <6>1. before.text = base \o part(n - 1)
            BY <5>2, <5>4
          <6>2. (base \o part(n - 1)) \o piece = base \o (part(n - 1) \o piece)
            BY <1>1, <3>3, <5>3, TextsAssociate
          <6>3. Added(before.text, c[n]) = base \o part(n)
            BY <3>2, <3>3, <5>4, <6>1, <6>2 DEF Added
          <6>4. QED BY <5>4, <6>3
        <5>5. CASE kind # "stream"
          <6>1. before.text = OnLine(base) \o part(n - 1)
            BY <3>1, <5>2, <5>5
          <6>2. (OnLine(base) \o part(n - 1)) \o piece = OnLine(base) \o (part(n - 1) \o piece)
            BY <1>1, <3>3, <5>3, TextsAssociate
          <6>3. before.text \o piece = OnLine(base) \o part(n)
            BY <3>3, <6>1, <6>2
          <6>4. Added(before.text, c[n]) = IF n = N THEN OnLine(before.text \o piece)
                                           ELSE before.text \o piece
            BY <3>2, <4>2, <5>5 DEF Added
          <6>5. QED BY <5>5, <6>3, <6>4
        <5>6. QED BY <5>4, <5>5
      <4>3. QED BY <4>1, <4>2
    <3> HIDE DEF shownAt
    <3>7. before = picture \/ before = [picture EXCEPT !.text = shownAt(n - 1)]
      BY <3>1
    <3> HIDE DEF before
    <3>8. [before EXCEPT !.text = shownAt(n)] = [picture EXCEPT !.text = shownAt(n)]
      BY <3>7 DEF Picture
    <3>9. g[n] = [picture EXCEPT !.text = shownAt(n)]
      BY <3>1
    <3>10. QED BY <3>5, <3>6, <3>8, <3>9
  <2> HIDE DEF g
  <2>3. QED BY <1>1, <2>1, <2>2, Same
<1>9. After(Handling, picture, c) = g[N]
  BY <1>1, <1>3, <1>8 DEF Agree, N
<1>10. g[N] = Draw(picture, [type |-> kind, text |-> text])
  <2> DEFINE message == [type |-> kind, text |-> text]
  <2>1. message.type = kind /\ message.text = text
    OBVIOUS
  <2> HIDE DEF message
  <2>2. CASE N = 0
    <3>1. text = <<>> /\ base \o <<>> = base
      BY <1>1, <1>4, <2>2, ConcatEmptySeq
    <3>2. Draw(picture, message) = [picture EXCEPT !.text = base \o <<>>]
      BY <2>1, <3>1 DEF Draw, base
    <3>3. [picture EXCEPT !.text = base] = picture
      BY DEF Picture, base
    <3>4. g[N] = picture
      BY <2>2
    <3>5. QED BY <3>1, <3>2, <3>3, <3>4 DEF message
  <2>3. CASE N # 0
    <3>1. text # <<>> /\ part(N) = text
      BY <1>1, <1>4, <2>3, SubSeqFull DEF part
    <3>2. g[N] = [picture EXCEPT !.text = shownAt(N)]
      BY <1>1, <2>3
    <3>3. shownAt(N) = IF kind = "stream" THEN base \o text ELSE OnLine(OnLine(base) \o text)
      BY <3>1
    <3> HIDE DEF g, shownAt
    <3>4. Draw(picture, message) = [picture EXCEPT !.text = shownAt(N)]
      BY <2>1, <3>1, <3>3 DEF Draw, base
    <3>5. QED BY <3>2, <3>4 DEF message
  <2>4. QED BY <2>2, <2>3
<1>11. QED BY <1>9, <1>10 DEF c

-----------------------------------------------------------------------------
(***************************************************************************)
(* What is on the way from the cell to the host.                           *)
(***************************************************************************)
\* What the bridge makes of a message: the picture that the host will have when it has
\* handled every line, and whether a clear waits.
Feed == [picture : Picture, waits : BOOLEAN]
ReadMessage(feed, message) ==
  IF message.type \in {"foreign", "idle"} THEN feed
  ELSE IF message.type = "clear"
  THEN [picture |-> IF message.wait THEN feed.picture ELSE Blank, waits |-> message.wait]
  ELSE [picture |-> Draw(IF feed.waits THEN Blank ELSE feed.picture, message), waits |-> FALSE]
Reading == [feed \in Feed |-> [message \in Message |-> ReadMessage(feed, message)]]

\* What a front end has of a cell.
Final(s) == [picture |-> Screen(s), waits |-> Waits(s)]

\* What the host will have when it has handled the lines, and then the messages.
OnTheWay(picture, lines, waits, messages) ==
  After(Reading, [picture |-> After(Handling, picture, lines), waits |-> waits], messages)

\* What a cell prints are messages; a message of another kind is foreign, or says idle.
LEMMA PrintedMessages ==
  /\ Printed \subseteq Message
  /\ \A message \in Message : message.type \notin {"foreign", "idle"} => message \in Printed
  BY DEF Printed, Message

\* Reading a message makes a feed of a feed.
LEMMA ReadSteps == Reading \in Steps(Feed, Message, Feed)
<1>1. ASSUME NEW feed \in Feed, NEW message \in Message PROVE ReadMessage(feed, message) \in Feed
  <2>1. feed.picture \in Picture /\ feed.waits \in BOOLEAN /\ Blank \in Picture
    BY DEF Feed, Blank, Picture
  <2>2. CASE message.type \in {"foreign", "idle"}
    BY <2>2 DEF ReadMessage
  <2>3. CASE message.type = "clear"
    <3>1. message.wait \in BOOLEAN
      BY <2>3 DEF Message
    <3>2. QED BY <2>1, <2>3, <3>1 DEF ReadMessage, Feed
  <2>4. CASE message.type \notin {"foreign", "idle", "clear"}
    <3>1. message \in Printed
      BY <2>4, PrintedMessages
    <3>2. Draw(IF feed.waits THEN Blank ELSE feed.picture, message) \in Picture
      BY <2>1, <3>1, DrawType
    <3>3. QED BY <2>4, <3>2 DEF ReadMessage, Feed
  <2>5. QED BY <2>2, <2>3, <2>4
<1>2. QED BY <1>1 DEF Reading, Steps

LEMMA ReadingIs ==
  ASSUME NEW feed \in Feed, NEW message \in Message
  PROVE  Reading[feed][message] = ReadMessage(feed, message)
  BY DEF Reading

\* Reading one more message of the cell gives what a front end shows with it.
LEMMA FinalAppend ==
  ASSUME NEW s \in Seq(Printed), NEW message \in Printed
  PROVE  Final(s) \in Feed /\ Final(Append(s, message)) = ReadMessage(Final(s), message)
<1>1. Screen(s) \in Picture /\ Waits(s) \in BOOLEAN
  BY ScreenType DEF Waits
<1> DEFINE t == Append(s, message)
<1>2. /\ Waits(t) <=> message.type = "clear" /\ message.wait
      /\ Screen(t) = IF message.type # "clear"
                     THEN Draw(IF Waits(s) THEN Blank ELSE Screen(s), message)
                     ELSE IF message.wait THEN Screen(s) ELSE Blank
  BY ScreenAppend
<1>3. Waits(t) \in BOOLEAN
  BY DEF Waits
<1> HIDE DEF t
<1>4. message.type \notin {"foreign", "idle"} /\ (message.type = "clear" => message.wait \in BOOLEAN)
  BY DEF Printed
<1>5. Final(t) = ReadMessage(Final(s), message)
  BY <1>1, <1>2, <1>3, <1>4 DEF Final, ReadMessage
<1>6. QED BY <1>1, <1>5 DEF Final, Feed, t

\* Everything on the way has its types.
LEMMA WayType ==
  ASSUME NEW picture \in Picture, NEW lines \in Seq(Carried), NEW waits \in BOOLEAN
  PROVE  /\ After(Handling, picture, lines) \in Picture
         /\ [picture |-> After(Handling, picture, lines), waits |-> waits] \in Feed
<1>1. After(Handling, picture, lines) \in Picture
  BY HandleSteps, AfterType
<1>2. QED BY <1>1 DEF Feed

\* A message is sent.
LEMMA WayAppend ==
  ASSUME NEW picture \in Picture, NEW lines \in Seq(Carried), NEW waits \in BOOLEAN,
         NEW messages \in Seq(Message), NEW message \in Message
  PROVE  OnTheWay(picture, lines, waits, Append(messages, message))
           = ReadMessage(OnTheWay(picture, lines, waits, messages), message)
<1> DEFINE feed == [picture |-> After(Handling, picture, lines), waits |-> waits]
<1>1. feed \in Feed
  BY WayType
<1> HIDE DEF feed
<1>2. After(Reading, feed, Append(messages, message))
        = Reading[After(Reading, feed, messages)][message]
  BY <1>1, ReadSteps, AfterAppend
<1>3. After(Reading, feed, messages) \in Feed
  BY <1>1, ReadSteps, AfterType
<1>4. After(Reading, feed, Append(messages, message))
        = ReadMessage(After(Reading, feed, messages), message)
  BY <1>2, <1>3, ReadingIs
<1>5. QED BY <1>4 DEF OnTheWay, feed

\* A message is read, and more lines are sent that do what it says.
LEMMA WayRead ==
  ASSUME NEW picture \in Picture, NEW lines \in Seq(Carried), NEW waits \in BOOLEAN,
         NEW messages \in Seq(Message), messages # <<>>,
         NEW more \in Seq(Carried), NEW waiting \in BOOLEAN,
         ReadMessage([picture |-> After(Handling, picture, lines), waits |-> waits], Head(messages))
           = [picture |-> After(Handling, After(Handling, picture, lines), more), waits |-> waiting]
  PROVE  OnTheWay(picture, lines \o more, waiting, Tail(messages))
           = OnTheWay(picture, lines, waits, messages)
<1> DEFINE feed == [picture |-> After(Handling, picture, lines), waits |-> waits]
           message == Head(messages)
<1>1. feed \in Feed /\ message \in Message
  BY WayType, HeadTailProperties
<1>2. After(Handling, After(Handling, picture, lines), more) = After(Handling, picture, lines \o more)
  BY HandleSteps, AfterConcat
<1>3. ReadMessage(feed, message)
        = [picture |-> After(Handling, picture, lines \o more), waits |-> waiting]
  BY <1>2
<1> HIDE DEF feed
<1>4. Reading[feed][message] = ReadMessage(feed, message)
  BY <1>1, ReadingIs
<1>5. After(Reading, feed, messages) = After(Reading, Reading[feed][message], Tail(messages))
  BY <1>1, ReadSteps, AfterHead
<1>6. QED BY <1>3, <1>4, <1>5 DEF OnTheWay, feed

\* A line is handled.
LEMMA WayHandle ==
  ASSUME NEW picture \in Picture, NEW lines \in Seq(Carried), lines # <<>>,
         NEW waits, NEW messages
  PROVE  OnTheWay(HandleLine(picture, Head(lines)), Tail(lines), waits, messages)
           = OnTheWay(picture, lines, waits, messages)
<1> DEFINE line == Head(lines)
<1>1. line \in Carried
  BY HeadTailProperties
<1>2. After(Handling, picture, lines) = After(Handling, Handling[picture][line], Tail(lines))
  BY HandleSteps, AfterHead
<1>3. Handling[picture][line] = HandleLine(picture, line)
  BY <1>1, HandlingIs
<1>4. QED BY <1>2, <1>3 DEF OnTheWay

\* A clear that waited, and then what was shown.
LEMMA ClearFirst ==
  ASSUME NEW picture \in Picture, NEW waits \in BOOLEAN, NEW more \in Seq(Carried)
  PROVE  LET first == IF waits THEN <<[type |-> "clear"]>> ELSE <<>>
         IN  /\ first \in Seq(Carried)
             /\ After(Handling, picture, first \o more)
                  = After(Handling, IF waits THEN Blank ELSE picture, more)
<1> DEFINE first == IF waits THEN <<[type |-> "clear"]>> ELSE <<>>
           clear == [type |-> "clear"]
<1>1. clear \in Carried /\ clear.type = "clear"
  BY DEF Carried
<1>2. first = IF waits THEN <<clear>> ELSE <<>>
  OBVIOUS
<1> HIDE DEF clear, first
<1>3. first \in Seq(Carried)
  BY <1>1, <1>2
<1>4. After(Handling, picture, first) = IF waits THEN Blank ELSE picture
  <2>1. CASE waits
    <3>1. After(Handling, picture, <<clear>>) = Handling[picture][clear]
      BY <1>1, HandleSteps, AfterOne
    <3>2. Handling[picture][clear] = Blank
      BY <1>1, HandlingIs DEF HandleLine
    <3>3. QED BY <1>2, <2>1, <3>1, <3>2
  <2>2. CASE ~waits
    <3>1. After(Handling, picture, <<>>) = picture
      BY HandleSteps, AfterEmpty
    <3>2. QED BY <1>2, <2>2, <3>1
  <2>3. QED BY <2>1, <2>2
<1>5. After(Handling, picture, first \o more) = After(Handling, After(Handling, picture, first), more)
  BY <1>3, HandleSteps, AfterConcat
<1>6. QED BY <1>3, <1>4, <1>5 DEF first, clear

-----------------------------------------------------------------------------
(***************************************************************************)
(* What was collected and what is on the way make what the cell shows.     *)
(***************************************************************************)
\* Of the images that were seen, those within both limits are kept, and the others counted.
KeptInv(seen) ==
  /\ Len(images) + dropped = Len(seen) /\ (dropped = 0 => images = seen)
  /\ Len(images) <= ImageLimit /\ SumSeq(images) <= ImageBytes
  /\ dropped > 0 => Len(images) = ImageLimit \/ \E size \in Sizes : SumSeq(images) + size > ImageBytes

\* What was collected and all that is on the way make what the cell shows.
ArrivesInv(seen) ==
  OnTheWay([text |-> output, images |-> seen], wire, pending, iopub) = Final(sent)

ShowInv ==
  /\ sent \in Seq(Printed)
  /\ armed # "overflow" => \E seen \in Seq(Sizes) : KeptInv(seen) /\ ArrivesInv(seen)

\* The status that the kernel is idle is the last message.
ChannelInv ==
  /\ \A n \in 1..Len(iopub) : iopub[n].type = "idle" => shell # "none" /\ n = Len(iopub)
  /\ idle => shell # "none" /\ iopub = <<>>

\* The result is the last line, and comes when both channels were read.
ResultInv ==
  /\ \A n \in 1..Len(wire) : wire[n].type = "result" => Complete /\ n = Len(wire)
  /\ state = "answered" => Complete /\ wire = <<>>

\* Nothing is on the way at first, and nothing is shown.
LEMMA InitShow == ASSUME Init PROVE ShowInv /\ ChannelInv /\ ResultInv
<1>1. /\ sent = <<>> /\ iopub = <<>> /\ wire = <<>> /\ output = <<>> /\ images = <<>>
      /\ pending = FALSE /\ idle = FALSE /\ dropped = 0 /\ armed = "no" /\ state = "active"
  BY DEF Init
<1>2. ChannelInv /\ ResultInv
  BY <1>1 DEF ChannelInv, ResultInv
<1>3. <<>> \in Seq(Printed) /\ <<>> \in Seq(Sizes) /\ Len(<<>>) = 0
  OBVIOUS
<1>4. KeptInv(<<>>)
  BY <1>1, <1>3, SumEmpty, OutputAssumption DEF KeptInv
<1>5. Final(<<>>) = [picture |-> Blank, waits |-> FALSE]
  <2>1. PICK f : Frames(f, <<>>, LastClear(<<>>)) /\ Screen(<<>>) = f[Len(<<>>)]
    BY <1>3, ScreenIs
  <2>2. LastClear(<<>>) \in 0..0
    BY <1>3, LastClearIs DEF TheLast
  <2>3. Screen(<<>>) = Blank
    BY <1>3, <2>1, <2>2 DEF Frames
  <2>4. Waits(<<>>) = FALSE
    BY DEF Waits
  <2>5. QED BY <2>3, <2>4 DEF Final
<1>6. OnTheWay(Blank, <<>>, FALSE, <<>>) = [picture |-> Blank, waits |-> FALSE]
  <2>1. Blank \in Picture /\ [picture |-> Blank, waits |-> FALSE] \in Feed
    BY DEF Blank, Picture, Feed
  <2>2. After(Handling, Blank, <<>>) = Blank
    BY <2>1, HandleSteps, AfterEmpty
  <2>3. After(Reading, [picture |-> Blank, waits |-> FALSE], <<>>)
          = [picture |-> Blank, waits |-> FALSE]
    BY <2>1, ReadSteps, AfterEmpty
  <2>4. QED BY <2>2, <2>3 DEF OnTheWay
<1>7. ArrivesInv(<<>>)
  BY <1>1, <1>5, <1>6 DEF ArrivesInv, Blank
<1>8. QED BY <1>1, <1>2, <1>3, <1>4, <1>7 DEF ShowInv

\* Steps of the kernel.
LEMMA KernelShow == ASSUME DataInv, ShowInv, Kernel PROVE ShowInv'
<1>1. /\ iopub \in Seq(Message) /\ wire \in Seq(Carried) /\ pending \in BOOLEAN
      /\ output \in Seq(Chars) /\ sent \in Seq(Printed)
  BY DEF DataInv, TypeOK, QueueInv, ShowInv
<1>2. PICK message \in Message :
        /\ iopub' = Append(iopub, message)
        /\ UNCHANGED <<pending, wire, output, images, dropped, armed>>
        /\ \/ message \in Printed /\ sent' = Append(sent, message)
           \/ message.type \in {"foreign", "idle"} /\ sent' = sent
  <2>1. CASE \E kind \in {"stream", "block"}, text \in Texts : Shows([type |-> kind, text |-> text])
    <3>1. PICK kind \in {"stream", "block"}, text \in Texts : Shows([type |-> kind, text |-> text])
      BY <2>1
    <3>2. [type |-> kind, text |-> text] \in Printed
      BY DEF Printed
    <3>3. QED BY <3>1, <3>2, PrintedMessages DEF Shows, Publish, collected
  <2>2. CASE \E size \in Sizes : Shows([type |-> "image", size |-> size])
    <3>1. PICK size \in Sizes : Shows([type |-> "image", size |-> size])
      BY <2>2
    <3>2. [type |-> "image", size |-> size] \in Printed
      BY DEF Printed
    <3>3. QED BY <3>1, <3>2, PrintedMessages DEF Shows, Publish, collected
  <2>3. CASE \E wait \in BOOLEAN : Shows([type |-> "clear", wait |-> wait])
    <3>1. PICK wait \in BOOLEAN : Shows([type |-> "clear", wait |-> wait])
      BY <2>3
    <3>2. [type |-> "clear", wait |-> wait] \in Printed
      BY DEF Printed
    <3>3. QED BY <3>1, <3>2, PrintedMessages DEF Shows, Publish, collected
  <2>4. CASE ConsoleShows \/ CellEnds
    <3>1. [type |-> "foreign"] \in Message /\ [type |-> "idle"] \in Message
      BY DEF Message
    <3>2. QED BY <2>4, <3>1 DEF ConsoleShows, CellEnds, Publish, collected
  <2>5. QED BY <2>1, <2>2, <2>3, <2>4 DEF Kernel
<1>3. sent' \in Seq(Printed)
  <2>1. CASE message \in Printed /\ sent' = Append(sent, message)
    <3>1. Append(sent, message) \in Seq(Printed)
      BY <1>1, <2>1, AppendProperties
    <3>2. QED BY <2>1, <3>1
  <2>2. CASE sent' = sent
    BY <1>1, <2>2
  <2>3. QED BY <1>2, <2>1, <2>2
<1>4. ASSUME armed' # "overflow" PROVE \E seen \in Seq(Sizes) : KeptInv(seen)' /\ ArrivesInv(seen)'
  <2>1. PICK seen \in Seq(Sizes) : KeptInv(seen) /\ ArrivesInv(seen)
    BY <1>2, <1>4 DEF ShowInv
  <2>2. KeptInv(seen)'
    BY <1>2, <2>1 DEF KeptInv
  <2> DEFINE picture == [text |-> output, images |-> seen]
  <2>3. picture \in Picture
    BY <1>1 DEF Picture
  <2>4. OnTheWay(picture, wire, pending, iopub) = Final(sent)
    BY <2>1 DEF ArrivesInv
  <2> HIDE DEF picture
  <2>5. OnTheWay(picture, wire, pending, Append(iopub, message)) = ReadMessage(Final(sent), message)
    BY <1>1, <2>3, <2>4, WayAppend
  <2>6. ReadMessage(Final(sent), message) = Final(sent')
    <3>1. CASE message \in Printed /\ sent' = Append(sent, message)
      BY <1>1, <3>1, FinalAppend
    <3>2. CASE message.type \in {"foreign", "idle"} /\ sent' = sent
      BY <3>2 DEF ReadMessage
    <3>3. QED BY <1>2, <3>1, <3>2
  <2>7. ArrivesInv(seen)'
    BY <1>2, <2>5, <2>6 DEF ArrivesInv, picture
  <2>8. QED BY <2>2, <2>7
<1>5. QED BY <1>3, <1>4 DEF ShowInv

\* Steps of the bridge that read a message: the lines say what the message says.
LEMMA ReadShow ==
  ASSUME DataInv, ShowInv, NEW more \in Seq(Carried), NEW waiting \in BOOLEAN,
         iopub # <<>>, iopub' = Tail(iopub), wire' = wire \o more, pending' = waiting,
         UNCHANGED <<sent, output, images, dropped, armed>>,
         \A picture \in Picture :
           ReadMessage([picture |-> picture, waits |-> pending], Head(iopub))
             = [picture |-> After(Handling, picture, more), waits |-> waiting]
  PROVE  ShowInv'
<1>1. /\ iopub \in Seq(Message) /\ wire \in Seq(Carried) /\ pending \in BOOLEAN
      /\ output \in Seq(Chars) /\ sent \in Seq(Printed)
  BY DEF DataInv, TypeOK, QueueInv, ShowInv
<1>2. ASSUME armed' # "overflow" PROVE \E seen \in Seq(Sizes) : KeptInv(seen)' /\ ArrivesInv(seen)'
  <2>1. PICK seen \in Seq(Sizes) : KeptInv(seen) /\ ArrivesInv(seen)
    BY <1>2 DEF ShowInv
  <2>2. KeptInv(seen)'
    BY <2>1 DEF KeptInv
  <2> DEFINE picture == [text |-> output, images |-> seen]
  <2>3. picture \in Picture
    BY <1>1 DEF Picture
  <2>4. OnTheWay(picture, wire, pending, iopub) = Final(sent)
    BY <2>1 DEF ArrivesInv
  <2> HIDE DEF picture
  <2>5. OnTheWay(picture, wire \o more, waiting, Tail(iopub)) = OnTheWay(picture, wire, pending, iopub)
    <3> DEFINE now == After(Handling, picture, wire)
    <3>1. now \in Picture
      BY <1>1, <2>3, WayType
    <3>2. ReadMessage([picture |-> now, waits |-> pending], Head(iopub))
            = [picture |-> After(Handling, now, more), waits |-> waiting]
      BY <3>1
    <3>3. iopub \in Seq(Message) /\ iopub # <<>> /\ wire \in Seq(Carried) /\ pending \in BOOLEAN
      BY <1>1
    <3>4. QED BY ONLY <2>3, <3>2, <3>3, WayRead, more \in Seq(Carried), waiting \in BOOLEAN
  <2>6. ArrivesInv(seen)'
    BY <2>4, <2>5 DEF ArrivesInv, picture
  <2>7. QED BY <2>2, <2>6
<1>3. QED BY <1>1, <1>2 DEF ShowInv

\* Nothing of what is on the way or was collected changes.
LEMMA QuietShow ==
  ASSUME ShowInv, UNCHANGED <<sent, iopub, pending, wire, output, images, dropped>>,
         armed' # "overflow" => armed # "overflow"
  PROVE  ShowInv'
<1>1. ASSUME armed' # "overflow" PROVE \E seen \in Seq(Sizes) : KeptInv(seen)' /\ ArrivesInv(seen)'
  <2>1. PICK seen \in Seq(Sizes) : KeptInv(seen) /\ ArrivesInv(seen)
    BY <1>1 DEF ShowInv
  <2>2. KeptInv(seen)' /\ ArrivesInv(seen)'
    BY <2>1 DEF KeptInv, ArrivesInv
  <2>3. QED BY <2>2
<1>2. QED BY <1>1 DEF ShowInv

\* Every step of the bridge puts on the wire what the message read makes of a picture.
LEMMA BridgeShow == ASSUME DataInv, ShowInv, Bridge PROVE ShowInv'
<1>1. /\ iopub \in Seq(Message) /\ wire \in Seq(Carried) /\ pending \in BOOLEAN
      /\ output \in Seq(Chars) /\ sent \in Seq(Printed)
  BY DEF DataInv, TypeOK, QueueInv, ShowInv
<1> DEFINE message == Head(iopub)
           first == IF pending THEN <<[type |-> "clear"]>> ELSE <<>>
<1>2. ASSUME NEW types, Reads(types)
      PROVE  /\ iopub # <<>> /\ iopub' = Tail(iopub) /\ message \in Message /\ message.type \in types
             /\ UNCHANGED <<sent, output, images, dropped, armed>>
  BY <1>1, <1>2, HeadTailProperties DEF Reads, collected
<1>3. ASSUME NEW picture \in Picture, NEW more \in Seq(Carried)
      PROVE  /\ first \in Seq(Carried) /\ first \o more \in Seq(Carried)
             /\ After(Handling, picture, first \o more)
                  = After(Handling, IF pending THEN Blank ELSE picture, more)
             /\ (IF pending THEN Blank ELSE picture) \in Picture
  <2>1. /\ first \in Seq(Carried)
        /\ After(Handling, picture, first \o more)
             = After(Handling, IF pending THEN Blank ELSE picture, more)
    BY <1>1, ClearFirst
  <2> HIDE DEF first
  <2>2. Blank \in Picture
    BY DEF Blank, Picture
  <2>3. QED BY <2>1, <2>2, ConcatProperties
<1>4. Cleared = first
  BY DEF Cleared
<1>5. <<>> \in Seq(Carried) /\ wire \o <<>> = wire
      /\ \A picture \in Picture : After(Handling, picture, <<>>) = picture
  BY <1>1, ConcatEmptySeq, HandleSteps, AfterEmpty
<1>6. Blank \in Picture
  BY DEF Blank, Picture
<1> HIDE DEF first, message
<1>7. CASE ReadForeign \/ ReadIdle
  <2>1. iopub # <<>> /\ iopub' = Tail(iopub) /\ message.type \in {"foreign", "idle"}
        /\ UNCHANGED <<sent, output, images, dropped, armed>>
    BY <1>2, <1>7 DEF ReadForeign, ReadIdle
  <2>2. wire' = wire \o <<>> /\ pending' = pending
    BY <1>5, <1>7 DEF ReadForeign, ReadIdle
  <2>3. ASSUME NEW picture \in Picture
        PROVE  ReadMessage([picture |-> picture, waits |-> pending], message)
                 = [picture |-> After(Handling, picture, <<>>), waits |-> pending]
    BY <1>5, <2>1 DEF ReadMessage
  <2>4. QED BY <1>1, <1>5, <2>1, <2>2, <2>3, ReadShow DEF message
<1>8. CASE FeedText
  <2>1. /\ iopub # <<>> /\ iopub' = Tail(iopub) /\ message \in Message
        /\ message.type \in {"stream", "block"} /\ UNCHANGED <<sent, output, images, dropped, armed>>
    BY <1>2, <1>8 DEF FeedText
  <2> DEFINE kind == message.type
             text == message.text
             chunks == Chunks(kind, text)
  <2>2. kind \in {"stream", "block"} /\ text \in Texts /\ message = [type |-> kind, text |-> text]
    BY <2>1 DEF Message
  <2>3. wire' = wire \o first \o chunks /\ pending' = FALSE
    BY <1>4, <1>8 DEF FeedText, message
  <2>4. chunks \in Seq(Carried)
    <3> HIDE DEF kind, text
    <3>1. QED BY <2>2, ChunksType
  <2>5. ASSUME NEW picture \in Picture
        PROVE  ReadMessage([picture |-> picture, waits |-> pending], message)
                 = [picture |-> After(Handling, picture, first \o chunks), waits |-> FALSE]
    <3> DEFINE from == IF pending THEN Blank ELSE picture
    <3>1. After(Handling, picture, first \o chunks) = After(Handling, from, chunks) /\ from \in Picture
      <4> HIDE DEF chunks
      <4>1. QED BY <1>3, <2>4
    <3>2. After(Handling, from, chunks) = Draw(from, message)
      <4> HIDE DEF kind, text, from
      <4>1. After(Handling, from, chunks) = Draw(from, [type |-> kind, text |-> text])
        BY <2>2, <3>1, ChunksDraw
      <4>2. QED BY <2>2, <4>1
    <3> HIDE DEF chunks
    <3>3. QED BY <2>1, <3>1, <3>2 DEF ReadMessage
  <2> HIDE DEF chunks
  <2>6. wire' = wire \o (first \o chunks) /\ first \o chunks \in Seq(Carried)
    <3>1. first \in Seq(Carried) /\ first \o chunks \in Seq(Carried)
      BY <1>3, <1>6, <2>4
    <3>2. (wire \o first) \o chunks = wire \o (first \o chunks)
      BY <1>1, <2>4, <3>1, ConcatAssociative
    <3>3. QED BY <2>3, <3>1, <3>2
  <2> DEFINE more == first \o chunks
  <2>7. more \in Seq(Carried) /\ wire' = wire \o more
        /\ \A picture \in Picture : ReadMessage([picture |-> picture, waits |-> pending], message)
                                      = [picture |-> After(Handling, picture, more), waits |-> FALSE]
    BY <2>5, <2>6
  <2> HIDE DEF more
  <2>8. QED BY <2>1, <2>3, <2>7, ReadShow DEF message
<1>9. CASE FeedImage
  <2>1. /\ iopub # <<>> /\ iopub' = Tail(iopub) /\ message \in Message
        /\ message.type = "image" /\ UNCHANGED <<sent, output, images, dropped, armed>>
    BY <1>2, <1>9 DEF FeedImage
  <2> DEFINE one == <<message>>
             more == first \o one
  <2>2. message \in Carried /\ one \in Seq(Carried)
    <3>1. message \in Carried
      BY <2>1 DEF Message, Carried
    <3>2. QED BY <3>1
  <2>3. wire' = wire \o first \o one /\ pending' = FALSE
    BY <1>4, <1>9 DEF FeedImage, message
  <2>4. ASSUME NEW picture \in Picture
        PROVE  ReadMessage([picture |-> picture, waits |-> pending], message)
                 = [picture |-> After(Handling, picture, more), waits |-> FALSE]
    <3> DEFINE from == IF pending THEN Blank ELSE picture
    <3>1. After(Handling, picture, more) = After(Handling, from, one) /\ from \in Picture
      <4> HIDE DEF one
      <4>1. QED BY <1>3, <2>2
    <3>2. After(Handling, from, one) = Draw(from, message)
      <4> HIDE DEF from
      <4>1. After(Handling, from, one) = Handling[from][message]
        BY <2>2, <3>1, HandleSteps, AfterOne
      <4>2. Handling[from][message] = HandleLine(from, message)
        BY <2>2, <3>1, HandlingIs
      <4>3. QED BY <2>1, <4>1, <4>2 DEF HandleLine, Draw
    <3> HIDE DEF more
    <3>3. QED BY <2>1, <3>1, <3>2 DEF ReadMessage
  <2>5. more \in Seq(Carried) /\ wire' = wire \o more
    <3> HIDE DEF one
    <3>1. first \in Seq(Carried) /\ first \o one \in Seq(Carried)
      BY <1>3, <1>6, <2>2
    <3>2. wire \in Seq(Carried) /\ first \in Seq(Carried) /\ one \in Seq(Carried)
      BY <1>1, <2>2, <3>1
    <3>3. (wire \o first) \o one = wire \o (first \o one)
      BY ONLY <3>2, ConcatAssociative
    <3>4. QED BY <2>3, <3>1, <3>3
  <2> HIDE DEF more
  <2>6. QED BY <2>1, <2>3, <2>4, <2>5, ReadShow DEF message
<1>10. CASE FeedClear
  <2>1. /\ iopub # <<>> /\ iopub' = Tail(iopub) /\ message \in Message
        /\ message.type = "clear" /\ UNCHANGED <<sent, output, images, dropped, armed>>
    BY <1>2, <1>10 DEF FeedClear
  <2>2. CASE message.wait
    <3>1. wire' = wire \o <<>> /\ pending' = TRUE
      BY <1>5, <1>10, <2>2 DEF FeedClear, message
    <3>2. ASSUME NEW picture \in Picture
          PROVE  ReadMessage([picture |-> picture, waits |-> pending], message)
                   = [picture |-> After(Handling, picture, <<>>), waits |-> TRUE]
      <4>1. message.wait \in BOOLEAN
        BY <2>1 DEF Message
      <4>2. message.wait = TRUE
        BY <2>2, <4>1
      <4>3. QED BY <1>5, <2>1, <4>2 DEF ReadMessage
    <3>3. QED BY <1>5, <2>1, <3>1, <3>2, ReadShow DEF message
  <2>3. CASE ~message.wait
    <3> DEFINE clear == [type |-> "clear"]
               one == <<clear>>
    <3>1. clear \in Carried /\ clear.type = "clear"
      BY DEF Carried
    <3>2. one \in Seq(Carried) /\ wire' = wire \o one /\ pending' = FALSE
      <4>1. wire' = Append(wire, clear) /\ pending' = FALSE
        BY <1>10, <2>3 DEF FeedClear, message
      <4>2. Append(wire, clear) = wire \o one
        BY <1>1, <3>1, AppendIsConcat
      <4>3. QED BY <3>1, <4>1, <4>2
    <3> HIDE DEF clear
    <3>3. ASSUME NEW picture \in Picture
          PROVE  ReadMessage([picture |-> picture, waits |-> pending], message)
                   = [picture |-> After(Handling, picture, one), waits |-> FALSE]
      <4>1. After(Handling, picture, one) = Handling[picture][clear]
        BY <3>1, HandleSteps, AfterOne
      <4>2. Handling[picture][clear] = Blank
        BY <3>1, HandlingIs DEF HandleLine
      <4>3. message.wait \in BOOLEAN
        BY <2>1 DEF Message
      <4>4. message.wait = FALSE
        BY <2>3, <4>3
      <4> HIDE DEF one
      <4>5. QED BY <2>1, <4>1, <4>2, <4>4 DEF ReadMessage
    <3> HIDE DEF one
    <3>4. QED BY <2>1, <3>2, <3>3, ReadShow DEF message
  <2>4. QED BY <2>2, <2>3
<1>11. CASE ReadReply
  BY <1>11, QuietShow DEF ReadReply, collected
<1>12. CASE SendResult
  <2> DEFINE line == [type |-> "result"]
  <2>1. line \in Carried /\ line.type = "result"
    BY DEF Carried
  <2>2. wire' = Append(wire, line)
        /\ UNCHANGED <<sent, iopub, pending, output, images, dropped, armed>>
    BY <1>12 DEF SendResult, channels, collected
  <2> HIDE DEF line
  <2>3. ASSUME armed' # "overflow" PROVE \E seen \in Seq(Sizes) : KeptInv(seen)' /\ ArrivesInv(seen)'
    <3>1. PICK seen \in Seq(Sizes) : KeptInv(seen) /\ ArrivesInv(seen)
      BY <2>2, <2>3 DEF ShowInv
    <3>2. KeptInv(seen)'
      BY <2>2, <3>1 DEF KeptInv
    <3> DEFINE picture == [text |-> output, images |-> seen]
    <3>3. picture \in Picture
      BY <1>1 DEF Picture
    <3>4. OnTheWay(picture, wire, pending, iopub) = Final(sent)
      BY <3>1 DEF ArrivesInv
    <3> HIDE DEF picture
    <3>5. After(Handling, picture, Append(wire, line)) = After(Handling, picture, wire)
      <4>1. After(Handling, picture, wire) \in Picture
        BY <1>1, <3>3, WayType
      <4>2. After(Handling, picture, Append(wire, line))
              = Handling[After(Handling, picture, wire)][line]
        BY <1>1, <2>1, <3>3, HandleSteps, AfterAppend
      <4>3. QED BY <2>1, <4>1, <4>2, HandlingIs DEF HandleLine
    <3>6. OnTheWay(picture, Append(wire, line), pending, iopub) = Final(sent)
      BY <3>4, <3>5 DEF OnTheWay
    <3>7. ArrivesInv(seen)'
      BY <2>2, <3>6 DEF ArrivesInv, picture
    <3>8. QED BY <3>2, <3>7
  <2>4. QED BY <1>1, <2>2, <2>3 DEF ShowInv
<1>13. QED BY <1>7, <1>8, <1>9, <1>10, <1>11, <1>12 DEF Bridge

\* What is kept of an image.
LEMMA KeepsImage ==
  ASSUME DataInv, HandleImage, NEW seen \in Seq(Sizes), KeptInv(seen),
         NEW size, size = Head(wire).size
  PROVE  size \in Sizes /\ KeptInv(Append(seen, size))'
<1>1. size \in Sizes /\ images \in Seq(Sizes) /\ dropped \in Nat
  <2>1. Head(wire) \in Line /\ Head(wire).type = "image"
    BY HeadTailProperties DEF HandleImage, Handles, DataInv, TypeOK
  <2>2. size \in Sizes
    BY <2>1 DEF Line
  <2>3. QED BY <2>2 DEF DataInv, TypeOK
<1>2. \/ Kept(size) /\ images' = Append(images, size) /\ dropped' = dropped
      \/ ~Kept(size) /\ images' = images /\ dropped' = dropped + 1
  BY Zenon DEF HandleImage
<1>3. images \in Seq(Nat)
      /\ size \in Nat /\ Sizes \subseteq Nat /\ ImageLimit \in Nat /\ ImageBytes \in Nat
  BY <1>1, SeqMonotonic, OutputAssumption
<1>4. SumSeq(images) \in Nat /\ Len(images) \in Nat /\ Len(seen) \in Nat
  BY <1>3, SumType
<1>5. Len(Append(seen, size)) = Len(seen) + 1
  BY <1>1, AppendProperties
<1>6. KeptInv(seen)
  OBVIOUS
<1>7. CASE Kept(size) /\ images' = Append(images, size) /\ dropped' = dropped
  <2>1. Len(images') = Len(images) + 1 /\ SumSeq(images') = SumSeq(images) + size
    BY <1>1, <1>3, <1>7, SumAppend, AppendProperties
  <2>2. Len(images) < ImageLimit /\ size + SumSeq(images) <= ImageBytes
    BY <1>7 DEF Kept
  <2>3. Len(images') + dropped' = Len(Append(seen, size))
    BY <1>1, <1>4, <1>5, <1>6, <1>7, <2>1 DEF KeptInv
  <2>4. dropped' = 0 => images' = Append(seen, size)
    BY <1>6, <1>7 DEF KeptInv
  <2>5. Len(images') <= ImageLimit /\ SumSeq(images') <= ImageBytes
    BY <1>3, <1>4, <2>1, <2>2
  <2>6. ASSUME dropped' > 0 PROVE \E other \in Sizes : SumSeq(images') + other > ImageBytes
    <3>1. PICK other \in Sizes : SumSeq(images) + other > ImageBytes
      BY <1>3, <1>4, <1>6, <1>7, <2>2, <2>6 DEF KeptInv
    <3>2. SumSeq(images') + other > ImageBytes
      BY <1>3, <1>4, <2>1, <3>1
    <3>3. QED BY <3>2
  <2>7. QED BY <1>1, <2>3, <2>4, <2>5, <2>6 DEF KeptInv
<1>8. CASE ~Kept(size) /\ images' = images /\ dropped' = dropped + 1
  <2>1. Len(images') + dropped' = Len(Append(seen, size))
    BY <1>1, <1>4, <1>5, <1>6, <1>8 DEF KeptInv
  <2>2. dropped' # 0
    BY <1>1, <1>8
  <2>3. Len(images') <= ImageLimit /\ SumSeq(images') <= ImageBytes
    BY <1>6, <1>8 DEF KeptInv
  <2>4. Len(images') = ImageLimit \/ \E other \in Sizes : SumSeq(images') + other > ImageBytes
    <3>1. CASE Len(images) < ImageLimit
      <4>1. SumSeq(images) + size > ImageBytes
        BY <1>3, <1>4, <1>8, <3>1 DEF Kept
      <4>2. QED BY <1>1, <1>8, <4>1
    <3>2. CASE ~(Len(images) < ImageLimit)
      BY <1>3, <1>4, <1>8, <2>3, <3>2
    <3>3. QED BY <3>1, <3>2
  <2>5. QED BY <1>1, <2>1, <2>2, <2>3, <2>4 DEF KeptInv
<1>9. QED BY <1>2, <1>7, <1>8

\* Steps of the host.
LEMMA HostShow == ASSUME DataInv, ShowInv, Host PROVE ShowInv'
<1>1. /\ iopub \in Seq(Message) /\ wire \in Seq(Carried) /\ pending \in BOOLEAN
      /\ output \in Seq(Chars) /\ sent \in Seq(Printed)
  BY DEF DataInv, TypeOK, QueueInv, ShowInv
<1>2. ASSUME NEW type, Handles(type), armed' # "overflow" => armed # "overflow",
             \A seen \in Seq(Sizes) : KeptInv(seen) /\ armed # "overflow" /\ armed' # "overflow" =>
               \E now \in Seq(Sizes) :
                 /\ KeptInv(now)'
                 /\ [text |-> output', images |-> now]
                      = HandleLine([text |-> output, images |-> seen], Head(wire))
      PROVE  ShowInv'
  <2>1. wire # <<>> /\ wire' = Tail(wire) /\ UNCHANGED <<sent, iopub, pending>>
    BY <1>2 DEF Handles, channels
  <2>2. ASSUME armed' # "overflow" PROVE \E seen \in Seq(Sizes) : KeptInv(seen)' /\ ArrivesInv(seen)'
    <3>1. PICK seen \in Seq(Sizes) : KeptInv(seen) /\ ArrivesInv(seen)
      BY <1>2, <2>2 DEF ShowInv
    <3> DEFINE picture == [text |-> output, images |-> seen]
    <3>2. PICK now \in Seq(Sizes) :
            KeptInv(now)' /\ [text |-> output', images |-> now] = HandleLine(picture, Head(wire))
      BY <1>2, <2>2, <3>1
    <3>3. picture \in Picture
      BY <1>1 DEF Picture
    <3>4. OnTheWay(picture, wire, pending, iopub) = Final(sent)
      BY <3>1 DEF ArrivesInv
    <3> HIDE DEF picture
    <3>5. OnTheWay(HandleLine(picture, Head(wire)), Tail(wire), pending, iopub) = Final(sent)
      BY <1>1, <2>1, <3>3, <3>4, WayHandle
    <3>6. ArrivesInv(now)'
      BY <2>1, <3>2, <3>5 DEF ArrivesInv
    <3>7. QED BY <3>2, <3>6
  <2>3. QED BY <1>1, <2>1, <2>2 DEF ShowInv
<1>3. CASE HandleClear
  <2>1. /\ Handles("clear") /\ Head(wire).type = "clear" /\ armed' = armed
        /\ output' = <<>> /\ images' = <<>> /\ dropped' = 0
    BY <1>3 DEF HandleClear, Handles
  <2>2. <<>> \in Seq(Sizes) /\ Len(<<>>) = 0
    OBVIOUS
  <2>3. KeptInv(<<>>)'
    BY <2>1, <2>2, SumEmpty, OutputAssumption DEF KeptInv
  <2>4. ASSUME NEW seen \in Seq(Sizes)
        PROVE  [text |-> output', images |-> <<>>]
                 = HandleLine([text |-> output, images |-> seen], Head(wire))
    BY <2>1 DEF HandleLine, Blank
  <2>5. QED BY <1>2, <2>1, <2>2, <2>3, <2>4
<1>4. CASE HandleImage
  <2>1. Handles("image") /\ Head(wire).type = "image" /\ output' = output /\ armed' = armed
    BY <1>4 DEF HandleImage, Handles
  <2>2. ASSUME NEW seen \in Seq(Sizes), KeptInv(seen)
        PROVE  \E now \in Seq(Sizes) :
                 /\ KeptInv(now)'
                 /\ [text |-> output', images |-> now]
                      = HandleLine([text |-> output, images |-> seen], Head(wire))
    <3>1. PICK size : size = Head(wire).size
      OBVIOUS
    <3>2. size \in Sizes /\ KeptInv(Append(seen, size))'
      BY <1>4, <2>2, <3>1, KeepsImage
    <3>3. Append(seen, size) \in Seq(Sizes)
      BY <3>2, AppendProperties
    <3>4. [text |-> output', images |-> Append(seen, size)]
            = HandleLine([text |-> output, images |-> seen], Head(wire))
      BY <2>1, <3>1 DEF HandleLine
    <3>5. QED BY <3>2, <3>3, <3>4
  <2>3. QED BY <1>2, <2>1, <2>2
<1>5. CASE HandleOutput
  <2>1. /\ Handles("output") /\ Head(wire).type = "output" /\ armed # "overflow"
        /\ output' = Added(output, Head(wire)) /\ UNCHANGED <<images, dropped>>
    BY <1>5 DEF HandleOutput, Handles
  <2>2. ASSUME NEW seen \in Seq(Sizes), KeptInv(seen)
        PROVE  /\ KeptInv(seen)'
               /\ [text |-> output', images |-> seen]
                    = HandleLine([text |-> output, images |-> seen], Head(wire))
    BY <2>1, <2>2 DEF KeptInv, HandleLine
  <2>3. \A seen \in Seq(Sizes) : KeptInv(seen) =>
          \E now \in Seq(Sizes) :
            /\ KeptInv(now)'
            /\ [text |-> output', images |-> now]
                 = HandleLine([text |-> output, images |-> seen], Head(wire))
    BY <2>2
  <2>4. QED BY <1>2, <2>1, <2>3
<1>6. CASE IgnoreOutput
  <2>1. Handles("output") /\ armed = "overflow" /\ armed' = armed
    BY <1>6 DEF IgnoreOutput
  <2>2. QED BY <1>2, <2>1
<1>7. CASE HandleResult
  <2>1. /\ Handles("result") /\ Head(wire).type = "result"
        /\ UNCHANGED <<output, images, dropped, armed>>
    BY <1>7 DEF HandleResult, Handles
  <2>2. ASSUME NEW seen \in Seq(Sizes), KeptInv(seen)
        PROVE  /\ KeptInv(seen)'
               /\ [text |-> output', images |-> seen]
                    = HandleLine([text |-> output, images |-> seen], Head(wire))
    BY <2>1, <2>2 DEF KeptInv, HandleLine
  <2>3. QED BY <1>2, <2>1, <2>2
<1>8. CASE Cancel \/ Lost
  BY <1>8, QuietShow DEF Cancel, Lost, channels
<1>9. QED BY <1>3, <1>4, <1>5, <1>6, <1>7, <1>8 DEF Host

\* Every step of the cell, the bridge and the host keeps what arrives.
LEMMA StepShow == ASSUME DataInv, ShowInv, [Next]_vars PROVE ShowInv'
<1>1. CASE UNCHANGED vars
  BY <1>1, QuietShow DEF vars, channels, collected
<1>2. QED BY <1>1, KernelShow, BridgeShow, HostShow DEF Next

-----------------------------------------------------------------------------
(***************************************************************************)
(* The end of both channels and of the lines, and ShowsCell.               *)
(***************************************************************************)
LEMMA StepChannel == ASSUME DataInv, ChannelInv, [Next]_vars PROVE ChannelInv'
<1>1. iopub \in Seq(Message)
  BY DEF DataInv, QueueInv
<1>2. ASSUME NEW message \in Message, Publish(message), message.type = "idle" => shell' # "none"
      PROVE  ChannelInv'
  <2>1. shell = "none" /\ iopub' = Append(iopub, message) /\ idle' = idle
    BY <1>2 DEF Publish
  <2>2. ~idle /\ \A n \in 1..Len(iopub) : iopub[n].type # "idle"
    BY <2>1 DEF ChannelInv
  <2>3. /\ Len(iopub') = Len(iopub) + 1 /\ Len(iopub) \in Nat
        /\ iopub'[Len(iopub) + 1] = message /\ \A n \in 1..Len(iopub) : iopub'[n] = iopub[n]
    BY <1>1, <2>1, AppendProperties
  <2>4. ASSUME NEW n \in 1..Len(iopub'), iopub'[n].type = "idle"
        PROVE  shell' # "none" /\ n = Len(iopub')
    <3>1. n \notin 1..Len(iopub)
      BY <2>2, <2>3, <2>4
    <3>2. n = Len(iopub) + 1
      BY <2>3, <3>1
    <3>3. QED BY <1>2, <2>3, <2>4, <3>2
  <2>5. QED BY <2>1, <2>2, <2>4 DEF ChannelInv
<1>3. ASSUME NEW types, Reads(types), idle' = idle \/ (Head(iopub).type = "idle" /\ idle' = TRUE)
      PROVE  ChannelInv'
  <2>1. iopub # <<>> /\ iopub' = Tail(iopub) /\ shell' = shell
    BY <1>3 DEF Reads
  <2>2. /\ Len(iopub) \in Nat \ {0} /\ Len(iopub') = Len(iopub) - 1 /\ Head(iopub) = iopub[1]
        /\ \A n \in 1..Len(iopub') : iopub'[n] = iopub[n + 1]
        /\ iopub' \in Seq(Message)
    BY <1>1, <2>1, HeadTailProperties, EmptySeq
  <2>3. ASSUME NEW n \in 1..Len(iopub'), iopub'[n].type = "idle"
        PROVE  shell' # "none" /\ n = Len(iopub')
    <3>1. n + 1 \in 1..Len(iopub) /\ iopub[n + 1].type = "idle"
      BY <2>2, <2>3
    <3>2. shell # "none" /\ n + 1 = Len(iopub)
      BY <3>1 DEF ChannelInv
    <3>3. n \in Nat /\ Len(iopub') = n
      BY <2>2, <3>2
    <3>4. QED BY <2>1, <3>2, <3>3
  <2>4. ~idle
    BY <2>1 DEF ChannelInv
  <2>5. ASSUME idle' PROVE shell' # "none" /\ iopub' = <<>>
    <3>1. iopub[1].type = "idle" /\ 1 \in 1..Len(iopub)
      <4>1. Head(iopub).type = "idle"
        BY <1>3, <2>4, <2>5
      <4>2. Head(iopub) = iopub[1] /\ Len(iopub) \in Nat \ {0}
        BY <2>2
      <4>3. QED BY <4>1, <4>2
    <3>2. shell # "none" /\ 1 = Len(iopub)
      BY <3>1 DEF ChannelInv
    <3>3. Len(iopub') = 0
      <4>1. Len(iopub') = Len(iopub) - 1
        BY <2>2
      <4>2. QED BY <3>2, <4>1
    <3>4. QED BY <2>1, <2>2, <3>2, <3>3, EmptySeq
  <2>6. QED BY <2>3, <2>5 DEF ChannelInv
<1>4. CASE Kernel
  <2>1. PICK message \in Message : Publish(message) /\ (message.type = "idle" => shell' # "none")
    <3>1. CASE ConsoleShows
      <4>1. [type |-> "foreign"] \in Message
        BY DEF Message
      <4>2. QED BY <3>1, <4>1 DEF ConsoleShows
    <3>2. CASE CellEnds
      <4>1. [type |-> "idle"] \in Message
        BY DEF Message
      <4>2. QED BY <3>2, <4>1 DEF CellEnds
    <3>3. CASE ~ConsoleShows /\ ~CellEnds
      <4>1. PICK message \in Printed : Shows(message)
        BY <1>4, <3>3 DEF Kernel, Printed
      <4>2. message \in Message /\ message.type # "idle"
        BY PrintedMessages DEF Printed
      <4>3. QED BY <4>1, <4>2 DEF Shows
    <3>4. QED BY <3>1, <3>2, <3>3
  <2>2. QED BY <1>2, <2>1
<1>5. CASE ReadForeign \/ ReadIdle \/ FeedText \/ FeedImage \/ FeedClear
  <2>1. CASE ReadIdle
    <3>1. Head(iopub).type = "idle" /\ Reads({"idle"}) /\ idle' = TRUE
      BY <2>1 DEF ReadIdle, Reads
    <3>2. QED BY <1>3, <3>1
  <2>2. CASE ReadForeign
    BY <1>3, <2>2 DEF ReadForeign
  <2>3. CASE FeedText
    BY <1>3, <2>3 DEF FeedText
  <2>4. CASE FeedImage
    BY <1>3, <2>4 DEF FeedImage
  <2>5. CASE FeedClear
    BY <1>3, <2>5 DEF FeedClear
  <2>6. QED BY <1>5, <2>1, <2>2, <2>3, <2>4, <2>5
<1>6. CASE ReadReply
  BY <1>6 DEF ReadReply, ChannelInv
<1>7. CASE SendResult \/ Host \/ UNCHANGED vars
  <2>1. UNCHANGED <<iopub, shell, idle>>
    BY <1>7 DEF SendResult, Host, HandleClear, HandleImage, HandleOutput, IgnoreOutput,
                HandleResult, Cancel, Lost, Handles, channels, vars
  <2>2. QED BY <2>1 DEF ChannelInv
<1>8. QED BY <1>4, <1>5, <1>6, <1>7 DEF Next, Bridge

\* The bridge sends the result once, after all that it read.
LEMMA StepResult == ASSUME DataInv, ResultInv, [Next]_vars PROVE ResultInv'
<1>1. wire \in Seq(Carried)
  BY DEF DataInv, QueueInv
<1>2. Complete => Complete'
  <2>1. CASE Kernel
    BY <2>1 DEF Kernel, Shows, ConsoleShows, CellEnds, Publish, Complete
  <2>2. CASE Bridge
    BY <2>2 DEF Bridge, ReadForeign, ReadIdle, ReadReply, FeedText, FeedImage, FeedClear,
                SendResult, Reads, channels, Complete
  <2>3. CASE Host
    BY <2>3 DEF Host, HandleClear, HandleImage, HandleOutput, IgnoreOutput, HandleResult, Cancel,
                Lost, Handles, channels, Complete
  <2>4. CASE UNCHANGED vars
    BY <2>4 DEF vars, channels, Complete
  <2>5. QED BY <2>1, <2>2, <2>3, <2>4 DEF Next
<1>3. ASSUME wire' = wire, state' = state \/ state' = "lost" PROVE ResultInv'
  BY <1>2, <1>3 DEF ResultInv
<1>4. ASSUME NEW more \in Seq(Carried), wire' = wire \o more, ~Complete, state' = state,
             \A n \in 1..Len(more) : more[n].type # "result"
      PROVE  ResultInv'
  <2>1. \A n \in 1..Len(wire) : wire[n].type # "result"
    BY <1>4 DEF ResultInv
  <2>2. /\ Len(wire') = Len(wire) + Len(more) /\ Len(wire) \in Nat /\ Len(more) \in Nat
        /\ \A n \in 1..Len(wire) + Len(more) :
             wire'[n] = IF n <= Len(wire) THEN wire[n] ELSE more[n - Len(wire)]
    BY <1>1, <1>4, ConcatProperties, LenProperties
  <2>3. ASSUME NEW n \in 1..Len(wire') PROVE wire'[n].type # "result"
    <3>1. CASE n <= Len(wire)
      <4>1. n \in 1..Len(wire) /\ wire'[n] = wire[n]
        BY <2>2, <3>1
      <4>2. QED BY <2>1, <4>1
    <3>2. CASE ~(n <= Len(wire))
      <4>1. n - Len(wire) \in 1..Len(more) /\ wire'[n] = more[n - Len(wire)]
        BY <2>2, <3>2
      <4>2. QED BY <1>4, <4>1
    <3>3. QED BY <3>1, <3>2
  <2>4. state' # "answered"
    BY <1>4 DEF ResultInv
  <2>5. QED BY <2>3, <2>4 DEF ResultInv
<1>5. CASE FeedText \/ FeedImage \/ FeedClear
  <2> DEFINE message == Head(iopub)
             clear == [type |-> "clear"]
             first == IF pending THEN <<clear>> ELSE <<>>
  <2>1. clear \in Carried /\ clear.type # "result"
    BY DEF Carried
  <2>2. ~Complete /\ state' = state /\ message \in Message /\ iopub # <<>>
    BY <1>5, HeadTailProperties DEF FeedText, FeedImage, FeedClear, Reads, collected, DataInv, QueueInv
  <2> HIDE DEF clear, message
  <2>3. first \in Seq(Carried) /\ \A n \in 1..Len(first) : first[n].type # "result"
    BY <2>1
  <2>4. Cleared = first
    BY DEF Cleared, clear
  <2> HIDE DEF first
  <2>5. ASSUME NEW lines \in Seq(Carried), wire' = wire \o first \o lines,
               \A n \in 1..Len(lines) : lines[n].type # "result"
        PROVE  ResultInv'
    <3> DEFINE more == first \o lines
    <3>1. wire' = wire \o more
      BY <1>1, <2>3, <2>5, ConcatAssociative
    <3>2. more \in Seq(Carried) /\ \A n \in 1..Len(more) : more[n].type # "result"
      <4>1. /\ more \in Seq(Carried) /\ Len(more) = Len(first) + Len(lines)
            /\ Len(first) \in Nat /\ Len(lines) \in Nat
            /\ \A n \in 1..Len(first) + Len(lines) :
                 more[n] = IF n <= Len(first) THEN first[n] ELSE lines[n - Len(first)]
        BY <2>3, <2>5, ConcatProperties, LenProperties
      <4> HIDE DEF more
      <4>2. ASSUME NEW n \in 1..Len(more) PROVE more[n].type # "result"
        <5>1. CASE n <= Len(first)
          <6>1. n \in 1..Len(first) /\ more[n] = first[n]
            BY <4>1, <5>1
          <6>2. QED BY <2>3, <6>1
        <5>2. CASE ~(n <= Len(first))
          <6>1. n - Len(first) \in 1..Len(lines) /\ more[n] = lines[n - Len(first)]
            BY <4>1, <5>2
          <6>2. QED BY <2>5, <6>1
        <5>3. QED BY <5>1, <5>2
      <4>3. QED BY <4>1, <4>2
    <3> HIDE DEF more
    <3>3. QED BY <1>4, <2>2, <3>1, <3>2
  <2>6. CASE FeedText
    <3>1. message.type \in {"stream", "block"}
      BY <2>6 DEF FeedText, Reads, message
    <3> DEFINE lines == Chunks(message.type, message.text)
    <3>2. message.text \in Texts
      BY <2>2, <3>1 DEF Message
    <3>3. lines \in Seq(Carried)
      BY <3>1, <3>2, ChunksType
    <3>4. \A n \in 1..Len(lines) : lines[n].type # "result"
      <4>1. PICK pos : Cut(pos, message.type, message.text, lines)
        BY <3>1, <3>2, ChunkFacts
      <4> HIDE DEF lines
      <4> DEFINE kind == message.type
                 text == message.text
      <4>2. Cut(pos, kind, text, lines)
        BY <4>1
      <4> HIDE DEF kind, text
      <4>3. ASSUME NEW n \in 1..Len(lines) PROVE lines[n].type = "output"
        <5> DEFINE piece == SubSeq(text, pos[n - 1] + 1, pos[n])
        <5>1. lines[n] = [type |-> "output", kind |-> kind, text |-> piece,
                          continuation |-> n # 1, final |-> n = Len(lines)]
          BY <4>2 DEF Cut
        <5> HIDE DEF piece
        <5>2. QED BY <5>1
      <4>4. QED BY <4>3
    <3>5. wire' = wire \o first \o lines
      BY <2>4, <2>6 DEF FeedText, message
    <3> HIDE DEF lines
    <3>6. QED BY <2>5, <3>3, <3>4, <3>5
  <2>7. CASE FeedImage
    <3> DEFINE lines == <<message>>
    <3>1. message.type = "image"
      BY <2>7 DEF FeedImage, Reads, message
    <3>2. message \in Carried
      BY <2>2, <3>1 DEF Message, Carried
    <3>3. lines \in Seq(Carried) /\ \A n \in 1..Len(lines) : lines[n].type # "result"
      BY <3>1, <3>2
    <3>4. wire' = wire \o first \o lines
      BY <2>4, <2>7 DEF FeedImage, message
    <3> HIDE DEF lines
    <3>5. QED BY <2>5, <3>3, <3>4
  <2>8. CASE FeedClear
    <3>1. CASE wire' = wire
      BY <1>3, <2>2, <3>1
    <3>2. CASE wire' = Append(wire, clear)
      <4> DEFINE lines == <<clear>>
      <4>1. wire' = wire \o lines
        BY <1>1, <2>1, <3>2, AppendIsConcat
      <4>2. lines \in Seq(Carried) /\ \A n \in 1..Len(lines) : lines[n].type # "result"
        BY <2>1
      <4> HIDE DEF lines
      <4>3. QED BY <1>4, <2>2, <4>1, <4>2
    <3>3. QED BY <2>8, <3>1, <3>2 DEF FeedClear, clear
  <2>9. QED BY <1>5, <2>6, <2>7, <2>8
<1>6. CASE SendResult
  <2> DEFINE line == [type |-> "result"]
  <2>1. /\ Complete /\ wire' = Append(wire, line) /\ line \notin Range(wire)
        /\ state = "active" /\ state' = state
    BY <1>6 DEF SendResult, collected
  <2>2. line \in Carried
    BY DEF Carried
  <2>3. ASSUME NEW n \in 1..Len(wire) PROVE wire[n].type # "result"
    <3>1. SUFFICES ASSUME wire[n].type = "result" PROVE FALSE
      OBVIOUS
    <3>2. wire[n] \in Carried
      BY <1>1
    <3>3. wire[n] = line
      BY <3>1, <3>2 DEF Carried
    <3>4. line \in Range(wire)
      BY <1>1, <3>3 DEF Range
    <3>5. QED BY <2>1, <3>4
  <2> HIDE DEF line
  <2>4. Len(wire') = Len(wire) + 1 /\ Len(wire) \in Nat /\ \A n \in 1..Len(wire) : wire'[n] = wire[n]
    BY <1>1, <2>1, <2>2, AppendProperties
  <2>5. ASSUME NEW n \in 1..Len(wire'), wire'[n].type = "result" PROVE Complete' /\ n = Len(wire')
    <3>1. n \notin 1..Len(wire)
      BY <2>3, <2>4, <2>5
    <3>2. QED BY <1>2, <2>1, <2>4, <3>1
  <2>6. QED BY <2>1, <2>5 DEF ResultInv
<1>7. ASSUME NEW type, Handles(type), state' = state \/ (state' = "answered" /\ type = "result")
      PROVE  ResultInv'
  <2>1. /\ state = "active" /\ wire # <<>> /\ Head(wire).type = type /\ wire' = Tail(wire)
    BY <1>7 DEF Handles
  <2>2. /\ Len(wire) \in Nat \ {0} /\ Len(wire') = Len(wire) - 1 /\ Head(wire) = wire[1]
        /\ \A n \in 1..Len(wire') : wire'[n] = wire[n + 1]
        /\ wire' \in Seq(Carried)
    BY <1>1, <2>1, HeadTailProperties, EmptySeq
  <2>3. ASSUME NEW n \in 1..Len(wire'), wire'[n].type = "result" PROVE Complete' /\ n = Len(wire')
    <3>1. n + 1 \in 1..Len(wire) /\ wire[n + 1].type = "result"
      BY <2>2, <2>3
    <3>2. Complete /\ n + 1 = Len(wire)
      BY <3>1 DEF ResultInv
    <3>3. QED BY <1>2, <2>2, <2>3, <3>2
  <2>4. ASSUME state' = "answered" PROVE Complete' /\ wire' = <<>>
    <3>1. type = "result" /\ 1 \in 1..Len(wire) /\ wire[1].type = "result"
      BY <1>7, <2>1, <2>2, <2>4
    <3>2. Complete /\ 1 = Len(wire)
      BY <3>1 DEF ResultInv
    <3>3. Len(wire') = 0
      <4>1. Len(wire') = Len(wire) - 1
        BY <2>2
      <4>2. QED BY <3>2, <4>1
    <3>4. QED BY <1>2, <2>2, <3>2, <3>3, EmptySeq
  <2>5. QED BY <2>3, <2>4 DEF ResultInv
<1>8. CASE Host
  <2>1. CASE HandleClear
    BY <1>7, <2>1 DEF HandleClear
  <2>2. CASE HandleImage
    BY <1>7, <2>2 DEF HandleImage
  <2>3. CASE HandleOutput
    BY <1>7, <2>3 DEF HandleOutput
  <2>4. CASE IgnoreOutput
    BY <1>7, <2>4 DEF IgnoreOutput
  <2>5. CASE HandleResult
    BY <1>7, <2>5 DEF HandleResult
  <2>6. CASE Cancel \/ Lost
    BY <1>3, <2>6 DEF Cancel, Lost
  <2>7. QED BY <1>8, <2>1, <2>2, <2>3, <2>4, <2>5, <2>6 DEF Host
<1>9. CASE Kernel \/ ReadForeign \/ ReadIdle \/ ReadReply \/ UNCHANGED vars
  <2>1. wire' = wire /\ state' = state
    BY <1>9 DEF Kernel, Shows, ConsoleShows, CellEnds, Publish, ReadForeign, ReadIdle, ReadReply,
                Reads, collected, vars
  <2>2. QED BY <1>3, <2>1
<1>10. QED BY <1>5, <1>6, <1>8, <1>9 DEF Next, Bridge

\* The whole text of a result is in the answer, or in the file that the answer names.
LEMMA FinalOutputIs ==
  ASSUME NEW text
  PROVE  LET told == FinalOutput(text)
         IN  (IF told.file = {} THEN told.output ELSE CHOOSE t \in told.file : TRUE) = text
<1>1. CASE Fits(text)
  BY <1>1 DEF FinalOutput, TruncateTail
<1>2. CASE ~Fits(text)
  BY <1>2 DEF FinalOutput
<1>3. QED BY <1>1, <1>2

\* A text that ends in another has it among its suffixes.
LEMMA EndsWith ==
  ASSUME NEW s \in Seq(Char), NEW t \in Seq(Char)
  PROVE  t \in Suffixes(s \o t) /\ t \in Suffixes(t)
<1>1. t \in Suffixes(t)
  <2>1. CASE t = <<>>
    BY <2>1 DEF Suffixes
  <2>2. CASE t # <<>>
    <3>1. 1 \in 1..Len(t) /\ SubSeq(t, 1, Len(t)) = t
      BY <2>2, EmptySeq, SubSeqFull
    <3>2. QED BY <3>1 DEF Suffixes
  <2>3. QED BY <2>1, <2>2
<1>2. t \in Suffixes(s \o t)
  <2> DEFINE all == s \o t
             l == Len(s) + 1
  <2>1. /\ all \in Seq(Char) /\ Len(all) = Len(s) + Len(t) /\ Len(s) \in Nat /\ Len(t) \in Nat
        /\ \A i \in 1..Len(s) + Len(t) : all[i] = IF i <= Len(s) THEN s[i] ELSE t[i - Len(s)]
    BY ConcatProperties, LenProperties
  <2> HIDE DEF all
  <2>0. SUFFICES t \in Suffixes(all)
    BY DEF all
  <2>2. CASE t = <<>>
    BY <2>2 DEF Suffixes
  <2>3. CASE t # <<>>
    <3>1. Len(t) > 0 /\ l \in 1..Len(all) /\ Len(all) \in Int /\ l \in Int
      BY <2>1, <2>3, EmptySeq
    <3>2. \A i \in l..Len(all) : all[i] \in Char
      BY <2>1
    <3> HIDE DEF l
    <3>3. /\ SubSeq(all, l, Len(all)) \in Seq(Char)
          /\ Len(SubSeq(all, l, Len(all))) = IF l <= Len(all) THEN Len(all) - l + 1 ELSE 0
          /\ \A i \in 1..Len(all) - l + 1 : SubSeq(all, l, Len(all))[i] = all[l + i - 1]
      BY <3>1, <3>2, SubSeqProperties
    <3> DEFINE end == SubSeq(all, l, Len(all))
    <3>4. Len(end) = Len(t) /\ Len(all) - l + 1 = Len(t)
      BY <2>1, <3>1, <3>3 DEF l
    <3>5. ASSUME NEW i \in 1..Len(t) PROVE end[i] = t[i]
      <4> DEFINE k == l + i - 1
      <4>1. end[i] = all[k]
        BY <3>3, <3>4
      <4>2. k \in 1..Len(s) + Len(t) /\ ~(k <= Len(s)) /\ k - Len(s) = i
        BY <2>1 DEF l
      <4> HIDE DEF end, k
      <4>3. all[k] = t[k - Len(s)]
        BY <2>1, <4>2
      <4>4. QED BY <4>1, <4>2, <4>3
    <3>6. end = t
      <4>1. end \in Seq(Char)
        BY <3>3
      <4> HIDE DEF end
      <4>2. QED BY <3>4, <3>5, <4>1, SeqEqual
    <3>7. QED BY <3>1, <3>6 DEF Suffixes
  <2>4. QED BY <2>2, <2>3
<1>3. QED BY <1>1, <1>2

\* What is shown, and when all of it was handled.
ShownInv == DataInv /\ ShowInv /\ ChannelInv /\ ResultInv

\* The invariant of ShowsCorrect.
LEMMA InductiveShown == Spec => []ShownInv
<1>1. Init => ShownInv
  BY InitData, InitShow DEF ShownInv
<1>2. ShownInv /\ [Next]_vars => ShownInv'
  BY StepData, StepShow, StepChannel, StepResult DEF ShownInv
<1>3. QED BY <1>1, <1>2, PTL DEF Spec

\* The result of a cell is what a front end shows of it. Once the host handled everything
\* the cell printed, the collected text is the text drawn after the last clear that took
\* effect, and ends the answer or the file that it names; every image drawn is kept or
\* counted as left out, those kept are within both limits, and none is left out before a
\* limit is reached (handleLine, handleImage, publish and finalOutput).
THEOREM ShowsCorrect == Spec => []ShowsCell
<1>1. ASSUME ShownInv, Handled, armed # "overflow"
      PROVE  /\ output = Screen(sent).text
             /\ Len(images) + dropped = Len(Screen(sent).images)
             /\ dropped = 0 => images = Screen(sent).images
             /\ Len(images) <= ImageLimit /\ SumSeq(images) <= ImageBytes
             /\ dropped > 0 => Len(images) = ImageLimit
                               \/ \E size \in Sizes : SumSeq(images) + size > ImageBytes
  <2>1. iopub = <<>> /\ wire = <<>>
    BY <1>1 DEF ShownInv, Handled, ResultInv, ChannelInv, Complete
  <2>2. PICK seen \in Seq(Sizes) : KeptInv(seen) /\ ArrivesInv(seen)
    BY <1>1 DEF ShownInv, ShowInv
  <2> DEFINE picture == [text |-> output, images |-> seen]
  <2>3. picture \in Picture /\ pending \in BOOLEAN
    BY <1>1 DEF ShownInv, DataInv, TypeOK, QueueInv, Picture
  <2>4. picture.text = output /\ picture.images = seen
    OBVIOUS
  <2>5. OnTheWay(picture, <<>>, pending, <<>>) = Final(sent)
    BY <2>1, <2>2 DEF ArrivesInv
  <2> HIDE DEF picture
  <2>6. OnTheWay(picture, <<>>, pending, <<>>) = [picture |-> picture, waits |-> pending]
    <3>1. After(Handling, picture, <<>>) = picture
      BY <2>3, HandleSteps, AfterEmpty
    <3>2. [picture |-> picture, waits |-> pending] \in Feed
      BY <2>3 DEF Feed
    <3>3. After(Reading, [picture |-> picture, waits |-> pending], <<>>)
            = [picture |-> picture, waits |-> pending]
      BY <3>2, ReadSteps, AfterEmpty
    <3>4. QED BY <3>1, <3>3 DEF OnTheWay
  <2>7. Screen(sent) = picture
    BY <2>5, <2>6 DEF Final
  <2>8. QED BY <2>2, <2>4, <2>7 DEF KeptInv
<1>2. ASSUME ShownInv PROVE output \in Suffixes(ResultText)
  <2>1. output \in Seq(Char) /\ Interrupted \in Seq(Char)
    <3>1. output \in Seq(Char)
      BY <1>2, TextType DEF ShownInv, DataInv, QueueInv
    <3>2. 3 \in Char /\ NL \in Char
      BY DEF Char
    <3>3. QED BY <3>1, <3>2 DEF Interrupted
  <2>2. QED BY <2>1, EndsWith DEF ResultText
<1>3. ASSUME ShownInv PROVE ShowsCell
  BY <1>1, <1>2, <1>3, FinalOutputIs DEF ShowsCell
<1>4. QED BY <1>3, InductiveShown, PTL

-----------------------------------------------------------------------------
(***************************************************************************)
(* The tail of a text: truncateTail() against its definition. Its loops go *)
(* from the last line to the first, so the induction adds one in front.     *)
(***************************************************************************)

\* What is made of h by the steps of w, from the last to the first; a step knows its number.
StepsBack(X, L) == Steps(Nat, X, [L -> X])
Backed(f, step, h, w) ==
  f = [n \in 0..Len(w) |-> IF n = 0 THEN h ELSE step[n][f[n - 1]][w[Len(w) - n + 1]]]
Back(step, h, w) == (CHOOSE f : Backed(f, step, h, w))[Len(w)]

\* The fold exists: it is h after the last element, and each element makes one step.
LEMMA BackIs ==
  ASSUME NEW X, NEW L, NEW step \in StepsBack(X, L), NEW h \in X, NEW w \in Seq(L)
  PROVE  \E f \in [0..Len(w) -> X] :
           /\ f[0] = h /\ \A n \in 1..Len(w) : f[n] = step[n][f[n - 1]][w[Len(w) - n + 1]]
           /\ Back(step, h, w) = f[Len(w)]
<1> DEFINE N == Len(w)
           u == CHOOSE f : Backed(f, step, h, w)
           at(n) == w[N - n + 1]
           move == [n \in 1..N |-> [x \in X |-> step[n][x][at(n)]]]
<1>1. N \in Nat /\ \A n \in 1..N : at(n) \in L
  OBVIOUS
<1> HIDE DEF N, at
<1>2. move \in Steps(1..N, X, X)
  <2>1. ASSUME NEW n \in 1..N, NEW x \in X PROVE step[n][x][at(n)] \in X
    BY <1>1 DEF Steps, StepsBack
  <2>2. QED BY <2>1 DEF Steps
<1>3. PICK f \in [0..N -> X] : f[0] = h /\ \A n \in 1..N : f[n] = move[n][f[n - 1]]
  <2> HIDE DEF move
  <2>1. QED BY <1>1, <1>2, Recursion
<1>4. ASSUME NEW n \in 1..N PROVE f[n] = step[n][f[n - 1]][at(n)]
  <2>1. f[n - 1] \in X
    BY <1>1, <1>3
  <2>2. QED BY <1>3, <2>1
<1>5. Backed(f, step, h, w)
  BY <1>1, <1>3, <1>4 DEF Backed, N, at
<1>6. Backed(u, step, h, w)
  BY <1>5
<1> HIDE DEF u
<1>7. /\ u = [n \in 0..N |-> IF n = 0 THEN h ELSE step[n][u[n - 1]][at(n)]]
  BY <1>6 DEF Backed, N, at
<1>8. Agree(u, f, N)
  <2>1. u[0] = f[0]
    BY <1>1, <1>3, <1>7
  <2>2. ASSUME NEW n \in 1..N, u[n - 1] = f[n - 1] PROVE u[n] = f[n]
    BY <1>1, <1>4, <1>7, <2>2
  <2>3. QED BY <1>1, <2>1, <2>2, Same
<1>9. u[N] = f[N]
  BY <1>1, <1>8 DEF Agree
<1>10. Back(step, h, w) = u[N]
  BY DEF Back, u, N
<1>11. QED BY <1>3, <1>4, <1>9, <1>10 DEF N, at

\* What a fold makes of nothing, and of one more element in front.
LEMMA BackEmpty ==
  ASSUME NEW X, NEW L, NEW step \in StepsBack(X, L), NEW h \in X
  PROVE  Back(step, h, <<>>) = h
<1>1. ASSUME NEW w \in Seq(L), Len(w) = 0 PROVE Back(step, h, w) = h
  <2>1. PICK f \in [0..Len(w) -> X] : f[0] = h /\ Back(step, h, w) = f[Len(w)]
    BY BackIs
  <2>2. QED BY <1>1, <2>1
<1>2. <<>> \in Seq(L) /\ Len(<<>>) = 0
  OBVIOUS
<1>3. QED BY <1>1, <1>2

\* What a fold makes is of its type.
LEMMA BackType ==
  ASSUME NEW X, NEW L, NEW step \in StepsBack(X, L), NEW h \in X, NEW w \in Seq(L)
  PROVE  Back(step, h, w) \in X
<1>1. PICK f \in [0..Len(w) -> X] : Back(step, h, w) = f[Len(w)]
  BY BackIs
<1>2. Len(w) \in 0..Len(w)
  OBVIOUS
<1>3. QED BY <1>1, <1>2

\* A sequence with one more element in front.
LEMMA InFront ==
  ASSUME NEW L, NEW l \in L, NEW w \in Seq(L)
  PROVE  /\ <<l>> \o w \in Seq(L) /\ <<l>> \o w # <<>>
         /\ Len(<<l>> \o w) = Len(w) + 1 /\ Len(w) \in Nat /\ (<<l>> \o w)[1] = l
         /\ \A n \in 1..Len(w) : (<<l>> \o w)[n + 1] = w[n]
<1> DEFINE one == <<l>>
<1>1. one \in Seq(L) /\ Len(one) = 1 /\ one[1] = l
  OBVIOUS
<1> HIDE DEF one
<1>2. /\ one \o w \in Seq(L) /\ Len(one \o w) = 1 + Len(w) /\ Len(w) \in Nat
      /\ \A n \in 1..1 + Len(w) : (one \o w)[n] = IF n <= 1 THEN one[n] ELSE w[n - 1]
  <2>1. /\ one \o w \in Seq(L) /\ Len(one \o w) = Len(one) + Len(w)
        /\ \A n \in 1..Len(one) + Len(w) :
             (one \o w)[n] = IF n <= Len(one) THEN one[n] ELSE w[n - Len(one)]
    BY <1>1, ConcatProperties
  <2>2. Len(w) \in Nat
    OBVIOUS
  <2>3. QED BY <1>1, <2>1, <2>2
<1>3. (one \o w)[1] = l
  BY <1>1, <1>2
<1>4. ASSUME NEW n \in 1..Len(w) PROVE (one \o w)[n + 1] = w[n]
  <2>1. n + 1 \in 1..1 + Len(w) /\ ~(n + 1 <= 1) /\ n + 1 - 1 = n
    BY <1>2
  <2>2. QED BY <1>2, <2>1
<1>5. one \o w # <<>>
  BY <1>2
<1>6. QED BY <1>2, <1>3, <1>4, <1>5 DEF one

\* One more element in front makes the last step.
LEMMA BackCons ==
  ASSUME NEW X, NEW L, NEW step \in StepsBack(X, L), NEW h \in X, NEW w \in Seq(L), NEW l \in L
  PROVE  Back(step, h, <<l>> \o w) = step[Len(w) + 1][Back(step, h, w)][l]
<1> DEFINE v == <<l>> \o w
           N == Len(w)
<1>1. v \in Seq(L) /\ Len(v) = N + 1 /\ N \in Nat /\ v[1] = l
      /\ \A n \in 1..N : v[n + 1] = w[n]
  BY InFront
<1>2. v \in Seq(L)
  BY <1>1
<1> HIDE DEF v
<1>3. PICK f \in [0..Len(w) -> X] :
        /\ f[0] = h /\ \A n \in 1..Len(w) : f[n] = step[n][f[n - 1]][w[Len(w) - n + 1]]
        /\ Back(step, h, w) = f[Len(w)]
  BY BackIs
<1>4. PICK g \in [0..Len(v) -> X] :
        /\ g[0] = h /\ \A n \in 1..Len(v) : g[n] = step[n][g[n - 1]][v[Len(v) - n + 1]]
        /\ Back(step, h, v) = g[Len(v)]
  BY <1>2, BackIs
<1>5. Agree(f, g, N)
  <2>1. f[0] = g[0]
    BY <1>3, <1>4
  <2>2. ASSUME NEW n \in 1..N, f[n - 1] = g[n - 1] PROVE f[n] = g[n]
    <3>1. n \in 1..Len(v) /\ Len(v) - n + 1 = (N - n + 1) + 1 /\ N - n + 1 \in 1..N
      BY <1>1
    <3>2. v[Len(v) - n + 1] = w[N - n + 1]
      BY <1>1, <3>1
    <3>3. QED BY <1>3, <1>4, <2>2, <3>1, <3>2
  <2>3. QED BY <1>1, <2>1, <2>2, Same
<1>6. g[N] = f[N]
  BY <1>1, <1>5 DEF Agree
<1>7. N + 1 \in 1..Len(v) /\ N + 1 - 1 = N /\ Len(v) - (N + 1) + 1 = 1
  BY <1>1
<1>8. g[N + 1] = step[N + 1][g[N]][v[1]]
  BY <1>4, <1>7
<1>9. QED BY <1>1, <1>3, <1>4, <1>6, <1>8 DEF v

\* Induction over the sequences, by one more element in front.
LEMMA InductionCons ==
  ASSUME NEW L, NEW P, <<>> \in P,
         \A l \in L, w \in Seq(L) : w \in P => <<l>> \o w \in P
  PROVE  \A w \in Seq(L) : w \in P
<1> DEFINE Q == {n \in Nat : \A w \in Seq(L) : Len(w) = n => w \in P}
<1>1. 0 \in Q
  BY EmptySeq
<1>2. ASSUME NEW n \in Nat, n \in Q PROVE n + 1 \in Q
  <2> SUFFICES ASSUME NEW w \in Seq(L), Len(w) = n + 1 PROVE w \in P
    OBVIOUS
  <2>1. w # <<>>
    BY EmptySeq
  <2>2. Head(w) \in L /\ Tail(w) \in Seq(L) /\ Len(Tail(w)) = n /\ w = <<Head(w)>> \o Tail(w)
    BY <2>1, HeadTailProperties
  <2>3. Tail(w) \in P
    BY <1>2, <2>2
  <2>4. QED BY <2>2, <2>3
<1>3. \A n \in Nat : n \in Q
  <2> HIDE DEF Q
  <2>1. QED BY <1>1, <1>2, Induction
<1>4. QED BY <1>3, LenProperties

\* Texts, lines of them, and lists of lines.
Text == Seq(Char)
Plain == Seq(Char \ {NL})
Lists == Seq(Plain) \ {<<>>}

-----------------------------------------------------------------------------
\* Lines without a newline are texts.
LEMMA PlainIs ==
  Plain \subseteq Text /\ Seq(Plain) \subseteq Seq(Text) /\ <<>> \in Plain /\ <<<<>>>> \in Lists
<1>1. Plain \subseteq Text
  BY DEF Plain, Text
<1>2. Seq(Plain) \subseteq Seq(Text)
  BY <1>1
<1>3. <<>> \in Plain
  BY DEF Plain
<1>4. <<<<>>>> \in Lists
  <2> DEFINE none == <<>>
  <2>1. none \in Plain
    BY <1>3
  <2> HIDE DEF none
  <2>2. <<none>> \in Seq(Plain) /\ Len(<<none>>) = 1
    BY <2>1
  <2>3. QED BY <2>2 DEF Lists, none
<1>5. QED BY <1>1, <1>2, <1>3, <1>4

Splitting ==
  [n \in Nat |-> [lines \in Lists |-> [c \in Char |->
     IF c = NL THEN <<<<>>>> \o lines ELSE [lines EXCEPT ![1] = <<c>> \o @]]]]
OneLine == <<<<>>>>
Split(s) == Back(Splitting, OneLine, s)

\* Each step of split() makes a list of lines.
LEMMA SplittingType == Splitting \in StepsBack(Lists, Char)
<1>1. ASSUME NEW lines \in Lists, NEW c \in Char
      PROVE  (IF c = NL THEN <<<<>>>> \o lines ELSE [lines EXCEPT ![1] = <<c>> \o @]) \in Lists
  <2>1. lines \in Seq(Plain) /\ lines # <<>> /\ 1 \in 1..Len(lines) /\ lines[1] \in Plain
    BY DEF Lists
  <2>2. <<<<>>>> \o lines \in Lists
    <3> DEFINE none == <<>>
    <3>1. none \in Plain
      BY PlainIs
    <3> HIDE DEF none
    <3>2. <<none>> \o lines \in Seq(Plain) /\ <<none>> \o lines # <<>>
      BY <2>1, <3>1, InFront
    <3>3. QED BY <3>2 DEF Lists, none
  <2>3. CASE c # NL
    <3>1. <<c>> \o lines[1] \in Plain
      BY <2>1, <2>3, InFront DEF Plain
    <3> DEFINE first == <<c>> \o lines[1]
    <3> HIDE DEF first
    <3>2. [lines EXCEPT ![1] = first] \in Seq(Plain) /\ Len([lines EXCEPT ![1] = first]) = Len(lines)
      BY <2>1, <3>1, ExceptSeq DEF first
    <3>3. Len(lines) # 0
      BY <2>1
    <3>4. [lines EXCEPT ![1] = first] # <<>>
      BY <3>2, <3>3
    <3>5. QED BY <2>3, <3>2, <3>4 DEF Lists, first
  <2>4. QED BY <2>2, <2>3
<1>2. QED BY <1>1 DEF Splitting, StepsBack, Steps

\* It begins with one empty line.
LEMMA OneLineIs == OneLine \in Lists
  BY PlainIs DEF OneLine

\* LinesOf is that fold, without the empty string after a final newline.
LEMMA SplitIs ==
  ASSUME NEW s \in Text
  PROVE  LinesOf(s) = IF s = <<>> \/ EndsLine(s) THEN Front(Split(s)) ELSE Split(s)
<1> DEFINE N == Len(s)
           at(n) == s[N - n + 1]
           next(n, lines) == IF at(n) = NL THEN <<<<>>>> \o lines
                             ELSE [lines EXCEPT ![1] = <<at(n)>> \o @]
           Splits(f) == f = [n \in 0..N |-> IF n = 0 THEN OneLine ELSE next(n, f[n - 1])]
           u == CHOOSE f : Splits(f)
<1>1. N \in Nat /\ s \in Seq(Char) /\ \A n \in 1..N : at(n) \in Char
  BY DEF Text
<1>2. PICK f \in [0..Len(s) -> Lists] :
        /\ f[0] = OneLine /\ \A n \in 1..Len(s) : f[n] = Splitting[n][f[n - 1]][s[Len(s) - n + 1]]
        /\ Split(s) = f[Len(s)]
  <2>1. s \in Seq(Char)
    BY <1>1
  <2>2. QED BY <2>1, OneLineIs, SplittingType, BackIs DEF Split
<1> HIDE DEF N, at
<1>3. ASSUME NEW n \in 1..N PROVE f[n] = next(n, f[n - 1])
  <2>1. f[n - 1] \in Lists /\ at(n) \in Char /\ n \in Nat
    BY <1>1, <1>2 DEF N
  <2>2. f[n] = Splitting[n][f[n - 1]][at(n)]
    BY <1>2 DEF N, at
  <2>3. QED BY <2>1, <2>2 DEF Splitting
<1> HIDE DEF next
<1>4. f \in [0..N -> Lists] /\ f[0] = OneLine /\ f[N] = Split(s)
  BY <1>2 DEF N
<1>5. Splits(f)
  BY <1>1, <1>3, <1>4
<1>6. Splits(u)
  BY <1>5
<1>7. LinesOf(s) = IF s = <<>> \/ EndsLine(s) THEN Front(u[N]) ELSE u[N]
  BY DEF LinesOf, u, N, next, at, OneLine
<1> HIDE DEF u
<1>8. Agree(u, f, N)
  <2>1. u[0] = f[0]
    BY <1>1, <1>4, <1>6
  <2>2. ASSUME NEW n \in 1..N, u[n - 1] = f[n - 1] PROVE u[n] = f[n]
    BY <1>1, <1>3, <1>6, <2>2
  <2>3. QED BY <1>1, <2>1, <2>2, Same
<1>9. QED BY <1>1, <1>4, <1>7, <1>8 DEF Agree

\* The lines of nothing, and of a text with one more character in front.
LEMMA SplitCons ==
  /\ Split(<<>>) = <<<<>>>>
  /\ \A s \in Text, c \in Char :
       /\ Split(s) \in Lists
       /\ Split(<<c>> \o s) = IF c = NL THEN <<<<>>>> \o Split(s)
                              ELSE [Split(s) EXCEPT ![1] = <<c>> \o @]
<1>1. Split(<<>>) = <<<<>>>>
  BY SplittingType, OneLineIs, BackEmpty DEF Split, OneLine
<1>2. ASSUME NEW s \in Text, NEW c \in Char
      PROVE  Split(s) \in Lists /\ Split(<<c>> \o s) = Splitting[Len(s) + 1][Split(s)][c]
  <2>1. Split(s) \in Lists
    BY SplittingType, OneLineIs, BackType DEF Split, Text
  <2>2. Split(<<c>> \o s) = Splitting[Len(s) + 1][Split(s)][c]
    BY SplittingType, OneLineIs, BackCons DEF Split, Text
  <2>3. QED BY <2>1, <2>2
<1>3. ASSUME NEW s \in Text PROVE Len(s) + 1 \in Nat
  BY DEF Text
<1>4. QED BY <1>1, <1>2, <1>3 DEF Splitting

-----------------------------------------------------------------------------
Joining ==
  [n \in Nat |-> [text \in Text |-> [line \in Text |->
     IF n = 1 THEN line ELSE line \o <<NL>> \o text]]]

\* The newline as a text.
LEMMA BreakType == <<NL>> \in Text /\ Len(<<NL>>) = 1 /\ <<NL>>[1] = NL
<1>1. NL \in Char
  BY DEF Char
<1>2. QED BY <1>1 DEF Text

\* Each step of join() makes a text.
LEMMA JoiningType == Joining \in StepsBack(Text, Text)
<1>1. ASSUME NEW text \in Text, NEW line \in Text PROVE line \o <<NL>> \o text \in Text
  BY BreakType, ConcatProperties DEF Text
<1>2. QED BY <1>1 DEF Joining, StepsBack, Steps

\* Joined is that fold.
LEMMA JoinedIs == ASSUME NEW lines \in Seq(Text) PROVE Joined(lines) = Back(Joining, <<>>, lines)
<1> DEFINE N == Len(lines)
           at(n) == lines[N - n + 1]
           next(n, text) == IF n = 1 THEN at(n) ELSE at(n) \o <<NL>> \o text
           Joins(f) == f = [n \in 0..N |-> IF n = 0 THEN <<>> ELSE next(n, f[n - 1])]
           u == CHOOSE f : Joins(f)
<1>1. N \in Nat /\ <<>> \in Text /\ \A n \in 1..N : at(n) \in Text
  BY DEF Text
<1>2. PICK f \in [0..Len(lines) -> Text] :
        /\ f[0] = <<>>
        /\ \A n \in 1..Len(lines) : f[n] = Joining[n][f[n - 1]][lines[Len(lines) - n + 1]]
        /\ Back(Joining, <<>>, lines) = f[Len(lines)]
  BY <1>1, JoiningType, BackIs
<1> HIDE DEF N, at
<1>3. ASSUME NEW n \in 1..N PROVE f[n] = next(n, f[n - 1])
  <2>1. f[n - 1] \in Text /\ at(n) \in Text /\ n \in Nat
    BY <1>1, <1>2 DEF N
  <2>2. f[n] = Joining[n][f[n - 1]][at(n)]
    BY <1>2 DEF N, at
  <2>3. QED BY <2>1, <2>2 DEF Joining
<1> HIDE DEF next
<1>4. f \in [0..N -> Text] /\ f[0] = <<>> /\ f[N] = Back(Joining, <<>>, lines)
  BY <1>2 DEF N
<1>5. Joins(f)
  BY <1>1, <1>3, <1>4
<1>6. Joins(u)
  BY <1>5
<1>7. Joined(lines) = u[N]
  BY DEF Joined, u, N, next, at
<1> HIDE DEF u
<1>8. Agree(u, f, N)
  <2>1. u[0] = f[0]
    BY <1>1, <1>4, <1>6
  <2>2. ASSUME NEW n \in 1..N, u[n - 1] = f[n - 1] PROVE u[n] = f[n]
    BY <1>1, <1>3, <1>6, <2>2
  <2>3. QED BY <1>1, <2>1, <2>2, Same
<1>9. QED BY <1>1, <1>4, <1>7, <1>8 DEF Agree

\* What is joined of lines with one more in front.
LEMMA JoinedCons ==
  ASSUME NEW lines \in Seq(Text), NEW line \in Text
  PROVE  /\ Joined(lines) \in Text /\ Joined(<<line>> \o lines) \in Text
         /\ Joined(<<line>> \o lines) = IF lines = <<>> THEN line ELSE line \o <<NL>> \o Joined(lines)
<1>1. <<>> \in Text
  BY DEF Text
<1>2. Joined(lines) \in Text
  BY <1>1, JoinedIs, JoiningType, BackType
<1> DEFINE all == <<line>> \o lines
<1>3. all \in Seq(Text)
  BY InFront
<1>4. Joined(<<line>> \o lines) \in Text
  <2> HIDE DEF all
  <2>1. Joined(all) \in Text
    BY <1>1, <1>3, JoinedIs, JoiningType, BackType
  <2>2. QED BY <2>1 DEF all
<1>5. Joined(<<line>> \o lines) = Joining[Len(lines) + 1][Joined(lines)][line]
  <2>1. Back(Joining, <<>>, <<line>> \o lines) = Joining[Len(lines) + 1][Back(Joining, <<>>, lines)][line]
    BY <1>1, JoiningType, BackCons
  <2>2. Joined(all) = Back(Joining, <<>>, all)
    <3> HIDE DEF all
    <3>1. QED BY <1>3, JoinedIs
  <2>3. QED BY <2>1, <2>2, JoinedIs
<1>6. Len(lines) + 1 \in Nat /\ (Len(lines) + 1 = 1 <=> lines = <<>>)
  BY EmptySeq
<1>7. QED BY <1>2, <1>4, <1>5, <1>6 DEF Joining

\* The first element of a list in a new form.
LEMMA FirstIs ==
  ASSUME NEW L, NEW s \in Seq(L), s # <<>>, NEW x \in L
  PROVE  s[1] \in L /\ Tail(s) \in Seq(L) /\ s = <<s[1]>> \o Tail(s) /\ [s EXCEPT ![1] = x] = <<x>> \o Tail(s)
<1>1. /\ Tail(s) \in Seq(L) /\ Len(Tail(s)) = Len(s) - 1 /\ Len(s) \in Nat \ {0} /\ s[1] \in L
      /\ \A i \in 1..Len(Tail(s)) : Tail(s)[i] = s[i + 1]
  BY HeadTailProperties, EmptySeq
<1> DEFINE t == Tail(s)
<1> HIDE DEF t
<1>2. ASSUME NEW y \in L, NEW r \in Seq(L), Len(r) = Len(s), r[1] = y,
             \A i \in 1..Len(s) - 1 : r[i + 1] = s[i + 1]
      PROVE  r = <<y>> \o t
  <2>1. /\ <<y>> \o t \in Seq(L) /\ Len(<<y>> \o t) = Len(t) + 1 /\ (<<y>> \o t)[1] = y
        /\ \A n \in 1..Len(t) : (<<y>> \o t)[n + 1] = t[n]
    BY <1>1, InFront DEF t
  <2> DEFINE all == <<y>> \o t
  <2> HIDE DEF all
  <2>2. ASSUME NEW i \in 1..Len(r) PROVE r[i] = all[i]
    <3>1. CASE i = 1
      BY <1>2, <2>1, <3>1 DEF all
    <3>2. CASE i # 1
      <4>1. i - 1 \in 1..Len(t) /\ i - 1 + 1 = i /\ i - 1 \in 1..Len(s) - 1
        BY <1>1, <1>2, <3>2 DEF t
      <4>2. r[i] = s[i] /\ t[i - 1] = s[i] /\ all[i] = t[i - 1]
        BY <1>1, <1>2, <2>1, <4>1 DEF all, t
      <4>3. QED BY <4>2
    <3>3. QED BY <3>1, <3>2
  <2>3. all \in Seq(L) /\ Len(all) = Len(r)
    BY <1>1, <1>2, <2>1 DEF all, t
  <2>4. QED BY <2>2, <2>3, SeqEqual DEF all
<1>3. s = <<s[1]>> \o t
  BY <1>1, <1>2
<1>4. [s EXCEPT ![1] = x] = <<x>> \o t
  <2> DEFINE r == [s EXCEPT ![1] = x]
  <2>1. r \in Seq(L) /\ Len(r) = Len(s)
    BY <1>1, ExceptSeq
  <2>2. r[1] = x /\ \A i \in 1..Len(s) - 1 : r[i + 1] = s[i + 1]
    BY <1>1
  <2> HIDE DEF r
  <2>3. r = <<x>> \o t
    BY <1>2, <2>1, <2>2
  <2>4. QED BY <2>3 DEF r
<1>5. QED BY <1>1, <1>3, <1>4 DEF t

\* Texts joined are texts, and it does not matter in what order.
LEMMA TextsJoin == \A s, t \in Text : s \o t \in Text
  BY ConcatProperties DEF Text
\* In what order three texts are joined makes no difference.
LEMMA TextsOrder == \A s, t, u \in Text : (s \o t) \o u = s \o (t \o u)
  BY ConcatAssociative DEF Text

\* The lines of a text, joined, are the text.
LEMMA SplitJoins == \A s \in Text : Joined(Split(s)) = s
<1> DEFINE P == {s \in Text : Joined(Split(s)) = s}
<1>1. <<>> \in P
  <2>1. Joined(<<<<>>>>) = <<>>
    <3> DEFINE none == <<>>
    <3>1. none \in Text /\ none \in Seq(Text) /\ <<none>> \o none = <<none>>
      BY DEF Text
    <3> HIDE DEF none
    <3>2. Joined(<<none>> \o <<>>) = none
      BY <3>1, JoinedCons DEF none
    <3>3. QED BY <3>1, <3>2 DEF none
  <2>2. <<>> \in Text
    BY DEF Text
  <2>3. QED BY <2>1, <2>2, SplitCons
<1>2. ASSUME NEW c \in Char, NEW s \in Seq(Char), s \in P PROVE <<c>> \o s \in P
  <2> DEFINE lines == Split(s)
             one == <<c>>
  <2>1. lines \in Seq(Plain) /\ lines # <<>> /\ lines \in Seq(Text) /\ Joined(lines) = s
    BY <1>2, SplitCons, PlainIs DEF Lists, Text
  <2>2. one \in Text /\ s \in Text /\ one \o s \in Text /\ <<>> \in Text
    BY ConcatProperties DEF Text
  <2>3. CASE c = NL
    <3>1. Split(one \o s) = <<<<>>>> \o lines
      BY <2>2, <2>3, SplitCons
    <3> HIDE DEF lines
    <3>2. Joined(<<<<>>>> \o lines) = <<>> \o <<NL>> \o s
      BY <2>1, <2>2, JoinedCons
    <3>3. <<>> \o <<NL>> \o s = one \o s
      <4> HIDE DEF one
      <4>1. <<>> \o one = one
        BY <2>2, ConcatEmptySeq DEF Text
      <4>2. QED BY <2>3, <4>1 DEF one
    <3>4. QED BY <2>2, <3>1, <3>2, <3>3
  <2>4. CASE c # NL
    <3> DEFINE h == lines[1]
               rest == Tail(lines)
               longer == one \o h
    <3>1. Split(one \o s) = [lines EXCEPT ![1] = <<c>> \o @]
      BY <2>2, <2>4, SplitCons
    <3>2. h \in Text /\ one \o h \in Text
      BY <2>1, <2>2, ConcatProperties DEF Text
    <3> HIDE DEF lines
    <3>3. rest \in Seq(Text) /\ lines = <<h>> \o rest
      BY <2>1, <2>2, FirstIs
    <3>4. [lines EXCEPT ![1] = longer] = <<longer>> \o rest
      <4> HIDE DEF longer
      <4>1. QED BY <2>1, <3>2, FirstIs DEF longer
    <3> HIDE DEF h, rest, one
    <3>5. Joined(<<longer>> \o rest) = IF rest = <<>> THEN longer ELSE longer \o <<NL>> \o Joined(rest)
      BY <3>2, <3>3, JoinedCons
    <3>6. s = (IF rest = <<>> THEN h ELSE h \o <<NL>> \o Joined(rest)) /\ Joined(rest) \in Text
      BY <2>1, <3>2, <3>3, JoinedCons
    <3>7. one \o h \o <<NL>> \o Joined(rest) = one \o (h \o <<NL>> \o Joined(rest))
      <4> DEFINE br == <<NL>>
                 j == Joined(rest)
      <4>1. br \in Text
        BY BreakType
      <4>2. one \in Text
        BY <2>2
      <4>3. h \in Text
        BY <3>2
      <4>4. j \in Text
        BY <3>6
      <4> HIDE DEF br, j
      <4> DEFINE hb == h \o br
      <4>5. hb \in Text
        BY <4>1, <4>3, TextsJoin, Zenon
      <4>6. (one \o h) \o br = one \o hb
        BY <4>1, <4>2, <4>3, TextsOrder, Zenon
      <4> HIDE DEF hb
      <4>7. (one \o hb) \o j = one \o (hb \o j)
        BY <4>2, <4>4, <4>5, TextsOrder, Zenon
      <4>8. ((one \o h) \o br) \o j = one \o (hb \o j)
        BY <4>6, <4>7, Zenon
      <4>9. QED BY <4>8 DEF hb, br, j
    <3>8. Joined(<<longer>> \o rest) = one \o s
      BY <3>5, <3>6, <3>7
    <3>9. QED BY <2>2, <3>1, <3>4, <3>8 DEF h, one
  <2>5. QED BY <2>3, <2>4
<1>3. \A s \in Seq(Char) : s \in P
  <2> HIDE DEF P
  <2>1. QED BY <1>1, <1>2, InductionCons
<1>4. QED BY <1>3 DEF Text

\* An element at the end and one in front come in any order.
LEMMA AppendCons ==
  ASSUME NEW L, NEW s \in Seq(L), NEW a \in L, NEW x \in L
  PROVE  Append(<<a>> \o s, x) = <<a>> \o Append(s, x)
<1> DEFINE one == <<a>>
           end == <<x>>
<1>1. one \in Seq(L) /\ end \in Seq(L) /\ one \o s \in Seq(L)
  BY InFront
<1>2. Append(one \o s, x) = (one \o s) \o end /\ Append(s, x) = s \o end
  BY <1>1, AppendIsConcat
<1> HIDE DEF one, end
<1>3. (one \o s) \o end = one \o (s \o end)
  BY <1>1, ConcatAssociative
<1>4. QED BY <1>2, <1>3 DEF one

\* A newline at the end of a text gives one more line, which is empty.
LEMMA SplitEnds == \A s \in Text : Split(Append(s, NL)) = Append(Split(s), <<>>)
<1> DEFINE P == {s \in Text : Split(Append(s, NL)) = Append(Split(s), <<>>)}
<1>0. NL \in Char /\ <<>> \in Text /\ <<>> \in Plain
  BY PlainIs DEF Char, Text
<1>1. <<>> \in P
  <2>1. Append(<<>>, NL) = <<NL>> \o <<>>
    BY <1>0
  <2>2. Split(<<NL>> \o <<>>) = <<<<>>>> \o <<<<>>>>
    BY <1>0, SplitCons
  <2>3. <<<<>>>> \o <<<<>>>> = Append(<<<<>>>>, <<>>)
    <3> DEFINE none == <<>>
    <3>1. none \in Plain
      BY <1>0
    <3> HIDE DEF none
    <3>2. <<none>> \in Seq(Plain)
      BY <3>1
    <3>3. <<none>> \o <<none>> = Append(<<none>>, none)
      BY <3>1, <3>2, AppendIsConcat
    <3>4. QED BY <3>3 DEF none
  <2>4. QED BY <1>0, <2>1, <2>2, <2>3, SplitCons
<1>2. ASSUME NEW c \in Char, NEW s \in Seq(Char), s \in P PROVE <<c>> \o s \in P
  <2> DEFINE lines == Split(s)
             t == Append(s, NL)
             none == <<>>
  <2>1. lines \in Seq(Plain) /\ lines # <<>> /\ Split(t) = Append(lines, none) /\ none \in Plain
    BY <1>0, <1>2, SplitCons DEF Lists, Text
  <2>2. t \in Text /\ <<c>> \o s \in Text /\ s \in Text
    BY <1>0, InFront, AppendProperties DEF Text
  <2>3. Append(<<c>> \o s, NL) = <<c>> \o t
    BY <1>0, AppendCons
  <2> HIDE DEF t
  <2>4. CASE c = NL
    <3>1. Split(<<c>> \o t) = <<none>> \o Split(t) /\ Split(<<c>> \o s) = <<none>> \o lines
      BY <2>2, <2>4, SplitCons
    <3> HIDE DEF none, lines
    <3>2. Append(<<none>> \o lines, none) = <<none>> \o Append(lines, none)
      BY <2>1, AppendCons
    <3>3. QED BY <2>1, <2>2, <2>3, <3>1, <3>2 DEF none
  <2>5. CASE c # NL
    <3> DEFINE longer == <<c>> \o lines[1]
               rest == Tail(lines)
    <3>1. /\ Split(<<c>> \o t) = [Append(lines, none) EXCEPT ![1] = <<c>> \o Append(lines, none)[1]]
          /\ Split(<<c>> \o s) = [lines EXCEPT ![1] = <<c>> \o lines[1]]
      BY <2>1, <2>2, <2>5, SplitCons
    <3> HIDE DEF none, lines
    <3>2. longer \in Plain
      <4>1. lines[1] \in Plain /\ c \in Char \ {NL}
        BY <2>1, <2>5, EmptySeq
      <4>2. QED BY <4>1, InFront DEF Plain
    <3> HIDE DEF longer
    <3>3. rest \in Seq(Plain) /\ lines[1] \in Plain /\ lines = <<lines[1]>> \o rest
          /\ [lines EXCEPT ![1] = longer] = <<longer>> \o rest
      BY <2>1, <3>2, FirstIs
    <3> HIDE DEF rest
    <3> DEFINE more == Append(lines, none)
    <3>4. more \in Seq(Plain) /\ more # <<>> /\ more = <<lines[1]>> \o Append(rest, none)
      <4>1. more \in Seq(Plain) /\ Len(more) = Len(lines) + 1 /\ Len(lines) \in Nat
        BY <2>1, AppendProperties
      <4>2. more # <<>>
        BY <4>1
      <4> DEFINE first == lines[1]
      <4> HIDE DEF first
      <4>3. Append(<<first>> \o rest, none) = <<first>> \o Append(rest, none)
        BY <2>1, <3>3, AppendCons DEF first
      <4>4. more = <<first>> \o Append(rest, none)
        BY <3>3, <4>3 DEF first
      <4>5. QED BY <4>1, <4>2, <4>4 DEF first
    <3>5. Append(rest, none) \in Seq(Plain)
      BY <2>1, <3>3, AppendProperties
    <3>6. more[1] = lines[1]
      BY <3>3, <3>4, <3>5, InFront
    <3> HIDE DEF more
    <3>7. [more EXCEPT ![1] = longer] = <<longer>> \o Append(rest, none)
      <4>1. more \in Seq(Plain) /\ more # <<>>
        BY <3>4
      <4>2. [more EXCEPT ![1] = longer] = <<longer>> \o Tail(more)
        BY <3>2, <4>1, FirstIs
      <4>3. Tail(more) = Append(rest, none)
        <5> DEFINE y == Append(rest, none)
        <5>1. y \in Seq(Plain)
          BY <3>5
        <5> HIDE DEF y
        <5>2. /\ Tail(more) \in Seq(Plain) /\ Len(Tail(more)) = Len(more) - 1
              /\ \A i \in 1..Len(Tail(more)) : Tail(more)[i] = more[i + 1]
          BY <3>4, HeadTailProperties
        <5>3. /\ Len(more) = Len(y) + 1 /\ Len(y) \in Nat
              /\ \A n \in 1..Len(y) : more[n + 1] = y[n]
          BY <3>3, <3>4, <5>1, InFront DEF y
        <5>4. Tail(more) = y
          BY <5>1, <5>2, <5>3, SeqEqual
        <5>5. QED BY <5>4 DEF y
      <4>4. QED BY <4>2, <4>3
    <3>8. <<longer>> \o Append(rest, none) = Append(<<longer>> \o rest, none)
      BY <2>1, <3>2, <3>3, AppendCons
    <3>9. Split(<<c>> \o t) = Append(Split(<<c>> \o s), none)
      BY <3>1, <3>3, <3>6, <3>7, <3>8 DEF more, longer
    <3>10. QED BY <2>2, <2>3, <3>9 DEF none
  <2>6. QED BY <2>4, <2>5
<1>3. \A s \in Seq(Char) : s \in P
  <2> HIDE DEF P
  <2>1. QED BY <1>1, <1>2, InductionCons
<1>4. QED BY <1>3 DEF Text

\* The end of a text from a place on.
From(t, p) == SubSeq(t, p, Len(t))

\* What the end of a text from a place on is.
LEMMA FromIs ==
  ASSUME NEW t \in Text, NEW p \in 1..Len(t) + 1
  PROVE  /\ From(t, p) \in Text /\ Len(From(t, p)) = Len(t) - p + 1 /\ Len(t) \in Nat /\ p \in Nat
         /\ \A i \in 1..Len(t) - p + 1 : From(t, p)[i] = t[p + i - 1]
         /\ From(t, p) \in Suffixes(t)
<1>1. t \in Seq(Char) /\ Len(t) \in Nat /\ p \in Int /\ Len(t) \in Int
  BY DEF Text
<1>2. \A i \in p..Len(t) : t[i] \in Char
  BY <1>1
<1>3. /\ SubSeq(t, p, Len(t)) \in Seq(Char)
      /\ Len(SubSeq(t, p, Len(t))) = IF p <= Len(t) THEN Len(t) - p + 1 ELSE 0
      /\ \A i \in 1..Len(t) - p + 1 : SubSeq(t, p, Len(t))[i] = t[p + i - 1]
  BY <1>1, <1>2, SubSeqProperties
<1>4. From(t, p) \in Suffixes(t)
  <2>1. CASE p = Len(t) + 1
    <3>1. Len(From(t, p)) = 0 /\ From(t, p) \in Seq(Char)
      BY <1>1, <1>3, <2>1 DEF From
    <3>2. From(t, p) = <<>>
      BY <3>1
    <3>3. QED BY <3>2 DEF Suffixes
  <2>2. CASE p # Len(t) + 1
    <3>1. p \in 1..Len(t)
      BY <1>1, <2>2
    <3>2. QED BY <3>1 DEF Suffixes, From
  <2>3. QED BY <2>1, <2>2
<1>5. QED BY <1>1, <1>3, <1>4 DEF From, Text

\* Each end of a text is the one from some place on.
LEMMA SuffixIs ==
  ASSUME NEW t \in Text, NEW e \in Suffixes(t)
  PROVE  /\ e \in Text /\ Len(e) \in 0..Len(t) /\ Len(t) - Len(e) + 1 \in 1..Len(t) + 1
         /\ e = From(t, Len(t) - Len(e) + 1)
<1>1. \E p \in 1..Len(t) + 1 : e = From(t, p)
  <2>1. Len(t) \in Nat
    BY DEF Text
  <2>2. CASE e = <<>>
    <3>1. Len(t) + 1 \in 1..Len(t) + 1
      BY <2>1
    <3>2. Len(From(t, Len(t) + 1)) = 0 /\ From(t, Len(t) + 1) \in Text
      BY <2>1, <3>1, FromIs
    <3>3. QED BY <2>2, <3>1, <3>2 DEF Text
  <2>3. CASE e # <<>>
    <3>1. PICK p \in 1..Len(t) : e = SubSeq(t, p, Len(t))
      BY <2>3 DEF Suffixes
    <3>2. p \in 1..Len(t) + 1
      BY <2>1
    <3>3. QED BY <3>1, <3>2 DEF From
  <2>4. QED BY <2>2, <2>3
<1>2. PICK p \in 1..Len(t) + 1 : e = From(t, p)
  BY <1>1
<1>3. e \in Text /\ Len(e) = Len(t) - p + 1 /\ Len(t) \in Nat /\ p \in Nat
  BY <1>2, FromIs
<1>4. p = Len(t) - Len(e) + 1
  BY <1>3
<1>5. QED BY <1>2, <1>3, <1>4

\* Two ends of a text of the same length are the same.
LEMMA SuffixSame ==
  ASSUME NEW t \in Text, NEW e \in Suffixes(t), NEW f \in Suffixes(t), Len(e) = Len(f)
  PROVE  e = f
  BY SuffixIs

\* The ends of two texts joined.
LEMMA SuffixJoined ==
  ASSUME NEW u \in Text, NEW t \in Text
  PROVE  /\ u \o t \in Text /\ Len(u \o t) = Len(u) + Len(t) /\ Len(u) \in Nat /\ Len(t) \in Nat
         /\ Suffixes(t) \subseteq Suffixes(u \o t)
         /\ \A e \in Suffixes(u \o t) : Len(e) <= Len(t) => e \in Suffixes(t)
         /\ t \in Suffixes(t)
<1> DEFINE a == u \o t
<1>1. /\ a \in Text /\ Len(a) = Len(u) + Len(t) /\ Len(u) \in Nat /\ Len(t) \in Nat
      /\ \A i \in 1..Len(u) + Len(t) : a[i] = IF i <= Len(u) THEN u[i] ELSE t[i - Len(u)]
  BY ConcatProperties DEF Text
<1> HIDE DEF a
<1>2. ASSUME NEW p \in 1..Len(t) + 1
      PROVE  From(a, Len(u) + p) = From(t, p) /\ Len(u) + p \in 1..Len(a) + 1
  <2>1. Len(u) + p \in 1..Len(a) + 1
    BY <1>1
  <2>2. /\ From(a, Len(u) + p) \in Text /\ Len(From(a, Len(u) + p)) = Len(a) - (Len(u) + p) + 1
        /\ \A i \in 1..Len(a) - (Len(u) + p) + 1 : From(a, Len(u) + p)[i] = a[Len(u) + p + i - 1]
    BY <1>1, <2>1, FromIs
  <2>3. /\ From(t, p) \in Text /\ Len(From(t, p)) = Len(t) - p + 1
        /\ \A i \in 1..Len(t) - p + 1 : From(t, p)[i] = t[p + i - 1]
    BY FromIs
  <2>4. Len(a) - (Len(u) + p) + 1 = Len(t) - p + 1
    BY <1>1
  <2>5. ASSUME NEW i \in 1..Len(t) - p + 1 PROVE a[Len(u) + p + i - 1] = t[p + i - 1]
    <3>1. /\ Len(u) + p + i - 1 \in 1..Len(u) + Len(t) /\ ~(Len(u) + p + i - 1 <= Len(u))
          /\ Len(u) + p + i - 1 - Len(u) = p + i - 1
      BY <1>1
    <3>2. QED BY <1>1, <3>1
  <2>6. From(a, Len(u) + p) = From(t, p)
    <3> DEFINE x == From(a, Len(u) + p)
               y == From(t, p)
    <3>1. x \in Seq(Char) /\ y \in Seq(Char) /\ Len(x) = Len(y)
      BY <2>2, <2>3, <2>4 DEF Text
    <3>2. \A i \in 1..Len(y) : x[i] = y[i]
      BY <2>2, <2>3, <2>4, <2>5
    <3> HIDE DEF x, y
    <3>3. x = y
      BY <3>1, <3>2, SeqEqual
    <3>4. QED BY <3>3 DEF x, y
  <2>7. QED BY <2>1, <2>6
<1>3. Suffixes(t) \subseteq Suffixes(a)
  <2> SUFFICES ASSUME NEW e \in Suffixes(t) PROVE e \in Suffixes(a)
    OBVIOUS
  <2>1. PICK p \in 1..Len(t) + 1 : e = From(t, p)
    BY SuffixIs
  <2>2. QED BY <1>1, <1>2, <2>1, FromIs
<1>4. ASSUME NEW e \in Suffixes(a), Len(e) <= Len(t) PROVE e \in Suffixes(t)
  <2>1. e \in Text /\ Len(e) \in Nat /\ e = From(a, Len(a) - Len(e) + 1)
    BY <1>1, SuffixIs
  <2> DEFINE p == Len(t) - Len(e) + 1
  <2>2. p \in 1..Len(t) + 1 /\ Len(u) + p = Len(a) - Len(e) + 1
    BY <1>1, <1>4, <2>1
  <2> HIDE DEF p
  <2>3. e = From(t, p)
    BY <1>2, <2>1, <2>2
  <2>4. QED BY <2>2, <2>3, FromIs
<1>5. t \in Suffixes(t)
  <2>1. 1 \in 1..Len(t) + 1
    BY <1>1
  <2>2. From(t, 1) = t
    <3>1. /\ From(t, 1) \in Seq(Char) /\ Len(From(t, 1)) = Len(t)
          /\ \A i \in 1..Len(t) : From(t, 1)[i] = t[i]
      <4>1. /\ From(t, 1) \in Text /\ Len(From(t, 1)) = Len(t) - 1 + 1
            /\ \A i \in 1..Len(t) - 1 + 1 : From(t, 1)[i] = t[1 + i - 1]
        BY <2>1, FromIs
      <4>2. QED BY <1>1, <4>1 DEF Text
    <3>2. QED BY <3>1, SeqEqual DEF Text
  <2>3. QED BY <2>1, <2>2, FromIs
<1>6. QED BY <1>1, <1>3, <1>4, <1>5 DEF a

\* The ends of a text that start with a line.
Starts(t) == {e \in Suffixes(t) : StartsLine(t, e)}

\* A line starts nowhere but at its first character.
LEMMA LineIs ==
  ASSUME NEW line \in Plain
  PROVE  Starts(line) = {line} /\ \A e \in Suffixes(line) : NL \notin Range(e)
<1>1. line \in Text /\ Len(line) \in Nat /\ \A i \in 1..Len(line) : line[i] # NL
  BY PlainIs DEF Plain, Text
<1>2. line \in Suffixes(line)
  BY <1>1, SuffixJoined
<1>3. ASSUME NEW e \in Suffixes(line), StartsLine(line, e) PROVE e = line
  <2>1. Len(e) \in 0..Len(line)
    BY <1>1, SuffixIs
  <2>2. Len(e) = Len(line)
    <3>1. SUFFICES ASSUME Len(e) # Len(line) PROVE FALSE
      OBVIOUS
    <3>2. line[Len(line) - Len(e)] = NL
      BY <1>3, <3>1 DEF StartsLine
    <3>3. Len(line) - Len(e) \in 1..Len(line)
      BY <1>1, <2>1, <3>1
    <3>4. QED BY <1>1, <3>2, <3>3
  <2>3. QED BY <1>1, <1>2, <2>2, SuffixSame
<1>4. StartsLine(line, line)
  BY DEF StartsLine
<1>5. ASSUME NEW e \in Suffixes(line) PROVE NL \notin Range(e)
  <2>1. PICK p \in 1..Len(line) + 1 : e = From(line, p)
    BY <1>1, SuffixIs
  <2>2. e \in Text /\ Len(e) = Len(line) - p + 1 /\ \A i \in 1..Len(line) - p + 1 : e[i] = line[p + i - 1]
    BY <1>1, <2>1, FromIs
  <2>3. ASSUME NEW i \in DOMAIN e PROVE e[i] # NL
    <3>1. i \in 1..Len(line) - p + 1
      BY <2>2 DEF Text
    <3>2. p + i - 1 \in 1..Len(line)
      BY <1>1, <3>1
    <3>3. QED BY <1>1, <2>2, <3>1, <3>2
  <2>4. QED BY <2>3 DEF Range
<1>6. QED BY <1>2, <1>3, <1>4, <1>5 DEF Starts

\* A line before others: what is where, and which ends it has.
LEMMA LineBefore ==
  ASSUME NEW line \in Plain, NEW t \in Text
  PROVE  LET a == line \o <<NL>> \o t
         IN  /\ a \in Text /\ Len(a) = Len(line) + 1 + Len(t) /\ Len(line) \in Nat /\ Len(t) \in Nat
             /\ \A i \in 1..Len(line) + 1 + Len(t) :
                  a[i] = IF i <= Len(line) THEN line[i]
                         ELSE IF i = Len(line) + 1 THEN NL ELSE t[i - Len(line) - 1]
             /\ \A i \in 1..Len(line) : a[i] # NL
             /\ Suffixes(t) \subseteq Suffixes(a) /\ a \in Suffixes(a)
             /\ \A e \in Suffixes(a) : Len(e) <= Len(t) => e \in Suffixes(t)
             /\ Bytes(a) = Bytes(line) + 1 + Bytes(t) /\ Bytes(line) \in Nat /\ Bytes(t) \in Nat
<1> DEFINE br == <<NL>>
           u == line \o br
           a == u \o t
<1>1. /\ line \in Text /\ Len(line) \in Nat /\ \A i \in 1..Len(line) : line[i] # NL
  BY PlainIs DEF Plain, Text
<1>2. br \in Text /\ Len(br) = 1 /\ br[1] = NL
  BY BreakType
<1>3. Bytes(br) = 1
  <2>1. Bytes(Append(<<>>, NL)) = Bytes(<<>>) + Width(NL) /\ NL \in Char
    <3> DEFINE none == <<>>
    <3>1. none \in Seq(Char) /\ NL \in Char
      BY DEF Char
    <3> HIDE DEF none
    <3>2. Bytes(Append(none, NL)) = Bytes(none) + Width(NL)
      BY <3>1, BytesAppend
    <3>3. QED BY <3>1, <3>2 DEF none
  <2>2. Append(<<>>, NL) = br
    OBVIOUS
  <2>3. QED BY <2>1, <2>2, BytesEmpty DEF Width
<1> HIDE DEF br
<1>4. /\ u \in Text /\ Len(u) = Len(line) + 1
      /\ \A i \in 1..Len(line) + 1 : u[i] = IF i <= Len(line) THEN line[i] ELSE NL
  <2>1. /\ u \in Seq(Char) /\ Len(u) = Len(line) + Len(br)
        /\ \A i \in 1..Len(line) + Len(br) : u[i] = IF i <= Len(line) THEN line[i] ELSE br[i - Len(line)]
    BY <1>1, <1>2, ConcatProperties DEF Text
  <2>2. ASSUME NEW i \in 1..Len(line) + 1, ~(i <= Len(line)) PROVE i - Len(line) = 1
    BY <1>1, <2>2
  <2>3. QED BY <1>2, <2>1, <2>2 DEF Text
<1>5. Bytes(u) = Bytes(line) + 1 /\ Bytes(line) \in Nat /\ Bytes(t) \in Nat
  BY <1>1, <1>2, <1>3, BytesConcat, BytesType DEF Text
<1> HIDE DEF u
<1>6. /\ a \in Text /\ Len(a) = Len(line) + 1 + Len(t) /\ Len(t) \in Nat
      /\ Suffixes(t) \subseteq Suffixes(a)
      /\ \A e \in Suffixes(a) : Len(e) <= Len(t) => e \in Suffixes(t)
  BY <1>4, SuffixJoined
<1>7. \A i \in 1..Len(line) + 1 + Len(t) : a[i] = IF i <= Len(line) + 1 THEN u[i] ELSE t[i - (Len(line) + 1)]
  BY <1>4, ConcatProperties DEF Text
<1>8. Bytes(a) = Bytes(line) + 1 + Bytes(t)
  BY <1>4, <1>5, BytesConcat DEF Text
<1> HIDE DEF a
<1>9. a \in Suffixes(a)
  BY <1>6, SuffixJoined
<1>10. ASSUME NEW i \in 1..Len(line) + 1 + Len(t)
       PROVE  a[i] = IF i <= Len(line) THEN line[i]
                     ELSE IF i = Len(line) + 1 THEN NL ELSE t[i - Len(line) - 1]
  <2>1. CASE i <= Len(line) + 1
    <3>1. i \in 1..Len(line) + 1
      BY <1>1, <2>1
    <3>2. a[i] = IF i <= Len(line) THEN line[i] ELSE NL
      BY <1>4, <1>7, <2>1, <3>1
    <3>3. QED BY <1>1, <3>1, <3>2
  <2>2. CASE ~(i <= Len(line) + 1)
    <3>1. ~(i <= Len(line)) /\ i # Len(line) + 1 /\ i - (Len(line) + 1) = i - Len(line) - 1
      BY <1>1, <1>6, <2>2
    <3>2. QED BY <1>7, <2>2, <3>1
  <2>3. QED BY <2>1, <2>2
<1>11. \A i \in 1..Len(line) : a[i] # NL
  BY <1>1, <1>6, <1>10
<1>12. QED BY <1>1, <1>5, <1>6, <1>8, <1>9, <1>10, <1>11 DEF a, u, br

\* A line break in a text, counted; a text within both limits, and one with no room for a line in front.
Breaks(e) == {n \in DOMAIN e : e[n] = NL}
Within(e) == Bytes(e) <= MaxBytes /\ Cardinality(Breaks(e)) < MaxLines
Over(t) == Bytes(t) > MaxBytes \/ Cardinality(Breaks(t)) + 1 >= MaxLines

\* A line has no line break, and a text finitely many.
LEMMA BreaksAre ==
  /\ \A line \in Plain : IsFiniteSet(Breaks(line)) /\ Cardinality(Breaks(line)) = 0
  /\ \A t \in Text : IsFiniteSet(Breaks(t)) /\ Cardinality(Breaks(t)) \in Nat
<1>1. ASSUME NEW t \in Text PROVE IsFiniteSet(Breaks(t))
  <2>1. Len(t) \in Nat /\ DOMAIN t = 1..Len(t)
    BY DEF Text
  <2>2. IsFiniteSet(1..Len(t))
    BY <2>1, FS_Interval
  <2>3. QED BY <2>1, <2>2, FS_Subset DEF Breaks
<1>2. ASSUME NEW line \in Plain PROVE Breaks(line) = {}
  BY DEF Plain, Breaks
<1>3. QED BY <1>1, <1>2, FS_EmptySet, FS_CardinalityType

\* A line in front of a text brings one more line break.
LEMMA OneMoreBreak ==
  ASSUME NEW line \in Plain, NEW t \in Text
  PROVE  Cardinality(Breaks(line \o <<NL>> \o t)) = Cardinality(Breaks(t)) + 1
<1> DEFINE a == line \o <<NL>> \o t
           d == Len(line) + 1
           f == [n \in Breaks(t) |-> n + d]
           B == Breaks(a) \ {d}
<1>1. /\ a \in Text /\ Len(a) = d + Len(t) /\ Len(line) \in Nat /\ Len(t) \in Nat
      /\ \A i \in 1..d + Len(t) : a[i] = IF i <= Len(line) THEN line[i]
                                         ELSE IF i = d THEN NL ELSE t[i - Len(line) - 1]
      /\ \A i \in 1..Len(line) : a[i] # NL
  BY LineBefore
<1>2. DOMAIN a = 1..d + Len(t) /\ DOMAIN t = 1..Len(t) /\ d \in Nat \ {0}
  <2>1. DOMAIN a = 1..Len(a) /\ DOMAIN t = 1..Len(t)
    BY <1>1 DEF Text
  <2>2. QED BY <1>1, <2>1
<1> HIDE DEF a
<1>3. d \in Breaks(a)
  <2>1. d \in 1..d + Len(t) /\ ~(d <= Len(line))
    BY <1>1
  <2>2. QED BY <1>1, <1>2, <2>1 DEF Breaks
<1>4. \A n \in 1..Len(t) : n + d \in 1..d + Len(t) /\ n + d # d /\ a[n + d] = t[n]
  <2> SUFFICES ASSUME NEW n \in 1..Len(t) PROVE n + d \in 1..d + Len(t) /\ n + d # d /\ a[n + d] = t[n]
    OBVIOUS
  <2>1. n + d \in 1..d + Len(t) /\ ~(n + d <= Len(line)) /\ n + d # d /\ n + d - Len(line) - 1 = n
    BY <1>1
  <2>2. QED BY <1>1, <2>1
<1>5. f \in [Breaks(t) -> B]
  BY <1>2, <1>4 DEF Breaks
<1>6. \A m, n \in Breaks(t) : f[m] = f[n] => m = n
  BY <1>2 DEF Breaks
<1>7. ASSUME NEW i \in B PROVE \E n \in Breaks(t) : f[n] = i
  <2>1. i \in 1..d + Len(t) /\ i # d /\ a[i] = NL
    BY <1>2 DEF Breaks
  <2>2. ~(i <= Len(line))
    BY <1>1, <2>1
  <2>3. i - d \in 1..Len(t) /\ i - d + d = i
    BY <1>1, <1>2, <2>1, <2>2
  <2>4. t[i - d] = NL
    BY <1>4, <2>1, <2>3
  <2>5. QED BY <1>2, <2>3, <2>4 DEF Breaks
<1>8. IsFiniteSet(Breaks(t)) /\ IsFiniteSet(Breaks(a))
  BY <1>1, BreaksAre
<1>9. Cardinality(B) = Cardinality(Breaks(t))
  <2>1. f \in Bijection(Breaks(t), B)
    <3> HIDE DEF f, B
    <3>1. QED BY <1>5, <1>6, <1>7, Fun_IsBij
  <2>2. ExistsBijection(Breaks(t), B)
    BY <2>1 DEF ExistsBijection
  <2>3. QED BY <1>8, <2>2, FS_Bijection
<1>10. Cardinality(B) = Cardinality(Breaks(a)) - 1
  BY <1>3, <1>8, FS_RemoveElement
<1>11. Cardinality(Breaks(a)) \in Nat /\ Cardinality(Breaks(t)) \in Nat
  BY <1>8, FS_CardinalityType
<1>12. QED BY <1>9, <1>10, <1>11 DEF a

\* The ends that start with a line, of a text with one more line in front.
LEMMA StartsBefore ==
  ASSUME NEW line \in Plain, NEW t \in Text
  PROVE  LET a == line \o <<NL>> \o t
         IN  /\ Starts(a) = Starts(t) \cup {a} /\ Len(t) < Len(a)
             /\ \A e \in Suffixes(a) : NL \notin Range(e) => e \in Suffixes(t)
<1> DEFINE a == line \o <<NL>> \o t
           d == Len(line) + 1
<1>1. /\ a \in Text /\ Len(a) = d + Len(t) /\ Len(line) \in Nat /\ Len(t) \in Nat
      /\ \A i \in 1..d + Len(t) : a[i] = IF i <= Len(line) THEN line[i]
                                         ELSE IF i = d THEN NL ELSE t[i - Len(line) - 1]
      /\ \A i \in 1..Len(line) : a[i] # NL
      /\ Suffixes(t) \subseteq Suffixes(a) /\ a \in Suffixes(a)
      /\ \A e \in Suffixes(a) : Len(e) <= Len(t) => e \in Suffixes(t)
  BY LineBefore
<1> HIDE DEF a
<1>2. \A n \in 1..Len(t) : a[n + d] = t[n]
  <2> SUFFICES ASSUME NEW n \in 1..Len(t) PROVE a[n + d] = t[n]
    OBVIOUS
  <2>1. n + d \in 1..d + Len(t) /\ ~(n + d <= Len(line)) /\ n + d # d /\ n + d - Len(line) - 1 = n
    BY <1>1
  <2>2. QED BY <1>1, <2>1
<1>3. a[d] = NL /\ d \in 1..d + Len(t)
  <2>1. d \in 1..d + Len(t) /\ ~(d <= Len(line))
    BY <1>1
  <2>2. QED BY <1>1, <2>1
<1>4. ASSUME NEW e \in Suffixes(t) PROVE StartsLine(t, e) <=> StartsLine(a, e)
  <2>1. e \in Text /\ Len(e) \in 0..Len(t)
    BY SuffixIs
  <2>2. CASE Len(e) = Len(t)
    <3>1. Len(a) - Len(e) = d
      BY <1>1, <2>2
    <3>2. QED BY <1>3, <2>2, <3>1 DEF StartsLine
  <2>3. CASE Len(e) # Len(t)
    <3>1. Len(t) - Len(e) \in 1..Len(t) /\ Len(a) - Len(e) = Len(t) - Len(e) + d /\ Len(e) # Len(a)
      BY <1>1, <2>1, <2>3
    <3>2. a[Len(a) - Len(e)] = t[Len(t) - Len(e)]
      BY <1>2, <3>1
    <3>3. QED BY <2>3, <3>1, <3>2 DEF StartsLine
  <2>4. QED BY <2>2, <2>3
<1>5. ASSUME NEW e \in Suffixes(a), StartsLine(a, e), e # a PROVE e \in Suffixes(t)
  <2>1. e \in Text /\ Len(e) \in 0..Len(a)
    BY <1>1, SuffixIs
  <2>2. Len(e) # Len(a)
    BY <1>1, <1>5, SuffixSame
  <2>3. a[Len(a) - Len(e)] = NL
    BY <1>5, <2>2 DEF StartsLine
  <2>4. Len(a) - Len(e) \notin 1..Len(line)
    BY <1>1, <2>3
  <2>5. Len(e) <= Len(t)
    BY <1>1, <2>1, <2>2, <2>4
  <2>6. QED BY <1>1, <2>5
<1>6. StartsLine(a, a)
  BY DEF StartsLine
<1>7. Starts(a) = Starts(t) \cup {a}
  BY <1>1, <1>4, <1>5, <1>6 DEF Starts
<1>8. ASSUME NEW e \in Suffixes(a), NL \notin Range(e) PROVE e \in Suffixes(t)
  <2>1. /\ e \in Text /\ Len(e) \in 0..Len(a) /\ Len(a) - Len(e) + 1 \in 1..Len(a) + 1
        /\ e = From(a, Len(a) - Len(e) + 1)
    BY <1>1, SuffixIs
  <2>2. Len(e) <= Len(t)
    <3>1. SUFFICES ASSUME Len(e) > Len(t) PROVE FALSE
      BY <1>1, <2>1
    <3> DEFINE p == Len(a) - Len(e) + 1
               i == d - p + 1
    <3>2. p \in 1..Len(a) + 1 /\ i \in 1..Len(a) - p + 1 /\ p + i - 1 = d /\ i \in 1..Len(e)
      BY <1>1, <2>1, <3>1
    <3>3. e[i] = a[p + i - 1]
      <4>1. e = From(a, p)
        BY <2>1
      <4>2. a \in Text
        BY <1>1
      <4> HIDE DEF p, i
      <4>3. \A n \in 1..Len(a) - p + 1 : From(a, p)[n] = a[p + n - 1]
        BY <3>2, <4>2, FromIs
      <4>4. QED BY <3>2, <4>1, <4>3
    <3>4. e[i] = NL /\ i \in DOMAIN e
      <4>1. e \in Seq(Char)
        BY <2>1 DEF Text
      <4>2. i \in DOMAIN e
        BY <3>2, <4>1
      <4> HIDE DEF i, p
      <4>3. QED BY <1>3, <3>2, <3>3, <4>2
    <3>5. NL \in Range(e)
      BY <3>4 DEF Range
    <3>6. QED BY <1>8, <3>5
  <2>3. QED BY <1>1, <2>2
<1>9. QED BY <1>1, <1>7, <1>8 DEF a

\* The end of one line within the limit is a longest one.
LEMMA EndOfLineIs ==
  ASSUME NEW line \in Text
  PROVE  /\ EndOfLine(line) \in Text /\ EndOfLine(line) \in Suffixes(line)
         /\ Bytes(EndOfLine(line)) <= MaxBytes
         /\ \A e \in Suffixes(line) : Bytes(e) <= MaxBytes => Len(e) <= Len(EndOfLine(line))
<1> DEFINE S == {n \in 1..Len(line) + 1 : Bytes(SubSeq(line, n, Len(line))) <= MaxBytes}
           p == Min(S)
<1>1. Len(line) \in Nat /\ MaxBytes \in Nat
  BY OutputAssumption DEF Text
<1>2. S = {n \in 1..Len(line) + 1 : Bytes(From(line, n)) <= MaxBytes}
  BY DEF From
<1>3. Len(line) + 1 \in S
  <2> DEFINE q == Len(line) + 1
  <2>1. q \in 1..Len(line) + 1
    BY <1>1
  <2>2. From(line, q) \in Text /\ Len(From(line, q)) = 0
    <3> HIDE DEF q
    <3>1. From(line, q) \in Text /\ Len(From(line, q)) = Len(line) - q + 1
      BY <2>1, FromIs
    <3>2. QED BY <1>1, <3>1 DEF q
  <2>3. From(line, q) = <<>>
    BY <2>2, EmptySeq DEF Text
  <2>4. Bytes(From(line, q)) <= MaxBytes
    BY <1>1, <2>3, BytesEmpty
  <2>5. QED BY <1>2, <2>1, <2>4
<1>4. EndOfLine(line) = From(line, p)
  BY DEF EndOfLine, From
<1>5. S \subseteq Nat
  BY <1>1
<1> HIDE DEF S
<1>6. p \in S /\ \A n \in S : p <= n
  <2>1. \E m \in S : \A n \in S : m <= n
    BY <1>3, <1>5, LeastNat
  <2>2. QED BY <2>1 DEF Min
<1> HIDE DEF p
<1>7. p \in 1..Len(line) + 1 /\ Bytes(From(line, p)) <= MaxBytes
  BY <1>2, <1>6
<1>8. From(line, p) \in Text /\ Len(From(line, p)) = Len(line) - p + 1 /\ From(line, p) \in Suffixes(line)
  BY <1>7, FromIs
<1>9. ASSUME NEW e \in Suffixes(line), Bytes(e) <= MaxBytes PROVE Len(e) <= Len(From(line, p))
  <2> DEFINE q == Len(line) - Len(e) + 1
  <2>1. q \in 1..Len(line) + 1 /\ e = From(line, q) /\ Len(e) \in 0..Len(line)
    BY SuffixIs
  <2>2. q \in S
    <3> HIDE DEF q
    <3>1. Bytes(From(line, q)) <= MaxBytes
      BY <1>9, <2>1
    <3>2. QED BY <1>2, <2>1, <3>1
  <2>3. p <= q
    BY <1>6, <2>2
  <2>4. QED BY <1>1, <1>7, <1>8, <2>1, <2>3
<1>10. QED BY <1>4, <1>7, <1>8, <1>9

-----------------------------------------------------------------------------
\* The loop over the lines, as a fold.
Takings == [kept : Seq(Text), size : Nat, full : BOOLEAN]
Nothing == [kept |-> <<>>, size |-> 0, full |-> FALSE]
Taking == [n \in Nat |-> [taken \in Takings |-> [line \in Text |-> Took(line, taken)]]]
Taken(lines) == Back(Taking, Nothing, lines)

\* A round of the loop keeps its types.
LEMMA TookType ==
  ASSUME NEW line \in Text, NEW taken \in Takings
  PROVE  Took(line, taken) \in Takings
<1> DEFINE kept == <<line>> \o taken.kept
           size == taken.size + LineBytes(taken.kept, line)
           end == EndOfLine(line)
<1>1. taken.kept \in Seq(Text) /\ taken.size \in Nat /\ taken.full \in BOOLEAN
  BY DEF Takings
<1>2. kept \in Seq(Text)
  BY <1>1, InFront
<1>3. size \in Nat
  <2>1. Bytes(line) \in Nat
    BY BytesType DEF Text
  <2>2. QED BY <1>1, <2>1 DEF LineBytes
<1>4. end \in Text /\ <<end>> \in Seq(Text)
  <2>1. end \in Text
    BY EndOfLineIs
  <2> HIDE DEF end
  <2>2. QED BY <2>1
<1>5. Took(line, taken) =
        IF taken.full THEN taken
        ELSE IF size <= MaxBytes THEN [kept |-> kept, size |-> size, full |-> Len(kept) = MaxLines]
        ELSE [taken EXCEPT !.full = TRUE, !.kept = IF @ = <<>> THEN <<end>> ELSE @]
  BY DEF Took
<1> HIDE DEF kept, size, end
<1>6. (Len(kept) = MaxLines) \in BOOLEAN
  OBVIOUS
<1>7. [kept |-> kept, size |-> size, full |-> Len(kept) = MaxLines] \in Takings
  BY <1>2, <1>3, <1>6 DEF Takings
<1>8. [taken EXCEPT !.full = TRUE, !.kept = IF @ = <<>> THEN <<end>> ELSE @] \in Takings
  BY <1>1, <1>4 DEF Takings
<1>9. QED BY <1>5, <1>7, <1>8

\* The loop as steps of a fold.
LEMMA TakingType == Taking \in StepsBack(Takings, Text) /\ Nothing \in Takings
<1>1. \A line \in Text, taken \in Takings : Took(line, taken) \in Takings
  BY TookType
<1>2. Nothing \in Takings
  BY DEF Nothing, Takings
<1>3. QED BY <1>1, <1>2 DEF Taking, StepsBack, Steps

\* Collect is that fold.
LEMMA CollectIs == ASSUME NEW lines \in Seq(Text) PROVE Collect(lines) = Taken(lines).kept
<1> DEFINE N == Len(lines)
           at(n) == lines[N - n + 1]
           Takes(f) == f = [n \in 0..N |-> IF n = 0 THEN Nothing ELSE Took(at(n), f[n - 1])]
           u == CHOOSE f : Takes(f)
<1>1. N \in Nat /\ \A n \in 1..N : at(n) \in Text
  OBVIOUS
<1>2. PICK f \in [0..Len(lines) -> Takings] :
        /\ f[0] = Nothing
        /\ \A n \in 1..Len(lines) : f[n] = Taking[n][f[n - 1]][lines[Len(lines) - n + 1]]
        /\ Taken(lines) = f[Len(lines)]
  BY TakingType, BackIs DEF Taken
<1> HIDE DEF N, at
<1>3. ASSUME NEW n \in 1..N PROVE f[n] = Took(at(n), f[n - 1])
  <2>1. f[n - 1] \in Takings /\ at(n) \in Text /\ n \in Nat
    BY <1>1, <1>2 DEF N
  <2>2. f[n] = Taking[n][f[n - 1]][at(n)]
    BY <1>2 DEF N, at
  <2>3. QED BY <2>1, <2>2 DEF Taking
<1>4. f \in [0..N -> Takings] /\ f[0] = Nothing /\ f[N] = Taken(lines)
  BY <1>2 DEF N
<1>5. Takes(f)
  BY <1>1, <1>3, <1>4
<1>6. Takes(u)
  BY <1>5
<1>7. Collect(lines) = u[N].kept
  BY DEF Collect, u, N, at, Nothing
<1> HIDE DEF u
<1>8. Agree(u, f, N)
  <2>1. u[0] = f[0]
    BY <1>1, <1>4, <1>6
  <2>2. ASSUME NEW n \in 1..N, u[n - 1] = f[n - 1] PROVE u[n] = f[n]
    BY <1>1, <1>3, <1>6, <2>2
  <2>3. QED BY <1>1, <2>1, <2>2, Same
<1>9. QED BY <1>1, <1>4, <1>7, <1>8 DEF Agree

\* What the loop has taken of nothing, and with one more line in front.
LEMMA TakenCons ==
  /\ Taken(<<>>) = Nothing
  /\ \A lines \in Seq(Text), line \in Text :
       Taken(lines) \in Takings /\ Taken(<<line>> \o lines) = Took(line, Taken(lines))
<1>1. Taken(<<>>) = Nothing
  BY TakingType, BackEmpty DEF Taken
<1>2. ASSUME NEW lines \in Seq(Text), NEW line \in Text
      PROVE  Taken(lines) \in Takings /\ Taken(<<line>> \o lines) = Taking[Len(lines) + 1][Taken(lines)][line]
  <2>1. Taken(lines) \in Takings
    BY TakingType, BackType DEF Taken
  <2>2. Taken(<<line>> \o lines) = Taking[Len(lines) + 1][Taken(lines)][line]
    BY TakingType, BackCons DEF Taken
  <2>3. QED BY <2>1, <2>2
<1>3. \A lines \in Seq(Text) : Len(lines) + 1 \in Nat
  BY LenProperties
<1>4. QED BY <1>1, <1>2, <1>3 DEF Taking

\* The tail of a text: the longest end within the limits that starts with a line, or the
\* longest end of its last line when no such end is.
Answer(t, e) ==
  \/ e \in Starts(t) /\ Within(e) /\ \A f \in Starts(t) : Within(f) => Len(f) <= Len(e)
  \/ /\ \A f \in Starts(t) : ~Within(f)
     /\ e \in Suffixes(t) /\ NL \notin Range(e) /\ Within(e)
     /\ \A f \in Suffixes(t) : NL \notin Range(f) /\ Within(f) => Len(f) <= Len(e)

\* What the loop has taken of lines.
TakenInv(lines) ==
  LET taken == Taken(lines)
      t == Joined(lines)
  IN  IF lines = <<>> THEN taken = Nothing
      ELSE /\ taken.kept \in Seq(Text) \ {<<>>} /\ Answer(t, Joined(taken.kept))
           /\ Cardinality(Breaks(t)) = Len(lines) - 1
           /\ IF taken.full THEN Over(t)
              ELSE /\ taken.kept = lines /\ taken.size = Bytes(t) /\ Bytes(t) <= MaxBytes
                   /\ Len(lines) < MaxLines

\* A line that does not fit leaves the tail as it was.
LEMMA AnswerBefore ==
  ASSUME NEW line \in Plain, NEW t \in Text, NEW e, ~Within(line \o <<NL>> \o t), Answer(t, e)
  PROVE  Answer(line \o <<NL>> \o t, e)
<1> DEFINE a == line \o <<NL>> \o t
<1>1. /\ Starts(a) = Starts(t) \cup {a} /\ \A f \in Suffixes(a) : NL \notin Range(f) => f \in Suffixes(t)
      /\ Suffixes(t) \subseteq Suffixes(a) /\ ~Within(a)
  BY LineBefore, StartsBefore
<1> HIDE DEF a
<1>2. Answer(a, e)
  BY <1>1 DEF Answer
<1>3. QED BY <1>2 DEF a

\* A text within the limits is its own tail.
LEMMA AnswerItself ==
  ASSUME NEW t \in Text, Within(t)
  PROVE  Answer(t, t)
<1>1. t \in Suffixes(t) /\ \A f \in Suffixes(t) : Len(f) <= Len(t)
  <2>1. t \in Suffixes(t)
    BY SuffixJoined
  <2>2. \A f \in Suffixes(t) : Len(f) \in 0..Len(t)
    BY SuffixIs
  <2>3. Len(t) \in Nat
    BY DEF Text
  <2>4. QED BY <2>1, <2>2, <2>3
<1>2. StartsLine(t, t)
  BY DEF StartsLine
<1>3. QED BY <1>1, <1>2 DEF Answer, Starts

\* The last line is the first that the loop takes.
LEMMA TakenFirst == ASSUME NEW line \in Plain PROVE TakenInv(<<line>> \o <<>>)
<1> DEFINE none == <<>>
           lines == <<line>> \o none
           end == EndOfLine(line)
           new == Taken(lines)
<1>1. line \in Text /\ none \in Seq(Text) /\ none \in Seq(Plain) /\ Bytes(line) \in Nat
  BY PlainIs, BytesType DEF Text
<1>2. lines = <<line>> /\ lines # <<>> /\ Len(lines) = 1 /\ lines \in Seq(Text)
  BY <1>1
<1>3. Joined(lines) = line
  BY <1>1, JoinedCons
<1>4. new = Took(line, Nothing)
  BY <1>1, TakenCons
<1>5. IF Bytes(line) <= MaxBytes
      THEN Took(line, Nothing) = [kept |-> <<line>>, size |-> Bytes(line), full |-> 1 = MaxLines]
      ELSE Took(line, Nothing).kept = <<end>> /\ Took(line, Nothing).full
  <2> DEFINE kept == <<line>> \o Nothing.kept
             size == Nothing.size + LineBytes(Nothing.kept, line)
  <2>1. Nothing.kept = none /\ Nothing.size = 0 /\ ~Nothing.full
    BY DEF Nothing
  <2>2. kept = <<line>> /\ Len(kept) = 1 /\ size = Bytes(line)
    BY <1>1, <2>1 DEF LineBytes
  <2>3. Took(line, Nothing) =
          IF Nothing.full THEN Nothing
          ELSE IF size <= MaxBytes THEN [kept |-> kept, size |-> size, full |-> Len(kept) = MaxLines]
          ELSE [Nothing EXCEPT !.full = TRUE, !.kept = IF @ = <<>> THEN <<end>> ELSE @]
    BY DEF Took
  <2> HIDE DEF kept, size, end
  <2> DEFINE stopped == [Nothing EXCEPT !.full = TRUE, !.kept = IF @ = <<>> THEN <<end>> ELSE @]
  <2>4. stopped.kept = <<end>> /\ stopped.full
    <3>1. stopped.kept = (IF Nothing.kept = <<>> THEN <<end>> ELSE Nothing.kept) /\ stopped.full
      BY <2>1 DEF Nothing
    <3> HIDE DEF stopped
    <3>2. QED BY <2>1, <3>1
  <2> HIDE DEF stopped
  <2>5. CASE Bytes(line) <= MaxBytes
    BY <2>1, <2>2, <2>3, <2>5, Zenon DEF stopped
  <2>6. CASE ~(Bytes(line) <= MaxBytes)
    <3>1. Took(line, Nothing) = stopped
      BY <2>1, <2>2, <2>3, <2>6, Zenon DEF stopped
    <3>2. QED BY <2>4, <2>6, <3>1
  <2>7. QED BY <2>5, <2>6
<1>6. Starts(line) = {line} /\ \A e \in Suffixes(line) : NL \notin Range(e)
  BY LineIs
<1>7. Cardinality(Breaks(line)) = 0 /\ MaxLines \in Nat \ {0} /\ MaxBytes \in Nat \ {0}
  BY BreaksAre, OutputAssumption
<1>8. CASE Bytes(line) <= MaxBytes
  <2>1. Within(line)
    BY <1>7, <1>8 DEF Within
  <2>2. Answer(line, line)
    BY <1>1, <2>1, AnswerItself
  <2>3. new.kept = lines /\ new.size = Bytes(line) /\ new.full = (1 = MaxLines)
    BY <1>2, <1>4, <1>5, <1>8
  <2>4. 1 = MaxLines => Over(line)
    BY <1>7 DEF Over
  <2> HIDE DEF new, lines
  <2>5. TakenInv(lines)
    <3>1. /\ lines # <<>> /\ lines \in Seq(Text) \ {<<>>} /\ Joined(lines) = line /\ Len(lines) = 1
          /\ Cardinality(Breaks(line)) = Len(lines) - 1
      BY <1>2, <1>3, <1>7
    <3>2. new.full => Over(line)
      BY <2>3, <2>4
    <3>3. ~new.full => Len(lines) < MaxLines
      <4>1. ~new.full => 1 # MaxLines
        BY <2>3, Zenon
      <4>2. 1 # MaxLines => 1 < MaxLines
        BY <1>7
      <4>3. QED BY <1>2, <4>1, <4>2
    <3>4. QED BY <1>8, <2>2, <2>3, <3>1, <3>2, <3>3, Zenon DEF TakenInv, new
  <2>6. QED BY <2>5 DEF lines
<1>9. CASE ~(Bytes(line) <= MaxBytes)
  <2>1. end \in Text /\ end \in Suffixes(line) /\ Bytes(end) <= MaxBytes
        /\ \A e \in Suffixes(line) : Bytes(e) <= MaxBytes => Len(e) <= Len(end)
    BY <1>1, EndOfLineIs
  <2>2. new.kept = <<end>> /\ new.full
    BY <1>4, <1>5, <1>9
  <2> HIDE DEF end
  <2>3. <<end>> \in Seq(Text) \ {<<>>} /\ Joined(<<end>>) = end
    <3>1. Joined(<<end>> \o none) = end
      BY <1>1, <2>1, JoinedCons
    <3>2. <<end>> \o none = <<end>> /\ <<end>> \in Seq(Text) /\ <<end>> # <<>>
      BY <2>1
    <3>3. QED BY <3>1, <3>2
  <2>4. Cardinality(Breaks(end)) = 0
    <3>1. end \in Plain
      <4>1. NL \notin Range(end) /\ end \in Seq(Char)
        BY <1>6, <2>1 DEF Text
      <4>2. \A i \in 1..Len(end) : end[i] \in Char \ {NL}
        BY <4>1 DEF Range
      <4>3. QED BY <4>1, <4>2 DEF Plain
    <3>2. QED BY <3>1, BreaksAre
  <2>5. Within(end) /\ ~Within(line) /\ Over(line)
    BY <1>1, <1>7, <1>9, <2>1, <2>4 DEF Within, Over
  <2>6. Answer(line, end)
    BY <1>6, <2>1, <2>5 DEF Answer, Within
  <2> HIDE DEF new, lines
  <2>7. TakenInv(lines)
    <3>1. lines # <<>> /\ Joined(lines) = line /\ Cardinality(Breaks(line)) = Len(lines) - 1
      BY <1>2, <1>3, <1>7
    <3>2. QED BY <2>2, <2>3, <2>5, <2>6, <3>1, Zenon DEF TakenInv, new
  <2>8. QED BY <2>7 DEF lines
<1>10. QED BY <1>8, <1>9

\* One more line in front of others.
LEMMA TakenMore ==
  ASSUME NEW line \in Plain, NEW lines \in Seq(Plain), lines # <<>>, TakenInv(lines)
  PROVE  TakenInv(<<line>> \o lines)
<1> DEFINE all == <<line>> \o lines
           taken == Taken(lines)
           new == Taken(all)
           t == Joined(lines)
           a == line \o <<NL>> \o t
           B(s) == Cardinality(Breaks(s))
           size == taken.size + LineBytes(taken.kept, line)
<1>1. line \in Text /\ lines \in Seq(Text) /\ all \in Seq(Text) /\ all # <<>>
      /\ Len(all) = Len(lines) + 1 /\ Len(lines) \in Nat
  BY PlainIs, InFront
<1>2. t \in Text /\ Joined(all) = a
  BY <1>1, JoinedCons
<1>3. taken \in Takings /\ new = Took(line, taken)
  BY <1>1, TakenCons
<1>4. /\ taken.kept \in Seq(Text) \ {<<>>} /\ Answer(t, Joined(taken.kept)) /\ B(t) = Len(lines) - 1
      /\ IF taken.full THEN Over(t)
         ELSE /\ taken.kept = lines /\ taken.size = Bytes(t) /\ Bytes(t) <= MaxBytes
              /\ Len(lines) < MaxLines
  BY Zenon DEF TakenInv
<1>5. a \in Text /\ Bytes(a) = Bytes(line) + 1 + Bytes(t) /\ Bytes(line) \in Nat /\ Bytes(t) \in Nat
  BY <1>2, LineBefore
<1>6. B(a) = B(t) + 1 /\ B(t) \in Nat
  BY <1>2, OneMoreBreak, BreaksAre
<1>7. B(a) = Len(all) - 1
  BY <1>1, <1>4, <1>6
<1>8. MaxLines \in Nat \ {0} /\ MaxBytes \in Nat \ {0}
  BY OutputAssumption
<1> DEFINE kept == <<line>> \o taken.kept
           end == EndOfLine(line)
           stopped == [taken EXCEPT !.full = TRUE, !.kept = IF @ = <<>> THEN <<end>> ELSE @]
<1>9. Took(line, taken) =
        IF taken.full THEN taken
        ELSE IF size <= MaxBytes THEN [kept |-> kept, size |-> size, full |-> Len(kept) = MaxLines]
        ELSE stopped
  BY DEF Took
<1>10. stopped.kept = taken.kept /\ stopped.full
  <2>1. stopped.kept = (IF taken.kept = <<>> THEN <<end>> ELSE taken.kept) /\ stopped.full
    BY <1>3 DEF Takings
  <2> HIDE DEF stopped
  <2>2. QED BY <1>4, <2>1
<1>11. size = Bytes(a) \/ taken.full
  <2>1. ~taken.full => taken.size = Bytes(t)
    BY <1>4
  <2>2. LineBytes(taken.kept, line) = Bytes(line) + 1
    BY <1>4 DEF LineBytes
  <2>3. Bytes(t) + (Bytes(line) + 1) = Bytes(a)
    BY <1>5
  <2>4. QED BY <2>1, <2>2, <2>3
<1>12. taken.full \in BOOLEAN
  BY <1>3 DEF Takings
<1> HIDE DEF all, taken, new, t, a, size, stopped
<1>13. ASSUME ~Within(a), Over(a), new.kept = taken.kept, new.full PROVE TakenInv(all)
  <2>1. Answer(a, Joined(taken.kept))
    BY <1>2, <1>4, <1>13, AnswerBefore DEF a
  <2>2. QED BY <1>1, <1>2, <1>4, <1>7, <1>13, <2>1, Zenon DEF TakenInv, new
<1>14. Over(a) \/ (Bytes(a) <= MaxBytes /\ B(a) + 1 < MaxLines)
  BY <1>5, <1>6, <1>8 DEF Over
<1>15. CASE taken.full
  <2>1. Over(t)
    BY <1>4, <1>15
  <2>2. ~Within(a) /\ Over(a)
    BY <1>5, <1>6, <1>8, <2>1 DEF Over, Within
  <2>3. new = taken
    BY <1>3, <1>9, <1>15
  <2>4. TakenInv(all)
    BY <1>13, <1>15, <2>2, <2>3
  <2>5. QED BY <2>4 DEF all
<1>16. CASE ~taken.full /\ ~(size <= MaxBytes)
  <2>1. ~Within(a) /\ Over(a)
    BY <1>5, <1>8, <1>11, <1>16 DEF Over, Within
  <2>2. new = stopped
    BY <1>3, <1>9, <1>16
  <2>3. TakenInv(all)
    BY <1>10, <1>13, <2>1, <2>2
  <2>4. QED BY <2>3 DEF all
<1>17. CASE ~taken.full /\ size <= MaxBytes
  <2>1. taken.kept = lines /\ Len(lines) < MaxLines
    BY <1>4, <1>17
  <2>2. kept = all
    BY <2>1 DEF all
  <2>3. new = [kept |-> all, size |-> size, full |-> Len(all) = MaxLines]
    BY <1>3, <1>9, <1>17, <2>2, Zenon
  <2>4. new.kept = all /\ new.size = size /\ new.full = (Len(all) = MaxLines)
    BY <2>3
  <2>5. size = Bytes(a) /\ Bytes(a) <= MaxBytes
    BY <1>11, <1>17
  <2>6. Within(a)
    BY <1>1, <1>7, <1>8, <2>1, <2>5 DEF Within
  <2>7. Answer(a, a)
    BY <1>5, <2>6, AnswerItself
  <2>8. Len(all) = MaxLines => Over(a)
    BY <1>1, <1>7, <1>8 DEF Over
  <2>9. Len(all) # MaxLines => Len(all) < MaxLines
    BY <1>1, <1>8, <2>1
  <2>10. TakenInv(all)
    <3>1. new.full => Over(a)
      BY <2>4, <2>8, Zenon
    <3>2. ~new.full => Len(all) < MaxLines
      BY <2>4, <2>9, Zenon
    <3>3. all \in Seq(Text) \ {<<>>}
      BY <1>1
    <3>4. QED BY <1>1, <1>2, <1>7, <2>4, <2>5, <2>7, <3>1, <3>2, <3>3, Zenon DEF TakenInv, new
  <2>11. QED BY <2>10 DEF all
<1>18. QED BY <1>12, <1>15, <1>16, <1>17

\* The loop finds the tail of the lines joined.
LEMMA CollectAnswers ==
  \A lines \in Seq(Plain) : lines # <<>> => Answer(Joined(lines), Joined(Collect(lines)))
<1> DEFINE P == {lines \in Seq(Plain) : TakenInv(lines)}
<1>1. <<>> \in P
  BY TakenCons DEF TakenInv
<1>2. ASSUME NEW line \in Plain, NEW lines \in Seq(Plain), lines \in P PROVE <<line>> \o lines \in P
  <2>1. <<line>> \o lines \in Seq(Plain)
    BY InFront
  <2>2. CASE lines = <<>>
    BY <2>1, <2>2, TakenFirst
  <2>3. CASE lines # <<>>
    BY <1>2, <2>1, <2>3, TakenMore
  <2>4. QED BY <2>2, <2>3
<1>3. \A lines \in Seq(Plain) : lines \in P
  <2> HIDE DEF P
  <2>1. QED BY <1>1, <1>2, InductionCons
<1>4. ASSUME NEW lines \in Seq(Plain), lines # <<>> PROVE Answer(Joined(lines), Joined(Taken(lines).kept))
  <2>1. TakenInv(lines)
    BY <1>3
  <2>2. QED BY <1>4, <2>1, Zenon DEF TakenInv
<1>5. QED BY <1>4, CollectIs, PlainIs

\* A text without its final newline, if it has one.
Body(s) == IF EndsLine(s) THEN Front(s) ELSE s

\* The lines of a text, joined, are its body.
LEMMA LinesAre ==
  ASSUME NEW s \in Text, s # <<>>
  PROVE  /\ Body(s) \in Text /\ LinesOf(s) \in Seq(Plain) /\ LinesOf(s) # <<>>
         /\ Joined(LinesOf(s)) = Body(s)
<1>1. CASE EndsLine(s)
  <2> DEFINE b == Front(s)
             n == Len(s) - 1
             all == Split(s)
             lines == Split(b)
             none == <<>>
  <2>1. s \in Seq(Char) /\ Len(s) \in Nat /\ Len(s) # 0
    BY EmptySeq DEF Text
  <2>2. b = SubSeq(s, 1, n)
    BY DEF Front
  <2>3. b \in Seq(Char) /\ Len(b) = n /\ \A i \in 1..n : b[i] = s[i]
    <3>1. n \in Nat /\ n \in 0..Len(s)
      BY <2>1
    <3>2. \A i \in 1..n : s[i] \in Char
      BY <2>1, <3>1
    <3>3. /\ SubSeq(s, 1, n) \in Seq(Char)
          /\ Len(SubSeq(s, 1, n)) = IF 1 <= n THEN n - 1 + 1 ELSE 0
          /\ \A i \in 1..n - 1 + 1 : SubSeq(s, 1, n)[i] = s[1 + i - 1]
      BY <3>1, <3>2, SubSeqProperties
    <3> HIDE DEF n
    <3>4. QED BY <2>2, <3>1, <3>3
  <2>4. s[Len(s)] = NL
    BY <1>1 DEF EndsLine, Last
  <2>5. NL \in Char
    BY DEF Char
  <2> HIDE DEF b
  <2>6. Append(b, NL) = s
    <3> DEFINE r == Append(b, NL)
    <3>1. r \in Seq(Char) /\ Len(r) = n + 1 /\ r[n + 1] = NL /\ \A i \in 1..n : r[i] = b[i]
      BY <2>1, <2>3, <2>5, AppendProperties
    <3> HIDE DEF r
    <3>2. \A i \in 1..Len(s) : r[i] = s[i]
      BY <2>1, <2>3, <2>4, <3>1
    <3>3. r = s
      BY <2>1, <3>1, <3>2, SeqEqual
    <3>4. QED BY <3>3 DEF r
  <2>7. all = Append(lines, none)
    BY <2>3, <2>6, SplitEnds DEF Text
  <2>8. lines \in Seq(Plain) /\ lines # <<>> /\ none \in Plain
    <3>1. lines \in Lists
      BY <2>3, SplitCons DEF Text, Char
    <3>2. QED BY <3>1, PlainIs DEF Lists
  <2>9. LinesOf(s) = Front(all)
    BY <1>1, SplitIs
  <2> HIDE DEF all, lines, none
  <2>10. Front(all) = lines
    <3> DEFINE m == Len(lines)
    <3>1. all \in Seq(Plain) /\ Len(all) = m + 1 /\ m \in Nat /\ \A i \in 1..m : all[i] = lines[i]
      BY <2>7, <2>8, AppendProperties
    <3>2. Front(all) = SubSeq(all, 1, m)
      <4>1. Len(all) - 1 = m
        BY <3>1
      <4>2. QED BY <4>1 DEF Front
    <3>3. \A i \in 1..m : all[i] \in Plain
      BY <3>1
    <3> HIDE DEF m
    <3>4. /\ SubSeq(all, 1, m) \in Seq(Plain)
          /\ Len(SubSeq(all, 1, m)) = IF 1 <= m THEN m - 1 + 1 ELSE 0
          /\ \A i \in 1..m - 1 + 1 : SubSeq(all, 1, m)[i] = all[1 + i - 1]
      BY <3>1, <3>3, SubSeqProperties
    <3> DEFINE r == SubSeq(all, 1, m)
    <3>5. r \in Seq(Plain) /\ Len(r) = m /\ \A i \in 1..m : r[i] = lines[i]
      BY <3>1, <3>4
    <3> HIDE DEF r
    <3>6. r = lines
      BY <2>8, <3>5, SeqEqual DEF m
    <3>7. QED BY <3>2, <3>6 DEF r
  <2>11. Joined(lines) = b
    BY <2>3, SplitJoins DEF lines, Text
  <2>12. Body(s) = b
    BY <1>1 DEF Body, b
  <2>13. QED BY <2>3, <2>8, <2>9, <2>10, <2>11, <2>12 DEF Text
<1>2. CASE ~EndsLine(s)
  <2>1. LinesOf(s) = Split(s) /\ Body(s) = s
    BY <1>2, SplitIs DEF Body
  <2>2. Split(s) \in Lists
    BY SplitCons DEF Char
  <2>3. Joined(Split(s)) = s
    BY SplitJoins
  <2>4. QED BY <2>1, <2>2, <2>3 DEF Lists
<1>3. QED BY <1>1, <1>2

\* The longest of some ends of a text is the only one of its length.
LEMMA LongestIs ==
  ASSUME NEW t \in Text, NEW S \in SUBSET Suffixes(t), NEW e \in S, \A f \in S : Len(f) <= Len(e)
  PROVE  Longest(S) = e
<1> DEFINE c == Longest(S)
<1>1. c \in S /\ \A f \in S : Len(f) <= Len(c)
  BY DEF Longest
<1> HIDE DEF c
<1>2. Len(c) \in 0..Len(t) /\ Len(e) \in 0..Len(t) /\ Len(t) \in Nat
  BY <1>1, SuffixIs DEF Text
<1>3. Len(c) <= Len(e) /\ Len(e) <= Len(c)
  BY <1>1
<1>4. Len(c) = Len(e)
  BY <1>2, <1>3
<1>5. QED BY <1>1, <1>4, SuffixSame DEF c

\* What the loop finds is the tail by its definition.
LEMMA AnswerIsTail ==
  ASSUME NEW s \in Text, ~Fits(s), NEW e, Answer(Body(s), e), Body(s) \in Text
  PROVE  TailByDefinition(s) = e
<1> DEFINE t == Body(s)
           within == {f \in Suffixes(t) : Bytes(f) <= MaxBytes
                                          /\ Cardinality({n \in DOMAIN f : f[n] = NL}) < MaxLines}
           whole == {f \in within : StartsLine(t, f)}
           plain == {f \in within : NL \notin Range(f)}
           Plainly == whole \ {<<>>} = {} /\ ~EndsLine(t) /\ t # <<>>
<1>1. TailByDefinition(s) = IF Plainly THEN Longest(plain) ELSE Longest(whole)
  BY DEF TailByDefinition, Body
<1>2. /\ within = {f \in Suffixes(t) : Within(f)} /\ whole = {f \in Starts(t) : Within(f)}
      /\ plain = {f \in Suffixes(t) : Within(f) /\ NL \notin Range(f)}
  BY DEF Within, Breaks, Starts
<1>3. whole \in SUBSET Suffixes(t) /\ plain \in SUBSET Suffixes(t)
  OBVIOUS
<1>4. t \in Text /\ Answer(t, e) /\ Len(t) \in Nat
  BY DEF Text
<1>5. <<>> \in Starts(t) <=> t = <<>> \/ EndsLine(t)
  <2>1. <<>> \in Suffixes(t) /\ Len(<<>>) = 0
    BY DEF Suffixes
  <2>2. Len(t) = 0 <=> t = <<>>
    BY <1>4, EmptySeq DEF Text
  <2>3. Len(t) - Len(<<>>) = Len(t)
    BY <1>4, <2>1
  <2> HIDE DEF t
  <2>4. StartsLine(t, <<>>) <=> Len(t) = 0 \/ t[Len(t)] = NL
    BY <2>1, <2>3 DEF StartsLine
  <2>5. EndsLine(t) <=> t # <<>> /\ t[Len(t)] = NL
    BY DEF EndsLine, Last
  <2>6. QED BY <2>1, <2>2, <2>4, <2>5 DEF Starts
<1> HIDE DEF within, whole, plain, t
<1>6. CASE e \in Starts(t) /\ Within(e) /\ \A f \in Starts(t) : Within(f) => Len(f) <= Len(e)
  <2>1. e \in whole /\ \A f \in whole : Len(f) <= Len(e)
    BY <1>2, <1>6
  <2>2. Longest(whole) = e
    BY <1>3, <1>4, <2>1, LongestIs
  <2>3. ~Plainly
    BY <1>5, <1>6, <2>1
  <2>4. QED BY <1>1, <2>2, <2>3
<1>7. CASE /\ \A f \in Starts(t) : ~Within(f)
           /\ e \in Suffixes(t) /\ NL \notin Range(e) /\ Within(e)
           /\ \A f \in Suffixes(t) : NL \notin Range(f) /\ Within(f) => Len(f) <= Len(e)
  <2>1. e \in plain /\ \A f \in plain : Len(f) <= Len(e)
    BY <1>2, <1>7
  <2>2. Longest(plain) = e
    BY <1>3, <1>4, <2>1, LongestIs
  <2>3. Within(<<>>)
    <3>1. <<>> \in Plain
      BY PlainIs
    <3>2. Cardinality(Breaks(<<>>)) = 0
      BY <3>1, BreaksAre
    <3>3. MaxLines \in Nat \ {0} /\ MaxBytes \in Nat \ {0}
      BY OutputAssumption
    <3>4. QED BY <3>2, <3>3, BytesEmpty DEF Within
  <2>4. Plainly
    BY <1>2, <1>5, <1>7, <2>3
  <2>5. QED BY <1>1, <2>2, <2>4
<1>8. QED BY <1>4, <1>6, <1>7 DEF Answer

\* truncateTail() finds the tail of every text.
LEMMA TailFound == \A s \in Text : TruncateTail(s) = TailByDefinition(s)
<1> SUFFICES ASSUME NEW s \in Text, ~Fits(s) PROVE TruncateTail(s) = TailByDefinition(s)
  BY DEF TruncateTail, TailByDefinition
<1>1. s # <<>>
  <2>1. SUFFICES ASSUME s = <<>> PROVE Fits(s)
    OBVIOUS
  <2>2. Split(s) = <<<<>>>>
    BY <2>1, SplitCons
  <2>3. LinesOf(s) = Front(<<<<>>>>)
    BY <2>1, <2>2, SplitIs
  <2>4. Len(Front(<<<<>>>>)) = 0
    <3> DEFINE none == <<>>
               l == <<none>>
    <3>1. l \in Seq({none}) /\ Len(l) = 1
      OBVIOUS
    <3> HIDE DEF l
    <3>2. Front(l) = SubSeq(l, 1, 0)
      BY <3>1 DEF Front
    <3>3. Len(SubSeq(l, 1, 0)) = 0
      BY <3>1, SubSeqProperties
    <3>4. QED BY <3>2, <3>3 DEF l
  <2>5. MaxLines \in Nat \ {0} /\ MaxBytes \in Nat \ {0}
    BY OutputAssumption
  <2>6. Len(LinesOf(s)) = 0 /\ Bytes(s) = 0
    BY <2>1, <2>3, <2>4, BytesEmpty
  <2>7. QED BY <2>5, <2>6 DEF Fits
<1>2. /\ Body(s) \in Text /\ LinesOf(s) \in Seq(Plain) /\ LinesOf(s) # <<>>
      /\ Joined(LinesOf(s)) = Body(s)
  BY <1>1, LinesAre
<1>3. Answer(Body(s), Joined(Collect(LinesOf(s))))
  BY <1>2, CollectAnswers
<1>4. TailByDefinition(s) = Joined(Collect(LinesOf(s)))
  BY <1>2, <1>3, AnswerIsTail
<1>5. QED BY <1>4 DEF TruncateTail

\* The text that a result shows of the output is the longest end of it, in whole lines and
\* within both limits, or the end of its last line when not even that fits (truncateTail).
THEOREM TailCorrect == Spec => []TailAgrees
<1>1. TypeOK => TailAgrees
  <2>1. TypeOK => output \in Text
    BY DEF TypeOK, Text, Char
  <2>2. QED BY <2>1, TailFound DEF TailAgrees
<1>2. QED BY <1>1, OutputTypeCorrect, PTL
=============================================================================
