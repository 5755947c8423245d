-------------------------- MODULE LineStreamProofs --------------------------
(***************************************************************************)
(* Proofs about LineStream: that what is kept, queued and returned is what *)
(* the text polled so far means, however it was cut into frames.  A        *)
(* sequence is followed as it grows by one element: first the places in    *)
(* order, then the parts they cut, then the events that lines make up.     *)
(***************************************************************************)
EXTENDS LineStream, SequenceTheorems, Recursion, TLAPS

-----------------------------------------------------------------------------
(* Slices of the ring buffer. *)

(***************************************************************************)
(* Wherever the ring buffer wraps, the three cases of append_frame         *)
(* (sse.rs:150-160, ndjson.rs:160-170) copy the line and nothing else.     *)
(***************************************************************************)
THEOREM SliceIsTheLine ==
    ASSUME NEW S, NEW b \in Seq(S), NEW wrap \in 0..Len(b),
           NEW start \in 0..Len(b), NEW end \in start..Len(b)
    PROVE  Slice(b, wrap, start, end) = SubSeq(b, start + 1, end)
<1> DEFINE s1 == SubSeq(b, 1, wrap)
           s2 == SubSeq(b, wrap + 1, Len(b))
           line == SubSeq(b, start + 1, end)
<1>1. /\ s1 \in Seq(S) /\ Len(s1) = wrap /\ \A i \in 1..wrap : s1[i] = b[i]
  OBVIOUS
<1>2. /\ s2 \in Seq(S) /\ Len(s2) = Len(b) - wrap
      /\ \A i \in 1..(Len(b) - wrap) : s2[i] = b[wrap + i]
  OBVIOUS
<1>3. /\ line \in Seq(S) /\ Len(line) = end - start
      /\ \A i \in 1..(end - start) : line[i] = b[start + i]
  OBVIOUS
<1>4. CASE end <= wrap
  <2> DEFINE part == SubSeq(s1, start + 1, end)
  <2>1. /\ part \in Seq(S) /\ Len(part) = end - start
        /\ \A i \in 1..(end - start) : part[i] = s1[start + i]
    BY <1>1, <1>4
  <2>2. part = line
    BY <2>1, <1>1, <1>3, <1>4
  <2> QED
    BY <2>2, <1>4 DEF Slice
<1>5. CASE end > wrap /\ start >= wrap
  <2> DEFINE part == SubSeq(s2, start - wrap + 1, end - wrap)
  <2>1. /\ part \in Seq(S) /\ Len(part) = end - start
        /\ \A i \in 1..(end - start) : part[i] = s2[start - wrap + i]
    BY <1>2, <1>5
  <2>2. part = line
    BY <2>1, <1>2, <1>3, <1>5
  <2> QED
    BY <2>2, <1>5 DEF Slice
<1>6. CASE end > wrap /\ start < wrap
  <2> DEFINE left  == SubSeq(s1, start + 1, wrap)
             right == SubSeq(s2, 1, end - wrap)
  <2>1. /\ left \in Seq(S) /\ Len(left) = wrap - start
        /\ \A i \in 1..(wrap - start) : left[i] = s1[start + i]
    BY <1>1, <1>6
  <2>2. /\ right \in Seq(S) /\ Len(right) = end - wrap
        /\ \A i \in 1..(end - wrap) : right[i] = s2[i]
    BY <1>2, <1>6
  <2>3. left \o right = line
    BY <2>1, <2>2, <1>1, <1>2, <1>3, <1>6
  <2>4. ~(end <= wrap) /\ ~(start >= wrap)
    BY <1>6
  <2>5. Slice(b, wrap, start, end) = left \o right
    BY <2>4, Zenon DEF Slice
  <2> QED
    BY <2>3, <2>5
<1> QED
  BY <1>4, <1>5, <1>6
-----------------------------------------------------------------------------
(* Places in order. *)

\* InOrder is the function it recurs to.
LEMMA InOrderFacts ==
    ASSUME NEW T
    PROVE  /\ InOrder(T)[0] = <<>>
           /\ \A n \in Nat \ {0} : InOrder(T)[n] =
                  IF n \in T THEN Append(InOrder(T)[n - 1], n) ELSE InOrder(T)[n - 1]
<1> DEFINE D == Nat
           A == Seq(Nat)
           a == <<>>
           step == [n \in D |-> [q \in A |-> IF n \in T THEN Append(q, n) ELSE q]]
           order == InOrder(T)
<1>1. D \in SUBSET Nat /\ (\A n \in D : n = 0 \/ n - 1 \in D) /\ a \in A
    OBVIOUS
<1>2. step \in [D -> [A -> A]]
    OBVIOUS
<1>3. PICK f : Recurs(f, D, A, a, step)
  <2> HIDE DEF D, A, a, step
  <2> QED BY <1>1, <1>2, RecursionExists
<1>4. /\ f \in [Nat -> A] /\ f[0] = <<>>
      /\ \A n \in Nat : n # 0 => f[n] = step[n][f[n - 1]]
    BY <1>3 DEF Recurs
<1>5. ASSUME NEW n \in Nat, n # 0
      PROVE  f[n] = IF n \in T THEN Append(f[n - 1], n) ELSE f[n - 1]
  <2>1. n - 1 \in Nat /\ f[n - 1] \in A
      BY <1>4, <1>5
  <2>2. f[n] = step[n][f[n - 1]]
      BY <1>4, <1>5
  <2>3. step[n] = [q \in A |-> IF n \in T THEN Append(q, n) ELSE q]
      OBVIOUS
  <2> HIDE DEF A, step
  <2> QED BY <2>1, <2>2, <2>3
<1>6. f = [n \in Nat |-> IF n = 0 THEN <<>>
                         ELSE IF n \in T THEN Append(f[n - 1], n) ELSE f[n - 1]]
  <2>1. \A n \in Nat : f[n] = IF n = 0 THEN <<>>
                              ELSE IF n \in T THEN Append(f[n - 1], n) ELSE f[n - 1]
      BY <1>4, <1>5
  <2> QED BY <1>4, <2>1
<1>7. order = CHOOSE g : g = [n \in Nat |-> IF n = 0 THEN <<>>
                         ELSE IF n \in T THEN Append(g[n - 1], n) ELSE g[n - 1]]
    BY DEF InOrder
<1> HIDE DEF order
<1>8. order = [n \in Nat |-> IF n = 0 THEN <<>>
                             ELSE IF n \in T THEN Append(order[n - 1], n) ELSE order[n - 1]]
    BY <1>6, <1>7
<1>9. order[0] = <<>> /\ \A n \in Nat \ {0} : order[n] =
          IF n \in T THEN Append(order[n - 1], n) ELSE order[n - 1]
    BY <1>8
<1> QED BY <1>9 DEF order

LEMMA InOrderNext ==
    ASSUME NEW T, NEW n \in Nat
    PROVE  InOrder(T)[n + 1] = IF n + 1 \in T THEN Append(InOrder(T)[n], n + 1)
                               ELSE InOrder(T)[n]
<1>1. n + 1 \in Nat \ {0} /\ n + 1 - 1 = n
    OBVIOUS
<1>2. InOrder(T)[n + 1] = IF n + 1 \in T THEN Append(InOrder(T)[n + 1 - 1], n + 1)
                          ELSE InOrder(T)[n + 1 - 1]
    BY <1>1, InOrderFacts
<1> QED BY <1>1, <1>2

\* It lists members of T, in ascending order.
LEMMA InOrderType ==
    ASSUME NEW T, NEW n \in Nat
    PROVE  /\ InOrder(T)[n] \in Seq(Nat)
           /\ \A k \in 1..Len(InOrder(T)[n]) :
                  /\ InOrder(T)[n][k] \in T /\ InOrder(T)[n][k] \in 1..n
                  /\ k > 1 => InOrder(T)[n][k - 1] < InOrder(T)[n][k]
<1> DEFINE order == InOrder(T)
           Good(m) == /\ order[m] \in Seq(Nat)
                      /\ \A k \in 1..Len(order[m]) :
                             /\ order[m][k] \in T /\ order[m][k] \in 1..m
                             /\ k > 1 => order[m][k - 1] < order[m][k]
           U == {m \in Nat : Good(m)}
<1>1. /\ order[0] = <<>>
      /\ \A m \in Nat \ {0} : order[m] =
             IF m \in T THEN Append(order[m - 1], m) ELSE order[m - 1]
    BY InOrderFacts
<1> HIDE DEF order
<1>2. 0 \in U
  <2>1. order[0] \in Seq(Nat) /\ Len(order[0]) = 0
      BY <1>1
  <2> QED BY <2>1
<1>3. ASSUME NEW m \in 1..n, m - 1 \in U PROVE m \in U
  <2>1. Good(m - 1) /\ m \in Nat \ {0} /\ m - 1 \in Nat
      BY <1>3
  <2>2. CASE m \in T
    <3> DEFINE q == order[m - 1]
    <3>1. order[m] = Append(q, m) /\ q \in Seq(Nat) /\ Len(q) \in Nat
      <4>1. order[m] = Append(q, m)
          BY <1>1, <2>1, <2>2
      <4>2. q \in Seq(Nat)
          BY <2>1
      <4> QED BY <4>1, <4>2
    <3>2. /\ \A k \in 1..Len(q) : q[k] \in T /\ q[k] \in 1..(m - 1) /\ (k > 1 => q[k - 1] < q[k])
        BY <2>1
    <3> HIDE DEF q
    <3>3. /\ order[m] \in Seq(Nat) /\ Len(order[m]) = Len(q) + 1
          /\ order[m][Len(q) + 1] = m
          /\ \A k \in 1..Len(q) : order[m][k] = q[k]
        BY <2>1, <3>1
    <3>4. ASSUME NEW k \in 1..Len(order[m])
          PROVE  /\ order[m][k] \in T /\ order[m][k] \in 1..m
                 /\ k > 1 => order[m][k - 1] < order[m][k]
      <4>1. CASE k = Len(q) + 1
        <5>1. k > 1 => k - 1 \in 1..Len(q) /\ order[m][k - 1] = q[k - 1] /\ q[k - 1] \in 1..(m - 1)
            BY <3>1, <3>2, <3>3, <4>1
        <5> QED BY <2>1, <2>2, <3>3, <4>1, <5>1
      <4>2. CASE k # Len(q) + 1
        <5>1. k \in 1..Len(q) /\ order[m][k] = q[k]
            BY <3>1, <3>3, <4>2
        <5>2. k > 1 => k - 1 \in 1..Len(q) /\ order[m][k - 1] = q[k - 1]
            BY <3>1, <3>3, <5>1
        <5>3. q[k] \in T /\ q[k] \in 1..(m - 1) /\ (k > 1 => q[k - 1] < q[k])
            BY <3>2, <5>1
        <5> QED BY <2>1, <5>1, <5>2, <5>3
      <4> QED BY <4>1, <4>2
    <3> QED BY <2>1, <3>3, <3>4
  <2>3. CASE m \notin T
    <3>1. order[m] = order[m - 1]
        BY <1>1, <2>1, <2>3
    <3> QED BY <2>1, <3>1
  <2> QED BY <2>2, <2>3
<1>4. \A m \in 0..n : m \in U
  <2> HIDE DEF U
  <2> QED BY <1>2, <1>3, InductionUpTo
<1>5. n \in U
    BY <1>4
<1> QED BY <1>5 DEF order

\* Up to n, it only depends on the members up to n.
LEMMA InOrderAgrees ==
    ASSUME NEW n \in Nat, NEW T, NEW U, \A i \in 1..n : i \in T <=> i \in U
    PROVE  InOrder(T)[n] = InOrder(U)[n]
<1> DEFINE f == InOrder(T)
           g == InOrder(U)
<1>1. /\ f[0] = <<>> /\ g[0] = <<>>
      /\ \A i \in Nat \ {0} : f[i] = IF i \in T THEN Append(f[i - 1], i) ELSE f[i - 1]
      /\ \A i \in Nat \ {0} : g[i] = IF i \in U THEN Append(g[i - 1], i) ELSE g[i - 1]
    BY InOrderFacts
<1> HIDE DEF f, g
<1>2. f[0] = g[0] /\ \A i \in 1..n : f[i - 1] = g[i - 1] => f[i] = g[i]
    BY <1>1
<1>3. \A i \in 0..n : f[i] = g[i]
    BY <1>2, InStep
<1>4. f[n] = g[n]
    BY <1>3
<1> QED BY <1>4 DEF f, g

\* Where there are no members, none is listed.
LEMMA InOrderNone ==
    ASSUME NEW n \in Nat, NEW T, \A i \in 1..n : i \notin T
    PROVE  InOrder(T)[n] = <<>>
<1>1. \A k \in 1..Len(InOrder(T)[n]) : FALSE
    BY InOrderType
<1>2. InOrder(T)[n] \in Seq(Nat)
    BY InOrderType
<1> QED BY <1>1, <1>2
-----------------------------------------------------------------------------
(* Parts. *)

\* What a sequence was is a part of what it becomes.
LEMMA AppendFacts ==
    ASSUME NEW S, NEW s \in Seq(S), NEW x \in S
    PROVE  /\ Append(s, x) \in Seq(S) /\ Len(Append(s, x)) = Len(s) + 1 /\ Len(s) \in Nat
           /\ Append(s, x)[Len(s) + 1] = x
           /\ \A i \in 1..Len(s) : Append(s, x)[i] = s[i]
OBVIOUS

LEMMA AppendSlices ==
    ASSUME NEW S, NEW s \in Seq(S), NEW x \in S
    PROVE  /\ \A i \in 1..(Len(s) + 1) : \A j \in 0..Len(s) :
                  SubSeq(Append(s, x), i, j) = SubSeq(s, i, j)
           /\ \A i \in 1..(Len(s) + 1) :
                  SubSeq(Append(s, x), i, Len(s) + 1) = Append(SubSeq(s, i, Len(s)), x)
OBVIOUS

LEMMA PartsType ==
    ASSUME NEW S, NEW s \in Seq(S), NEW T
    PROVE  /\ Parts(s, T) \in Seq(Seq(S)) /\ Open(s, T) \in Seq(S)
           /\ Len(Parts(s, T)) = Len(InOrder(T)[Len(s)])
           /\ Open(s, T) = SubSeq(s, Len(s) - Len(Open(s, T)) + 1, Len(s))
<1> DEFINE ends == InOrder(T)[Len(s)]
<1>1. /\ Len(s) \in Nat /\ ends \in Seq(Nat) /\ Len(ends) \in Nat
      /\ \A k \in 1..Len(ends) : ends[k] \in 1..Len(s)
    BY InOrderType
<1>2. /\ Parts(s, T) = [k \in DOMAIN ends |->
                            SubSeq(s, IF k = 1 THEN 1 ELSE ends[k - 1] + 1, ends[k] - 1)]
      /\ Open(s, T) = SubSeq(s, IF ends = <<>> THEN 1 ELSE Last(ends) + 1, Len(s))
    BY DEF Parts, Open
<1> HIDE DEF ends
<1>3. ASSUME NEW k \in 1..Len(ends)
      PROVE  SubSeq(s, IF k = 1 THEN 1 ELSE ends[k - 1] + 1, ends[k] - 1) \in Seq(S)
  <2>1. (IF k = 1 THEN 1 ELSE ends[k - 1] + 1) \in 1..(Len(s) + 1) /\ ends[k] - 1 \in 0..Len(s)
    <3>1. k # 1 => k - 1 \in 1..Len(ends)
        BY <1>1
    <3>2. ends[k] \in 1..Len(s) /\ (k # 1 => ends[k - 1] \in 1..Len(s))
        BY <1>1, <3>1
    <3>3. \A n \in Nat : \A i \in 1..n : i + 1 \in 1..(n + 1) /\ i - 1 \in 0..n /\ 1 \in 1..(n + 1)
        OBVIOUS
    <3> QED BY <1>1, <3>2, <3>3
  <2>2. \A i \in 1..(Len(s) + 1), j \in 0..Len(s) : SubSeq(s, i, j) \in Seq(S)
      OBVIOUS
  <2> QED BY <2>1, <2>2
<1>4. Parts(s, T) \in Seq(Seq(S)) /\ Len(Parts(s, T)) = Len(ends)
  <2> DEFINE part(k) == SubSeq(s, IF k = 1 THEN 1 ELSE ends[k - 1] + 1, ends[k] - 1)
             A == Seq(S)
  <2>1. DOMAIN ends = 1..Len(ends) /\ \A k \in 1..Len(ends) : part(k) \in A
      BY <1>1, <1>3
  <2>2. Parts(s, T) = [k \in 1..Len(ends) |-> part(k)]
      BY <1>2, <2>1
  <2> HIDE DEF part, A
  <2>3. Parts(s, T) \in Seq(A) /\ Len(Parts(s, T)) = Len(ends)
      BY <1>1, <2>1, <2>2
  <2> QED BY <2>3 DEF A
<1>5. (IF ends = <<>> THEN 1 ELSE Last(ends) + 1) \in 1..(Len(s) + 1)
  <2>1. CASE ends = <<>>
      BY <1>1, <2>1
  <2>2. CASE ends # <<>>
    <3>1. Len(ends) \in 1..Len(ends) /\ Last(ends) = ends[Len(ends)]
        BY <1>1, <2>2 DEF Last
    <3> QED BY <1>1, <2>2, <3>1
  <2> QED BY <2>1, <2>2
<1>6. \A i \in 1..(Len(s) + 1) :
          /\ SubSeq(s, i, Len(s)) \in Seq(S)
          /\ Len(SubSeq(s, i, Len(s))) = Len(s) - i + 1
          /\ Len(s) - (Len(s) - i + 1) + 1 = i
    OBVIOUS
<1>7. Open(s, T) \in Seq(S) /\ Open(s, T) = SubSeq(s, Len(s) - Len(Open(s, T)) + 1, Len(s))
    BY <1>2, <1>5, <1>6
<1> QED BY <1>4, <1>7 DEF ends

\* A sequence without places has no parts and is open.
LEMMA PartsNone ==
    ASSUME NEW S, NEW s \in Seq(S), NEW T, \A i \in 1..Len(s) : i \notin T
    PROVE  Parts(s, T) = <<>> /\ Open(s, T) = s
<1>1. InOrder(T)[Len(s)] = <<>> /\ Len(s) \in Nat
    BY InOrderNone
<1>2. Parts(s, T) \in Seq(Seq(S)) /\ Len(Parts(s, T)) = 0
    BY <1>1, PartsType
<1>3. Open(s, T) = SubSeq(s, 1, Len(s))
    BY <1>1 DEF Open
<1> QED BY <1>1, <1>2, <1>3

\* One more element ends a part or makes the open one longer.
LEMMA PartsAppend ==
    ASSUME NEW S, NEW s \in Seq(S), NEW x \in S, NEW T, NEW U,
           \A i \in 1..Len(s) : i \in T <=> i \in U
    PROVE  /\ Len(s) + 1 \in U =>
                  /\ Parts(Append(s, x), U) = Append(Parts(s, T), Open(s, T))
                  /\ Open(Append(s, x), U) = <<>>
           /\ Len(s) + 1 \notin U =>
                  /\ Parts(Append(s, x), U) = Parts(s, T)
                  /\ Open(Append(s, x), U) = Append(Open(s, T), x)
<1> DEFINE t == Append(s, x)
           n == Len(s)
           p == InOrder(T)[n]
           q == InOrder(U)[n + 1]
           From(e, k) == IF k = 1 THEN 1 ELSE e[k - 1] + 1
<1>1. n \in Nat /\ t \in Seq(S) /\ Len(t) = n + 1 /\ t[n + 1] = x
    BY AppendFacts
<1>2. /\ p \in Seq(Nat) /\ Len(p) \in Nat /\ \A k \in 1..Len(p) : p[k] \in 1..n
    BY <1>1, InOrderType
<1>3. q = IF n + 1 \in U THEN Append(p, n + 1) ELSE p
  <2>1. InOrder(T)[n] = InOrder(U)[n]
      BY <1>1, InOrderAgrees
  <2>2. n + 1 \in Nat \ {0} /\ n + 1 - 1 = n
      BY <1>1
  <2> QED BY <2>1, <2>2, InOrderFacts
<1>4. /\ Parts(s, T) = [k \in DOMAIN p |-> SubSeq(s, From(p, k), p[k] - 1)]
      /\ Open(s, T) = SubSeq(s, IF p = <<>> THEN 1 ELSE Last(p) + 1, n)
    BY DEF Parts, Open
<1>5. /\ Parts(t, U) = [k \in DOMAIN q |-> SubSeq(t, From(q, k), q[k] - 1)]
      /\ Open(t, U) = SubSeq(t, IF q = <<>> THEN 1 ELSE Last(q) + 1, n + 1)
    BY <1>1 DEF Parts, Open
<1>6. ASSUME NEW k \in 1..Len(p)
      PROVE  From(p, k) \in 1..(n + 1) /\ p[k] - 1 \in 0..n
  <2> HIDE DEF n, p
  <2>1. p[k] \in 1..n /\ (k # 1 => p[k - 1] \in 1..n)
      BY <1>1, <1>2
  <2> QED BY <1>1, <2>1
<1>7. (IF p = <<>> THEN 1 ELSE Last(p) + 1) \in 1..(n + 1)
  <2>1. p # <<>> => Len(p) \in 1..Len(p) /\ Last(p) = p[Len(p)]
      BY <1>2 DEF Last
  <2> HIDE DEF p
  <2> QED BY <1>1, <1>2, <2>1
<1>8. /\ \A i \in 1..(n + 1) : \A j \in 0..n : SubSeq(t, i, j) = SubSeq(s, i, j)
      /\ \A i \in 1..(n + 1) : SubSeq(t, i, n + 1) = Append(SubSeq(s, i, n), x)
    BY AppendSlices
<1>9. Parts(s, T) \in Seq(Seq(S)) /\ Open(s, T) \in Seq(S) /\ Len(Parts(s, T)) = Len(p)
    BY PartsType
<1>10. Parts(t, U) \in Seq(Seq(S)) /\ Len(Parts(t, U)) = Len(q)
    BY <1>1, PartsType
<1> HIDE DEF t, n, p, q
<1>11. CASE n + 1 \in U
  <2>1. /\ q \in Seq(Nat) /\ Len(q) = Len(p) + 1 /\ q[Len(p) + 1] = n + 1
        /\ \A k \in 1..Len(p) : q[k] = p[k]
      BY <1>1, <1>2, <1>3, <1>11
  <2>2. Last(q) = n + 1 /\ q # <<>>
      BY <1>2, <2>1 DEF Last
  <2>3. Open(t, U) = <<>>
    <3>1. Open(t, U) = SubSeq(t, n + 2, n + 1)
        BY <1>1, <1>5, <2>2
    <3> QED BY <1>1, <3>1
  <2>4. ASSUME NEW k \in 1..Len(p)
        PROVE  Parts(t, U)[k] = Parts(s, T)[k]
    <3>1. k \in DOMAIN p /\ k \in DOMAIN q
        BY <1>2, <2>1
    <3>2. q[k] = p[k] /\ From(q, k) = From(p, k)
      <4>1. k # 1 => k - 1 \in 1..Len(p)
          BY <1>2
      <4>2. \A j \in 1..Len(p) : q[j] = p[j]
          BY <2>1
      <4>3. q[k] = p[k] /\ (k # 1 => q[k - 1] = p[k - 1])
          BY <4>1, <4>2
      <4> QED BY <4>3
    <3> HIDE DEF From
    <3>3. SubSeq(t, From(p, k), p[k] - 1) = SubSeq(s, From(p, k), p[k] - 1)
        BY <1>6, <1>8
    <3> QED BY <1>4, <1>5, <3>1, <3>2, <3>3
  <2>5. Parts(t, U)[Len(p) + 1] = Open(s, T)
    <3> DEFINE k == Len(p) + 1
    <3>1. k \in DOMAIN q /\ q[k] - 1 = n
        BY <1>1, <1>2, <2>1
    <3>2. From(q, k) = IF p = <<>> THEN 1 ELSE Last(p) + 1
      <4>1. p = <<>> <=> Len(p) = 0
          BY <1>2
      <4>2. p # <<>> => q[Len(p)] = p[Len(p)]
          BY <1>2, <2>1, <4>1
      <4> QED BY <1>2, <4>1, <4>2 DEF Last
    <3>3. Parts(t, U)[k] = SubSeq(t, From(q, k), q[k] - 1)
        BY <1>5, <3>1
    <3> HIDE DEF From, k
    <3>4. Parts(t, U)[k] = SubSeq(t, IF p = <<>> THEN 1 ELSE Last(p) + 1, n)
        BY <3>1, <3>2, <3>3
    <3>5. n \in 0..n
        BY <1>1
    <3>6. SubSeq(t, IF p = <<>> THEN 1 ELSE Last(p) + 1, n) = Open(s, T)
        BY <1>4, <1>7, <1>8, <3>5
    <3> QED BY <3>4, <3>6 DEF k
  <2>6. Parts(t, U) = Append(Parts(s, T), Open(s, T))
    <3> DEFINE a == Parts(s, T)
               b == Parts(t, U)
               o == Open(s, T)
    <3>1. /\ a \in Seq(Seq(S)) /\ b \in Seq(Seq(S)) /\ o \in Seq(S)
          /\ Len(b) = Len(a) + 1 /\ b[Len(a) + 1] = o /\ \A k \in 1..Len(a) : b[k] = a[k]
        BY <1>9, <1>10, <2>1, <2>4, <2>5
    <3> HIDE DEF a, b, o
    <3>2. b = Append(a, o)
        BY <3>1
    <3> QED BY <3>2 DEF a, b, o
  <2> QED BY <1>11, <2>3, <2>6 DEF t, n
<1>12. CASE n + 1 \notin U
  <2>1. q = p
      BY <1>3, <1>12
  <2>2. Open(t, U) = Append(Open(s, T), x)
      BY <1>4, <1>5, <1>7, <1>8, <2>1
  <2>3. Parts(t, U) = Parts(s, T)
    <3>1. ASSUME NEW k \in DOMAIN p
          PROVE  SubSeq(t, From(p, k), p[k] - 1) = SubSeq(s, From(p, k), p[k] - 1)
      <4>1. k \in 1..Len(p)
          BY <1>2
      <4> HIDE DEF From
      <4> QED BY <1>6, <1>8, <4>1
    <3> HIDE DEF From
    <3> QED BY <1>4, <1>5, <2>1, <3>1
  <2> QED BY <1>12, <2>2, <2>3 DEF t, n
<1> QED BY <1>11, <1>12 DEF n
-----------------------------------------------------------------------------
(* Lines. *)

\* What a text leaves open: its last, incomplete line.
Left(s) == Open(s, Newlines(s))

\* The initial parts of a sequence grow by one element each.
LEMMA PrefixFacts ==
    ASSUME NEW S, NEW s \in Seq(S)
    PROVE  /\ SubSeq(s, 1, 0) = <<>> /\ SubSeq(s, 1, Len(s)) = s
           /\ \A i \in 0..Len(s) : SubSeq(s, 1, i) \in Seq(S) /\ Len(SubSeq(s, 1, i)) = i
           /\ \A i \in 1..Len(s) :
                  s[i] \in S /\ SubSeq(s, 1, i) = Append(SubSeq(s, 1, i - 1), s[i])
OBVIOUS

LEMMA LinesAppend ==
    ASSUME NEW s \in Seq(Pieces), NEW x \in Pieces
    PROVE  /\ x = "nl" => /\ LinesOf(Append(s, x)) = Append(LinesOf(s), Left(s))
                          /\ Left(Append(s, x)) = <<>>
           /\ x # "nl" => /\ LinesOf(Append(s, x)) = LinesOf(s)
                          /\ Left(Append(s, x)) = Append(Left(s), x)
<1> DEFINE t == Append(s, x)
<1>1. /\ t \in Seq(Pieces) /\ Len(t) = Len(s) + 1 /\ Len(s) \in Nat /\ t[Len(s) + 1] = x
      /\ \A i \in 1..Len(s) : t[i] = s[i]
    BY AppendFacts
<1>2. /\ \A i \in 1..Len(s) : i \in Newlines(s) <=> i \in Newlines(t)
      /\ Len(s) + 1 \in Newlines(t) <=> x = "nl"
    BY <1>1 DEF Newlines
<1> DEFINE T == Newlines(s)
           U == Newlines(t)
<1>3. /\ Len(s) + 1 \in U =>
             /\ Parts(Append(s, x), U) = Append(Parts(s, T), Open(s, T))
             /\ Open(Append(s, x), U) = <<>>
      /\ Len(s) + 1 \notin U =>
             /\ Parts(Append(s, x), U) = Parts(s, T)
             /\ Open(Append(s, x), U) = Append(Open(s, T), x)
  <2>1. \A i \in 1..Len(s) : i \in T <=> i \in U
      BY <1>2
  <2> HIDE DEF T, U
  <2> QED BY <2>1, PartsAppend
<1> QED BY <1>2, <1>3 DEF LinesOf, Left

LEMMA LinesType ==
    ASSUME NEW s \in Seq(Pieces)
    PROVE  /\ LinesOf(s) \in Seq(Seq(Pieces))
           /\ Left(s) \in Seq(Pieces) /\ Left(s) \in Seq(Pieces \ {"nl"})
<1>1. LinesOf(s) \in Seq(Seq(Pieces)) /\ Left(s) \in Seq(Pieces)
    BY PartsType DEF LinesOf, Left
<1> DEFINE A == Pieces \ {"nl"}
           T == {i \in 0..Len(s) : Left(SubSeq(s, 1, i)) \in Seq(A)}
<1>2. 0 \in T
  <2>1. SubSeq(s, 1, 0) = <<>> /\ 0 \in 0..Len(s)
      BY PrefixFacts
  <2>2. Left(<<>>) = <<>>
    <3>1. <<>> \in Seq(Pieces) /\ \A i \in 1..Len(<<>>) : i \notin Newlines(<<>>)
        OBVIOUS
    <3> QED BY <3>1, PartsNone DEF Left
  <2> HIDE DEF A
  <2>3. <<>> \in Seq(A)
      OBVIOUS
  <2> QED BY <2>1, <2>2, <2>3
<1>3. ASSUME NEW i \in 1..Len(s), i - 1 \in T PROVE i \in T
  <2>1. PICK u \in Seq(Pieces), x \in Pieces :
            /\ u = SubSeq(s, 1, i - 1) /\ x = s[i]
            /\ SubSeq(s, 1, i) = Append(u, x) /\ i \in 0..Len(s)
    <3>1. SubSeq(s, 1, i - 1) \in Seq(Pieces) /\ s[i] \in Pieces
          /\ SubSeq(s, 1, i) = Append(SubSeq(s, 1, i - 1), s[i]) /\ i \in 0..Len(s)
        BY PrefixFacts
    <3> QED BY <3>1
  <2>2. Left(u) \in Seq(A)
      BY <1>3, <2>1
  <2>3. x # "nl" => x \in A
      BY <2>1
  <2> HIDE DEF A
  <2>4. Left(Append(u, x)) \in Seq(A)
    <3>1. CASE x = "nl"
      <4>1. Left(Append(u, x)) = <<>>
          BY <3>1, LinesAppend
      <4> QED BY <4>1
    <3>2. CASE x # "nl"
      <4>1. Left(Append(u, x)) = Append(Left(u), x)
          BY <3>2, LinesAppend
      <4> QED BY <2>2, <2>3, <3>2, <4>1
    <3> QED BY <3>1, <3>2
  <2> QED BY <2>1, <2>4
<1>4. Len(s) \in Nat
    OBVIOUS
<1>5. \A i \in 0..Len(s) : i \in T
  <2> HIDE DEF T
  <2> QED BY <1>2, <1>3, <1>4, InductionUpTo
<1>6. Left(SubSeq(s, 1, Len(s))) \in Seq(A)
    BY <1>4, <1>5
<1> QED BY <1>1, <1>6, PrefixFacts

\* What is left open has no line yet.
LEMMA LeftIsLeft ==
    ASSUME NEW s \in Seq(Pieces \ {"nl"})
    PROVE  s \in Seq(Pieces) /\ LinesOf(s) = <<>> /\ Left(s) = s
<1>1. s \in Seq(Pieces) /\ \A i \in 1..Len(s) : s[i] # "nl"
    OBVIOUS
<1>2. \A i \in 1..Len(s) : i \notin Newlines(s)
    BY <1>1 DEF Newlines
<1> QED BY <1>1, <1>2, PartsNone DEF LinesOf, Left

\* To read on, it is enough to know what was left open.
LEMMA ReadOn ==
    ASSUME NEW s \in Seq(Pieces), NEW d \in Seq(Pieces)
    PROVE  /\ LinesOf(s \o d) = LinesOf(s) \o LinesOf(Left(s) \o d)
           /\ Left(s \o d) = Left(Left(s) \o d)
<1> DEFINE D(i) == SubSeq(d, 1, i)
           T == {i \in 0..Len(d) :
                     /\ LinesOf(s \o D(i)) = LinesOf(s) \o LinesOf(Left(s) \o D(i))
                     /\ Left(s \o D(i)) = Left(Left(s) \o D(i))}
<1>1. /\ LinesOf(s) \in Seq(Seq(Pieces))
      /\ Left(s) \in Seq(Pieces) /\ Left(s) \in Seq(Pieces \ {"nl"})
    BY LinesType
<1>2. 0 \in T
  <2>1. D(0) = <<>> /\ 0 \in 0..Len(d)
      BY PrefixFacts
  <2>2. s \o <<>> = s /\ Left(s) \o <<>> = Left(s)
      BY <1>1
  <2>3. LinesOf(s) = LinesOf(s) \o LinesOf(Left(s)) /\ Left(s) = Left(Left(s))
    <3>1. LinesOf(Left(s)) = <<>> /\ Left(Left(s)) = Left(s)
        BY <1>1, LeftIsLeft
    <3> QED BY <1>1, <3>1
  <2> HIDE DEF D
  <2> QED BY <2>1, <2>2, <2>3
<1>3. ASSUME NEW i \in 1..Len(d), i - 1 \in T PROVE i \in T
  <2> DEFINE u == s \o D(i - 1)
             v == Left(s) \o D(i - 1)
  <2>1. PICK x \in Pieces :
            /\ D(i - 1) \in Seq(Pieces) /\ D(i) = Append(D(i - 1), x) /\ i \in 0..Len(d)
    <3>1. d[i] \in Pieces
        BY PrefixFacts
    <3>2. D(i - 1) \in Seq(Pieces) /\ D(i) = Append(D(i - 1), d[i]) /\ i \in 0..Len(d)
        BY PrefixFacts
    <3> QED BY <3>1, <3>2
  <2>2. LinesOf(u) = LinesOf(s) \o LinesOf(v) /\ Left(u) = Left(v)
      BY <1>3
  <2> HIDE DEF D
  <2>3. /\ u \in Seq(Pieces) /\ s \o D(i) = Append(u, x)
        /\ v \in Seq(Pieces) /\ Left(s) \o D(i) = Append(v, x)
    <3>1. \A a, b \in Seq(Pieces) : \A y \in Pieces :
              a \o b \in Seq(Pieces) /\ a \o Append(b, y) = Append(a \o b, y)
        OBVIOUS
    <3>2. s \in Seq(Pieces) /\ Left(s) \in Seq(Pieces)
        BY <1>1
    <3>3. PICK e \in Seq(Pieces), h \in Seq(Pieces) :
              e = D(i - 1) /\ h = Left(s) /\ D(i) = Append(e, x)
        BY <2>1, <3>2
    <3>4. /\ s \o e \in Seq(Pieces) /\ s \o Append(e, x) = Append(s \o e, x)
          /\ h \o e \in Seq(Pieces) /\ h \o Append(e, x) = Append(h \o e, x)
        BY <3>1
    <3> QED BY <3>3, <3>4
  <2> HIDE DEF u, v
  <2>4. /\ LinesOf(s) \in Seq(Seq(Pieces)) /\ LinesOf(v) \in Seq(Seq(Pieces))
        /\ Left(v) \in Seq(Pieces)
      BY <1>1, <2>3, LinesType
  <2>5. CASE x = "nl"
    <3>1. LinesOf(Append(u, x)) = Append(LinesOf(u), Left(u)) /\ Left(Append(u, x)) = <<>>
        BY <2>3, <2>5, LinesAppend
    <3>2. LinesOf(Append(v, x)) = Append(LinesOf(v), Left(v)) /\ Left(Append(v, x)) = <<>>
        BY <2>3, <2>5, LinesAppend
    <3>3. \A a, b \in Seq(Seq(Pieces)) : \A y \in Seq(Pieces) :
              a \o Append(b, y) = Append(a \o b, y)
      <4> DEFINE A == Seq(Pieces)
      <4> HIDE DEF A
      <4>1. \A a, b \in Seq(A) : \A y \in A : a \o Append(b, y) = Append(a \o b, y)
          OBVIOUS
      <4> QED BY <4>1 DEF A
    <3>4. LinesOf(s) \o Append(LinesOf(v), Left(v)) = Append(LinesOf(s) \o LinesOf(v), Left(v))
        BY <2>4, <3>3
    <3> QED BY <2>1, <2>2, <2>3, <3>1, <3>2, <3>4
  <2>6. CASE x # "nl"
    <3>1. LinesOf(Append(u, x)) = LinesOf(u) /\ Left(Append(u, x)) = Append(Left(u), x)
        BY <2>3, <2>6, LinesAppend
    <3>2. LinesOf(Append(v, x)) = LinesOf(v) /\ Left(Append(v, x)) = Append(Left(v), x)
        BY <2>3, <2>6, LinesAppend
    <3> QED BY <2>1, <2>2, <2>3, <3>1, <3>2
  <2> QED BY <2>5, <2>6
<1>4. Len(d) \in Nat
    OBVIOUS
<1>5. \A i \in 0..Len(d) : i \in T
  <2> HIDE DEF T
  <2> QED BY <1>2, <1>3, <1>4, InductionUpTo
<1>6. /\ LinesOf(s \o D(Len(d))) = LinesOf(s) \o LinesOf(Left(s) \o D(Len(d)))
      /\ Left(s \o D(Len(d))) = Left(Left(s) \o D(Len(d)))
    BY <1>4, <1>5
<1>7. D(Len(d)) = d
    BY PrefixFacts
<1> HIDE DEF D
<1> QED BY <1>6, <1>7

-----------------------------------------------------------------------------
(* What append_frame takes out of the buffer, and what it leaves there. *)

(***************************************************************************)
(* Looking for newlines in the new frame only, append_frame finds the      *)
(* lines of all the buffer, and keeps what they leave open (sse.rs:129-    *)
(* 171, ndjson.rs:139-181).                                                *)
(***************************************************************************)
THEOREM LinesOfTheBuffer ==
    ASSUME NEW old \in Seq(Pieces \ {"nl"}), NEW d \in Seq(Pieces),
           NEW wrap \in 0..Len(old \o d)
    PROVE  /\ Lines(old \o d, Len(old), wrap) = LinesOf(old \o d)
           /\ Rest(old \o d, Len(old)) = Left(old \o d)
<1>1. PICK b \in Seq(Pieces), n \in Nat, m \in Nat :
          /\ b = old \o d /\ n = Len(b) /\ m = Len(old) /\ m <= n
          /\ \A i \in 1..m : b[i] # "nl"
  <2>1. /\ old \o d \in Seq(Pieces) /\ Len(old \o d) \in Nat /\ Len(old) \in Nat
        /\ Len(old) <= Len(old \o d)
        /\ \A i \in 1..Len(old) : (old \o d)[i] = old[i] /\ old[i] # "nl"
      OBVIOUS
  <2> QED BY <2>1
<1> DEFINE ends == InOrder(Newlines(b))[n]
<1>2. NewEnds(b, m) = ends
  <2> DEFINE T == {i \in (m + 1)..Len(b) : b[i] = "nl"}
             U == Newlines(b)
  <2>1. \A i \in 1..n : i \in T <=> i \in U
      BY <1>1 DEF Newlines
  <2>2. NewEnds(b, m) = InOrder(T)[n]
      BY <1>1 DEF NewEnds
  <2> HIDE DEF T, U
  <2>3. InOrder(T)[n] = InOrder(U)[n]
      BY <2>1, InOrderAgrees
  <2> QED BY <2>2, <2>3 DEF U
<1>3. /\ ends \in Seq(Nat) /\ Len(ends) \in Nat
      /\ \A k \in 1..Len(ends) :
             ends[k] \in 1..n /\ (k > 1 => ends[k - 1] < ends[k])
    BY InOrderType
<1>4. /\ LinesOf(b) = [k \in DOMAIN ends |->
                           SubSeq(b, IF k = 1 THEN 1 ELSE ends[k - 1] + 1, ends[k] - 1)]
      /\ Left(b) = SubSeq(b, IF ends = <<>> THEN 1 ELSE Last(ends) + 1, n)
    BY <1>1 DEF LinesOf, Left, Parts, Open
<1>5. /\ Lines(b, m, wrap) = [k \in DOMAIN ends |->
                   Slice(b, wrap, IF k = 1 THEN 0 ELSE ends[k - 1], ends[k] - 1)]
      /\ Rest(b, m) = IF ends = <<>> THEN b ELSE SubSeq(b, Last(ends) + 1, n)
    BY <1>1, <1>2 DEF Lines, Rest
<1> HIDE DEF ends
<1>6. ASSUME NEW k \in DOMAIN ends
      PROVE  Slice(b, wrap, IF k = 1 THEN 0 ELSE ends[k - 1], ends[k] - 1)
                 = SubSeq(b, IF k = 1 THEN 1 ELSE ends[k - 1] + 1, ends[k] - 1)
  <2>1. PICK start \in 0..n, end \in 0..n :
            /\ start <= end /\ start = IF k = 1 THEN 0 ELSE ends[k - 1]
            /\ end = ends[k] - 1
            /\ start + 1 = IF k = 1 THEN 1 ELSE ends[k - 1] + 1
    <3>1. k \in 1..Len(ends) /\ (k # 1 => k > 1 /\ k - 1 \in 1..Len(ends))
        BY <1>3
    <3>2. ends[k] \in 1..n /\ (k # 1 => ends[k - 1] \in 1..n /\ ends[k - 1] < ends[k])
        BY <1>3, <3>1
    <3> DEFINE from == IF k = 1 THEN 0 ELSE ends[k - 1]
               to == ends[k] - 1
    <3>3. from \in 0..n /\ to \in 0..n /\ from <= to /\ from + 1 = IF k = 1 THEN 1 ELSE ends[k - 1] + 1
      <4>1. CASE k = 1
          BY <3>2, <4>1
      <4>2. CASE k # 1
        <5>1. ends[k] \in 1..n /\ ends[k - 1] \in 1..n /\ ends[k - 1] < ends[k]
            BY <3>2, <4>2
        <5>2. from = ends[k - 1] /\ to = ends[k] - 1
            BY <4>2
        <5> QED BY <4>2, <5>1, <5>2
      <4> QED BY <4>1, <4>2
    <3>4. from = (IF k = 1 THEN 0 ELSE ends[k - 1]) /\ to = ends[k] - 1
        OBVIOUS
    <3> HIDE DEF from, to
    <3> QED BY <3>3, <3>4
  <2>2. Slice(b, wrap, start, end) = SubSeq(b, start + 1, end)
    <3>1. wrap \in 0..Len(b) /\ start \in 0..Len(b) /\ end \in start..Len(b)
        BY <1>1, <2>1
    <3> QED BY <3>1, SliceIsTheLine
  <2> QED BY <2>1, <2>2
<1>7. Lines(b, m, wrap) = LinesOf(b)
    BY <1>4, <1>5, <1>6
<1>8. SubSeq(b, 1, n) = b
    BY <1>1, PrefixFacts
<1>9. Rest(b, m) = Left(b)
    BY <1>4, <1>5, <1>8
<1> QED BY <1>1, <1>7, <1>9

-----------------------------------------------------------------------------
(* Fields and events. *)

\* What a line says, if it names a field.
Names(l, field) == TrimEnd(l) # <<>> /\ Head(TrimEnd(l)) = field
Value(l) == TrimStart(Tail(TrimEnd(l)))

AllLines == Seq(Pieces)
AllValues == {Value(l) : l \in AllLines}
AllEvents == {EventOf(lines) : lines \in Seq(AllLines)}

\* The least number of a set is its minimum.
LEMMA MinIsLeast ==
    ASSUME NEW T \in SUBSET Nat, NEW m \in T, \A y \in T : m <= y
    PROVE  Min(T) = m
<1>1. Min(T) \in T /\ \A y \in T : Min(T) <= y
    BY DEF Min
<1>2. Min(T) <= m /\ m <= Min(T) /\ Min(T) \in Nat /\ m \in Nat
    BY <1>1
<1> QED BY <1>2

LEMMA ValuesAppend ==
    ASSUME NEW lines \in Seq(AllLines), NEW l \in AllLines, NEW field
    PROVE  /\ ValuesOf(lines, field) \in Seq(AllValues)
           /\ ValuesOf(Append(lines, l), field) =
                  IF Names(l, field) THEN Append(ValuesOf(lines, field), Value(l))
                  ELSE ValuesOf(lines, field)
<1> DEFINE t == Append(lines, l)
           n == Len(lines)
           T == {k \in DOMAIN lines : Names(lines[k], field)}
           U == {k \in DOMAIN t : Names(t[k], field)}
           p == InOrder(T)[n]
           q == InOrder(U)[n + 1]
<1> HIDE DEF AllLines
<1>1. /\ n \in Nat /\ t \in Seq(AllLines) /\ Len(t) = n + 1 /\ t[n + 1] = l
      /\ \A k \in 1..n : t[k] = lines[k]
    BY AppendFacts
<1>2. ValuesOf(lines, field) = [k \in DOMAIN p |-> Value(lines[p[k]])]
    BY DEF ValuesOf, Value, Names
<1>3. ValuesOf(t, field) = [k \in DOMAIN q |-> Value(t[q[k]])]
    BY <1>1 DEF ValuesOf, Value, Names
<1>4. (\A i \in 1..n : i \in T <=> i \in U) /\ (n + 1 \in U <=> Names(l, field))
    BY <1>1
<1>5. /\ p \in Seq(Nat) /\ Len(p) \in Nat
      /\ \A k \in 1..Len(p) : p[k] \in T /\ p[k] \in 1..n
    BY <1>1, InOrderType
<1>6. q = IF n + 1 \in U THEN Append(p, n + 1) ELSE p
  <2> HIDE DEF T, U, n
  <2>1. InOrder(T)[n] = InOrder(U)[n]
      BY <1>1, <1>4, InOrderAgrees
  <2>2. InOrder(U)[n + 1] = IF n + 1 \in U THEN Append(InOrder(U)[n], n + 1)
                            ELSE InOrder(U)[n]
      BY <1>1, InOrderNext
  <2> QED BY <2>1, <2>2
<1>7. \A k \in 1..Len(p) : lines[p[k]] \in AllLines /\ t[p[k]] = lines[p[k]]
  <2>1. \A i \in 1..n : lines[i] \in AllLines
      OBVIOUS
  <2> HIDE DEF t, n, p
  <2> QED BY <1>1, <1>5, <2>1
<1> HIDE DEF t, n, T, U, p, q
<1>8. ValuesOf(lines, field) \in Seq(AllValues) /\ Len(ValuesOf(lines, field)) = Len(p)
  <2>1. \A k \in 1..Len(p) : Value(lines[p[k]]) \in AllValues
      BY <1>7 DEF AllValues
  <2>2. ValuesOf(lines, field) = [k \in 1..Len(p) |-> Value(lines[p[k]])]
      BY <1>2, <1>5
  <2> QED BY <1>5, <2>1, <2>2
<1>9. CASE n + 1 \in U
  <2>1. q = Append(p, n + 1)
      BY <1>6, <1>9
  <2>2. /\ DOMAIN q = 1..(Len(p) + 1) /\ q[Len(p) + 1] = n + 1
        /\ \A k \in 1..Len(p) : q[k] = p[k]
      BY <1>1, <1>5, <2>1
  <2>3. PICK v \in Seq(AllValues), x \in AllValues :
            /\ v = ValuesOf(lines, field) /\ x = Value(l) /\ Len(v) = Len(p)
            /\ \A k \in 1..Len(p) : v[k] = Value(lines[p[k]])
    <3>1. Value(l) \in AllValues
        BY DEF AllValues
    <3>2. \A k \in 1..Len(p) : ValuesOf(lines, field)[k] = Value(lines[p[k]])
        BY <1>2, <1>5
    <3> QED BY <1>8, <3>1, <3>2
  <2>4. /\ Append(v, x) = [k \in 1..(Len(p) + 1) |-> Append(v, x)[k]]
        /\ Append(v, x)[Len(p) + 1] = x
        /\ \A k \in 1..Len(p) : Append(v, x)[k] = v[k]
    <3>1. /\ Append(v, x) \in Seq(AllValues) /\ Len(Append(v, x)) = Len(v) + 1
          /\ Append(v, x)[Len(v) + 1] = x
          /\ \A k \in 1..Len(v) : Append(v, x)[k] = v[k]
        BY AppendFacts
    <3>2. \A w \in Seq(AllValues) : w = [k \in 1..Len(w) |-> w[k]]
        OBVIOUS
    <3>3. Append(v, x) = [k \in 1..Len(Append(v, x)) |-> Append(v, x)[k]]
        BY <3>1, <3>2
    <3> QED BY <2>3, <3>1, <3>3
  <2>5. ASSUME NEW k \in 1..(Len(p) + 1) PROVE Value(t[q[k]]) = Append(v, x)[k]
    <3>1. CASE k = Len(p) + 1
        BY <1>1, <2>2, <2>3, <2>4, <3>1
    <3>2. CASE k # Len(p) + 1
      <4>1. k \in 1..Len(p)
          BY <1>5, <3>2
      <4> QED BY <1>7, <2>2, <2>3, <2>4, <4>1
    <3> QED BY <3>1, <3>2
  <2>6. ValuesOf(t, field) = Append(v, x)
      BY <1>3, <2>2, <2>4, <2>5
  <2> QED BY <1>4, <1>8, <1>9, <2>3, <2>6 DEF t
<1>10. CASE n + 1 \notin U
  <2>1. q = p /\ DOMAIN p = 1..Len(p)
      BY <1>5, <1>6, <1>10
  <2>2. ValuesOf(t, field) = ValuesOf(lines, field)
      BY <1>2, <1>3, <1>7, <2>1
  <2> QED BY <1>4, <1>8, <1>10, <2>2 DEF t
<1> QED BY <1>9, <1>10

LEMMA LastAppend ==
    ASSUME NEW S, NEW v \in Seq(S), NEW x \in S
    PROVE  LastOf(Append(v, x)) = <<x>>
<1>1. Append(v, x) # <<>> /\ Len(Append(v, x)) = Len(v) + 1 /\ Append(v, x)[Len(v) + 1] = x
    OBVIOUS
<1> QED BY <1>1 DEF LastOf, Last

LEMMA JoinedAppend ==
    ASSUME NEW S, NEW v \in Seq(S), NEW x \in S
    PROVE  Joined(Append(v, x)) =
               IF Joined(v) = <<>> /\ x = <<>> THEN <<>> ELSE Append(Joined(v), x)
<1> DEFINE t == Append(v, x)
           n == Len(v)
           T == {k \in DOMAIN v : v[k] # <<>>}
           U == {k \in DOMAIN t : t[k] # <<>>}
<1>1. /\ n \in Nat /\ Len(t) = n + 1 /\ DOMAIN v = 1..n /\ DOMAIN t = 1..(n + 1)
      /\ t[n + 1] = x /\ \A k \in 1..n : t[k] = v[k]
    BY AppendFacts
<1>2. /\ T \subseteq 1..n /\ T \subseteq U /\ U \subseteq T \cup {n + 1}
      /\ n + 1 \in U <=> x # <<>>
    BY <1>1
<1>3. /\ Joined(v) = IF T = {} THEN <<>> ELSE SubSeq(v, Min(T), n)
      /\ Joined(t) = IF U = {} THEN <<>> ELSE SubSeq(t, Min(U), n + 1)
    BY <1>1 DEF Joined
<1>4. \A i \in 1..(n + 1) : SubSeq(t, i, n + 1) = Append(SubSeq(v, i, n), x)
    BY AppendSlices
<1>5. \A i \in 1..n : SubSeq(v, i, n) # <<>>
  <2>1. \A i \in 1..n : Len(SubSeq(v, i, n)) = n - i + 1
      OBVIOUS
  <2>2. \A i \in 1..n : n - i + 1 # 0
      BY <1>1
  <2> QED BY <2>1, <2>2
<1>6. SubSeq(v, n + 1, n) = <<>>
    BY <1>1
<1> HIDE DEF t, n, T, U
<1>7. CASE T = {} /\ x = <<>>
    BY <1>2, <1>3, <1>7 DEF t
<1>8. CASE T = {} /\ x # <<>>
  <2>1. U \subseteq Nat /\ n + 1 \in U /\ \A y \in U : n + 1 <= y
      BY <1>1, <1>2, <1>8
  <2>2. Min(U) = n + 1
      BY <2>1, MinIsLeast
  <2>3. Joined(t) = Append(<<>>, x)
    <3>1. Joined(t) = SubSeq(t, n + 1, n + 1)
        BY <1>3, <2>1, <2>2
    <3>2. n + 1 \in 1..(n + 1)
        BY <1>1
    <3>3. SubSeq(t, n + 1, n + 1) = Append(SubSeq(v, n + 1, n), x)
        BY <1>4, <3>2
    <3> QED BY <1>6, <3>1, <3>3
  <2> QED BY <1>3, <1>8, <2>3 DEF t
<1>9. CASE T # {}
  <2>1. PICK m \in T : \A y \in T : m <= y
    <3>1. T \in SUBSET Nat
        BY <1>1, <1>2
    <3> QED BY <1>9, <3>1, LeastNumber
  <2>2. m \in 1..n /\ T \subseteq Nat /\ U \subseteq Nat /\ m \in U /\ \A y \in U : m <= y
      BY <1>1, <1>2, <2>1
  <2>3. Min(T) = m /\ Min(U) = m
      BY <2>1, <2>2, MinIsLeast
  <2>4. Joined(v) = SubSeq(v, m, n) /\ Joined(t) = SubSeq(t, m, n + 1)
      BY <1>3, <1>9, <2>2, <2>3
  <2>5. m \in 1..(n + 1)
      BY <1>1, <2>2
  <2> QED BY <1>4, <1>5, <2>2, <2>4, <2>5 DEF t
<1> QED BY <1>7, <1>8, <1>9

\* One more line without the end of an event adds to the last event, ...
LEMMA EventAppend ==
    ASSUME NEW lines \in Seq(AllLines), NEW l \in AllLines
    PROVE  EventOf(Append(lines, l)) =
               [id |-> IF Names(l, "id:") THEN <<Value(l)>> ELSE EventOf(lines).id,
                event |-> IF Names(l, "event:") THEN <<Value(l)>> ELSE EventOf(lines).event,
                data |-> IF Names(l, "data:")
                         THEN IF EventOf(lines).data = <<>> /\ Value(l) = <<>> THEN <<>>
                              ELSE Append(EventOf(lines).data, Value(l))
                         ELSE EventOf(lines).data]
<1> DEFINE t == Append(lines, l)
           v(field) == ValuesOf(lines, field)
           w(field) == ValuesOf(t, field)
<1>1. Value(l) \in AllValues
    BY DEF AllValues
<1>2. \A field : /\ v(field) \in Seq(AllValues)
                 /\ w(field) = IF Names(l, field) THEN Append(v(field), Value(l))
                               ELSE v(field)
    BY ValuesAppend
<1>3. /\ EventOf(lines) = [id |-> LastOf(v("id:")), event |-> LastOf(v("event:")),
                           data |-> Joined(v("data:"))]
      /\ EventOf(t) = [id |-> LastOf(w("id:")), event |-> LastOf(w("event:")),
                       data |-> Joined(w("data:"))]
    BY DEF EventOf
<1> HIDE DEF t, v, w
<1>4. \A field : LastOf(w(field)) = IF Names(l, field) THEN <<Value(l)>> ELSE LastOf(v(field))
    BY <1>1, <1>2, LastAppend
<1>5. Joined(w("data:")) = IF Names(l, "data:")
                           THEN IF Joined(v("data:")) = <<>> /\ Value(l) = <<>> THEN <<>>
                                ELSE Append(Joined(v("data:")), Value(l))
                           ELSE Joined(v("data:"))
    BY <1>1, <1>2, JoinedAppend
<1>6. EventOf(t) = [id |-> IF Names(l, "id:") THEN <<Value(l)>> ELSE LastOf(v("id:")),
                    event |-> IF Names(l, "event:") THEN <<Value(l)>> ELSE LastOf(v("event:")),
                    data |-> IF Names(l, "data:")
                             THEN IF Joined(v("data:")) = <<>> /\ Value(l) = <<>> THEN <<>>
                                  ELSE Append(Joined(v("data:")), Value(l))
                             ELSE Joined(v("data:"))]
  <2>1. LastOf(w("id:")) = IF Names(l, "id:") THEN <<Value(l)>> ELSE LastOf(v("id:"))
      BY <1>4
  <2>2. LastOf(w("event:")) = IF Names(l, "event:") THEN <<Value(l)>> ELSE LastOf(v("event:"))
      BY <1>4
  <2> QED BY <1>3, <1>5, <2>1, <2>2
<1>7. /\ EventOf(lines).id = LastOf(v("id:")) /\ EventOf(lines).event = LastOf(v("event:"))
      /\ EventOf(lines).data = Joined(v("data:"))
    BY <1>3
<1> QED BY <1>6, <1>7 DEF t

\* ... and there is none in no lines.
LEMMA EventOfNone == EventOf(<<>>) = NoEvent
<1>1. ASSUME NEW field PROVE ValuesOf(<<>>, field) = <<>>
  <2> DEFINE T == {k \in DOMAIN <<>> : Names(<<>>[k], field)}
  <2>1. ValuesOf(<<>>, field) = [k \in DOMAIN InOrder(T)[0] |-> Value(<<>>[InOrder(T)[0][k]])]
      BY DEF ValuesOf, Names, Value
  <2> HIDE DEF T
  <2>2. InOrder(T)[0] = <<>>
      BY InOrderFacts
  <2> QED BY <2>1, <2>2
<1>2. LastOf(<<>>) = <<>> /\ Joined(<<>>) = <<>>
    BY DEF LastOf, Joined
<1> QED BY <1>1, <1>2 DEF EventOf, NoEvent

\* A function applied to each element of a sequence.
LEMMA EachAppend ==
    ASSUME NEW A, NEW B, NEW f \in [A -> B], NEW p \in Seq(A), NEW x \in A
    PROVE  /\ [k \in DOMAIN p |-> f[p[k]]] \in Seq(B)
           /\ [k \in DOMAIN Append(p, x) |-> f[Append(p, x)[k]]]
                  = Append([k \in DOMAIN p |-> f[p[k]]], f[x])
OBVIOUS

\* The lines since the last blank one.
Since(lines) == Open(lines, Blank(lines))

LEMMA BlankAppend ==
    ASSUME NEW lines \in Seq(AllLines), NEW l \in AllLines
    PROVE  /\ Parts(lines, Blank(lines)) \in Seq(Seq(AllLines))
           /\ Since(lines) \in Seq(AllLines)
           /\ TrimEnd(l) = <<>> =>
                  /\ Parts(Append(lines, l), Blank(Append(lines, l)))
                         = Append(Parts(lines, Blank(lines)), Since(lines))
                  /\ Since(Append(lines, l)) = <<>>
           /\ TrimEnd(l) # <<>> =>
                  /\ Parts(Append(lines, l), Blank(Append(lines, l)))
                         = Parts(lines, Blank(lines))
                  /\ Since(Append(lines, l)) = Append(Since(lines), l)
<1> DEFINE t == Append(lines, l)
           T == Blank(lines)
           U == Blank(t)
<1>1. /\ Len(lines) \in Nat /\ Len(t) = Len(lines) + 1 /\ t \in Seq(AllLines)
      /\ t[Len(lines) + 1] = l /\ \A i \in 1..Len(lines) : t[i] = lines[i]
  <2> HIDE DEF AllLines
  <2> QED BY AppendFacts
<1>2. /\ \A i \in 1..Len(lines) : i \in T <=> i \in U
      /\ Len(lines) + 1 \in U <=> TrimEnd(l) = <<>>
  <2> HIDE DEF AllLines
  <2> QED BY <1>1 DEF Blank
<1>3. /\ Len(lines) + 1 \in U =>
             /\ Parts(Append(lines, l), U) = Append(Parts(lines, T), Open(lines, T))
             /\ Open(Append(lines, l), U) = <<>>
      /\ Len(lines) + 1 \notin U =>
             /\ Parts(Append(lines, l), U) = Parts(lines, T)
             /\ Open(Append(lines, l), U) = Append(Open(lines, T), l)
  <2>1. \A i \in 1..Len(lines) : i \in T <=> i \in U
      BY <1>2
  <2> HIDE DEF T, U, AllLines
  <2> QED BY <2>1, PartsAppend
<1>4. Parts(lines, T) \in Seq(Seq(AllLines)) /\ Open(lines, T) \in Seq(AllLines)
  <2> HIDE DEF T, AllLines
  <2> QED BY PartsType
<1> HIDE DEF AllLines
<1> QED BY <1>2, <1>3, <1>4 DEF Since

\* A blank line ends an event, which may have no fields.
LEMMA EventsAppend ==
    ASSUME NEW lines \in Seq(AllLines), NEW l \in AllLines
    PROVE  /\ EventsOf(lines) \in Seq(AllEvents)
           /\ EventOf(Since(lines)) \in AllEvents
           /\ TrimEnd(l) = <<>> =>
                  /\ EventsOf(Append(lines, l)) = Append(EventsOf(lines), EventOf(Since(lines)))
                  /\ EventOf(Since(Append(lines, l))) = NoEvent
           /\ TrimEnd(l) # <<>> =>
                  /\ EventsOf(Append(lines, l)) = EventsOf(lines)
                  /\ Since(Append(lines, l)) = Append(Since(lines), l)
<1> DEFINE t == Append(lines, l)
           p == Parts(lines, Blank(lines))
           q == Parts(t, Blank(t))
           A == Seq(AllLines)
           f == [x \in A |-> EventOf(x)]
<1>1. f \in [A -> AllEvents] /\ p \in Seq(A) /\ Since(lines) \in A
    BY BlankAppend DEF AllEvents
<1>2. /\ TrimEnd(l) = <<>> => q = Append(p, Since(lines)) /\ Since(t) = <<>>
      /\ TrimEnd(l) # <<>> => q = p /\ Since(t) = Append(Since(lines), l)
    BY BlankAppend
<1>3. /\ EventsOf(lines) = [k \in DOMAIN p |-> EventOf(p[k])]
      /\ EventsOf(t) = [k \in DOMAIN q |-> EventOf(q[k])]
    BY DEF EventsOf
<1>4. \A x \in A : f[x] = EventOf(x)
    OBVIOUS
<1> HIDE DEF t, p, q, A, f
<1>5. EventsOf(lines) = [k \in DOMAIN p |-> f[p[k]]]
  <2>1. \A k \in DOMAIN p : p[k] \in A
      BY <1>1
  <2> QED BY <1>3, <1>4, <2>1
<1>6. EventsOf(lines) \in Seq(AllEvents) /\ EventOf(Since(lines)) \in AllEvents
  <2>1. [k \in DOMAIN p |-> f[p[k]]] \in Seq(AllEvents)
      BY <1>1, EachAppend
  <2>2. f[Since(lines)] \in AllEvents
      BY <1>1
  <2> QED BY <1>1, <1>4, <1>5, <2>1, <2>2
<1>7. CASE TrimEnd(l) = <<>>
  <2>1. q = Append(p, Since(lines)) /\ Since(t) = <<>>
      BY <1>2, <1>7
  <2>2. [k \in DOMAIN q |-> f[q[k]]] = Append([k \in DOMAIN p |-> f[p[k]]], f[Since(lines)])
      BY <1>1, <2>1, EachAppend
  <2>3. q \in Seq(A)
      BY <1>1, <2>1
  <2>4. EventsOf(t) = [k \in DOMAIN q |-> f[q[k]]]
    <3>1. \A k \in DOMAIN q : q[k] \in A
        BY <2>3
    <3> QED BY <1>3, <1>4, <3>1
  <2>5. EventsOf(t) = Append(EventsOf(lines), EventOf(Since(lines)))
      BY <1>1, <1>4, <1>5, <2>2, <2>4
  <2>6. EventOf(Since(t)) = NoEvent
      BY <2>1, EventOfNone
  <2> QED BY <1>6, <1>7, <2>5, <2>6 DEF t
<1>8. CASE TrimEnd(l) # <<>>
  <2>1. q = p /\ Since(t) = Append(Since(lines), l)
      BY <1>2, <1>8
  <2>2. EventsOf(t) = EventsOf(lines)
      BY <1>3, <2>1
  <2> QED BY <1>6, <1>8, <2>1, <2>2 DEF t
<1> QED BY <1>7, <1>8

-----------------------------------------------------------------------------
(* The state of a stream, line by line. *)

AllItems == AllEvents \cup {Deserialize(l) : l \in AllLines}

LEMMA ItemsAppend ==
    ASSUME NEW lines \in Seq(AllLines), NEW l \in AllLines
    PROVE  /\ Items(lines) \in Seq(AllItems)
           /\ format = "sse" =>
                  Items(Append(lines, l)) = IF TrimEnd(l) # <<>> THEN Items(lines)
                                            ELSE Append(Items(lines), EventOf(Since(lines)))
           /\ format # "sse" => Items(Append(lines, l)) = Append(Items(lines), Deserialize(l))
           /\ EventOf(Since(lines)) \in AllItems /\ Deserialize(l) \in AllItems
<1> DEFINE t == Append(lines, l)
           B == {Deserialize(x) : x \in AllLines}
           f == [x \in AllLines |-> Deserialize(x)]
<1>1. /\ EventsOf(lines) \in Seq(AllEvents) /\ EventOf(Since(lines)) \in AllEvents
      /\ EventsOf(t) = IF TrimEnd(l) # <<>> THEN EventsOf(lines)
                       ELSE Append(EventsOf(lines), EventOf(Since(lines)))
    BY EventsAppend
<1>2. f \in [AllLines -> B] /\ \A x \in AllLines : f[x] = Deserialize(x) /\ Deserialize(x) \in B
    OBVIOUS
<1>3. AllEvents \subseteq AllItems /\ B \subseteq AllItems
    BY DEF AllItems
<1>4. /\ Items(lines) = IF format = "sse" THEN EventsOf(lines)
                        ELSE [k \in DOMAIN lines |-> Deserialize(lines[k])]
      /\ Items(t) = IF format = "sse" THEN EventsOf(t)
                    ELSE [k \in DOMAIN t |-> Deserialize(t[k])]
    BY DEF Items
<1> HIDE DEF AllLines, B, f, t
<1>5. t \in Seq(AllLines)
    BY DEF t
<1>6. /\ [k \in DOMAIN lines |-> Deserialize(lines[k])] = [k \in DOMAIN lines |-> f[lines[k]]]
      /\ [k \in DOMAIN t |-> Deserialize(t[k])] = [k \in DOMAIN t |-> f[t[k]]]
  <2>1. (\A k \in DOMAIN lines : lines[k] \in AllLines) /\ (\A k \in DOMAIN t : t[k] \in AllLines)
      BY <1>5
  <2> QED BY <1>2, <2>1
<1>7. /\ [k \in DOMAIN lines |-> f[lines[k]]] \in Seq(B)
      /\ [k \in DOMAIN t |-> f[t[k]]] = Append([k \in DOMAIN lines |-> f[lines[k]]], f[l])
    BY <1>2, EachAppend DEF t
<1>8. \A s : (s \in Seq(AllEvents) \/ s \in Seq(B)) => s \in Seq(AllItems)
    BY <1>3
<1> QED BY <1>1, <1>2, <1>3, <1>4, <1>6, <1>7, <1>8 DEF t

\* q begins with p, and what is behind it.
Begins(q, p) == Len(p) <= Len(q) /\ SubSeq(q, 1, Len(p)) = p
Behind(q, p) == SubSeq(q, Len(p) + 1, Len(q))

LEMMA CutFacts ==
    ASSUME NEW S, NEW s \in Seq(S), NEW m \in Nat, NEW n \in Nat, m <= n, n <= Len(s)
    PROVE  /\ SubSeq(s, m + 1, n) \in Seq(S)
           /\ SubSeq(s, 1, m) \o SubSeq(s, m + 1, n) = SubSeq(s, 1, n)
           /\ SubSeq(s, 1, Len(s)) = s
<1>1. Len(s) \in Nat /\ 1 \in 1..(Len(s) + 1) /\ m \in (1 - 1)..Len(s) /\ n \in m..Len(s)
    OBVIOUS
<1>2. SubSeq(s, 1, m) \o SubSeq(s, m + 1, n) = SubSeq(s, 1, n)
    BY <1>1, ConcatAdjacentSubSeq
<1> QED BY <1>1, <1>2

LEMMA BeginsFacts ==
    ASSUME NEW S, NEW p \in Seq(S), NEW q \in Seq(S)
    PROVE  /\ Begins(p, p) /\ Behind(p, p) = <<>>
           /\ Begins(q, p) => Behind(q, p) \in Seq(S) /\ p \o Behind(q, p) = q
           /\ \A x \in S : Begins(q, p) =>
                  /\ Begins(Append(q, x), p)
                  /\ Behind(Append(q, x), p) = Append(Behind(q, p), x)
<1>1. Begins(p, p) /\ Behind(p, p) = <<>>
  <2>1. SubSeq(p, 1, Len(p)) = p /\ SubSeq(p, Len(p) + 1, Len(p)) = <<>>
      OBVIOUS
  <2> QED BY <2>1 DEF Begins, Behind
<1>2. ASSUME Begins(q, p) PROVE Behind(q, p) \in Seq(S) /\ p \o Behind(q, p) = q
    BY <1>2, CutFacts DEF Begins, Behind
<1>3. ASSUME NEW x \in S, Begins(q, p)
      PROVE  /\ Begins(Append(q, x), p)
             /\ Behind(Append(q, x), p) = Append(Behind(q, p), x)
  <2>1. /\ Len(Append(q, x)) = Len(q) + 1 /\ Len(q) \in Nat
        /\ \A i \in 1..(Len(q) + 1) : \A j \in 0..Len(q) :
               SubSeq(Append(q, x), i, j) = SubSeq(q, i, j)
        /\ \A i \in 1..(Len(q) + 1) :
               SubSeq(Append(q, x), i, Len(q) + 1) = Append(SubSeq(q, i, Len(q)), x)
    <3>1. Len(Append(q, x)) = Len(q) + 1 /\ Len(q) \in Nat
        BY AppendFacts
    <3>2. /\ \A i \in 1..(Len(q) + 1) : \A j \in 0..Len(q) :
                 SubSeq(Append(q, x), i, j) = SubSeq(q, i, j)
          /\ \A i \in 1..(Len(q) + 1) :
                 SubSeq(Append(q, x), i, Len(q) + 1) = Append(SubSeq(q, i, Len(q)), x)
        BY AppendSlices
    <3> QED BY <3>1, <3>2
  <2>2. Len(p) \in 0..Len(q) /\ Len(p) + 1 \in 1..(Len(q) + 1) /\ 1 \in 1..(Len(q) + 1)
        /\ Len(p) <= Len(q) + 1
      BY <1>3, <2>1 DEF Begins
  <2>3. SubSeq(Append(q, x), 1, Len(p)) = SubSeq(q, 1, Len(p))
      BY <2>1, <2>2
  <2>4. SubSeq(Append(q, x), Len(p) + 1, Len(q) + 1) = Append(SubSeq(q, Len(p) + 1, Len(q)), x)
      BY <2>1, <2>2
  <2> QED BY <1>3, <2>1, <2>2, <2>3, <2>4 DEF Begins, Behind
<1> QED BY <1>1, <1>2, <1>3

\* process_line adds a field to the pending event, or queues it at a blank line.
LEMMA ProcessLineFacts ==
    ASSUME NEW st, NEW l,
           st = [pending |-> [id |-> st.pending.id, event |-> st.pending.event,
                              data |-> st.pending.data],
                 ready |-> st.ready, lastId |-> st.lastId]
    PROVE  ProcessLine(st, TrimEnd(l)) =
               IF TrimEnd(l) = <<>>
               THEN [pending |-> NoEvent, ready |-> Append(st.ready, st.pending),
                     lastId |-> st.lastId]
               ELSE [pending |-> [id |-> IF Names(l, "id:") THEN <<Value(l)>>
                                         ELSE st.pending.id,
                                  event |-> IF Names(l, "event:") THEN <<Value(l)>>
                                            ELSE st.pending.event,
                                  data |-> IF Names(l, "data:")
                                           THEN IF st.pending.data = <<>> /\ Value(l) = <<>>
                                                THEN <<>> ELSE Append(st.pending.data, Value(l))
                                           ELSE st.pending.data],
                     ready |-> st.ready,
                     lastId |-> IF Names(l, "id:") THEN <<Value(l)>> ELSE st.lastId]
<1>0. PICK id, event, data, q, last :
          /\ st = [pending |-> [id |-> id, event |-> event, data |-> data],
                   ready |-> q, lastId |-> last]
          /\ id = st.pending.id /\ event = st.pending.event /\ data = st.pending.data
          /\ q = st.ready /\ last = st.lastId
    OBVIOUS
<1> DEFINE rec == [pending |-> [id |-> id, event |-> event, data |-> data],
                   ready |-> q, lastId |-> last]
           line == TrimEnd(l)
           value == TrimStart(Tail(line))
<1>1. Value(l) = value /\ \A field : Names(l, field) <=> line # <<>> /\ Head(line) = field
    BY DEF Value, Names
<1> HIDE DEF line, value
<1>2. CASE line = <<>>
  <2>1. ProcessLine(rec, line) = [rec EXCEPT !.ready = Append(@, rec.pending), !.pending = NoEvent]
    <3> HIDE DEF rec
    <3> QED BY <1>2 DEF ProcessLine
  <2>2. ProcessLine(rec, line) =
            [pending |-> NoEvent, ready |-> Append(q, rec.pending), lastId |-> last]
      BY <2>1
  <2> QED BY <1>0, <1>2, <2>2 DEF line
<1>3. CASE line # <<>> /\ Head(line) = "data:"
  <2>1. ProcessLine(rec, line) = [rec EXCEPT !.pending.data =
                           IF @ = <<>> /\ value = <<>> THEN @ ELSE Append(@, value)]
    <3> HIDE DEF rec
    <3> QED BY <1>3 DEF ProcessLine, Fields, value
  <2>2. ProcessLine(rec, line) =
            [pending |-> [id |-> id, event |-> event,
                         data |-> IF data = <<>> /\ value = <<>> THEN data
                                  ELSE Append(data, value)],
             ready |-> q, lastId |-> last]
      BY <2>1
  <2>3. /\ Names(l, "data:") /\ Value(l) = value
        /\ \A field \in Fields : Names(l, field) => field = "data:"
      BY <1>1, <1>3
  <2> QED BY <1>0, <1>3, <2>2, <2>3 DEF line, Fields
<1>4. CASE line # <<>> /\ Head(line) = "id:"
  <2>1. ProcessLine(rec, line) = [rec EXCEPT !.pending.id = <<value>>, !.lastId = <<value>>]
    <3> HIDE DEF rec
    <3> QED BY <1>4 DEF ProcessLine, Fields, value
  <2>2. ProcessLine(rec, line) =
            [pending |-> [id |-> <<value>>, event |-> event, data |-> data],
             ready |-> q, lastId |-> <<value>>]
      BY <2>1
  <2>3. /\ Names(l, "id:") /\ Value(l) = value
        /\ \A field \in Fields : Names(l, field) => field = "id:"
      BY <1>1, <1>4
  <2> QED BY <1>0, <1>4, <2>2, <2>3 DEF line, Fields
<1>5. CASE line # <<>> /\ Head(line) = "event:"
  <2>1. ProcessLine(rec, line) = [rec EXCEPT !.pending.event = <<value>>]
    <3> HIDE DEF rec
    <3> QED BY <1>5 DEF ProcessLine, Fields, value
  <2>2. ProcessLine(rec, line) =
            [pending |-> [id |-> id, event |-> <<value>>, data |-> data],
             ready |-> q, lastId |-> last]
      BY <2>1
  <2>3. /\ Names(l, "event:") /\ Value(l) = value
        /\ \A field \in Fields : Names(l, field) => field = "event:"
      BY <1>1, <1>5
  <2> QED BY <1>0, <1>5, <2>2, <2>3 DEF line, Fields
<1>6. CASE line # <<>> /\ Head(line) \notin Fields
    BY <1>0, <1>1, <1>6 DEF ProcessLine, Fields, line, value
<1> QED BY <1>2, <1>3, <1>4, <1>5, <1>6 DEF Fields, line

\* What a stream keeps and queues when it has read lines, and has given away
\* the items of the first of them, base.
StateOf(base, lines) ==
    [pending |-> IF format = "sse" THEN EventOf(Since(lines)) ELSE NoEvent,
     ready |-> Behind(Items(lines), Items(base)),
     lastId |-> IF format = "sse" THEN LastOf(ValuesOf(lines, "id:")) ELSE <<>>]

OneLine(st, l) == IF format = "sse" THEN ProcessLine(st, TrimEnd(l)) ELSE PushValue(st, l)

\* A line takes it from one such state to the next.
LEMMA OneLineMore ==
    ASSUME NEW base \in Seq(AllLines), NEW lines \in Seq(AllLines), NEW l \in AllLines,
           Begins(Items(lines), Items(base))
    PROVE  /\ Begins(Items(Append(lines, l)), Items(base))
           /\ OneLine(StateOf(base, lines), l) = StateOf(base, Append(lines, l))
<1> DEFINE t == Append(lines, l)
           p == Items(base)
           q == Items(lines)
           e == EventOf(Since(lines))
           f == EventOf(Since(t))
           ids == LastOf(ValuesOf(lines, "id:"))
           r == Behind(q, p)
<1>1. /\ p \in Seq(AllItems) /\ q \in Seq(AllItems)
      /\ format = "sse" => Items(t) = IF TrimEnd(l) # <<>> THEN q ELSE Append(q, e)
      /\ format # "sse" => Items(t) = Append(q, Deserialize(l))
      /\ e \in AllItems /\ Deserialize(l) \in AllItems
    BY ItemsAppend
<1>2. \A x \in AllItems : Begins(Append(q, x), p) /\ Behind(Append(q, x), p) = Append(r, x)
  <2> HIDE DEF p, q
  <2> QED BY <1>1, BeginsFacts DEF p, q
<1>3. Begins(Items(t), p)
  <2> HIDE DEF p, t
  <2> QED BY <1>1, <1>2 DEF p
<1>4. LastOf(ValuesOf(t, "id:")) = IF Names(l, "id:") THEN <<Value(l)>> ELSE ids
  <2>1. /\ ValuesOf(lines, "id:") \in Seq(AllValues) /\ Value(l) \in AllValues
        /\ ValuesOf(t, "id:") = IF Names(l, "id:") THEN Append(ValuesOf(lines, "id:"), Value(l))
                                ELSE ValuesOf(lines, "id:")
      BY ValuesAppend DEF AllValues
  <2> QED BY <2>1, LastAppend
<1>5. /\ TrimEnd(l) = <<>> => f = NoEvent /\ ~Names(l, "id:")
      /\ TrimEnd(l) # <<>> =>
             f = [id |-> IF Names(l, "id:") THEN <<Value(l)>> ELSE e.id,
                  event |-> IF Names(l, "event:") THEN <<Value(l)>> ELSE e.event,
                  data |-> IF Names(l, "data:")
                           THEN IF e.data = <<>> /\ Value(l) = <<>> THEN <<>>
                                ELSE Append(e.data, Value(l))
                           ELSE e.data]
  <2>1. /\ TrimEnd(l) = <<>> => f = NoEvent
        /\ TrimEnd(l) # <<>> => Since(t) = Append(Since(lines), l)
      BY EventsAppend
  <2>2. Since(lines) \in Seq(AllLines)
      BY BlankAppend
  <2>3. EventOf(Append(Since(lines), l)) =
             [id |-> IF Names(l, "id:") THEN <<Value(l)>> ELSE e.id,
              event |-> IF Names(l, "event:") THEN <<Value(l)>> ELSE e.event,
              data |-> IF Names(l, "data:")
                       THEN IF e.data = <<>> /\ Value(l) = <<>> THEN <<>>
                            ELSE Append(e.data, Value(l))
                       ELSE e.data]
      BY <2>2, EventAppend
  <2>4. TrimEnd(l) = <<>> => ~Names(l, "id:")
      BY DEF Names
  <2> QED BY <2>1, <2>3, <2>4
<1>6. e = [id |-> e.id, event |-> e.event, data |-> e.data]
    BY DEF EventOf
<1>7. /\ StateOf(base, lines) = [pending |-> IF format = "sse" THEN e ELSE NoEvent,
                                 ready |-> r, lastId |-> IF format = "sse" THEN ids ELSE <<>>]
      /\ StateOf(base, t) = [pending |-> IF format = "sse" THEN f ELSE NoEvent,
                             ready |-> Behind(Items(t), p),
                             lastId |-> IF format = "sse" THEN LastOf(ValuesOf(t, "id:"))
                                        ELSE <<>>]
    BY DEF StateOf
<1> HIDE DEF t, p, q, e, f, ids, r
<1>8. CASE format = "sse"
  <2>1. PICK st : /\ st = StateOf(base, lines)
                  /\ st = [pending |-> e, ready |-> r, lastId |-> ids]
      BY <1>7, <1>8
  <2>2. OneLine(StateOf(base, lines), l) = ProcessLine(st, TrimEnd(l))
      BY <1>8, <2>1 DEF OneLine
  <2>3. ProcessLine(st, TrimEnd(l)) =
                   IF TrimEnd(l) = <<>>
                   THEN [pending |-> NoEvent, ready |-> Append(r, st.pending), lastId |-> ids]
                   ELSE [pending |-> [id |-> IF Names(l, "id:") THEN <<Value(l)>> ELSE e.id,
                                      event |-> IF Names(l, "event:") THEN <<Value(l)>>
                                                ELSE e.event,
                                      data |-> IF Names(l, "data:")
                                               THEN IF e.data = <<>> /\ Value(l) = <<>> THEN <<>>
                                                    ELSE Append(e.data, Value(l))
                                               ELSE e.data],
                         ready |-> r,
                         lastId |-> IF Names(l, "id:") THEN <<Value(l)>> ELSE ids]
    <3>1. /\ st.pending = e /\ st.ready = r /\ st.lastId = ids
          /\ st = [pending |-> [id |-> st.pending.id, event |-> st.pending.event,
                                data |-> st.pending.data],
                   ready |-> st.ready, lastId |-> st.lastId]
        BY <1>6, <2>1
    <3> QED BY <3>1, ProcessLineFacts
  <2>4. CASE TrimEnd(l) = <<>>
    <3>1. ProcessLine(st, TrimEnd(l)) = [pending |-> NoEvent, ready |-> Append(r, e), lastId |-> ids]
        BY <2>1, <2>3, <2>4
    <3>2. Behind(Items(t), p) = Append(r, e)
        BY <1>1, <1>2, <1>8, <2>4
    <3> QED BY <1>3, <1>4, <1>5, <1>7, <1>8, <2>2, <2>4, <3>1, <3>2 DEF t, p
  <2>5. CASE TrimEnd(l) # <<>>
    <3>1. ProcessLine(st, TrimEnd(l)) = [pending |-> f, ready |-> r,
                               lastId |-> IF Names(l, "id:") THEN <<Value(l)>> ELSE ids]
        BY <1>5, <2>3, <2>5
    <3>2. Behind(Items(t), p) = r
        BY <1>1, <1>8, <2>5 DEF r
    <3> QED BY <1>3, <1>4, <1>7, <1>8, <2>2, <3>1, <3>2 DEF t, p
  <2> QED BY <2>4, <2>5
<1>9. CASE format # "sse"
  <2>1. StateOf(base, lines) = [pending |-> NoEvent, ready |-> r, lastId |-> <<>>]
      BY <1>7, <1>9
  <2>2. OneLine(StateOf(base, lines), l) =
            [pending |-> NoEvent, ready |-> Append(r, Deserialize(l)), lastId |-> <<>>]
    <3> DEFINE rec == [pending |-> NoEvent, ready |-> r, lastId |-> <<>>]
    <3>1. StateOf(base, lines) = rec
        BY <2>1
    <3>2. OneLine(rec, l) = [rec EXCEPT !.ready = Append(@, Deserialize(l))]
      <4> HIDE DEF rec
      <4> QED BY <1>9 DEF OneLine, PushValue
    <3>3. [rec EXCEPT !.ready = Append(@, Deserialize(l))] =
              [pending |-> NoEvent, ready |-> Append(r, Deserialize(l)), lastId |-> <<>>]
      <4>1. \A a, b, v, w :
                [[pending |-> a, ready |-> v, lastId |-> b] EXCEPT !.ready = w]
                    = [pending |-> a, ready |-> w, lastId |-> b]
          OBVIOUS
      <4>2. PICK w : w = Append(rec.ready, Deserialize(l))
          OBVIOUS
      <4>3. [rec EXCEPT !.ready = w] = [pending |-> NoEvent, ready |-> w, lastId |-> <<>>]
          BY <4>1
      <4>4. rec.ready = r
          OBVIOUS
      <4> HIDE DEF rec
      <4> QED BY <4>2, <4>3, <4>4
    <3> HIDE DEF rec
    <3> QED BY <3>1, <3>2, <3>3
  <2>3. StateOf(base, t) =
            [pending |-> NoEvent, ready |-> Append(r, Deserialize(l)), lastId |-> <<>>]
      BY <1>1, <1>2, <1>7, <1>9
  <2> QED BY <1>3, <2>2, <2>3 DEF t, p
<1> QED BY <1>8, <1>9

(***************************************************************************)
(* append_frame leaves behind what all the lines read so far mean, if it   *)
(* found what those before them mean (sse.rs:129-188, ndjson.rs:139-181).  *)
(***************************************************************************)
LEMMA AppendedFacts ==
    ASSUME NEW base \in Seq(AllLines), NEW lines \in Seq(AllLines),
           [pending |-> pending, ready |-> ready, lastId |-> lastId] = StateOf(base, base)
    PROVE  /\ Appended(lines) = StateOf(base, base \o lines)
           /\ Begins(Items(base \o lines), Items(base))
<1> DEFINE n == Len(lines)
           L(k) == base \o SubSeq(lines, 1, k)
           f == [k \in 0..n |-> StateOf(base, L(k))]
           T == {k \in 0..n : Begins(Items(L(k)), Items(base))}
           start == [pending |-> pending, ready |-> ready, lastId |-> lastId]
<1>1. /\ n \in Nat /\ L(0) = base /\ L(n) = base \o lines
      /\ \A k \in 1..n : /\ L(k - 1) \in Seq(AllLines) /\ lines[k] \in AllLines
                         /\ L(k) = Append(L(k - 1), lines[k])
  <2> HIDE DEF AllLines
  <2>1. base \o <<>> = base
      OBVIOUS
  <2>2. /\ SubSeq(lines, 1, 0) = <<>> /\ SubSeq(lines, 1, n) = lines /\ n \in Nat
        /\ \A k \in 0..n : SubSeq(lines, 1, k) \in Seq(AllLines)
        /\ \A k \in 1..n :
               lines[k] \in AllLines
               /\ SubSeq(lines, 1, k) = Append(SubSeq(lines, 1, k - 1), lines[k])
      BY PrefixFacts
  <2>3. \A k \in 1..n : k - 1 \in 0..n
      BY <2>2
  <2>4. \A u \in Seq(AllLines) : \A x \in AllLines :
            base \o u \in Seq(AllLines) /\ base \o Append(u, x) = Append(base \o u, x)
      OBVIOUS
  <2> HIDE DEF n
  <2> QED BY <2>1, <2>2, <2>3, <2>4
<1> HIDE DEF AllLines, n, L
<1>2. 0 \in T
  <2>1. Items(base) \in Seq(AllItems)
      BY ItemsAppend DEF AllLines
  <2>2. Begins(Items(base), Items(base))
      BY <2>1, BeginsFacts
  <2> QED BY <1>1, <2>2
<1>3. ASSUME NEW k \in 1..n, k - 1 \in T PROVE k \in T
  <2>1. PICK u \in Seq(AllLines), x \in AllLines :
            u = L(k - 1) /\ x = lines[k] /\ L(k) = Append(u, x)
      BY <1>1
  <2>2. Begins(Items(u), Items(base)) /\ k \in 0..n
      BY <1>1, <1>3, <2>1
  <2>3. Begins(Items(Append(u, x)), Items(base))
      BY <2>2, OneLineMore
  <2> QED BY <2>1, <2>2, <2>3
<1>4. \A k \in 0..n : k \in T
  <2> HIDE DEF T
  <2> QED BY <1>1, <1>2, <1>3, InductionUpTo
<1>5. \A k \in 0..n : Begins(Items(L(k)), Items(base))
    BY <1>4
<1>6. f[0] = start
    BY <1>1
<1>7. ASSUME NEW k \in 1..n PROVE f[k] = OneLine(f[k - 1], lines[k])
  <2>1. k \in 0..n /\ k - 1 \in 0..n
      BY <1>1
  <2>2. PICK u \in Seq(AllLines), x \in AllLines :
            u = L(k - 1) /\ x = lines[k] /\ L(k) = Append(u, x)
      BY <1>1
  <2>3. Begins(Items(u), Items(base))
      BY <1>5, <2>1, <2>2
  <2>4. OneLine(StateOf(base, u), x) = StateOf(base, Append(u, x))
      BY <2>3, OneLineMore
  <2> QED BY <2>1, <2>2, <2>4
<1> DEFINE after == CHOOSE g : g = [k \in 0..n |->
                        IF k = 0 THEN start ELSE OneLine(g[k - 1], lines[k])]
<1>8. Appended(lines) = after[n]
    BY DEF Appended, OneLine, n
<1>9. after = [k \in 0..n |-> IF k = 0 THEN start ELSE OneLine(after[k - 1], lines[k])]
  <2> HIDE DEF start, f
  <2>1. f = [k \in 0..n |-> IF k = 0 THEN start ELSE OneLine(f[k - 1], lines[k])]
    <3>1. f = [k \in 0..n |-> f[k]]
        BY DEF f
    <3>2. \A k \in 0..n : f[k] = IF k = 0 THEN start ELSE OneLine(f[k - 1], lines[k])
        BY <1>1, <1>6, <1>7
    <3> QED BY <3>1, <3>2
  <2> QED BY <2>1
<1> HIDE DEF after, f, start
<1>10. after[0] = f[0] /\ \A k \in 1..n : after[k - 1] = f[k - 1] => after[k] = f[k]
    BY <1>1, <1>6, <1>7, <1>9
<1>11. \A k \in 0..n : after[k] = f[k]
  <2> DEFINE U == {k \in 0..n : after[k] = f[k]}
  <2>1. n \in Nat /\ 0 \in U /\ \A k \in 1..n : k - 1 \in U => k \in U
      BY <1>1, <1>10
  <2>2. \A k \in 0..n : k \in U
    <3> HIDE DEF U
    <3> QED BY <2>1, InductionUpTo
  <2> QED BY <2>2
<1>12. n \in 0..n
    BY <1>1
<1>13. f[n] = StateOf(base, L(n))
    BY <1>12 DEF f
<1> QED BY <1>1, <1>5, <1>8, <1>11, <1>12, <1>13

-----------------------------------------------------------------------------
(* The inductive invariant. *)

\* What is kept, queued and returned when p pieces of the text are polled.
Means(p) ==
    LET polled == SubSeq(text, 1, p)
        lines == LinesOf(polled)
    IN  /\ buffer = Left(polled)
        /\ format = "sse" => pending = EventOf(Since(lines))
        /\ format = "sse" => lastId = LastOf(ValuesOf(lines, "id:"))
        /\ returned \o ready = Items(lines)

StreamInv ==
    /\ TypeOK
    /\ FramesInv
    /\ returned \in Seq(AllItems) /\ ready \in Seq(AllItems)
    /\ Means(Polled)

LEMMA StreamInvSays == StreamInv <=> /\ IInv /\ FramingDoesNotMatter
                                     /\ returned \in Seq(AllItems) /\ ready \in Seq(AllItems)
BY DEF StreamInv, IInv, FramingDoesNotMatter, Means, Left, Since

LEMMA NothingRead ==
    /\ LinesOf(<<>>) = <<>> /\ Left(<<>>) = <<>>
    /\ Items(<<>>) = <<>> /\ EventOf(Since(<<>>)) = NoEvent
    /\ LastOf(ValuesOf(<<>>, "id:")) = <<>>
<1>1. <<>> \in Seq(Pieces \ {"nl"})
    OBVIOUS
<1>2. LinesOf(<<>>) = <<>> /\ Left(<<>>) = <<>>
    BY <1>1, LeftIsLeft
<1>3. Parts(<<>>, Blank(<<>>)) = <<>> /\ Since(<<>>) = <<>>
  <2>1. <<>> \in Seq(AllLines) /\ \A i \in 1..Len(<<>>) : i \notin Blank(<<>>)
      OBVIOUS
  <2> QED BY <2>1, PartsNone DEF Since
<1>4. EventsOf(<<>>) = <<>>
    BY <1>3 DEF EventsOf
<1>5. Items(<<>>) = <<>>
    BY <1>4 DEF Items
<1>6. EventOf(<<>>) = NoEvent
    BY EventOfNone
<1>7. LastOf(ValuesOf(<<>>, "id:")) = <<>>
  <2>1. EventOf(<<>>).id = LastOf(ValuesOf(<<>>, "id:"))
      BY DEF EventOf
  <2> QED BY <1>6, <2>1 DEF NoEvent
<1> QED BY <1>2, <1>3, <1>5, <1>6, <1>7

LEMMA InitStreamInv == Init => StreamInv
<1> SUFFICES ASSUME Init PROVE StreamInv
    OBVIOUS
<1>1. text \in Seq(Pieces) /\ format \in Formats /\ text \in Bodies
    BY ConstantsAssumption DEF Init
<1>2. Polled = 0 /\ SubSeq(text, 1, 0) = <<>>
    BY <1>1 DEF Init, Polled
<1>3. TypeOK /\ FramesInv
    BY <1>1 DEF Init, TypeOK, FramesInv
<1>4. returned \in Seq(AllItems) /\ ready \in Seq(AllItems) /\ returned \o ready = <<>>
    BY DEF Init
<1>5. Means(0)
    BY <1>2, <1>4, NothingRead DEF Init, Means
<1> QED BY <1>2, <1>3, <1>4, <1>5 DEF StreamInv

\* What holds of the meaning holds of it as long as nothing is read.
LEMMA MeansTheSame ==
    ASSUME NEW p, Means(p),
           UNCHANGED <<body, buffer, pending, lastId>>, returned' \o ready' = returned \o ready
    PROVE  Means(p)'
BY DEF Means, body, Items

Frame == [kind : {"data", "trailers", "end", "error"}, from : 0..Len(text), to : 0..Len(text)]

\* A frame is one more, ...
LEMMA PushKeepsInv ==
    ASSUME StreamInv, NEW kind \in {"data", "trailers", "end", "error"}, NEW to,
           Push(kind, to), peer # "done", to \in arrived..Len(text),
           kind = "data" <=> to # arrived,
           peer' \in {"sending", "trailed", "done"},
           peer' = "trailed" => to = Len(text),
           kind \in {"end", "error"} => peer' = "done"
    PROVE  StreamInv'
<1>1. /\ text \in Seq(Pieces) /\ Len(text) \in Nat /\ arrived \in 0..Len(text)
      /\ frames \in Seq(Frame) /\ Len(frames) \in Nat
    BY ConstantsAssumption DEF StreamInv, TypeOK, Frame
<1> DEFINE new == [kind |-> kind, from |-> arrived, to |-> to]
<1>2. /\ new \in Frame /\ frames' = Append(frames, new)
      /\ new.kind = kind /\ new.from = arrived /\ new.to = to /\ arrived' = to
      /\ UNCHANGED <<format, text, buffer, pending, ready, lastId, returned>>
      /\ task' = IF task = "asleep" THEN "awake" ELSE task
    BY <1>1 DEF Push, Frame, body
<1> HIDE DEF new
<1>3. /\ frames' \in Seq(Frame) /\ Len(frames') = Len(frames) + 1
      /\ frames'[Len(frames) + 1] = new
      /\ \A k \in 1..Len(frames) : frames'[k] = frames[k]
      /\ DOMAIN frames' = 1..(Len(frames) + 1) /\ DOMAIN frames = 1..Len(frames)
  <2> HIDE DEF Frame
  <2> QED BY <1>1, <1>2
<1>4. TypeOK'
    BY <1>1, <1>2, <1>3 DEF StreamInv, TypeOK, Frame
<1>5. \A k \in 1..Len(frames) :
           /\ frames[k].from <= frames[k].to
           /\ frames[k].to = IF k = Len(frames) THEN arrived ELSE frames[k + 1].from
           /\ frames[k].kind = "data" <=> frames[k].from < frames[k].to
           /\ frames[k].kind \in {"end", "error"} => k = Len(frames) /\ peer = "done"
    BY <1>3 DEF StreamInv, FramesInv
<1>6. task' \in {"awake"}
    BY <1>2 DEF StreamInv, FramesInv, TypeOK
<1>7. FramesInv'
  <2> SUFFICES ASSUME NEW k \in 1..(Len(frames) + 1)
               PROVE  /\ frames'[k].from <= frames'[k].to
                      /\ frames'[k].to = IF k = Len(frames') THEN arrived' ELSE frames'[k + 1].from
                      /\ frames'[k].kind = "data" <=> frames'[k].from < frames'[k].to
                      /\ frames'[k].kind \in {"end", "error"} => k = Len(frames') /\ peer' = "done"
    BY <1>3, <1>6 DEF FramesInv
  <2>1. CASE k = Len(frames) + 1
      BY <1>1, <1>2, <1>3, <2>1
  <2>2. CASE k = Len(frames)
    <3>1. \A n \in Nat : \A i \in 1..(n + 1) : i = n => i \in 1..n /\ i # n + 1
        OBVIOUS
    <3>2. k \in 1..Len(frames) /\ k # Len(frames) + 1
        BY <1>1, <2>2, <3>1
    <3>3. k # Len(frames')
        BY <1>3, <3>2
    <3> QED BY <3>2, <3>3, <1>2, <1>3, <1>5, <2>2
  <2>3. CASE k < Len(frames)
    <3>1. k \in 1..Len(frames) /\ k + 1 \in 1..Len(frames) /\ k # Len(frames) /\ k # Len(frames')
        BY <1>1, <1>3, <2>3
    <3> QED BY <1>3, <1>5, <3>1
  <2> QED BY <1>1, <2>1, <2>2, <2>3
<1>8. Polled' = Polled
  <2>1. CASE frames = <<>>
    <3>1. Len(frames) = 0 /\ frames' # <<>> /\ Head(frames') = new
        BY <1>1, <1>2, <1>3, <2>1
    <3> QED BY <1>2, <2>1, <3>1 DEF Polled
  <2>2. CASE frames # <<>>
    <3>1. frames' # <<>> /\ Head(frames') = Head(frames)
      <4> HIDE DEF Frame
      <4> QED BY <1>1, <1>2, <1>3, <2>2
    <3> QED BY <2>2, <3>1 DEF Polled
  <2> QED BY <2>1, <2>2
<1>9. Means(Polled)'
  <2>1. PICK p : p = Polled /\ Means(p)
      BY DEF StreamInv
  <2>2. Means(p)'
      BY <1>2, <2>1, MeansTheSame DEF body
  <2> QED BY <1>8, <2>1, <2>2 DEF Means
<1>10. (returned \in Seq(AllItems) /\ ready \in Seq(AllItems))'
    BY <1>2 DEF StreamInv, AllItems, AllEvents, AllLines
<1> QED BY <1>4, <1>7, <1>9, <1>10 DEF StreamInv

\* ... and a poll takes the first of them.
LEMMA PollsFacts ==
    ASSUME StreamInv, NEW kind, task = "awake", ready = <<>>,
           frames # <<>>, Head(frames).kind = kind, frames' = Tail(frames),
           UNCHANGED <<body, peer, arrived>>,
           task' = task \/ task' = "awake" \/ (kind \in {"end", "error"} /\ ready' = ready)
    PROVE  /\ Head(frames) \in Frame /\ Head(frames).kind = kind
           /\ Polled = Head(frames).from /\ Polled' = Head(frames).to
           /\ kind = "data" <=> Head(frames).from < Head(frames).to
           /\ kind \in {"end", "error"} => frames' = <<>> /\ peer = "done"
           /\ frames' \in Seq(Frame) /\ FramesInv'
           /\ UNCHANGED <<format, text, peer, arrived>>
<1>1. /\ Len(text) \in Nat /\ frames \in Seq(Frame) /\ frames # <<>> /\ frames' = Tail(frames)
      /\ task = "awake" /\ ready = <<>> /\ UNCHANGED <<format, text, peer, arrived>>
      /\ Head(frames).kind = kind /\ arrived \in 0..Len(text)
    BY ConstantsAssumption DEF StreamInv, TypeOK, Frame, body
<1> DEFINE n == Len(frames)
<1>2. /\ n \in Nat \ {0} /\ frames[1] = Head(frames) /\ Head(frames) \in Frame
      /\ frames' \in Seq(Frame) /\ Len(frames') = n - 1 /\ DOMAIN frames' = 1..(n - 1)
      /\ \A k \in 1..(n - 1) : frames'[k] = frames[k + 1]
  <2> HIDE DEF Frame
  <2> QED BY <1>1
<1>3. \A k \in 1..n :
           /\ frames[k].from <= frames[k].to
           /\ frames[k].to = IF k = n THEN arrived ELSE frames[k + 1].from
           /\ frames[k].kind = "data" <=> frames[k].from < frames[k].to
           /\ frames[k].kind \in {"end", "error"} => k = n /\ peer = "done"
  <2>1. DOMAIN frames = 1..n
      BY <1>1
  <2> QED BY <2>1 DEF StreamInv, FramesInv
<1>4. 1 \in 1..n
    BY <1>2
<1>5. Polled = Head(frames).from
    BY <1>1 DEF Polled
<1>6. kind = "data" <=> Head(frames).from < Head(frames).to
    BY <1>1, <1>2, <1>3, <1>4
<1>7. Polled' = Head(frames).to
  <2>1. CASE n = 1
    <3>1. frames' = <<>> /\ Polled' = arrived'
        BY <1>1, <1>2, <2>1 DEF Polled
    <3> QED BY <1>1, <1>2, <1>3, <1>4, <2>1, <3>1
  <2>2. CASE n # 1
    <3>1. 1 \in 1..(n - 1)
        BY <1>2, <2>2
    <3>2. frames' # <<>> /\ Head(frames') = frames'[1] /\ frames'[1] = frames[2]
      <4>1. frames'[1] = frames[1 + 1]
          BY <1>2, <3>1
      <4>2. n - 1 # 0 /\ Len(frames') = n - 1
          BY <1>2, <2>2
      <4>3. frames' # <<>>
          BY <4>2
      <4> QED BY <1>2, <4>1, <4>3
    <3>3. Polled' = frames[2].from
        BY <3>2 DEF Polled
    <3>4. frames[1].to = frames[1 + 1].from
        BY <1>3, <1>4, <2>2
    <3> QED BY <1>2, <3>3, <3>4
  <2> QED BY <2>1, <2>2
<1>8. kind \in {"end", "error"} => frames' = <<>> /\ peer = "done"
  <2>1. kind \in {"end", "error"} => n = 1 /\ peer = "done"
      BY <1>1, <1>2, <1>3, <1>4
  <2> QED BY <1>1, <1>2, <2>1
<1>9. FramesInv'
  <2>1. ASSUME NEW k \in DOMAIN frames'
        PROVE  /\ frames'[k].from <= frames'[k].to
               /\ frames'[k].to = IF k = Len(frames') THEN arrived' ELSE frames'[k + 1].from
               /\ frames'[k].kind = "data" <=> frames'[k].from < frames'[k].to
               /\ frames'[k].kind \in {"end", "error"} => k = Len(frames') /\ peer' = "done"
    <3>1. k \in 1..(n - 1) /\ k + 1 \in 1..n /\ (k = n - 1 <=> k + 1 = n)
        BY <1>2
    <3>2. frames'[k] = frames[k + 1] /\ (k # n - 1 => frames'[k + 1] = frames[k + 1 + 1])
      <4>1. k # n - 1 => k + 1 \in 1..(n - 1)
          BY <1>2, <3>1
      <4> QED BY <1>2, <3>1, <4>1
    <3> QED BY <1>1, <1>2, <1>3, <3>1, <3>2
  <2>2. task' = "asleep" => frames' = <<>> /\ ready' = <<>>
      BY <1>1, <1>8
  <2>3. task' \in {"ended", "failed"} => frames' = <<>> /\ ready' = <<>> /\ peer' = "done"
      BY <1>1, <1>8
  <2> QED BY <2>1, <2>2, <2>3 DEF FramesInv
<1> QED BY <1>1, <1>2, <1>5, <1>6, <1>7, <1>8, <1>9

\* To move the head of a sequence to the end of another leaves both together alone.
LEMMA HeadToLast ==
    \A S : \A u, v \in Seq(S) : v # <<>> =>
        /\ Append(u, Head(v)) \in Seq(S) /\ Tail(v) \in Seq(S)
        /\ Append(u, Head(v)) \o Tail(v) = u \o v
<1> SUFFICES ASSUME NEW S, NEW u \in Seq(S), NEW v \in Seq(S), v # <<>>
             PROVE  /\ Append(u, Head(v)) \in Seq(S) /\ Tail(v) \in Seq(S)
                    /\ Append(u, Head(v)) \o Tail(v) = u \o v
    OBVIOUS
<1>1. Append(u, Head(v)) \in Seq(S) /\ Tail(v) \in Seq(S)
    OBVIOUS
<1>2. Append(u, Head(v)) \o Tail(v) = u \o v
    OBVIOUS
<1> QED BY <1>1, <1>2

\* A DATA frame is read on from what is known of the text before it.
LEMMA PollDataKeepsInv ==
    ASSUME StreamInv, PollData
    PROVE  StreamInv'
<1>1. /\ text \in Seq(Pieces) /\ Len(text) \in Nat /\ format \in {"sse", "ndjson"}
      /\ returned \in Seq(AllItems)
    BY ConstantsAssumption DEF StreamInv, TypeOK
<1>2. PICK b \in {buffer \o SubSeq(text, Head(frames).from + 1, Head(frames).to)} :
      \E wrap \in 1..Len(b) :
      \E lines \in {Lines(b, Len(buffer), wrap)} : \E st \in {Appended(lines)} :
        /\ buffer' = Rest(b, Len(buffer))
        /\ pending' = st.pending /\ lastId' = st.lastId
        /\ \/ /\ st.ready # <<>>
              /\ returned' = Append(returned, Head(st.ready))
              /\ ready' = Tail(st.ready)
              /\ UNCHANGED task
           \/ /\ st.ready = <<>>
              /\ PollPending
    BY DEF PollData
<1>3. PICK wrap, lines, st :
        /\ wrap \in 1..Len(b)
        /\ lines = Lines(b, Len(buffer), wrap) /\ st = Appended(lines)
        /\ buffer' = Rest(b, Len(buffer))
        /\ pending' = st.pending /\ lastId' = st.lastId
        /\ \/ /\ st.ready # <<>>
              /\ returned' = Append(returned, Head(st.ready))
              /\ ready' = Tail(st.ready)
              /\ UNCHANGED task
           \/ /\ st.ready = <<>>
              /\ PollPending
    BY <1>2
<1>4. Polls("data") /\ (task' = task \/ task' = "awake")
    BY <1>3 DEF PollData, PollPending
<1>5. /\ Head(frames) \in Frame
      /\ Polled = Head(frames).from /\ Polled' = Head(frames).to
      /\ Head(frames).from < Head(frames).to
      /\ frames' \in Seq(Frame) /\ FramesInv'
      /\ task = "awake" /\ ready = <<>> /\ UNCHANGED <<format, text, peer, arrived>>
  <2>1. PICK kind : /\ kind = "data" /\ Head(frames).kind = kind
                    /\ frames # <<>> /\ frames' = Tail(frames)
                    /\ task = "awake" /\ ready = <<>> /\ UNCHANGED <<body, peer, arrived>>
      BY <1>4 DEF Polls, PollsBody
  <2>2. task' = task \/ task' = "awake" \/ (kind \in {"end", "error"} /\ ready' = ready)
      BY <1>4
  <2>3. /\ Head(frames) \in Frame
        /\ Polled = Head(frames).from /\ Polled' = Head(frames).to
        /\ kind = "data" <=> Head(frames).from < Head(frames).to
        /\ frames' \in Seq(Frame) /\ FramesInv'
        /\ UNCHANGED <<format, text, peer, arrived>>
      BY <2>1, <2>2, PollsFacts
  <2> QED BY <2>1, <2>3
<1>6. PICK from \in 0..Len(text), to \in 0..Len(text) :
          from = Head(frames).from /\ to = Head(frames).to /\ from < to
    BY <1>5 DEF Frame
<1>7. PICK s \in Seq(Pieces), d \in Seq(Pieces), t \in Seq(Pieces) :
          /\ s = SubSeq(text, 1, from) /\ d = SubSeq(text, from + 1, to)
          /\ t = SubSeq(text, 1, to) /\ t = s \o d
  <2> DEFINE s == SubSeq(text, 1, from)
             d == SubSeq(text, from + 1, to)
             t == SubSeq(text, 1, to)
  <2>1. s \in Seq(Pieces) /\ t \in Seq(Pieces)
      BY <1>1, PrefixFacts
  <2>2. d \in Seq(Pieces) /\ s \o d = t
    <3>1. from \in Nat /\ to \in Nat /\ from <= to /\ to <= Len(text)
        BY <1>1, <1>6
    <3> QED BY <1>1, <3>1, CutFacts
  <2> QED BY <2>1, <2>2
<1>8. /\ buffer = Left(s) /\ buffer \in Seq(Pieces \ {"nl"})
      /\ format = "sse" => /\ pending = EventOf(Since(LinesOf(s)))
                           /\ lastId = LastOf(ValuesOf(LinesOf(s), "id:"))
      /\ format # "sse" => pending = NoEvent /\ lastId = <<>>
      /\ returned = Items(LinesOf(s))
  <2>1. Means(from)
      BY <1>5, <1>6 DEF StreamInv
  <2>2. returned \o ready = returned
      BY <1>1, <1>5
  <2>3. buffer \in Seq(Pieces \ {"nl"}) /\ (format = "ndjson" => pending = NoEvent /\ lastId = <<>>)
      BY DEF StreamInv, TypeOK
  <2> QED BY <1>1, <1>7, <2>1, <2>2, <2>3 DEF Means
<1>9. b = buffer \o d
    BY <1>2, <1>6, <1>7
<1>10. PICK base \in Seq(AllLines) : base = LinesOf(s)
    BY LinesType DEF AllLines
<1>11. lines = LinesOf(b) /\ buffer' = Left(b)
  <2>1. wrap \in 0..Len(b)
      BY <1>3
  <2>2. /\ Lines(buffer \o d, Len(buffer), wrap) = LinesOf(buffer \o d)
        /\ Rest(buffer \o d, Len(buffer)) = Left(buffer \o d)
      BY <1>8, <1>9, <2>1, LinesOfTheBuffer
  <2> QED BY <1>3, <1>9, <2>2
<1>12. lines \in Seq(AllLines) /\ LinesOf(t) = base \o lines /\ Left(t) = Left(b)
       /\ Left(t) \in Seq(Pieces \ {"nl"})
  <2>1. /\ LinesOf(s \o d) = LinesOf(s) \o LinesOf(Left(s) \o d)
        /\ Left(s \o d) = Left(Left(s) \o d)
      BY ReadOn
  <2>2. b \in Seq(Pieces)
    <3>1. buffer \in Seq(Pieces)
        BY <1>8, LeftIsLeft
    <3> QED BY <1>9, <3>1
  <2>3. LinesOf(b) \in Seq(AllLines)
      BY <2>2, LinesType DEF AllLines
  <2>4. Left(t) \in Seq(Pieces \ {"nl"})
      BY LinesType
  <2> QED BY <1>7, <1>8, <1>9, <1>10, <1>11, <2>1, <2>3, <2>4
<1>13. Items(base) \in Seq(AllItems) /\ Items(base \o lines) \in Seq(AllItems)
  <2>1. base \o lines \in Seq(AllLines)
    <3> HIDE DEF AllLines
    <3> QED BY <1>12
  <2>2. \A u \in Seq(AllLines) : Items(u) \in Seq(AllItems)
    <3>1. <<>> \in AllLines
        BY DEF AllLines
    <3> QED BY <3>1, ItemsAppend
  <2> QED BY <2>1, <2>2
<1>14. /\ st = StateOf(base, base \o lines)
       /\ Begins(Items(base \o lines), Items(base))
  <2>1. [pending |-> pending, ready |-> ready, lastId |-> lastId] = StateOf(base, base)
    <3>1. Behind(Items(base), Items(base)) = <<>>
        BY <1>13, BeginsFacts
    <3> QED BY <1>5, <1>8, <1>10, <3>1 DEF StateOf
  <2> QED BY <1>3, <1>12, <2>1, AppendedFacts
<1>15. /\ st.pending = IF format = "sse" THEN EventOf(Since(LinesOf(t))) ELSE NoEvent
       /\ st.lastId = IF format = "sse" THEN LastOf(ValuesOf(LinesOf(t), "id:")) ELSE <<>>
       /\ st.ready \in Seq(AllItems) /\ returned \o st.ready = Items(LinesOf(t))
  <2>1. /\ Behind(Items(base \o lines), Items(base)) \in Seq(AllItems)
        /\ Items(base) \o Behind(Items(base \o lines), Items(base)) = Items(base \o lines)
    <3>1. PICK p \in Seq(AllItems), q \in Seq(AllItems) :
              p = Items(base) /\ q = Items(base \o lines) /\ Begins(q, p)
        BY <1>13, <1>14
    <3>2. Behind(q, p) \in Seq(AllItems) /\ p \o Behind(q, p) = q
        BY <3>1, BeginsFacts
    <3> QED BY <3>1, <3>2
  <2> QED BY <1>8, <1>10, <1>12, <1>14, <2>1 DEF StateOf
<1>16. /\ returned' \in Seq(AllItems) /\ ready' \in Seq(AllItems)
       /\ returned' \o ready' = returned \o st.ready
  <2>1. CASE st.ready # <<>>
    <3>1. \A u, v \in Seq(AllItems) : v # <<>> =>
              /\ Append(u, Head(v)) \in Seq(AllItems) /\ Tail(v) \in Seq(AllItems)
              /\ Append(u, Head(v)) \o Tail(v) = u \o v
        BY HeadToLast
    <3>2. returned' = Append(returned, Head(st.ready)) /\ ready' = Tail(st.ready)
        BY <1>3, <2>1
    <3>3. returned \in Seq(AllItems) /\ st.ready \in Seq(AllItems)
        BY <1>1, <1>15
    <3> QED BY <2>1, <3>1, <3>2, <3>3
  <2>2. CASE st.ready = <<>>
    <3>1. returned' = returned /\ ready' = <<>>
        BY <1>3, <1>5, <2>2 DEF PollPending
    <3> QED BY <1>1, <2>2, <3>1
  <2> QED BY <2>1, <2>2
<1>17. TypeOK'
  <2>1. (format = "ndjson" => pending = NoEvent /\ lastId = <<>>)'
      BY <1>3, <1>5, <1>15
  <2>2. (buffer \in Seq(Pieces \ {"nl"}))'
      BY <1>11, <1>12
  <2> QED BY <1>4, <1>5, <2>1, <2>2 DEF StreamInv, TypeOK, Frame
<1>18. Means(to)'
  <2>1. /\ buffer' = Left(t)
        /\ format' = "sse" => pending' = EventOf(Since(LinesOf(t)))
        /\ format' = "sse" => lastId' = LastOf(ValuesOf(LinesOf(t), "id:"))
        /\ returned' \o ready' = Items(LinesOf(t))
      BY <1>3, <1>5, <1>11, <1>12, <1>15, <1>16
  <2>2. t = SubSeq(text', 1, to) /\ Items(LinesOf(t))' = Items(LinesOf(t))
      BY <1>5, <1>7 DEF Items
  <2> QED BY <2>1, <2>2 DEF Means
<1>19. Means(Polled)'
    BY <1>5, <1>6, <1>18 DEF Means
<1> QED BY <1>5, <1>16, <1>17, <1>19 DEF StreamInv, AllItems, AllEvents, AllLines

\* A poll that reads nothing new.
LEMMA PollKeepsInv ==
    ASSUME StreamInv, PollQueued \/ PollTrailers \/ PollLast \/ PollNothing
    PROVE  StreamInv'
<1>1. /\ returned \in Seq(AllItems) /\ ready \in Seq(AllItems)
      /\ TypeOK /\ FramesInv
      /\ \E p : p = Polled /\ Means(p)
    BY DEF StreamInv
<1>2. PICK p : p = Polled /\ Means(p)
    BY <1>1
<1>3. CASE PollQueued
  <2>1. /\ ready # <<>> /\ returned' = Append(returned, Head(ready)) /\ ready' = Tail(ready)
        /\ task = "awake"
        /\ UNCHANGED <<format, text, peer, arrived, frames, task, buffer, pending, lastId>>
      BY <1>3 DEF PollQueued, body
  <2>2. /\ returned' \in Seq(AllItems) /\ ready' \in Seq(AllItems)
        /\ returned' \o ready' = returned \o ready
    <3>1. \A u, v \in Seq(AllItems) : v # <<>> =>
              /\ Append(u, Head(v)) \in Seq(AllItems) /\ Tail(v) \in Seq(AllItems)
              /\ Append(u, Head(v)) \o Tail(v) = u \o v
        BY HeadToLast
    <3> HIDE DEF AllItems
    <3> QED BY <1>1, <2>1, <3>1
  <2>3. TypeOK' /\ FramesInv'
      BY <1>1, <2>1 DEF TypeOK, FramesInv
  <2>4. Polled' = Polled
      BY <2>1 DEF Polled
  <2>5. Means(p)'
      BY <1>2, <2>1, <2>2, MeansTheSame DEF body
  <2> QED BY <1>2, <2>2, <2>3, <2>4, <2>5 DEF StreamInv, Means, AllItems, AllEvents, AllLines
<1>4. CASE PollTrailers \/ PollLast
  <2>1. PICK kind \in {"trailers", "end", "error"} :
            /\ task = "awake" /\ ready = <<>>
            /\ frames # <<>> /\ Head(frames).kind = kind /\ frames' = Tail(frames)
            /\ UNCHANGED <<body, peer, arrived>>
            /\ UNCHANGED <<buffer, pending, ready, lastId, returned>>
            /\ \/ task' = "awake"
               \/ kind \in {"end", "error"} /\ task' \in {"ended", "failed"}
      BY <1>4 DEF PollTrailers, PollLast, Polls, PollsBody, PollPending
  <2>2. /\ Head(frames) \in Frame
        /\ Polled = Head(frames).from /\ Polled' = Head(frames).to
        /\ kind = "data" <=> Head(frames).from < Head(frames).to
        /\ frames' \in Seq(Frame)
        /\ UNCHANGED <<format, text, peer, arrived>>
    <3>1. task' = task \/ task' = "awake" \/ (kind \in {"end", "error"} /\ ready' = ready)
        BY <2>1
    <3> QED BY <2>1, <3>1, PollsFacts
  <2>3. FramesInv'
    <3>1. task' = task \/ task' = "awake" \/ (kind \in {"end", "error"} /\ ready' = ready)
        BY <2>1
    <3> QED BY <2>1, <3>1, PollsFacts
  <2>4. Polled' = Polled
    <3>1. Head(frames).from = Head(frames).to
      <4>1. Head(frames).from <= Head(frames).to
        <5>1. Len(frames) \in Nat /\ 1 \in DOMAIN frames /\ frames[1] = Head(frames)
            BY <1>1, <2>1 DEF TypeOK
        <5> QED BY <1>1, <5>1 DEF FramesInv
      <4>2. Head(frames).from \in Nat /\ Head(frames).to \in Nat
          BY <2>2 DEF Frame
      <4> QED BY <2>1, <2>2, <4>1, <4>2
    <3> QED BY <2>2, <3>1
  <2>5. TypeOK'
      BY <1>1, <2>1, <2>2 DEF TypeOK, Frame
  <2>6. Means(p)'
      BY <1>2, <2>1, MeansTheSame
  <2>7. (returned \in Seq(AllItems) /\ ready \in Seq(AllItems))'
      BY <1>1, <2>1 DEF AllItems, AllEvents, AllLines
  <2> QED BY <1>2, <2>3, <2>4, <2>5, <2>6, <2>7 DEF StreamInv, Means
<1>5. CASE PollNothing
  <2>1. /\ task = "awake" /\ ready = <<>> /\ frames = <<>> /\ task' = "asleep"
        /\ UNCHANGED <<format, text, peer, arrived, frames, buffer, pending, ready, lastId,
                       returned>>
      BY <1>5 DEF PollNothing, PollsBody, body
  <2>2. TypeOK' /\ FramesInv' /\ Polled' = Polled
      BY <1>1, <2>1 DEF TypeOK, FramesInv, Polled
  <2>3. Means(p)'
      BY <1>2, <2>1, MeansTheSame DEF body
  <2>4. (returned \in Seq(AllItems) /\ ready \in Seq(AllItems))'
      BY <1>1, <2>1 DEF AllItems, AllEvents, AllLines
  <2> QED BY <1>2, <2>2, <2>3, <2>4 DEF StreamInv, Means
<1> QED BY <1>3, <1>4, <1>5

LEMMA ArriveKeepsInv ==
    ASSUME StreamInv, Arrive
    PROVE  StreamInv'
<1>1. Len(text) \in Nat /\ arrived \in 0..Len(text) /\ peer \in {"sending", "trailed", "done"}
      /\ (peer = "trailed" => arrived = Len(text))
    BY ConstantsAssumption DEF StreamInv, TypeOK
<1>2. CASE \E n \in 1..(Len(text) - arrived) : Data(n)
  <2>1. PICK kind \in {"data", "trailers", "end", "error"}, to \in arrived..Len(text) :
            /\ kind = "data" /\ Push(kind, to) /\ peer = "sending" /\ peer' = "sending"
            /\ to # arrived
    <3>1. PICK n \in 1..(Len(text) - arrived) : Data(n)
        BY <1>2
    <3>2. Push("data", arrived + n) /\ peer = "sending" /\ peer' = "sending"
          /\ arrived + n \in arrived..Len(text) /\ arrived + n # arrived
        BY <1>1, <3>1 DEF Data
    <3> QED BY <3>2
  <2> QED BY <2>1, PushKeepsInv
<1>3. CASE Trailers
  <2>1. PICK kind \in {"data", "trailers", "end", "error"}, to \in arrived..Len(text) :
            /\ kind = "trailers" /\ Push(kind, to) /\ peer = "sending" /\ peer' = "trailed"
            /\ to = arrived /\ to = Len(text)
      BY <1>1, <1>3 DEF Trailers
  <2> QED BY <2>1, PushKeepsInv
<1>4. CASE LastFrame
  <2>1. PICK kind \in {"data", "trailers", "end", "error"}, to \in arrived..Len(text) :
            /\ kind \in {"end", "error"} /\ Push(kind, to) /\ peer # "done" /\ peer' = "done"
            /\ to = arrived
      BY <1>1, <1>4 DEF LastFrame
  <2> QED BY <2>1, PushKeepsInv
<1> QED BY <1>2, <1>3, <1>4 DEF Arrive

LEMMA StepKeepsInv == StreamInv /\ [Next]_vars => StreamInv'
<1> SUFFICES ASSUME StreamInv, [Next]_vars PROVE StreamInv'
    OBVIOUS
<1>1. CASE UNCHANGED vars
    BY <1>1 DEF vars, body, StreamInv, TypeOK, FramesInv, Polled, Means, Items,
                AllItems, AllEvents, AllLines
<1>2. CASE PollData
    BY <1>2, PollDataKeepsInv
<1>3. CASE PollQueued \/ PollTrailers \/ PollLast \/ PollNothing
    BY <1>3, PollKeepsInv
<1>4. CASE Arrive
    BY <1>4, ArriveKeepsInv
<1> QED BY <1>1, <1>2, <1>3, <1>4 DEF Next, PollNext

-----------------------------------------------------------------------------
(* Theorems. *)

(***************************************************************************)
(* Between two frames a stream keeps what the text polled so far leaves    *)
(* open, and nothing else (sse.rs:173-176, 186).                           *)
(***************************************************************************)
THEOREM WhatIsKept == Spec => []IInv
<1>1. StreamInv => IInv
    BY StreamInvSays
<1> QED BY <1>1, InitStreamInv, StepKeepsInv, PTL DEF Spec

(***************************************************************************)
(* "Handles arbitrary frame boundaries" (sse.rs:37, ndjson.rs:20), for     *)
(* every text and every way to cut it into frames.                         *)
(***************************************************************************)
THEOREM AnyFraming == Spec => []FramingDoesNotMatter
<1>1. StreamInv => FramingDoesNotMatter
    BY StreamInvSays
<1> QED BY <1>1, InitStreamInv, StepKeepsInv, PTL DEF Spec

(***************************************************************************)
(* "Emits values as soon as they are complete" (ndjson.rs:23): nothing     *)
(* complete is left behind by a task that sleeps or has stopped.           *)
(***************************************************************************)
THEOREM AllIsGiven == Spec => []NothingHeldBack
<1>1. StreamInv => NothingHeldBack
  <2> SUFFICES ASSUME StreamInv, task # "awake"
               PROVE  returned = Items(LinesOf(SubSeq(text, 1, arrived)))
      BY DEF NothingHeldBack
  <2>1. frames = <<>> /\ ready = <<>>
      BY DEF StreamInv, TypeOK, FramesInv
  <2>2. Polled = arrived
      BY <2>1 DEF Polled
  <2>3. returned \o ready = returned
      BY <2>1 DEF StreamInv
  <2> QED BY <2>2, <2>3 DEF StreamInv, Means
<1> QED BY <1>1, InitStreamInv, StepKeepsInv, PTL DEF Spec
=============================================================================
