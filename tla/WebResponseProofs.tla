------------------------- MODULE WebResponseProofs -------------------------
(***************************************************************************)
(* The types of WebResponse and StreamIntact, for every kind of response,  *)
(* every length of head and content, every window, any files of templates  *)
(* and any values of their names.                                          *)
(*                                                                         *)
(* The inductive invariant says what StreamIntact does not: that what      *)
(* reached the browser, the rest of the head and what is to come make the  *)
(* whole (ToldKept; BasicKept for AsyncBasicResponse), that a source has   *)
(* left what lies behind the length sent (SourceKept), and that the chunks *)
(* sent begin behind the head and end with the bytes (ChunksKept).  After  *)
(* a disconnection nothing is left (Gone).                                 *)
(*                                                                         *)
(* The steps of a file of templates rest on TemplatesReplaced.  Expanded,  *)
(* the loop of Processed and Plain are recursions: that functions with     *)
(* their values exist is shown from the sizes of what they recur on, the   *)
(* length of a text and the number of percent signs to be looked at, by    *)
(* Recursion and by well-founded minima.  A turn of the loop leaves fewer  *)
(* percent signs (values have none), and what the text becomes (Goes).     *)
(***************************************************************************)
EXTENDS WebResponse, SequenceTheorems, FiniteSetTheorems, NaturalsInduction, WellFoundedInduction, TLAPS

(* Recursion on a set whose elements have sizes *)

\* A set whose elements have sizes has one of the smallest.
LEMMA Smallest ==
  ASSUME NEW S, NEW measure \in [S -> Nat], NEW T \in SUBSET S, T # {}
  PROVE  \E x \in T : \A y \in T : ~(measure[y] < measure[x])
<1> DEFINE R == OpToRel(<, Nat)
           N == {measure[x] : x \in T}
<1>1. IsWellFoundedOn(R, Nat)
  BY NatLessThanWellFounded
<1>2. \A x, y \in Nat : <<x, y>> \in R <=> x < y
  BY DEF OpToRel
<1>3. N \subseteq Nat /\ N # {}
  OBVIOUS
<1> HIDE DEF R
<1>4. PICK n \in N : \A m \in N : <<m, n>> \notin R
  <2> HIDE DEF N
  <2> QED BY <1>1, <1>3, WFMin
<1>5. PICK x \in T : n = measure[x]
  OBVIOUS
<1>6. \A y \in T : measure[y] \in N /\ measure[y] \in Nat /\ measure[x] \in Nat
  OBVIOUS
<1> QED BY <1>2, <1>4, <1>5, <1>6

\* f is base where it stops, and elsewhere step of what it is at the next element.
IsRecursive(f, S, R, stop, base, next, step) ==
  /\ f \in [S -> R]
  /\ \A x \in S : f[x] = IF x \in stop THEN base[x] ELSE step[<<x, f[next[x]]>>]

\* A recursion on S: every element that does not stop it goes to a smaller one.
IsSystem(S, R, measure, stop, base, next, step) ==
  /\ measure \in [S -> Nat] /\ base \in [S -> R] /\ next \in [S -> S] /\ step \in [S \X R -> R]
  /\ \A x \in S : x \notin stop => measure[next[x]] < measure[x]

\* A function that recurs on smaller elements exists.
LEMMA Recursion ==
  ASSUME NEW S, NEW R, NEW measure, NEW stop, NEW base, NEW next, NEW step,
         IsSystem(S, R, measure, stop, base, next, step)
  PROVE  \E f : IsRecursive(f, S, R, stop, base, next, step)
<1>1. /\ measure \in [S -> Nat] /\ base \in [S -> R] /\ next \in [S -> S] /\ step \in [S \X R -> R]
      /\ \A x \in S : x \notin stop => measure[next[x]] < measure[x]
  BY DEF IsSystem
<1> DEFINE Below(n) == {x \in S : measure[x] <= n}
           Solves(f, n) == /\ f \in [Below(n) -> R]
                           /\ \A x \in Below(n) :
                                f[x] = IF x \in stop THEN base[x] ELSE step[<<x, f[next[x]]>>]
           Unsolved == {n \in Nat : ~\E f : Solves(f, n)}
<1>2. ASSUME NEW n \in Nat, NEW x \in Below(n), x \notin stop
      PROVE  n # 0 /\ n - 1 \in Nat /\ next[x] \in Below(n - 1) /\ next[x] \in Below(n)
  <2>1. measure[x] \in Nat /\ next[x] \in S /\ measure[next[x]] \in Nat /\ measure[next[x]] < measure[x] /\ measure[x] <= n
    BY <1>1, <1>2
  <2> QED BY <2>1
<1>3. ASSUME NEW n \in Nat, NEW f, n # 0 => Solves(f, n - 1) PROVE \E g : Solves(g, n)
  <2> DEFINE V(x) == IF x \in stop THEN base[x] ELSE step[<<x, f[next[x]]>>]
             g == [x \in Below(n) |-> V(x)]
  <2>1. ASSUME NEW x \in Below(n), x \notin stop
        PROVE  f[next[x]] \in R /\ f[next[x]] = g[next[x]]
    <3>1. Solves(f, n - 1) /\ next[x] \in Below(n - 1) /\ next[x] \in Below(n)
      BY <1>2, <1>3, <2>1
    <3> HIDE DEF Below
    <3>2. f[next[x]] \in R /\ f[next[x]] = V(next[x]) /\ g[next[x]] = V(next[x])
      BY <3>1
    <3> QED BY <3>2
  <2>2. ASSUME NEW x \in Below(n) PROVE V(x) \in R
    <3>1. x \in S
      OBVIOUS
    <3>2. CASE x \in stop
      BY <1>1, <3>1, <3>2
    <3>3. CASE x \notin stop
      <4>1. <<x, f[next[x]]>> \in S \X R
        BY <2>1, <3>1, <3>3
      <4> QED BY <1>1, <3>3, <4>1
    <3> QED BY <3>2, <3>3
  <2>3. g \in [Below(n) -> R]
    <3> HIDE DEF Below, V
    <3> QED BY <2>2
  <2>4. ASSUME NEW x \in Below(n) PROVE g[x] = IF x \in stop THEN base[x] ELSE step[<<x, g[next[x]]>>]
    <3>1. g[x] = V(x)
      <4> HIDE DEF Below, V
      <4> QED OBVIOUS
    <3> HIDE DEF g, Below
    <3> QED BY <2>1, <3>1
  <2> HIDE DEF g, Below
  <2> QED BY <2>3, <2>4
<1>4. \A n \in Nat : \E f : Solves(f, n)
  <2> HIDE DEF Solves
  <2> DEFINE id == [n \in Nat |-> n]
  <2>0. id \in [Nat -> Nat] /\ Unsolved \in SUBSET Nat
    OBVIOUS
  <2>1. CASE Unsolved # {}
    <3> HIDE DEF id
    <3>1. PICK n \in Unsolved : \A m \in Unsolved : ~(id[m] < id[n])
      <4> HIDE DEF Unsolved
      <4> QED BY <2>0, <2>1, Smallest
    <3>2. n \in Nat /\ ~\E f : Solves(f, n)
      OBVIOUS
    <3>3. n # 0 => n - 1 \in Nat /\ n - 1 < n
      BY <3>2
    <3>4. n # 0 => n - 1 \notin Unsolved
      <4>1. \A m \in Nat : id[m] = m
        BY DEF id
      <4> QED BY <3>1, <3>2, <3>3, <4>1
    <3>5. n # 0 => \E f : Solves(f, n - 1)
      BY <3>3, <3>4
    <3>6. \E f : n # 0 => Solves(f, n - 1)
      BY <3>5
    <3> HIDE DEF Unsolved
    <3> QED BY <1>3, <3>2, <3>6
  <2> QED BY <2>1
<1>5. ASSUME NEW n \in Nat, NEW m \in Nat, NEW f, NEW g, Solves(f, n), Solves(g, m)
      PROVE  \A x \in Below(n) \cap Below(m) : f[x] = g[x]
  <2> DEFINE T == {x \in Below(n) \cap Below(m) : f[x] # g[x]}
  <2>1. CASE T # {}
    <3>1. T \in SUBSET S
      OBVIOUS
    <3>2. PICK x \in T : \A y \in T : ~(measure[y] < measure[x])
      <4> HIDE DEF T
      <4> QED BY <1>1, <2>1, <3>1, Smallest
    <3>3. x \in Below(n) /\ x \in Below(m) /\ f[x] # g[x] /\ x \in S
      OBVIOUS
    <3>4. x \notin stop
      <4> HIDE DEF Below
      <4> QED BY <1>5, <3>3
    <3>5. next[x] \in Below(n) /\ next[x] \in Below(m)
      BY <1>2, <3>3, <3>4
    <3>6. f[next[x]] = g[next[x]]
      <4>1. measure[next[x]] < measure[x]
        BY <1>1, <3>3, <3>4
      <4> HIDE DEF Below
      <4> QED BY <3>2, <3>5, <4>1
    <3> HIDE DEF Below
    <3> QED BY <1>5, <3>3, <3>4, <3>6
  <2> QED BY <2>1
<1> DEFINE F(x) == CHOOSE f : Solves(f, measure[x])
           h == [x \in S |-> F(x)[x]]
<1>6. ASSUME NEW x \in S PROVE Solves(F(x), measure[x]) /\ x \in Below(measure[x]) /\ measure[x] \in Nat
  <2>1. measure[x] \in Nat
    BY <1>1
  <2>2. x \in Below(measure[x])
    BY <2>1
  <2> HIDE DEF Solves
  <2> QED BY <1>4, <2>1, <2>2
<1> HIDE DEF F
<1>7. ASSUME NEW x \in S PROVE F(x)[x] \in R
  BY <1>6
<1>8. h \in [S -> R]
  BY <1>7
<1>9. ASSUME NEW x \in S PROVE h[x] = IF x \in stop THEN base[x] ELSE step[<<x, h[next[x]]>>]
  <2>1. h[x] = F(x)[x]
    OBVIOUS
  <2>2. F(x)[x] = IF x \in stop THEN base[x] ELSE step[<<x, F(x)[next[x]]>>]
    <3> HIDE DEF Below, h
    <3> QED BY <1>6
  <2>3. ASSUME x \notin stop PROVE h[next[x]] = F(x)[next[x]]
    <3>1. next[x] \in S /\ next[x] \in Below(measure[x])
      BY <1>1, <1>2, <1>6, <2>3
    <3>2. h[next[x]] = F(next[x])[next[x]]
      BY <3>1
    <3>3. next[x] \in Below(measure[next[x]]) /\ Solves(F(next[x]), measure[next[x]]) /\ measure[next[x]] \in Nat
      BY <1>6, <3>1
    <3> HIDE DEF Below, Solves, h
    <3> QED BY <1>5, <1>6, <3>1, <3>2, <3>3
  <2> HIDE DEF h
  <2> QED BY <2>1, <2>2, <2>3
<1> HIDE DEF h
<1>10. IsRecursive(h, S, R, stop, base, next, step)
  BY <1>8, <1>9 DEF IsRecursive
<1> QED BY <1>10

-----------------------------------------------------------------------------
(* Cuts of sequences *)

\* The two parts of a sequence.
LEMMA Cuts ==
  ASSUME NEW S, NEW s \in Seq(S), NEW n \in 0..Len(s)
  PROVE  /\ Upto(s, n) \in Seq(S) /\ Len(Upto(s, n)) = n
         /\ From(s, n) \in Seq(S) /\ Len(From(s, n)) = Len(s) - n
         /\ \A i \in 1..n : Upto(s, n)[i] = s[i]
         /\ \A i \in 1..(Len(s) - n) : From(s, n)[i] = s[n + i]
<1>0. Len(s) \in Nat /\ n \in Int /\ n + 1 \in Int
  BY LenProperties
<1>1. \A i \in 1..n : s[i] \in S
  BY <1>0, ElementOfSeq
<1>2. \A i \in (n + 1)..Len(s) : s[i] \in S
  BY <1>0, ElementOfSeq
<1>3. /\ SubSeq(s, 1, n) \in Seq(S)
      /\ Len(SubSeq(s, 1, n)) = IF 1 <= n THEN n - 1 + 1 ELSE 0
      /\ \A i \in 1..(n - 1 + 1) : SubSeq(s, 1, n)[i] = s[1 + i - 1]
  BY <1>0, <1>1, SubSeqProperties
<1>4. /\ SubSeq(s, n + 1, Len(s)) \in Seq(S)
      /\ Len(SubSeq(s, n + 1, Len(s))) = IF n + 1 <= Len(s) THEN Len(s) - (n + 1) + 1 ELSE 0
      /\ \A i \in 1..(Len(s) - (n + 1) + 1) : SubSeq(s, n + 1, Len(s))[i] = s[(n + 1) + i - 1]
  BY <1>0, <1>2, SubSeqProperties
<1>5. Upto(s, n) = SubSeq(s, 1, n) /\ From(s, n) = SubSeq(s, n + 1, Len(s))
  BY DEF Upto, From
<1>6. Len(Upto(s, n)) = n /\ \A i \in 1..n : Upto(s, n)[i] = s[i]
  BY <1>0, <1>3, <1>5
<1>7. Len(From(s, n)) = Len(s) - n /\ \A i \in 1..(Len(s) - n) : From(s, n)[i] = s[n + i]
  BY <1>0, <1>4, <1>5
<1> QED BY <1>3, <1>4, <1>5, <1>6, <1>7

\* The two cuts of a sequence make it again.
LEMMA Joined ==
  ASSUME NEW S, NEW s \in Seq(S), NEW n \in 0..Len(s)
  PROVE  Upto(s, n) \o From(s, n) = s
<1> DEFINE u == Upto(s, n)
           f == From(s, n)
<1>0. Len(s) \in Nat /\ n \in Nat /\ n <= Len(s)
  BY LenProperties
<1>1. /\ u \in Seq(S) /\ Len(u) = n /\ f \in Seq(S) /\ Len(f) = Len(s) - n
      /\ \A i \in 1..n : u[i] = s[i]
      /\ \A i \in 1..(Len(s) - n) : f[i] = s[n + i]
  BY Cuts
<1> HIDE DEF u, f
<1>2. /\ u \o f \in Seq(S) /\ Len(u \o f) = Len(u) + Len(f)
      /\ \A i \in 1..(Len(u) + Len(f)) : (u \o f)[i] = IF i <= Len(u) THEN u[i] ELSE f[i - Len(u)]
  BY <1>1, ConcatProperties
<1>3. Len(u \o f) = Len(s)
  BY <1>0, <1>1, <1>2
<1>4. \A i \in 1..Len(u \o f) : (u \o f)[i] = s[i]
  BY <1>0, <1>1, <1>2
<1>5. u \o f = s
  BY <1>2, <1>3, <1>4, SeqEqual
<1> QED BY <1>5 DEF u, f

\* The ends of a sequence's cuts.
LEMMA Ends ==
  ASSUME NEW S, NEW s \in Seq(S)
  PROVE  /\ Upto(s, 0) = <<>> /\ From(s, 0) = s
         /\ Upto(s, Len(s)) = s /\ From(s, Len(s)) = <<>>
<1>0. Len(s) \in Nat
  BY LenProperties
<1>1. SubSeq(s, 1, 0) = <<>> /\ SubSeq(s, Len(s) + 1, Len(s)) = <<>>
  BY <1>0, SubSeqEmpty
<1>2. SubSeq(s, 1, Len(s)) = s
  BY SubSeqFull
<1>3. 0 + 1 = 1
  OBVIOUS
<1> QED BY <1>1, <1>2, <1>3 DEF Upto, From

\* Cuts of cuts.
LEMMA CutTwice ==
  ASSUME NEW S, NEW s \in Seq(S), NEW n \in 0..Len(s)
  PROVE  /\ \A m \in 0..n : Upto(Upto(s, n), m) = Upto(s, m)
         /\ \A m \in 0..(Len(s) - n) : From(From(s, n), m) = From(s, n + m)
         /\ \A m \in 0..(Len(s) - n) : Upto(s, n + m) = Upto(s, n) \o Upto(From(s, n), m)
<1> DEFINE u == Upto(s, n)
           f == From(s, n)
<1>0. Len(s) \in Nat /\ n \in Nat /\ n <= Len(s)
  BY LenProperties
<1>1. /\ u \in Seq(S) /\ Len(u) = n /\ f \in Seq(S) /\ Len(f) = Len(s) - n
      /\ \A i \in 1..n : u[i] = s[i]
      /\ \A i \in 1..(Len(s) - n) : f[i] = s[n + i]
  BY Cuts
<1> HIDE DEF u, f
<1>2. ASSUME NEW m \in 0..n PROVE Upto(u, m) = Upto(s, m)
  <2>0. m \in 0..Len(s) /\ m \in 0..Len(u) /\ m \in Nat /\ m <= n
    BY <1>0, <1>1
  <2>1. /\ Upto(u, m) \in Seq(S) /\ Len(Upto(u, m)) = m
        /\ \A i \in 1..m : Upto(u, m)[i] = u[i]
    BY <1>1, <2>0, Cuts
  <2>2. /\ Upto(s, m) \in Seq(S) /\ Len(Upto(s, m)) = m
        /\ \A i \in 1..m : Upto(s, m)[i] = s[i]
    BY <2>0, Cuts
  <2>3. \A i \in 1..m : Upto(u, m)[i] = Upto(s, m)[i]
    BY <1>0, <1>1, <2>0, <2>1, <2>2
  <2> QED BY <2>1, <2>2, <2>3, SeqEqual
<1>3. ASSUME NEW m \in 0..(Len(s) - n)
      PROVE  From(f, m) = From(s, n + m) /\ Upto(s, n + m) = u \o Upto(f, m)
  <2>0. n + m \in 0..Len(s) /\ m \in 0..Len(f) /\ m \in Nat /\ m <= Len(s) - n
    BY <1>0, <1>1
  <2>1. /\ From(f, m) \in Seq(S) /\ Len(From(f, m)) = Len(f) - m
        /\ Upto(f, m) \in Seq(S) /\ Len(Upto(f, m)) = m
        /\ \A i \in 1..(Len(f) - m) : From(f, m)[i] = f[m + i]
        /\ \A i \in 1..m : Upto(f, m)[i] = f[i]
    BY <1>1, <2>0, Cuts, ZenonT(60)
  <2>2. /\ From(s, n + m) \in Seq(S) /\ Len(From(s, n + m)) = Len(s) - (n + m)
        /\ Upto(s, n + m) \in Seq(S) /\ Len(Upto(s, n + m)) = n + m
        /\ \A i \in 1..(Len(s) - (n + m)) : From(s, n + m)[i] = s[(n + m) + i]
        /\ \A i \in 1..(n + m) : Upto(s, n + m)[i] = s[i]
    BY <2>0, Cuts
  <2>3. Len(From(f, m)) = Len(From(s, n + m)) /\ \A i \in 1..Len(From(f, m)) : From(f, m)[i] = From(s, n + m)[i]
    <3>1. \A i \in 1..(Len(f) - m) : m + i \in 1..(Len(s) - n) /\ i \in 1..(Len(s) - (n + m)) /\ (n + m) + i = n + (m + i)
      BY <1>0, <1>1, <2>0
    <3>2. Len(f) - m = Len(s) - (n + m)
      BY <1>0, <1>1, <2>0
    <3>3. ASSUME NEW i \in 1..(Len(f) - m) PROVE From(f, m)[i] = From(s, n + m)[i]
      <4>1. From(f, m)[i] = f[m + i] /\ f[m + i] = s[n + (m + i)]
        BY <1>1, <2>1, <3>1
      <4>2. From(s, n + m)[i] = s[(n + m) + i]
        BY <2>2, <3>1
      <4> QED BY <3>1, <4>1, <4>2
    <3> QED BY <2>1, <2>2, <3>2, <3>3
  <2>4. /\ u \o Upto(f, m) \in Seq(S) /\ Len(u \o Upto(f, m)) = Len(u) + Len(Upto(f, m))
        /\ \A i \in 1..(Len(u) + Len(Upto(f, m))) :
             (u \o Upto(f, m))[i] = IF i <= Len(u) THEN u[i] ELSE Upto(f, m)[i - Len(u)]
    <3>1. Upto(f, m) \in Seq(S) /\ u \in Seq(S)
      BY <1>1, <2>1
    <3> DEFINE v == Upto(f, m)
    <3> HIDE DEF v
    <3>2. /\ u \o v \in Seq(S) /\ Len(u \o v) = Len(u) + Len(v)
          /\ \A i \in 1..(Len(u) + Len(v)) : (u \o v)[i] = IF i <= Len(u) THEN u[i] ELSE v[i - Len(u)]
      BY ONLY <3>1, ConcatProperties DEF v
    <3> QED BY <3>2 DEF v
  <2>5. \A i \in 1..(n + m) : (u \o Upto(f, m))[i] = Upto(s, n + m)[i]
    <3>1. ASSUME NEW i \in 1..(n + m), i <= n PROVE (u \o Upto(f, m))[i] = Upto(s, n + m)[i]
      <4>1. i \in 1..n /\ i \in 1..(Len(u) + Len(Upto(f, m))) /\ i <= Len(u)
        BY <1>0, <1>1, <2>0, <2>1, <3>1
      <4> QED BY <1>1, <2>2, <2>4, <4>1
    <3>2. ASSUME NEW i \in 1..(n + m), ~(i <= n) PROVE (u \o Upto(f, m))[i] = Upto(s, n + m)[i]
      <4>1. i - n \in 1..m /\ i \in 1..(Len(u) + Len(Upto(f, m))) /\ ~(i <= Len(u)) /\ i - Len(u) = i - n
            /\ i - n \in 1..(Len(s) - n) /\ n + (i - n) = i
        BY <1>0, <1>1, <2>0, <2>1, <3>2, SMTT(40)
      <4>2. (u \o Upto(f, m))[i] = Upto(f, m)[i - Len(u)]
        BY <2>4, <4>1
      <4>3. Upto(f, m)[i - n] = f[i - n] /\ f[i - n] = s[n + (i - n)]
        BY <1>1, <2>1, <4>1
      <4> QED BY <2>2, <4>1, <4>2, <4>3
    <3> QED BY <3>1, <3>2
  <2>6. Len(u \o Upto(f, m)) = n + m
    BY <1>1, <2>1, <2>4
  <2>7. u \o Upto(f, m) = Upto(s, n + m)
    BY <2>2, <2>4, <2>5, <2>6, SeqEqual
  <2> QED BY <2>1, <2>2, <2>3, <2>7, SeqEqual
<1> QED BY <1>2, <1>3 DEF u, f

\* A cut of two sequences that follow each other, in the first or in the second.
LEMMA CutFirst ==
  ASSUME NEW S, NEW s \in Seq(S), NEW t \in Seq(S), NEW n \in 0..Len(s)
  PROVE  Upto(s \o t, n) = Upto(s, n) /\ From(s \o t, n) = From(s, n) \o t
<1> DEFINE u == Upto(s, n)
           f == From(s, n)
<1>0. Len(s) \in Nat /\ n \in Nat /\ n <= Len(s) /\ Len(t) \in Nat
  BY LenProperties
<1>1. u \in Seq(S) /\ Len(u) = n /\ f \in Seq(S) /\ Len(f) = Len(s) - n /\ u \o f = s
  BY Cuts, Joined, ZenonT(60)
<1> HIDE DEF u, f
<1>2. f \o t \in Seq(S) /\ Len(f \o t) = Len(f) + Len(t) /\ s \o t = u \o (f \o t)
  <2>1. u \in Seq(S) /\ f \in Seq(S)
    BY <1>1
  <2>2. (u \o f) \o t = u \o (f \o t)
    <3>1. \A x, y, z \in Seq(S) : (x \o y) \o z = x \o (y \o z)
      BY ConcatAssociative, SMTT(40)
    <3> QED BY <2>1, <3>1, ZenonT(60)
  <2> QED BY <1>1, <2>2, ConcatProperties
<1> DEFINE w == f \o t
<1> HIDE DEF w
<1>3. w \in Seq(S) /\ s \o t = u \o w
  BY <1>2 DEF w
<1>4. Upto(u \o w, n) = u /\ From(u \o w, n) = w
  <2>1. /\ u \o w \in Seq(S) /\ Len(u \o w) = Len(u) + Len(w) /\ Len(w) \in Nat
        /\ \A i \in 1..(Len(u) + Len(w)) : (u \o w)[i] = IF i <= Len(u) THEN u[i] ELSE w[i - Len(u)]
    BY <1>1, <1>3, ConcatProperties, LenProperties
  <2> DEFINE a == u \o w
  <2> HIDE DEF a
  <2>2. /\ a \in Seq(S) /\ Len(a) = n + Len(w)
        /\ \A i \in 1..(n + Len(w)) : a[i] = IF i <= n THEN u[i] ELSE w[i - n]
    BY <1>1, <2>1 DEF a
  <2>3. n \in 0..Len(a)
    BY <1>0, <2>1, <2>2
  <2>4. /\ Upto(a, n) \in Seq(S) /\ Len(Upto(a, n)) = n
        /\ From(a, n) \in Seq(S) /\ Len(From(a, n)) = Len(a) - n
        /\ \A i \in 1..n : Upto(a, n)[i] = a[i]
        /\ \A i \in 1..(Len(a) - n) : From(a, n)[i] = a[n + i]
    BY <2>2, <2>3, Cuts
  <2>5. Len(Upto(a, n)) = Len(u) /\ \A i \in 1..Len(u) : Upto(a, n)[i] = u[i]
    <3>1. \A i \in 1..n : i <= n /\ i \in 1..(n + Len(w))
      BY <1>0, <2>1
    <3> QED BY <1>1, <2>2, <2>4, <3>1
  <2>6. Len(From(a, n)) = Len(w)
    BY <1>0, <2>1, <2>2, <2>4
  <2>7. \A i \in 1..Len(w) : From(a, n)[i] = w[i]
    <3>1. \A i \in 1..Len(w) : /\ i \in 1..(Len(a) - n) /\ n + i \in 1..(n + Len(w))
                               /\ ~(n + i <= n) /\ (n + i) - n = i
      BY <1>0, <2>1, <2>2
    <3> QED BY <2>2, <2>4, <3>1
  <2>8. Upto(a, n) = u
    BY <1>1, <2>4, <2>5, SeqEqual
  <2>9. From(a, n) = w
    BY <1>3, <2>4, <2>6, <2>7, SeqEqual
  <2> QED BY <2>8, <2>9 DEF a
<1> QED BY <1>3, <1>4 DEF u, f, w

\* A cut in the second of two sequences.
LEMMA CutSecond ==
  ASSUME NEW S, NEW s \in Seq(S), NEW t \in Seq(S), NEW n \in 0..Len(t)
  PROVE  Upto(s \o t, Len(s) + n) = s \o Upto(t, n) /\ From(s \o t, Len(s) + n) = From(t, n)
<1> DEFINE w == s \o t
           u == Upto(t, n)
           f == From(t, n)
           v == s \o u
<1>0. Len(s) \in Nat /\ n \in Nat /\ n <= Len(t) /\ Len(t) \in Nat
  BY LenProperties
<1>1. u \in Seq(S) /\ Len(u) = n /\ f \in Seq(S) /\ u \o f = t
  BY Cuts, Joined
<1> HIDE DEF u, f
<1>2. v \in Seq(S) /\ Len(v) = Len(s) + n /\ v \o f = w
  <2>1. s \o (u \o f) = (s \o u) \o f
    <3>1. u \in Seq(S) /\ f \in Seq(S)
      BY <1>1
    <3> QED BY <3>1, ConcatAssociative, SMTT(40)
  <2> QED BY <1>1, <2>1, ConcatProperties
<1> HIDE DEF v, w
<1>3. Len(s) + n \in 0..Len(v)
  BY <1>0, <1>2
<1>4. Upto(v \o f, Len(s) + n) = Upto(v, Len(s) + n) /\ From(v \o f, Len(s) + n) = From(v, Len(s) + n) \o f
  BY <1>1, <1>2, <1>3, CutFirst
<1>5. Upto(v, Len(s) + n) = v /\ From(v, Len(s) + n) = <<>>
  BY <1>2, Ends
<1>6. <<>> \o f = f
  BY <1>1, ConcatEmptySeq
<1>7. Upto(w, Len(s) + n) = v /\ From(w, Len(s) + n) = f
  BY <1>2, <1>4, <1>5, <1>6
<1> QED BY <1>7 DEF w, v, u, f

-----------------------------------------------------------------------------
(* Percent signs *)

\* FirstOf is the least.
LEMMA FirstIs ==
  ASSUME NEW I \in SUBSET Nat, I # {}
  PROVE  FirstOf(I) \in I /\ \A j \in I : FirstOf(I) <= j
<1> DEFINE id == [n \in Nat |-> n]
<1>1. id \in [Nat -> Nat] /\ \A n \in Nat : id[n] = n
  OBVIOUS
<1> HIDE DEF id
<1>2. PICK i \in I : \A j \in I : ~(id[j] < id[i])
  BY <1>1, Smallest
<1>3. \A j \in I : i <= j
  <2>1. ASSUME NEW j \in I PROVE i <= j
    <3>1. i \in Nat /\ j \in Nat /\ id[j] = j /\ id[i] = i /\ ~(id[j] < id[i])
      BY <1>1, <1>2
    <3> QED BY <3>1
  <2> QED BY <2>1
<1>4. \E x \in I : \A j \in I : x <= j
  BY <1>2, <1>3
<1> QED BY <1>4 DEF FirstOf

\* The least of a set is its first.
LEMMA FirstIsLeast ==
  ASSUME NEW I \in SUBSET Nat, NEW i \in I, \A j \in I : i <= j
  PROVE  FirstOf(I) = i
<1>1. FirstOf(I) \in I /\ FirstOf(I) <= i
  BY FirstIs
<1>2. i <= FirstOf(I) /\ i \in Nat /\ FirstOf(I) \in Nat
  BY <1>1
<1> QED BY <1>1, <1>2

\* Marks are the places of the percent signs from p on.
LEMMA MarksAre ==
  ASSUME NEW text \in Seq(Character), NEW p \in Nat
  PROVE  /\ Marks(text, p) \in SUBSET Nat /\ Marks(text, p) \subseteq p..Len(text)
         /\ \A i : i \in Marks(text, p) <=> i \in Nat /\ p <= i /\ i <= Len(text) /\ text[i] = Mark
<1>1. Len(text) \in Nat
  BY LenProperties
<1> QED BY <1>1 DEF Marks

\* The percent signs behind a cut.
LEMMA MarksBehind ==
  ASSUME NEW text \in Seq(Character), NEW k \in 0..Len(text), NEW p \in Nat \ {0}
  PROVE  /\ \A j \in Nat : j \in Marks(From(text, k), p) <=> k + j \in Marks(text, k + p)
         /\ Marks(From(text, k), p) = {} <=> Marks(text, k + p) = {}
         /\ Marks(text, k + p) # {} =>
              FirstOf(Marks(text, k + p)) = k + FirstOf(Marks(From(text, k), p))
<1> DEFINE f == From(text, k)
<1>0. Len(text) \in Nat /\ k \in Nat /\ k <= Len(text) /\ p \in Nat /\ p # 0 /\ k + p \in Nat
  BY LenProperties
<1>1. f \in Seq(Character) /\ Len(f) = Len(text) - k /\ \A i \in 1..(Len(text) - k) : f[i] = text[k + i]
  BY Cuts
<1> HIDE DEF f
<1>2. ASSUME NEW j \in Nat PROVE j \in Marks(f, p) <=> k + j \in Marks(text, k + p)
  <2>1. j \in Marks(f, p) <=> j \in Nat /\ p <= j /\ j <= Len(f) /\ f[j] = Mark
    BY <1>0, <1>1, MarksAre
  <2>2. k + j \in Marks(text, k + p) <=> k + j \in Nat /\ k + p <= k + j /\ k + j <= Len(text) /\ text[k + j] = Mark
    BY <1>0, MarksAre
  <2>3. p <= j /\ j <= Len(f) => f[j] = text[k + j]
    <3>1. p <= j /\ j <= Len(f) => j \in 1..(Len(text) - k)
      BY <1>0, <1>1
    <3> QED BY <1>1, <3>1
  <2>4. (p <= j <=> k + p <= k + j) /\ (j <= Len(f) <=> k + j <= Len(text)) /\ k + j \in Nat
    BY <1>0, <1>1
  <2> QED BY <2>1, <2>2, <2>3, <2>4
<1>3. ASSUME NEW j \in Marks(text, k + p) PROVE j - k \in Nat /\ k + (j - k) = j /\ j \in Nat
  <2>1. j \in Nat /\ k + p <= j
    BY <1>0, MarksAre
  <2> QED BY <1>0, <2>1
<1>4. Marks(f, p) \in SUBSET Nat /\ Marks(text, k + p) \in SUBSET Nat
  BY <1>0, <1>1, MarksAre
<1>5. Marks(f, p) = {} <=> Marks(text, k + p) = {}
  BY <1>2, <1>3, <1>4, ZenonT(60)
<1>6. ASSUME Marks(text, k + p) # {} PROVE FirstOf(Marks(text, k + p)) = k + FirstOf(Marks(f, p))
  <2> DEFINE I == Marks(f, p)
             J == Marks(text, k + p)
             i == FirstOf(I)
  <2>1. I \in SUBSET Nat /\ J \in SUBSET Nat /\ I # {}
    BY <1>4, <1>5, <1>6
  <2>2. \A j \in Nat : j \in I <=> k + j \in J
    BY <1>2
  <2>3. \A j \in J : j - k \in Nat /\ k + (j - k) = j /\ j \in Nat
    BY <1>3
  <2> HIDE DEF I, J
  <2>4. i \in I /\ \A j \in I : i <= j
    BY <2>1, FirstIs
  <2> HIDE DEF i
  <2>5. k + i \in J
    BY <2>1, <2>2, <2>4
  <2>6. ASSUME NEW j \in J PROVE k + i <= j
    <3>1. j - k \in I
      BY <2>2, <2>3
    <3>2. i <= j - k /\ i \in Nat
      BY <2>1, <2>4, <3>1
    <3> QED BY <1>0, <2>3, <3>2
  <2>7. FirstOf(J) = k + i
    BY <2>1, <2>5, <2>6, FirstIsLeast
  <2> QED BY <2>7 DEF I, J, i
<1> QED BY <1>2, <1>5, <1>6 DEF f

\* The characters between i and e.
Between(text, i, e) == SubSeq(text, i + 1, e - 1)

\* Places i and e of a sequence of n.
Lies(i, e, n) == i \in Nat /\ e \in Nat /\ i < e /\ e <= n + 1

\* Its characters.
IsBetween(t, S, s, i, e) ==
  t \in Seq(S) /\ Len(t) = e - i - 1 /\ \A j \in 1..(e - i - 1) : t[j] = s[i + j]

\* Between takes e - i - 1 characters behind the ith.
LEMMA BetweenIs ==
  ASSUME NEW S, NEW s \in Seq(S), NEW i, NEW e, Lies(i, e, Len(s))
  PROVE  IsBetween(Between(s, i, e), S, s, i, e)
<1>0. Len(s) \in Nat /\ i \in Nat /\ e \in Nat /\ i < e /\ e <= Len(s) + 1 /\ i + 1 \in Int /\ e - 1 \in Int
  BY LenProperties DEF Lies
<1>1. \A j \in (i + 1)..(e - 1) : s[j] \in S
  BY <1>0, ElementOfSeq
<1>2. /\ SubSeq(s, i + 1, e - 1) \in Seq(S)
      /\ Len(SubSeq(s, i + 1, e - 1)) = IF i + 1 <= e - 1 THEN (e - 1) - (i + 1) + 1 ELSE 0
      /\ \A j \in 1..((e - 1) - (i + 1) + 1) : SubSeq(s, i + 1, e - 1)[j] = s[(i + 1) + j - 1]
  BY <1>0, <1>1, SubSeqProperties
<1>3. SubSeq(s, i + 1, e - 1) = Between(s, i, e)
  BY DEF Between
<1>4. (IF i + 1 <= e - 1 THEN (e - 1) - (i + 1) + 1 ELSE 0) = e - i - 1
  BY <1>0
<1>5. (e - 1) - (i + 1) + 1 = e - i - 1 /\ \A j \in 1..(e - i - 1) : (i + 1) + j - 1 = i + j
  BY <1>0
<1> QED BY <1>2, <1>3, <1>4, <1>5 DEF IsBetween

\* Between two places of what is left of a sequence.
LEMMA BetweenBehind ==
  ASSUME NEW S, NEW s \in Seq(S), NEW k \in 0..Len(s), NEW i \in Nat, NEW e \in Nat, i < e, k + e <= Len(s) + 1
  PROVE  Between(From(s, k), i, e) = Between(s, k + i, k + e)
<1> DEFINE f == From(s, k)
<1>0. Len(s) \in Nat /\ k \in Nat /\ k <= Len(s) /\ k + i \in Nat /\ k + e \in Nat /\ k + i < k + e
  BY LenProperties
<1>1. f \in Seq(S) /\ Len(f) = Len(s) - k /\ \A j \in 1..(Len(s) - k) : f[j] = s[k + j]
  BY Cuts
<1> HIDE DEF f
<1>2. Lies(i, e, Len(f)) /\ Lies(k + i, k + e, Len(s))
  BY <1>0, <1>1 DEF Lies
<1> DEFINE a == k + i
           c == k + e
<1>3. IsBetween(Between(f, i, e), S, f, i, e)
  <2>1. f \in Seq(S) /\ Lies(i, e, Len(f))
    BY <1>1, <1>2
  <2> QED BY ONLY <2>1, BetweenIs
<1>4. IsBetween(Between(s, a, c), S, s, a, c)
  <2>1. Lies(a, c, Len(s))
    BY <1>2
  <2> HIDE DEF a, c
  <2> QED BY <2>1, BetweenIs
<1>5. c - a - 1 = e - i - 1
  BY <1>0
<1>6. ASSUME NEW j \in 1..(e - i - 1) PROVE Between(f, i, e)[j] = Between(s, a, c)[j]
  <2>1. i + j \in 1..(Len(s) - k) /\ k + (i + j) = a + j
    BY <1>0
  <2>2. Between(f, i, e)[j] = f[i + j]
    BY <1>3 DEF IsBetween
  <2>3. Between(s, a, c)[j] = s[a + j]
    BY <1>4, <1>5 DEF IsBetween
  <2> QED BY <1>1, <2>1, <2>2, <2>3
<1>7. Between(f, i, e) = Between(s, a, c)
  <2>1. /\ Between(f, i, e) \in Seq(S) /\ Len(Between(f, i, e)) = e - i - 1
        /\ Between(s, a, c) \in Seq(S) /\ Len(Between(s, a, c)) = e - i - 1
    BY <1>3, <1>4, <1>5 DEF IsBetween
  <2> HIDE DEF a, c
  <2> QED BY <1>6, <2>1, SeqEqual
<1> QED BY <1>7 DEF f

-----------------------------------------------------------------------------
(* What a text is meant to become *)

\* The percent sign is a character.
LEMMA MarkIsCharacter == Mark \in Character /\ <<Mark>> \in Seq(Character) /\ <<>> \in Seq(Character)
<1>1. Mark \in Character
  BY DEF Mark, Character
<1> QED BY <1>1

\* What the processor answers is text without percent signs: TemplateAssumption.
LEMMA ValueIsText ==
  ASSUME NEW name
  PROVE  ValueOf(name) \in Seq(Character) /\ Marks(ValueOf(name), 1) = {}
<1>1. CASE name \in DOMAIN Values
  <2>1. Values[name] \in Seq(Character) /\ Mark \notin ToSet(Values[name])
    BY <1>1, TemplateAssumption
  <2> DEFINE v == Values[name]
  <2> HIDE DEF v
  <2>2. v \in Seq(Character) /\ Mark \notin ToSet(v)
    BY <2>1 DEF v
  <2>3. DOMAIN v = 1..Len(v)
    BY <2>2, LenProperties
  <2>4. \A j \in 1..Len(v) : v[j] # Mark
    BY <2>2, <2>3 DEF ToSet
  <2>5. Marks(v, 1) = {}
    BY <2>4 DEF Marks
  <2> QED BY <1>1, <2>2, <2>5 DEF v, ValueOf
<1>2. CASE name \notin DOMAIN Values
  <2>1. Len(<<>>) = 0
    OBVIOUS
  <2>2. Marks(<<>>, 1) = {}
    BY <2>1 DEF Marks
  <2> QED BY <1>2, <2>2, MarkIsCharacter DEF ValueOf
<1> QED BY <1>1, <1>2

\* A percent sign that begins no placeholder.
Lone(text, i) == Marks(text, i + 1) = {} \/ FirstOf(Marks(text, i + 1)) - i - 1 > NameMax

\* What the placeholder from i to e becomes.
Meant(text, i, e) == IF e = i + 1 THEN <<Mark>> ELSE ValueOf(Between(text, i, e))

\* The first and the second percent sign of a text.
First(text) == FirstOf(Marks(text, 1))
Second(text) == FirstOf(Marks(text, First(text) + 1))
\* What the beginning of a text becomes, and the text that is left then.
Begun(text) ==
  IF Lone(text, First(text)) THEN Upto(text, First(text))
  ELSE Upto(text, First(text) - 1) \o Meant(text, First(text), Second(text))
ToCome(text) == From(text, IF Lone(text, First(text)) THEN First(text) ELSE Second(text))

\* What a placeholder becomes is text.
LEMMA MeantIsText ==
  ASSUME NEW text, NEW i, NEW e
  PROVE  Meant(text, i, e) \in Seq(Character)
BY MarkIsCharacter, ValueIsText DEF Meant

\* Where the first two percent signs are.
LEMMA FirstMarks ==
  ASSUME NEW text \in Seq(Character), NEW p \in Nat \ {0}, Marks(text, p) # {}
  PROVE  LET i == FirstOf(Marks(text, p)) IN
         /\ i \in Nat \ {0} /\ i \in Marks(text, p) /\ p <= i /\ i <= Len(text) /\ i - 1 \in 0..Len(text) /\ i \in 0..Len(text)
         /\ Marks(text, i + 1) # {} =>
              LET e == FirstOf(Marks(text, i + 1)) IN
              e \in Nat /\ e \in Marks(text, i + 1) /\ i < e /\ e <= Len(text) /\ e \in 0..Len(text) /\ Lies(i, e, Len(text))
<1> DEFINE i == FirstOf(Marks(text, p))
           e == FirstOf(Marks(text, i + 1))
<1>0. Len(text) \in Nat /\ p \in Nat /\ p # 0
  BY LenProperties
<1>1. i \in Marks(text, p)
  <2>1. Marks(text, p) \in SUBSET Nat
    BY <1>0, MarksAre
  <2> QED BY <2>1, FirstIs
<1> HIDE DEF i
<1>2. i \in Nat /\ p <= i /\ i <= Len(text)
  BY <1>0, <1>1, MarksAre
<1>3. i + 1 \in Nat /\ i # 0 /\ i - 1 \in 0..Len(text) /\ i \in 0..Len(text)
  BY <1>0, <1>2
<1>4. ASSUME Marks(text, i + 1) # {} PROVE e \in Nat /\ e \in Marks(text, i + 1) /\ i < e /\ e <= Len(text) /\ e \in 0..Len(text) /\ Lies(i, e, Len(text))
  <2>1. Marks(text, i + 1) \in SUBSET Nat
    BY <1>3, MarksAre
  <2>2. e \in Marks(text, i + 1)
    BY <1>4, <2>1, FirstIs
  <2> HIDE DEF e
  <2>3. e \in Nat /\ i + 1 <= e /\ e <= Len(text)
    BY <1>3, <2>2, MarksAre
  <2> QED BY <1>0, <1>2, <2>2, <2>3 DEF Lies
<1> QED BY <1>1, <1>2, <1>3, <1>4 DEF i, e

\* What a text begins with and what comes after are text, and less is to come than
\* there was.
LEMMA BegunIs ==
  ASSUME NEW text \in Seq(Character), Marks(text, 1) # {}
  PROVE  Begun(text) \in Seq(Character) /\ ToCome(text) \in Seq(Character) /\ Len(ToCome(text)) < Len(text)
<1> DEFINE i == First(text)
           e == Second(text)
<1>0. Len(text) \in Nat /\ 1 \in Nat \ {0}
  BY LenProperties
<1>1. /\ i \in Nat /\ 1 <= i /\ i <= Len(text) /\ i - 1 \in 0..Len(text) /\ i \in 0..Len(text)
      /\ Marks(text, i + 1) # {} => e \in Nat /\ i < e /\ e <= Len(text) /\ e \in 0..Len(text)
  BY <1>0, FirstMarks DEF First, Second
<1> HIDE DEF i, e
<1>2. CASE Lone(text, i)
  <2>1. Begun(text) = Upto(text, i) /\ ToCome(text) = From(text, i)
    BY <1>2 DEF Begun, ToCome, i
  <2>2. Upto(text, i) \in Seq(Character) /\ From(text, i) \in Seq(Character) /\ Len(From(text, i)) = Len(text) - i
    BY <1>1, Cuts
  <2>3. Len(text) - i < Len(text)
    BY <1>0, <1>1
  <2> QED BY <2>1, <2>2, <2>3
<1>3. CASE ~Lone(text, i)
  <2>0. e \in Nat /\ i < e /\ e <= Len(text) /\ e \in 0..Len(text)
    BY <1>1, <1>3 DEF Lone
  <2>1. Begun(text) = Upto(text, i - 1) \o Meant(text, i, e) /\ ToCome(text) = From(text, e)
    BY <1>3 DEF Begun, ToCome, i, e
  <2>2. Upto(text, i - 1) \in Seq(Character) /\ From(text, e) \in Seq(Character) /\ Len(From(text, e)) = Len(text) - e
    BY <1>1, <2>0, Cuts
  <2>3. Len(text) - e < Len(text)
    BY <1>0, <1>1, <2>0
  <2>4. Upto(text, i - 1) \o Meant(text, i, e) \in Seq(Character)
    <3>1. Meant(text, i, e) \in Seq(Character)
      BY MeantIsText
    <3> QED BY <2>2, <3>1, ConcatProperties
  <2> QED BY <2>1, <2>2, <2>3, <2>4
<1> QED BY <1>2, <1>3

\* Expanded, which the model defines by recursion, is a function and has the values
\* its definition gives.
LEMMA ExpandedIs ==
  /\ Expanded \in [Seq(Character) -> Seq(Character)]
  /\ \A text \in Seq(Character) :
       Expanded[text] = IF Marks(text, 1) = {} THEN text ELSE Begun(text) \o Expanded[ToCome(text)]
<1> DEFINE S == Seq(Character)
           stop == {t \in S : Marks(t, 1) = {}}
           measure == [t \in S |-> Len(t)]
           base == [t \in S |-> t]
           next == [t \in S |-> IF t \in stop THEN t ELSE ToCome(t)]
           begin == [t \in S |-> IF t \in stop THEN t ELSE Begun(t)]
           step == [y \in S \X S |-> begin[y[1]] \o y[2]]
           Eq(f) == f = [t \in S |-> IF Marks(t, 1) = {} THEN t ELSE Begun(t) \o f[ToCome(t)]]
<1>1. measure \in [S -> Nat] /\ base \in [S -> S]
  <2>1. \A t \in S : Len(t) \in Nat
    BY LenProperties
  <2> QED BY <2>1
<1>2. next \in [S -> S] /\ begin \in [S -> S]
  BY BegunIs
<1>3. step \in [S \X S -> S]
  <2>1. \A y \in S \X S : begin[y[1]] \o y[2] \in S
    <3> HIDE DEF begin
    <3> QED BY <1>2, ConcatProperties
  <2> HIDE DEF begin, S
  <2> QED BY <2>1
<1>4. \A t \in S : t \notin stop => measure[next[t]] < measure[t]
  <2>1. ASSUME NEW t \in S, t \notin stop PROVE measure[next[t]] < measure[t]
    <3>1. next[t] = ToCome(t) /\ ToCome(t) \in S /\ Len(ToCome(t)) < Len(t)
      BY <2>1, BegunIs
    <3>2. measure[ToCome(t)] = Len(ToCome(t)) /\ measure[t] = Len(t)
      BY <3>1
    <3> QED BY <3>1, <3>2
  <2> QED BY <2>1
<1>5. IsSystem(S, S, measure, stop, base, next, step)
  <2> HIDE DEF S, measure, stop, base, next, step
  <2> QED BY <1>1, <1>2, <1>3, <1>4 DEF IsSystem
<1>6. PICK h : IsRecursive(h, S, S, stop, base, next, step)
  <2> HIDE DEF S, measure, stop, base, next, step
  <2> QED BY <1>5, Recursion
<1>7. ASSUME NEW t \in S PROVE h[t] = IF Marks(t, 1) = {} THEN t ELSE Begun(t) \o h[ToCome(t)]
  <2>1. /\ h \in [S -> S]
        /\ h[t] = IF t \in stop THEN base[t] ELSE step[<<t, h[next[t]]>>]
    <3> HIDE DEF S, measure, stop, base, next, step
    <3> QED BY <1>6, <1>7 DEF IsRecursive
  <2>2. CASE t \in stop
    <3>1. Marks(t, 1) = {} /\ base[t] = t
      BY <2>2
    <3> HIDE DEF S, measure, stop, base, next, step
    <3> QED BY <2>1, <2>2, <3>1
  <2>3. CASE t \notin stop
    <3>1. Marks(t, 1) # {} /\ next[t] = ToCome(t) /\ next[t] \in S /\ begin[t] = Begun(t)
      BY <1>2, <2>3
    <3>2. h[next[t]] \in S
      <4> HIDE DEF next, S
      <4> QED BY <2>1, <3>1
    <3>3. step[<<t, h[next[t]]>>] = begin[t] \o h[next[t]]
      <4> DEFINE x == h[next[t]]
      <4>1. x \in S
        BY <3>2
      <4> HIDE DEF x, S, begin
      <4>2. <<t, x>> \in S \X S /\ <<t, x>>[1] = t /\ <<t, x>>[2] = x
        BY <4>1
      <4>3. step[<<t, x>>] = begin[<<t, x>>[1]] \o <<t, x>>[2]
        BY <4>2
      <4>4. step[<<t, x>>] = begin[t] \o x
        BY <4>2, <4>3
      <4> QED BY <4>4 DEF x
    <3> HIDE DEF S, measure, stop, base, next, step, begin
    <3> QED BY <2>1, <2>3, <3>1, <3>3
  <2> QED BY <2>2, <2>3
<1>8. Eq(h)
  <2>1. h \in [S -> S]
    <3> HIDE DEF S, measure, stop, base, next, step
    <3> QED BY <1>6 DEF IsRecursive
  <2> DEFINE V(t) == IF Marks(t, 1) = {} THEN t ELSE Begun(t) \o h[ToCome(t)]
  <2>2. \A t \in S : h[t] = V(t)
    BY <1>7
  <2> HIDE DEF V, S
  <2>3. h = [t \in S |-> V(t)]
    BY <2>1, <2>2
  <2> QED BY <2>3 DEF V
<1>9. Eq(Expanded)
  <2>1. Expanded = CHOOSE f : Eq(f)
    BY ZenonT(60) DEF Expanded, First, Second, Begun, ToCome, Lone, Meant, Between
  <2> HIDE DEF Eq
  <2> QED BY <1>8, <2>1, SMTT(40)
<1>10. \A t \in S : Expanded[t] = IF Marks(t, 1) = {} THEN t ELSE Begun(t) \o Expanded[ToCome(t)]
  <2> DEFINE V(t) == IF Marks(t, 1) = {} THEN t ELSE Begun(t) \o Expanded[ToCome(t)]
  <2>1. Expanded = [t \in S |-> V(t)]
    BY <1>9
  <2> HIDE DEF V, S
  <2>2. \A t \in S : Expanded[t] = V(t)
    BY <2>1
  <2> QED BY <2>2 DEF V
<1>11. \A t \in S : Expanded[t] \in S
  <2> DEFINE T == {t \in S : Expanded[t] \notin S}
  <2>1. CASE T # {}
    <3>1. PICK t \in T : \A u \in T : ~(measure[u] < measure[t])
      <4>1. T \in SUBSET S
        OBVIOUS
      <4> HIDE DEF T, S, measure
      <4> QED BY <1>1, <2>1, <4>1, Smallest
    <3>2. t \in S /\ Expanded[t] \notin S
      OBVIOUS
    <3>3. Marks(t, 1) # {}
      BY <1>10, <3>2
    <3>4. Begun(t) \in S /\ ToCome(t) \in S /\ Len(ToCome(t)) < Len(t)
      BY <3>2, <3>3, BegunIs
    <3>5. measure[ToCome(t)] = Len(ToCome(t)) /\ measure[t] = Len(t)
      BY <3>2, <3>4
    <3>6. ToCome(t) \notin T
      <4> HIDE DEF T, S, measure
      <4> QED BY <3>1, <3>4, <3>5
    <3>7. Expanded[ToCome(t)] \in S
      BY <3>4, <3>6
    <3>8. Begun(t) \o Expanded[ToCome(t)] \in S
      BY <3>4, <3>7, ConcatProperties
    <3> QED BY <1>10, <3>2, <3>3, <3>8
  <2> QED BY <2>1
<1>12. Expanded = [t \in S |-> IF Marks(t, 1) = {} THEN t ELSE Begun(t) \o Expanded[ToCome(t)]]
  BY <1>9
<1>13. DOMAIN Expanded = S /\ Expanded = [t \in S |-> Expanded[t]]
  <2> DEFINE V(t) == IF Marks(t, 1) = {} THEN t ELSE Begun(t) \o Expanded[ToCome(t)]
  <2>1. Expanded = [t \in S |-> V(t)]
    BY <1>12
  <2> HIDE DEF V, S
  <2> QED BY <2>1
<1> QED BY <1>10, <1>11, <1>13

\* What a text becomes whose first p - 1 characters are done with.
Shown(text, p) == Upto(text, p - 1) \o Expanded[From(text, p - 1)]

\* The first percent sign behind a cut, and the second.
LEMMA FirstBehind ==
  ASSUME NEW text \in Seq(Character), NEW k \in 0..Len(text), Marks(text, k + 1) # {},
         NEW i, i = FirstOf(Marks(text, k + 1)), NEW e, e = FirstOf(Marks(text, i + 1))
  PROVE  LET t == From(text, k) IN
         /\ t \in Seq(Character) /\ Marks(t, 1) # {} /\ k + First(t) = i
         /\ Lone(t, First(t)) <=> Lone(text, i)
         /\ ~Lone(text, i) => k + Second(t) = e /\ Meant(t, First(t), Second(t)) = Meant(text, i, e)
<1> DEFINE t == From(text, k)
           a == First(t)
           c == Second(t)
<1>0. Len(text) \in Nat /\ k \in Nat /\ k <= Len(text) /\ k + 1 \in Nat \ {0} /\ 1 \in Nat \ {0}
  BY LenProperties
<1>1. t \in Seq(Character) /\ Len(t) = Len(text) - k
  BY Cuts
<1>2. Marks(t, 1) # {} /\ i = k + a
  <2>1. 1 \in Nat \ {0}
    OBVIOUS
  <2> QED BY <2>1, MarksBehind DEF First
<1>3. /\ a \in Nat \ {0} /\ 1 <= a /\ a <= Len(t)
      /\ Marks(t, a + 1) # {} => c \in Nat /\ c \in Marks(t, a + 1) /\ a < c /\ c <= Len(t)
  <2> HIDE DEF t
  <2> QED BY <1>0, <1>1, <1>2, FirstMarks DEF First, Second
<1> HIDE DEF a
<1>4. /\ Marks(t, a + 1) = {} <=> Marks(text, i + 1) = {}
      /\ Marks(text, i + 1) # {} => e = k + c
  <2>1. a + 1 \in Nat \ {0} /\ k + (a + 1) = i + 1
    BY <1>0, <1>2, <1>3
  <2> DEFINE b == a + 1
  <2>2. c = FirstOf(Marks(t, b))
    BY DEF Second, a
  <2> HIDE DEF b, c
  <2>3. b \in Nat \ {0} /\ k + b = i + 1
    BY <2>1 DEF b
  <2>4. /\ Marks(t, b) = {} <=> Marks(text, k + b) = {}
        /\ Marks(text, k + b) # {} => FirstOf(Marks(text, k + b)) = k + FirstOf(Marks(t, b))
    BY <2>3, MarksBehind
  <2>5. /\ Marks(t, b) = {} <=> Marks(text, i + 1) = {}
        /\ Marks(text, i + 1) # {} => FirstOf(Marks(text, i + 1)) = k + FirstOf(Marks(t, b))
    BY <2>3, <2>4
  <2> QED BY <2>2, <2>5 DEF b
<1>5. Lone(t, a) <=> Lone(text, i)
  <2>1. CASE Marks(text, i + 1) = {}
    BY <1>4, <2>1 DEF Lone
  <2>2. CASE Marks(text, i + 1) # {}
    <3>1. e = k + c /\ c \in Nat /\ FirstOf(Marks(t, a + 1)) = c
      BY <1>3, <1>4, <2>2 DEF Second, a
    <3>2. c - a - 1 = e - i - 1
      BY <1>0, <1>2, <1>3, <3>1, SMTT(40)
    <3>3. Lone(t, a) <=> c - a - 1 > NameMax
      BY <1>4, <2>2, <3>1 DEF Lone
    <3>4. Lone(text, i) <=> e - i - 1 > NameMax
      BY <2>2 DEF Lone
    <3> QED BY <3>2, <3>3, <3>4
  <2> QED BY <2>1, <2>2
<1>6. ASSUME ~Lone(text, i) PROVE k + c = e /\ Meant(t, a, c) = Meant(text, i, e)
  <2>1. Marks(text, i + 1) # {}
    BY <1>6 DEF Lone
  <2>2. e = k + c /\ c \in Nat /\ a < c /\ c <= Len(t)
    BY <1>3, <1>4, <2>1
  <2> HIDE DEF c
  <2>3. k + c <= Len(text) + 1 /\ (c = a + 1 <=> e = i + 1)
    BY <1>0, <1>1, <1>2, <1>3, <2>2
  <2>4. Between(t, a, c) = Between(text, k + a, k + c)
    <3>1. a \in Nat /\ c \in Nat /\ a < c /\ k + c <= Len(text) + 1
      BY <1>3, <2>2, <2>3
    <3> HIDE DEF t
    <3> QED BY <3>1, BetweenBehind DEF t
  <2>5. Between(t, a, c) = Between(text, i, e)
    BY <1>2, <2>2, <2>4
  <2> HIDE DEF t
  <2> QED BY <2>2, <2>3, <2>5 DEF Meant
<1> QED BY <1>1, <1>2, <1>5, <1>6 DEF a

\* A text without percent signs stays as it is.
LEMMA ShownNone ==
  ASSUME NEW text \in Seq(Character), NEW p \in Nat \ {0}, p <= Len(text) + 1, Marks(text, p) = {}
  PROVE  Shown(text, p) = text
<1> DEFINE k == p - 1
           t == From(text, k)
<1>0. Len(text) \in Nat /\ k \in 0..Len(text) /\ k + 1 = p /\ 1 \in Nat \ {0}
  BY LenProperties
<1> HIDE DEF k
<1>1. t \in Seq(Character) /\ Upto(text, k) \o t = text
  BY <1>0, Cuts, Joined
<1>2. Marks(t, 1) = {}
  <2>1. k + 1 = p /\ Marks(text, k + 1) = {}
    BY <1>0
  <2> QED BY <1>0, <2>1, MarksBehind
<1>3. Expanded[t] = t
  <2> HIDE DEF t
  <2> QED BY <1>1, <1>2, ExpandedIs
<1> QED BY <1>1, <1>3 DEF Shown, k

\* A percent sign that begins no placeholder stays.
LEMMA ShownLone ==
  ASSUME NEW text \in Seq(Character), NEW p \in Nat \ {0}, Marks(text, p) # {},
         NEW i, i = FirstOf(Marks(text, p)), Lone(text, i)
  PROVE  Shown(text, p) = Shown(text, i + 1)
<1> DEFINE k == p - 1
           t == From(text, k)
           a == First(t)
<1>0. /\ Len(text) \in Nat /\ k \in Nat /\ k \in 0..Len(text) /\ k + 1 = p
      /\ i \in Nat /\ k < i /\ i <= Len(text) /\ (i + 1) - 1 = i
  <2>1. i \in Nat /\ p <= i /\ i <= Len(text) /\ Len(text) \in Nat
    BY FirstMarks, LenProperties
  <2> QED BY <2>1
<1> HIDE DEF k
<1>1. t \in Seq(Character) /\ Marks(t, 1) # {} /\ k + a = i /\ Lone(t, a)
  <2>1. k + 1 = p /\ Marks(text, k + 1) # {} /\ i = FirstOf(Marks(text, k + 1)) /\ k \in 0..Len(text)
    BY <1>0
  <2> QED BY <2>1, FirstBehind
<1>2. a \in Nat /\ a \in 0..Len(t) /\ a \in 0..(Len(text) - k)
  <2>1. Len(t) = Len(text) - k
    <3>1. text \in Seq(Character) /\ k \in 0..Len(text)
      BY <1>0
    <3> QED BY ONLY <3>1, Cuts
  <2>2. a \in Nat /\ 1 <= a /\ a <= Len(t)
    <3> HIDE DEF t
    <3> QED BY <1>1, FirstMarks DEF First
  <2> HIDE DEF a, t
  <2> QED BY <1>0, <2>1, <2>2
<1>3. Begun(t) = Upto(t, a) /\ ToCome(t) = From(t, a)
  BY <1>1 DEF Begun, ToCome
<1> DEFINE x == Expanded[From(text, i)]
<1>4. From(t, a) = From(text, i) /\ Upto(text, k) \o Upto(t, a) = Upto(text, i)
  <2> HIDE DEF a
  <2>1. From(t, a) = From(text, k + a) /\ Upto(text, k + a) = Upto(text, k) \o Upto(t, a)
    BY <1>0, <1>2, CutTwice
  <2> QED BY <1>1, <2>1
<1>5. Expanded[t] = Upto(t, a) \o x
  <2> HIDE DEF t, a
  <2> QED BY <1>1, <1>3, <1>4, ExpandedIs
<1>6. Upto(text, k) \in Seq(Character) /\ Upto(t, a) \in Seq(Character) /\ x \in Seq(Character)
  <2>1. From(text, i) \in Seq(Character)
    <3>1. i \in 0..Len(text)
      BY <1>0
    <3> QED BY <3>1, Cuts
  <2>2. x \in Seq(Character)
    BY <2>1, ExpandedIs
  <2> HIDE DEF t, a
  <2> QED BY <1>0, <1>1, <1>2, <2>2, Cuts
<1> HIDE DEF x, t, a
<1>7. (Upto(text, k) \o Upto(t, a)) \o x = Upto(text, k) \o (Upto(t, a) \o x)
  BY <1>6, ConcatAssociative
<1>8. Upto(text, k) \o Expanded[t] = Upto(text, i) \o x
  BY <1>4, <1>5, <1>7
<1> QED BY <1>0, <1>8 DEF Shown, k, t, x

\* What a text becomes when its placeholder from i to e is replaced.
Replaced(text, i, e) == Upto(text, i - 1) \o (Meant(text, i, e) \o Expanded[From(text, e)])

\* A placeholder becomes what it means.
LEMMA ShownPair ==
  ASSUME NEW text \in Seq(Character), NEW p \in Nat \ {0}, Marks(text, p) # {},
         NEW i, i = FirstOf(Marks(text, p)), NEW e, e = FirstOf(Marks(text, i + 1)), ~Lone(text, i)
  PROVE  Shown(text, p) = Replaced(text, i, e)
<1> DEFINE k == p - 1
           t == From(text, k)
           a == First(t)
           c == Second(t)
<1>0. /\ Len(text) \in Nat /\ k \in Nat /\ k \in 0..Len(text) /\ k + 1 = p
      /\ i \in Nat /\ k < i /\ i <= Len(text)
      /\ e \in Nat /\ i < e /\ e <= Len(text) /\ e \in 0..Len(text)
  <2>1. i \in Nat /\ p <= i /\ i <= Len(text) /\ Len(text) \in Nat
    BY FirstMarks, LenProperties
  <2>2. Marks(text, i + 1) # {}
    BY DEF Lone
  <2>3. e \in Nat /\ i < e /\ e <= Len(text)
    BY <2>2, FirstMarks
  <2> QED BY <2>1, <2>3
<1> HIDE DEF k
<1>1. /\ t \in Seq(Character) /\ Marks(t, 1) # {} /\ k + a = i /\ ~Lone(t, a)
      /\ k + c = e /\ Meant(t, a, c) = Meant(text, i, e)
  <2>1. k + 1 = p /\ Marks(text, k + 1) # {} /\ i = FirstOf(Marks(text, k + 1)) /\ k \in 0..Len(text)
    BY <1>0
  <2> QED BY <2>1, FirstBehind
<1>2. /\ a \in Nat /\ a - 1 \in 0..Len(t) /\ a - 1 \in 0..(Len(text) - k) /\ k + (a - 1) = i - 1
      /\ c \in Nat /\ c \in 0..(Len(text) - k)
  <2>1. Len(t) = Len(text) - k
    BY <1>0, Cuts
  <2>2. /\ a \in Nat /\ 1 <= a /\ a <= Len(t) /\ Marks(t, a + 1) # {}
        /\ c \in Nat /\ c <= Len(t)
    <3> HIDE DEF t
    <3>1. Marks(t, a + 1) # {}
      BY <1>1 DEF Lone
    <3> QED BY <1>1, <3>1, FirstMarks DEF First, Second
  <2> HIDE DEF a, c, t
  <2> QED BY <1>0, <1>1, <2>1, <2>2
<1> DEFINE b == a - 1
           m == Meant(text, i, e)
           x == Expanded[From(text, e)]
<1>3. Begun(t) = Upto(t, b) \o m /\ ToCome(t) = From(t, c)
  BY <1>1 DEF Begun, ToCome
<1>4. From(t, c) = From(text, e) /\ Upto(text, k) \o Upto(t, b) = Upto(text, i - 1)
  <2>0. b \in 0..(Len(text) - k) /\ k + b = i - 1
    BY <1>2
  <2> HIDE DEF a, c, b
  <2>1. From(t, c) = From(text, k + c)
    BY <1>0, <1>2, CutTwice
  <2>2. Upto(text, k + b) = Upto(text, k) \o Upto(t, b)
    BY <1>0, <2>0, CutTwice
  <2> QED BY <1>1, <2>0, <2>1, <2>2
<1>5. Expanded[t] = (Upto(t, b) \o m) \o x
  <2> HIDE DEF t, a, b, c, m
  <2> QED BY <1>1, <1>3, <1>4, ExpandedIs
<1>6. /\ Upto(text, k) \in Seq(Character) /\ Upto(t, b) \in Seq(Character) /\ x \in Seq(Character)
      /\ m \in Seq(Character)
  <2>1. From(text, e) \in Seq(Character)
    BY <1>0, Cuts
  <2>2. x \in Seq(Character)
    BY <2>1, ExpandedIs
  <2>3. m \in Seq(Character)
    BY MeantIsText
  <2>4. b \in 0..Len(t)
    BY <1>2
  <2> HIDE DEF t, a, b, m
  <2> QED BY <1>0, <1>1, <2>2, <2>3, <2>4, Cuts
<1> HIDE DEF x, t, a, b, c, m
<1>7. Upto(text, k) \o ((Upto(t, b) \o m) \o x) = (Upto(text, k) \o Upto(t, b)) \o (m \o x)
  <2>0. m \o x \in Seq(Character)
    BY ONLY <1>6, ConcatProperties
  <2>1. (Upto(t, b) \o m) \o x = Upto(t, b) \o (m \o x)
    BY ONLY <1>6, ConcatAssociative, SMTT(40)
  <2>2. (Upto(text, k) \o Upto(t, b)) \o (m \o x) = Upto(text, k) \o (Upto(t, b) \o (m \o x))
    <3> DEFINE y == m \o x
               s == Upto(text, k)
               u == Upto(t, b)
    <3>1. s \in Seq(Character) /\ u \in Seq(Character) /\ y \in Seq(Character)
      BY <1>6, <2>0
    <3> HIDE DEF s, u, y
    <3>2. (s \o u) \o y = s \o (u \o y)
      BY ONLY <3>1, ConcatAssociative, SMTT(40)
    <3> QED BY <3>2 DEF s, u, y
  <2> QED BY <2>1, <2>2
<1>8. Upto(text, k) \o Expanded[t] = Upto(text, i - 1) \o (m \o x)
  BY <1>4, <1>5, <1>7
<1> QED BY <1>8 DEF Shown, Replaced, k, t, x, m

\* What has no percent sign may be done with at once.
LEMMA ShownSkip ==
  ASSUME NEW text \in Seq(Character), NEW p \in Nat \ {0}, NEW q \in Nat \ {0}, p <= q, q <= Len(text) + 1,
         \A j \in p..(q - 1) : text[j] # Mark
  PROVE  Shown(text, p) = Shown(text, q)
<1>0. Len(text) \in Nat
  BY LenProperties
<1>1. Marks(text, p) = Marks(text, q)
  <2>1. ASSUME NEW j \in Nat, p <= j, j <= Len(text), text[j] = Mark PROVE q <= j
    <3>1. ~(q <= j) => j \in p..(q - 1)
      BY <2>1
    <3> QED BY <2>1, <3>1
  <2>2. \A j \in Nat : q <= j => p <= j
    OBVIOUS
  <2> QED BY <2>1, <2>2, MarksAre
<1>2. CASE Marks(text, q) = {}
  <2>1. p <= Len(text) + 1
    BY <1>0
  <2> QED BY <1>1, <1>2, <2>1, ShownNone
<1>3. CASE Marks(text, q) # {}
  <2> DEFINE i == FirstOf(Marks(text, q))
             e == FirstOf(Marks(text, i + 1))
  <2>1. CASE Lone(text, i)
    <3>1. Shown(text, q) = Shown(text, i + 1)
      BY <1>3, <2>1, ShownLone
    <3>2. Shown(text, p) = Shown(text, i + 1)
      BY <1>1, <1>3, <2>1, ShownLone
    <3> QED BY <3>1, <3>2
  <2>2. CASE ~Lone(text, i)
    <3>1. Shown(text, q) = Replaced(text, i, e)
      BY <1>3, <2>2, ShownPair
    <3>2. Shown(text, p) = Replaced(text, i, e)
      BY <1>1, <1>3, <2>2, ShownPair
    <3> QED BY <3>1, <3>2
  <2> QED BY <2>1, <2>2
<1> QED BY <1>2, <1>3

\* Two cuts of a text and what is put between them.
Placed(b, v, t) == b \o (v \o t)

\* The characters of Placed.
IsPlaced(w, S, b, v, t) ==
  /\ w \in Seq(S) /\ Len(w) = Len(b) + (Len(v) + Len(t))
  /\ \A i \in 1..Len(b) : w[i] = b[i]
  /\ \A i \in 1..Len(v) : w[Len(b) + i] = v[i]
  /\ \A i \in 1..Len(t) : w[Len(b) + (Len(v) + i)] = t[i]

\* The characters of three sequences one behind the other.
LEMMA PlacedIs ==
  ASSUME NEW S, NEW b \in Seq(S), NEW v \in Seq(S), NEW t \in Seq(S)
  PROVE  IsPlaced(Placed(b, v, t), S, b, v, t)
<1> DEFINE w == v \o t
<1>0. Len(b) \in Nat /\ Len(v) \in Nat /\ Len(t) \in Nat
  BY LenProperties
<1>1. /\ w \in Seq(S) /\ Len(w) = Len(v) + Len(t)
      /\ \A i \in 1..(Len(v) + Len(t)) : w[i] = IF i <= Len(v) THEN v[i] ELSE t[i - Len(v)]
  BY ConcatProperties
<1> HIDE DEF w
<1>2. /\ b \o w \in Seq(S) /\ Len(b \o w) = Len(b) + Len(w)
      /\ \A i \in 1..(Len(b) + Len(w)) : (b \o w)[i] = IF i <= Len(b) THEN b[i] ELSE w[i - Len(b)]
  <2>1. b \in Seq(S) /\ w \in Seq(S)
    BY <1>1
  <2> QED BY ONLY <2>1, ConcatProperties
<1> DEFINE x == b \o w
<1> HIDE DEF x
<1>3. /\ x \in Seq(S) /\ Len(x) = Len(b) + (Len(v) + Len(t))
      /\ \A i \in 1..(Len(b) + (Len(v) + Len(t))) : x[i] = IF i <= Len(b) THEN b[i] ELSE w[i - Len(b)]
  BY <1>1, <1>2 DEF x
<1>4. \A i \in 1..Len(b) : x[i] = b[i]
  <2>1. \A i \in 1..Len(b) : i \in 1..(Len(b) + (Len(v) + Len(t))) /\ i <= Len(b)
    BY <1>0
  <2> QED BY <1>3, <2>1
<1>5. ASSUME NEW i \in 1..Len(v) PROVE x[Len(b) + i] = v[i]
  <2>1. /\ Len(b) + i \in 1..(Len(b) + (Len(v) + Len(t))) /\ ~(Len(b) + i <= Len(b)) /\ (Len(b) + i) - Len(b) = i
        /\ i \in 1..(Len(v) + Len(t)) /\ i <= Len(v)
    BY <1>0
  <2>2. x[Len(b) + i] = w[i]
    BY <1>3, <2>1
  <2> QED BY <1>1, <2>1, <2>2
<1>6. ASSUME NEW i \in 1..Len(t) PROVE x[Len(b) + (Len(v) + i)] = t[i]
  <2> DEFINE j == Len(v) + i
  <2>1. /\ Len(b) + j \in 1..(Len(b) + (Len(v) + Len(t))) /\ ~(Len(b) + j <= Len(b)) /\ (Len(b) + j) - Len(b) = j
        /\ j \in 1..(Len(v) + Len(t)) /\ ~(j <= Len(v)) /\ j - Len(v) = i
    BY <1>0
  <2> HIDE DEF j
  <2>2. x[Len(b) + j] = w[j]
    BY <1>3, <2>1
  <2>3. w[j] = t[i]
    BY <1>1, <2>1
  <2> QED BY <2>2, <2>3 DEF j
<1> QED BY <1>3, <1>4, <1>5, <1>6 DEF IsPlaced, Placed, x, w

\* The cuts between them.
LEMMA PlacedCuts ==
  ASSUME NEW S, NEW b \in Seq(S), NEW v \in Seq(S), NEW t \in Seq(S)
  PROVE  /\ Upto(Placed(b, v, t), Len(b)) = b /\ From(Placed(b, v, t), Len(b)) = v \o t
         /\ Upto(Placed(b, v, t), Len(b) + Len(v)) = b \o v /\ From(Placed(b, v, t), Len(b) + Len(v)) = t
<1> DEFINE w == v \o t
           n == Len(v)
<1>0. Len(b) \in 0..Len(b) /\ n \in 0..n /\ 0 \in 0..Len(t)
  BY LenProperties
<1>1. w \in Seq(S) /\ n \in 0..Len(w)
  BY <1>0, ConcatProperties, LenProperties
<1>2. Upto(w, n) = v /\ From(w, n) = t
  <2>1. Upto(v \o t, n) = Upto(v, n) /\ From(v \o t, n) = From(v, n) \o t
    BY <1>0, CutFirst
  <2>2. Upto(v, n) = v /\ From(v, n) = <<>>
    BY Ends
  <2>3. <<>> \o t = t
    BY ConcatEmptySeq
  <2> QED BY <2>1, <2>2, <2>3
<1> HIDE DEF w, n
<1>3. Upto(b \o w, Len(b) + n) = b \o Upto(w, n) /\ From(b \o w, Len(b) + n) = From(w, n)
  BY <1>1, CutSecond
<1>4. Upto(b \o w, Len(b)) = Upto(b, Len(b)) /\ From(b \o w, Len(b)) = From(b, Len(b)) \o w
  BY <1>0, <1>1, CutFirst
<1>5. Upto(b, Len(b)) = b /\ From(b, Len(b)) = <<>> /\ <<>> \o w = w
  BY <1>1, Ends, ConcatEmptySeq
<1>6. Upto(b \o w, Len(b)) = b /\ From(b \o w, Len(b)) = w
  BY <1>4, <1>5
<1>7. Upto(b \o w, Len(b) + n) = b \o v /\ From(b \o w, Len(b) + n) = t
  BY <1>2, <1>3
<1> QED BY <1>6, <1>7 DEF Placed, w, n

\* A value in its place needs no more looking at.
LEMMA ShownPlaced ==
  ASSUME NEW b \in Seq(Character), NEW v \in Seq(Character), NEW t \in Seq(Character), Marks(v, 1) = {}
  PROVE  Shown(Placed(b, v, t), Len(b) + 1) = b \o (v \o Expanded[t])
<1> DEFINE u == Placed(b, v, t)
           p == Len(b) + 1
           q == (Len(b) + Len(v)) + 1
<1>0. Len(b) \in Nat /\ Len(v) \in Nat /\ Len(t) \in Nat
  BY LenProperties
<1>1. /\ u \in Seq(Character) /\ Len(u) = Len(b) + (Len(v) + Len(t))
      /\ \A i \in 1..Len(v) : u[Len(b) + i] = v[i]
  <2>1. IsPlaced(u, Character, b, v, t)
    BY PlacedIs
  <2> HIDE DEF u
  <2> QED BY <2>1 DEF IsPlaced
<1>2. Upto(u, Len(b) + Len(v)) = b \o v /\ From(u, Len(b) + Len(v)) = t
  BY PlacedCuts
<1> HIDE DEF u
<1>3. p \in Nat \ {0} /\ q \in Nat \ {0} /\ p <= q /\ q <= Len(u) + 1 /\ q - 1 = Len(b) + Len(v)
  BY <1>0, <1>1
<1>4. ASSUME NEW j \in p..(q - 1) PROVE u[j] # Mark
  <2>1. j - Len(b) \in 1..Len(v) /\ Len(b) + (j - Len(b)) = j
    BY <1>0, <1>3
  <2>2. u[j] = v[j - Len(b)]
    BY <1>1, <2>1
  <2>3. j - Len(b) \notin Marks(v, 1) /\ j - Len(b) \in Nat /\ 1 <= j - Len(b) /\ j - Len(b) <= Len(v) /\ 1 \in Nat
    BY <1>0, <2>1
  <2>4. v[j - Len(b)] # Mark
    BY <2>3, MarksAre
  <2> QED BY <2>2, <2>4
<1>5. Shown(u, p) = Shown(u, q)
  <2> HIDE DEF p, q
  <2> QED BY <1>1, <1>3, <1>4, ShownSkip
<1>6. Shown(u, q) = (b \o v) \o Expanded[t]
  <2> HIDE DEF q
  <2> QED BY <1>2, <1>3 DEF Shown
<1>7. (b \o v) \o Expanded[t] = b \o (v \o Expanded[t])
  <2> DEFINE x == Expanded[t]
  <2>1. x \in Seq(Character)
    BY ExpandedIs
  <2> HIDE DEF x
  <2>2. b \in Seq(Character) /\ v \in Seq(Character)
    OBVIOUS
  <2>3. (b \o v) \o x = b \o (v \o x)
    BY ONLY <2>1, <2>2, ConcatAssociative
  <2> QED BY <2>3 DEF x
<1> QED BY <1>5, <1>6, <1>7 DEF u

-----------------------------------------------------------------------------
(* How many percent signs are still to be looked at *)

\* The percent signs from p on.
Count(text, p) == Cardinality(Marks(text, p))

\* The percent signs that are to be looked at are finitely many.
LEMMA CountIs ==
  ASSUME NEW text \in Seq(Character), NEW p \in Nat
  PROVE  IsFiniteSet(Marks(text, p)) /\ Count(text, p) \in Nat
<1>1. Len(text) \in Int /\ p \in Int
  BY LenProperties
<1>2. IsFiniteSet(p..Len(text)) /\ Marks(text, p) \in SUBSET (p..Len(text))
  BY <1>1, FS_Interval, MarksAre
<1>3. IsFiniteSet(Marks(text, p))
  <2> DEFINE I == p..Len(text)
             M == Marks(text, p)
  <2>1. IsFiniteSet(I) /\ M \in SUBSET I
    BY <1>2
  <2> HIDE DEF I, M
  <2>2. IsFiniteSet(M)
    BY <2>1, FS_Subset
  <2> QED BY <2>2 DEF M
<1>4. Cardinality(Marks(text, p)) \in Nat
  BY <1>3, FS_CardinalityType
<1> QED BY <1>3, <1>4 DEF Count

\* Fewer, if all but one go to others of them.
LEMMA Fewer ==
  ASSUME NEW A, NEW B, NEW x \in B, NEW f \in Injection(A, B \ {x}), IsFiniteSet(B)
  PROVE  Cardinality(A) < Cardinality(B)
<1> DEFINE C == B \ {x}
<1>1. IsFiniteSet(C) /\ Cardinality(C) = Cardinality(B) - 1
  BY FS_RemoveElement
<1>2. Cardinality(B) \in Nat
  BY FS_CardinalityType
<1>3. f \in Injection(A, C)
  OBVIOUS
<1> HIDE DEF C
<1>4. IsFiniteSet(A) /\ Cardinality(A) <= Cardinality(C)
  BY <1>1, <1>3, FS_Injection
<1>5. Cardinality(A) \in Nat
  BY <1>4, FS_CardinalityType
<1> QED BY <1>1, <1>2, <1>4, <1>5

\* Behind a percent sign there are fewer.
LEMMA CountNext ==
  ASSUME NEW text \in Seq(Character), NEW p \in Nat, NEW i \in Marks(text, p)
  PROVE  Count(text, i + 1) < Count(text, p)
<1> DEFINE A == Marks(text, i + 1)
           B == Marks(text, p)
           f == [a \in A |-> a]
<1>0. i \in Nat /\ p <= i /\ i + 1 \in Nat
  BY MarksAre
<1>1. \A j \in A : j \in B \ {i}
  <2>1. ASSUME NEW j \in A PROVE j \in B /\ j # i
    <3>1. j \in Nat /\ i + 1 <= j /\ j <= Len(text) /\ text[j] = Mark
      BY <1>0, MarksAre
    <3>2. p <= j /\ j # i
      BY <1>0, <3>1
    <3> QED BY <3>1, <3>2, MarksAre
  <2> QED BY <2>1
<1>2. IsFiniteSet(B) /\ i \in B
  BY CountIs
<1> HIDE DEF A, B
<1>3. f \in Injection(A, B \ {i})
  BY <1>1 DEF Injection, IsInjective
<1>4. Cardinality(A) < Cardinality(B)
  <2> HIDE DEF f
  <2> QED BY <1>2, <1>3, Fewer
<1> QED BY <1>4 DEF Count, A, B

\* A percent sign was cut out and none put in.
LEMMA CountPlaced ==
  ASSUME NEW text \in Seq(Character), NEW k \in 0..Len(text), NEW e \in k..Len(text),
         NEW v \in Seq(Character), Marks(v, 1) = {},
         NEW p \in Nat, NEW q \in Nat \ {0}, p <= q, p <= e, NEW x \in Marks(text, p), k < x, x <= e
  PROVE  Count(Placed(Upto(text, k), v, From(text, e)), q) < Count(text, p)
<1> DEFINE b == Upto(text, k)
           t == From(text, e)
           w == Placed(b, v, t)
           A == Marks(w, q)
           B == Marks(text, p)
           g(m) == IF m <= k THEN m ELSE m - (k + Len(v)) + e
           f == [m \in A |-> g(m)]
<1>0. /\ Len(text) \in Nat /\ Len(v) \in Nat /\ k \in Nat /\ e \in Nat /\ k <= e /\ e <= Len(text)
      /\ e \in 0..Len(text) /\ x \in Nat
  BY LenProperties, MarksAre
<1>1. /\ b \in Seq(Character) /\ Len(b) = k /\ t \in Seq(Character) /\ Len(t) = Len(text) - e
      /\ \A i \in 1..k : b[i] = text[i]
      /\ \A i \in 1..(Len(text) - e) : t[i] = text[e + i]
  BY <1>0, Cuts, ZenonT(60)
<1> HIDE DEF b, t
<1>2. /\ w \in Seq(Character) /\ Len(w) = Len(b) + (Len(v) + Len(t))
      /\ \A i \in 1..Len(b) : w[i] = b[i]
      /\ \A i \in 1..Len(v) : w[Len(b) + i] = v[i]
      /\ \A i \in 1..Len(t) : w[Len(b) + (Len(v) + i)] = t[i]
  <2>1. b \in Seq(Character) /\ v \in Seq(Character) /\ t \in Seq(Character)
    BY <1>1
  <2>2. IsPlaced(w, Character, b, v, t)
    BY ONLY <2>1, PlacedIs
  <2> HIDE DEF w
  <2> QED BY <2>2 DEF IsPlaced
<1> HIDE DEF w
<1>3. ASSUME NEW m \in A PROVE /\ m \in Nat /\ g(m) \in B \ {x} /\ (m <= k \/ m > k + Len(v))
  <2>1. m \in Nat /\ q <= m /\ m <= Len(w) /\ w[m] = Mark
    BY <1>2, MarksAre
  <2>2. CASE m <= k
    <3>1. m \in 1..k /\ p <= m /\ m <= Len(text) /\ m # x
      BY <1>0, <2>1, <2>2
    <3>2. w[m] = text[m]
      BY <1>1, <1>2, <3>1
    <3>3. m \in B
      BY <2>1, <3>1, <3>2, MarksAre
    <3> QED BY <2>1, <2>2, <3>1, <3>3
  <2>3. CASE m > k /\ m <= k + Len(v)
    <3>1. m - k \in 1..Len(v) /\ k + (m - k) = m /\ m - k \in Nat /\ 1 <= m - k /\ m - k <= Len(v) /\ 1 \in Nat
      BY <1>0, <2>1, <2>3
    <3>2. w[m] = v[m - k]
      BY <1>1, <1>2, <3>1
    <3>3. m - k \in Marks(v, 1)
      BY <2>1, <3>1, <3>2, MarksAre
    <3> QED BY <3>3
  <2>4. CASE m > k + Len(v)
    <3> DEFINE j == m - (k + Len(v))
    <3>1. /\ j \in 1..(Len(text) - e) /\ j \in 1..Len(t) /\ k + (Len(v) + j) = m
          /\ g(m) = e + j /\ e + j \in Nat /\ p <= e + j /\ e + j <= Len(text) /\ e + j # x
      BY <1>0, <1>1, <1>2, <2>1, <2>4, SMTT(40)
    <3> HIDE DEF j, g
    <3>2. w[m] = t[j] /\ t[j] = text[e + j]
      BY <1>1, <1>2, <3>1
    <3>3. e + j \in B
      BY <2>1, <3>1, <3>2, MarksAre
    <3> QED BY <2>1, <2>4, <3>1, <3>3
  <2> QED BY <2>1, <2>2, <2>3, <2>4, <1>0
<1>4. ASSUME NEW m \in A, NEW n \in A, g(m) = g(n) PROVE m = n
  <2>1. m \in Nat /\ n \in Nat /\ (m <= k \/ m > k + Len(v)) /\ (n <= k \/ n > k + Len(v))
    BY <1>3
  <2> QED BY <1>0, <1>4, <2>1
<1>5. IsFiniteSet(B)
  BY CountIs
<1> HIDE DEF A, B, g
<1>6. f \in Injection(A, B \ {x})
  BY <1>3, <1>4 DEF Injection, IsInjective
<1>7. x \in B
  BY DEF B
<1>8. Cardinality(A) < Cardinality(B)
  <2> HIDE DEF f
  <2> QED BY <1>5, <1>6, <1>7, Fewer
<1> QED BY <1>8 DEF Count, A, B, w, b, t

-----------------------------------------------------------------------------
(* The buffer *)

\* A buffer of at most room characters.
IsBuffer(b, room) ==
  /\ b = Buffer(b.data, b.rest, b.met)
  /\ b.data \in Seq(Character) /\ Len(b.data) <= room /\ b.rest \in Seq(Character) /\ b.met \subseteq Spoilt

\* A member of Buffers, part by part.
LEMMA BufferIs ==
  ASSUME NEW b, NEW room
  PROVE  b \in Buffers(room) <=> IsBuffer(b, room)
BY DEF Buffers, Buffer, IsBuffer

\* The parts of a buffer.
LEMMA BufferParts ==
  ASSUME NEW d, NEW r, NEW m
  PROVE  Buffer(d, r, m).data = d /\ Buffer(d, r, m).rest = r /\ Buffer(d, r, m).met = m
BY DEF Buffer

\* What is in the buffer and what is to come.
Text(b) == b.data \o b.rest
\* The buffer is full, or there is nothing to come.
Filled(b, room) == Len(b.data) = room \/ b.rest = <<>>

\* Nothing is lost when more is read, and nothing else is read.
IsMore(g, d, r, m, n) ==
  \E k \in 0..Len(r) :
    /\ k = n \/ (k = Len(r) /\ k <= n)
    /\ g = Buffer(d \o Upto(r, k), From(r, k), m)
    /\ g.data \in Seq(Character) /\ g.rest \in Seq(Character) /\ Len(g.data) = Len(d) + k /\ Len(g.rest) = Len(r) - k
    /\ Text(g) = d \o r

\* _readDataFromCacheOrContent moves characters from what is to come into the
\* buffer.
LEMMA ReadMoreIs ==
  ASSUME NEW d \in Seq(Character), NEW r \in Seq(Character), NEW m, NEW n \in Nat
  PROVE  IsMore(ReadMore(Buffer(d, r, m), n), d, r, m, n)
<1> DEFINE k == Least(n, Len(r))
           u == Upto(r, k)
           f == From(r, k)
           g == Buffer(d \o u, f, m)
<1>0. Len(r) \in Nat /\ Len(d) \in Nat
  BY LenProperties
<1>1. k \in 0..Len(r) /\ (k = n \/ (k = Len(r) /\ k <= n))
  BY <1>0 DEF Least
<1>2. ReadMore(Buffer(d, r, m), n) = g
  BY BufferParts DEF ReadMore
<1> HIDE DEF k
<1>3. u \in Seq(Character) /\ Len(u) = k /\ f \in Seq(Character) /\ Len(f) = Len(r) - k /\ u \o f = r
  <2>1. k \in 0..Len(r)
    BY <1>1
  <2>2. u \in Seq(Character) /\ Len(u) = k /\ f \in Seq(Character) /\ Len(f) = Len(r) - k
    BY <2>1, Cuts
  <2>3. u \o f = r
    BY <2>1, Joined
  <2> QED BY <2>2, <2>3
<1>4. g.data = d \o u /\ g.rest = f
  BY DEF Buffer
<1> HIDE DEF u, f
<1>5. d \o u \in Seq(Character) /\ Len(d \o u) = Len(d) + k
  BY <1>3, ConcatProperties
<1>6. (d \o u) \o f = d \o (u \o f)
  <2>1. u \in Seq(Character) /\ f \in Seq(Character)
    BY <1>3
  <2> QED BY <2>1, ConcatAssociative, SMTT(40)
<1>7. Text(g) = d \o r
  BY <1>3, <1>4, <1>6 DEF Text
<1>8. /\ g = Buffer(d \o Upto(r, k), From(r, k), m)
      /\ g.data \in Seq(Character) /\ g.rest \in Seq(Character) /\ Len(g.data) = Len(d) + k /\ Len(g.rest) = Len(r) - k
  BY <1>3, <1>4, <1>5 DEF u, f
<1> HIDE DEF g
<1>9. IsMore(g, d, r, m, n)
  BY <1>1, <1>7, <1>8 DEF IsMore
<1> QED BY <1>2, <1>9

\* Text without percent signs.
Plainly(v) == v \in Seq(Character) /\ Marks(v, 1) = {}

\* Texts without percent signs, joined, have none.
LEMMA PlainlyJoined ==
  ASSUME NEW v, NEW w, Plainly(v), Plainly(w)
  PROVE  Plainly(v \o w)
<1>0. v \in Seq(Character) /\ w \in Seq(Character) /\ Len(v) \in Nat /\ Len(w) \in Nat /\ 1 \in Nat
  BY LenProperties DEF Plainly
<1>1. /\ v \o w \in Seq(Character) /\ Len(v \o w) = Len(v) + Len(w)
      /\ \A i \in 1..(Len(v) + Len(w)) : (v \o w)[i] = IF i <= Len(v) THEN v[i] ELSE w[i - Len(v)]
  BY <1>0, ConcatProperties
<1> DEFINE x == v \o w
<1>2. ASSUME NEW i \in Marks(x, 1) PROVE FALSE
  <2>0. x \in Seq(Character) /\ Len(x) = Len(v) + Len(w)
    BY <1>1
  <2> HIDE DEF x
  <2>1. i \in Nat /\ 1 <= i /\ i <= Len(v) + Len(w) /\ x[i] = Mark
    BY <1>0, <2>0, MarksAre
  <2>2. CASE i <= Len(v)
    <3>1. x[i] = v[i]
      BY <1>1, <2>1, <2>2 DEF x
    <3>2. i \in Marks(v, 1)
      BY <1>0, <2>1, <2>2, <3>1, MarksAre
    <3> QED BY <3>2 DEF Plainly
  <2>3. CASE ~(i <= Len(v))
    <3> DEFINE j == i - Len(v)
    <3>1. j \in Nat /\ 1 <= j /\ j <= Len(w)
      BY <1>0, <2>1, <2>3
    <3>2. x[i] = w[j]
      BY <1>1, <2>1, <2>3 DEF x
    <3> HIDE DEF j
    <3>3. j \in Marks(w, 1)
      BY <1>0, <2>1, <3>1, <3>2, MarksAre
    <3> QED BY <3>3 DEF Plainly
  <2> QED BY <2>2, <2>3
<1> QED BY <1>1, <1>2 DEF Plainly

\* A part of a text without percent signs has none.
LEMMA PlainlyCut ==
  ASSUME NEW v, Plainly(v), NEW k \in 0..Len(v)
  PROVE  Plainly(Upto(v, k)) /\ Plainly(From(v, k))
<1>0. v \in Seq(Character) /\ Len(v) \in Nat /\ 1 \in Nat /\ 1 \in Nat \ {0} /\ k \in Nat /\ k <= Len(v) /\ k + 1 \in Nat
  BY LenProperties DEF Plainly
<1>1. \A i \in 1..Len(v) : v[i] # Mark
  BY <1>0, MarksAre DEF Plainly
<1>2. /\ Upto(v, k) \in Seq(Character) /\ Len(Upto(v, k)) = k /\ From(v, k) \in Seq(Character)
      /\ \A i \in 1..k : Upto(v, k)[i] = v[i]
  BY <1>0, Cuts
<1>3. Marks(Upto(v, k), 1) = {}
  <2>1. ASSUME NEW i \in Marks(Upto(v, k), 1) PROVE FALSE
    <3>1. i \in Nat /\ 1 <= i /\ i <= k /\ Upto(v, k)[i] = Mark
      BY <1>0, <1>2, MarksAre
    <3>2. i \in 1..k /\ i \in 1..Len(v)
      BY <1>0, <3>1
    <3> QED BY <1>1, <1>2, <3>1, <3>2
  <2> QED BY <2>1
<1>4. Marks(From(v, k), 1) = {}
  <2>1. Marks(v, k + 1) = {}
    <3>1. ASSUME NEW i \in Marks(v, k + 1) PROVE FALSE
      <4>1. i \in Nat /\ k + 1 <= i /\ i <= Len(v) /\ v[i] = Mark
        BY <1>0, MarksAre
      <4>2. i \in 1..Len(v)
        BY <1>0, <4>1
      <4> QED BY <1>1, <4>1, <4>2
    <3> QED BY <3>1
  <2> QED BY <1>0, <2>1, MarksBehind
<1> QED BY <1>2, <1>3, <1>4 DEF Plainly

-----------------------------------------------------------------------------
(* A placeholder becomes its value *)

\* Whatever the length of the value, the buffer and what is to come are the text
\* with a value in the placeholder's place: the value itself, unless it was cut.
IsReplaced(g, d, r, m, i, e, v, room) ==
  /\ IsBuffer(g, room) /\ m \subseteq g.met /\ i <= Len(g.data) + 1
  /\ \E w : /\ Plainly(w) /\ Text(g) = Placed(Upto(d, i - 1), w, From(d, e) \o r)
            /\ g.met = {} => w = v
  /\ (g.met = {} /\ (Len(d) = room \/ r = <<>>)) => Filled(g, room)

\* A placeholder from i to e in a buffer's data d, with r to come.
Holds(d, r, i, e, room) ==
  /\ d \in Seq(Character) /\ r \in Seq(Character) /\ room \in Nat
  /\ i \in Nat \ {0} /\ e \in Nat /\ i <= e /\ e <= Len(d) /\ Len(d) <= room

\* Four sequences joined in different orders.
Associate(b, v, t, r) ==
  ((b \o v) \o t) \o r = b \o (v \o (t \o r)) /\ (b \o v) \o (t \o r) = b \o ((v \o t) \o r)

\* Joining does not depend on the order.
LEMMA FourJoined ==
  ASSUME NEW S, NEW b \in Seq(S), NEW v \in Seq(S), NEW t \in Seq(S), NEW r \in Seq(S)
  PROVE  Associate(b, v, t, r)
<1> DEFINE tr == t \o r
           bv == b \o v
<1>1. tr \in Seq(S) /\ bv \in Seq(S)
  BY ConcatProperties
<1>2. (v \o t) \o r = v \o tr
  BY ConcatAssociative, SMTT(40)
<1> HIDE DEF bv
<1>3. (bv \o t) \o r = bv \o tr
  BY <1>1, ConcatAssociative, SMTT(40)
<1> USE DEF bv
<1> HIDE DEF tr
<1>4. (b \o v) \o tr = b \o (v \o tr)
  BY <1>1, ConcatAssociative, SMTT(40)
<1>5. bv \o tr = b \o (v \o tr)
  BY <1>4 DEF bv
<1>6. (b \o v) \o tr = b \o ((v \o t) \o r)
  <2> HIDE DEF bv
  <2> QED BY <1>2, <1>4
<1>7. ((b \o v) \o t) \o r = b \o (v \o tr)
  <2> HIDE DEF bv
  <2>1. (bv \o t) \o r = b \o (v \o tr)
    BY <1>3, <1>5
  <2> QED BY <2>1 DEF bv
<1> QED BY <1>6, <1>7 DEF tr, Associate

\* The value in its place.
Joins(all, d, i, v, e) == all = Upto(d, i - 1) \o v \o From(d, e)
\* Its length and its text.
IsJoined(all, d, r, i, v, e) ==
  /\ all \in Seq(Character) /\ Len(all) = (i - 1 + Len(v)) + (Len(d) - e)
  /\ all \o r = Placed(Upto(d, i - 1), v, From(d, e) \o r)

\* The value in the place of its placeholder, before the buffer is cut to its room.
LEMMA JoinsIs ==
  ASSUME NEW d, NEW r, NEW i, NEW e, NEW room, Holds(d, r, i, e, room),
         NEW v, Plainly(v), NEW all, Joins(all, d, i, v, e)
  PROVE  IsJoined(all, d, r, i, v, e)
<1> DEFINE b == Upto(d, i - 1)
           t == From(d, e)
<1>0. /\ d \in Seq(Character) /\ r \in Seq(Character) /\ room \in Nat /\ v \in Seq(Character)
      /\ i \in Nat /\ e \in Nat /\ 1 <= i /\ i <= e /\ e <= Len(d) /\ Len(d) <= room
      /\ i - 1 \in 0..Len(d) /\ e \in 0..Len(d) /\ Len(d) \in Nat /\ Len(v) \in Nat /\ Len(r) \in Nat
  BY LenProperties DEF Holds, Plainly
<1>1. b \in Seq(Character) /\ Len(b) = i - 1 /\ t \in Seq(Character) /\ Len(t) = Len(d) - e
  BY <1>0, Cuts, ZenonT(60)
<1>2. all = (b \o v) \o t
  BY DEF Joins
<1> HIDE DEF b, t
<1>3. b \o v \in Seq(Character) /\ Len(b \o v) = Len(b) + Len(v)
  BY <1>0, <1>1, ConcatProperties
<1>4. all \in Seq(Character) /\ Len(all) = Len(b \o v) + Len(t)
  BY <1>1, <1>2, <1>3, ConcatProperties
<1>5. all \o r = Placed(b, v, t \o r)
  <2>1. b \in Seq(Character) /\ v \in Seq(Character) /\ t \in Seq(Character) /\ r \in Seq(Character)
    BY <1>0, <1>1
  <2>2. ((b \o v) \o t) \o r = b \o (v \o (t \o r))
    <3>1. Associate(b, v, t, r)
      BY ONLY <2>1, FourJoined
    <3> QED BY <3>1 DEF Associate
  <2> QED BY <1>2, <2>2 DEF Placed
<1>6. Len(all) = (i - 1 + Len(v)) + (Len(d) - e)
  BY <1>0, <1>1, <1>3, <1>4
<1> QED BY <1>4, <1>5, <1>6 DEF IsJoined, b, t

\* The lesser of two.
IsLeast(k, m, n) == k = Least(m, n)
\* When Replace cuts a value.
Cutting(d, i, e, v, room) == i - 1 + Len(v) > room /\ e = Len(d) /\ e < room

\* A value shorter than its placeholder leaves room, which is filled.
LEMMA ReplaceShort ==
  ASSUME NEW d, NEW r, NEW m \in SUBSET Spoilt, NEW i, NEW e, NEW room, Holds(d, r, i, e, room),
         NEW v, Plainly(v), NEW all, Joins(all, d, i, v, e), Len(v) < e - i + 1
  PROVE  IsReplaced(ReadMore(Buffer(all, r, m), room - Len(all)), d, r, m, i, e, v, room)
<1> DEFINE b == Upto(d, i - 1)
           t == From(d, e)
           n == room - Len(all)
           g == ReadMore(Buffer(all, r, m), n)
<1>0. /\ d \in Seq(Character) /\ r \in Seq(Character) /\ room \in Nat /\ v \in Seq(Character)
      /\ i \in Nat /\ e \in Nat /\ 1 <= i /\ i <= e /\ e <= Len(d) /\ Len(d) <= room
      /\ i - 1 \in 0..Len(d) /\ e \in 0..Len(d) /\ Len(d) \in Nat /\ Len(v) \in Nat /\ Len(r) \in Nat
      /\ Len(v) < e - i + 1
  BY LenProperties DEF Holds, Plainly
<1>4. all \in Seq(Character) /\ Len(all) = (i - 1 + Len(v)) + (Len(d) - e)
  BY JoinsIs DEF IsJoined
<1>5. all \o r = Placed(b, v, t \o r)
  BY JoinsIs DEF IsJoined
<1> HIDE DEF b, t
<1>6. n \in Nat /\ i - 1 <= Len(all)
  BY <1>0, <1>4
<1> HIDE DEF n
<1>7. IsMore(g, all, r, m, n)
  BY <1>0, <1>4, <1>6, ReadMoreIs
<1> HIDE DEF g
<1>8. PICK k \in 0..Len(r) :
        /\ k = n \/ (k = Len(r) /\ k <= n)
        /\ g = Buffer(all \o Upto(r, k), From(r, k), m)
        /\ g.data \in Seq(Character) /\ g.rest \in Seq(Character) /\ Len(g.data) = Len(all) + k /\ Len(g.rest) = Len(r) - k
        /\ Text(g) = all \o r
  BY <1>7 DEF IsMore
<1>9. IsBuffer(g, room) /\ m \subseteq g.met
  <2>1. g.met = m /\ g = Buffer(g.data, g.rest, g.met)
    BY <1>8 DEF Buffer
  <2>2. Len(g.data) <= room
    BY <1>0, <1>4, <1>6, <1>8 DEF n
  <2> QED BY <1>8, <2>1, <2>2 DEF IsBuffer
<1>10. i <= Len(g.data) + 1
  BY <1>0, <1>6, <1>8
<1>11. Filled(g, room)
  <2>1. CASE k = n
    <3>1. Len(g.data) = room
      BY <1>0, <1>4, <1>8, <2>1 DEF n
    <3> QED BY <3>1 DEF Filled
  <2>2. CASE k = Len(r)
    <3>1. Len(g.rest) = 0
      BY <1>0, <1>8, <2>2
    <3>2. g.rest = <<>>
      BY <1>8, <3>1, EmptySeq
    <3> QED BY <3>2 DEF Filled
  <2> QED BY <1>8, <2>1, <2>2
<1>12. Text(g) = Placed(Upto(d, i - 1), v, From(d, e) \o r)
  BY <1>5, <1>8 DEF b, t
<1>13. IsReplaced(g, d, r, m, i, e, v, room)
  BY <1>9, <1>10, <1>11, <1>12 DEF IsReplaced
<1> QED BY <1>13 DEF g, n

\* A value as long as its placeholder or longer pushes characters back.
LEMMA ReplaceLong ==
  ASSUME NEW d, NEW r, NEW m \in SUBSET Spoilt, NEW i, NEW e, NEW room, Holds(d, r, i, e, room),
         NEW v, Plainly(v), NEW all, Joins(all, d, i, v, e), ~(Len(v) < e - i + 1),
         NEW k, IsLeast(k, room, Len(all))
  PROVE  IsReplaced(Buffer(Upto(all, k), From(all, k) \o r, m), d, r, m, i, e, v, room)
<1> DEFINE b == Upto(d, i - 1)
           t == From(d, e)
           u == Upto(all, k)
           f == From(all, k)
           g == Buffer(u, f \o r, m)
<1>0. /\ d \in Seq(Character) /\ r \in Seq(Character) /\ room \in Nat /\ v \in Seq(Character)
      /\ i \in Nat /\ e \in Nat /\ 1 <= i /\ i <= e /\ e <= Len(d) /\ Len(d) <= room
      /\ i - 1 \in 0..Len(d) /\ e \in 0..Len(d) /\ Len(d) \in Nat /\ Len(v) \in Nat /\ Len(r) \in Nat
      /\ ~(Len(v) < e - i + 1)
  BY LenProperties DEF Holds, Plainly
<1>4. all \in Seq(Character) /\ Len(all) = (i - 1 + Len(v)) + (Len(d) - e)
  BY JoinsIs DEF IsJoined
<1>5. all \o r = Placed(b, v, t \o r)
  BY JoinsIs DEF IsJoined
<1> HIDE DEF b, t
<1>6. Len(d) <= Len(all) /\ Len(all) \in Nat
  BY <1>0, <1>4
<1>7. k \in 0..Len(all) /\ k <= room /\ (k = room \/ (k = Len(all) /\ k < room)) /\ i <= k + 1
  BY <1>0, <1>6 DEF Least, IsLeast
<1>8. u \in Seq(Character) /\ Len(u) = k /\ f \in Seq(Character) /\ Len(f) = Len(all) - k
  BY <1>4, <1>7, Cuts
<1>9. u \o f = all
  BY <1>4, <1>7, Joined
<1>10. g.data = u /\ g.rest = f \o r /\ g.met = m /\ g = Buffer(g.data, g.rest, g.met)
  BY DEF Buffer
<1> HIDE DEF u, f, g
<1>11. f \o r \in Seq(Character) /\ Text(g) = all \o r
  <2>1. u \in Seq(Character) /\ f \in Seq(Character) /\ r \in Seq(Character)
    BY <1>0, <1>8
  <2>2. (u \o f) \o r = u \o (f \o r)
    BY ONLY <2>1, ConcatAssociative, SMTT(40)
  <2> QED BY <1>9, <1>10, <2>1, <2>2, ConcatProperties DEF Text
<1>12. IsBuffer(g, room) /\ m \subseteq g.met /\ i <= Len(g.data) + 1
  BY <1>7, <1>8, <1>10, <1>11 DEF IsBuffer
<1>13. ASSUME Len(d) = room \/ r = <<>> PROVE Filled(g, room)
  <2>1. CASE k = room
    BY <1>8, <1>10, <2>1 DEF Filled
  <2>2. CASE k = Len(all) /\ k < room
    <3>1. Len(d) # room
      BY <1>0, <1>6, <2>2
    <3>2. Len(f) = 0
      BY <1>6, <1>8, <2>2
    <3>3. f = <<>> /\ r = <<>>
      BY <1>8, <1>13, <3>1, <3>2, EmptySeq
    <3>4. f \o r = <<>>
      BY <1>0, <3>3, ConcatEmptySeq
    <3> QED BY <1>10, <3>4 DEF Filled
  <2> QED BY <1>7, <2>1, <2>2
<1>14. Text(g) = Placed(Upto(d, i - 1), v, From(d, e) \o r)
  BY <1>5, <1>11 DEF b, t
<1>15. IsReplaced(g, d, r, m, i, e, v, room)
  BY <1>12, <1>13, <1>14 DEF IsReplaced
<1> QED BY <1>15 DEF g, u, f

\* A value that neither fits nor has anything behind it is cut.
LEMMA ReplaceCut ==
  ASSUME NEW d, NEW r, NEW m \in SUBSET Spoilt, NEW i, NEW e, NEW room, Holds(d, r, i, e, room),
         NEW v, Plainly(v), NEW all, Joins(all, d, i, v, e),
         Cutting(d, i, e, v, room)
  PROVE  IsReplaced(Buffer(Upto(all, e), From(all, room) \o r, m \cup {"cut"}), d, r, m, i, e, v, room)
<1> DEFINE b == Upto(d, i - 1)
           t == From(d, e)
           n == e - (i - 1)
           o == room - (i - 1)
           x == Upto(v, n)
           y == From(v, o)
           g == Buffer(Upto(all, e), From(all, room) \o r, m \cup {"cut"})
<1>0. /\ d \in Seq(Character) /\ r \in Seq(Character) /\ room \in Nat /\ v \in Seq(Character)
      /\ i \in Nat /\ e \in Nat /\ 1 <= i /\ i <= e /\ e = Len(d) /\ e < room
      /\ i - 1 \in 0..Len(d) /\ e \in 0..Len(d) /\ Len(d) \in Nat /\ Len(v) \in Nat /\ Len(r) \in Nat
      /\ i - 1 + Len(v) > room
  BY LenProperties DEF Holds, Plainly, Cutting
<1>1. b \in Seq(Character) /\ Len(b) = i - 1
  BY <1>0, Cuts, ZenonT(60)
<1>2. t = <<>>
  BY <1>0, Ends
<1>3. all = b \o v
  <2>1. all = (b \o v) \o t
    BY DEF Joins
  <2> HIDE DEF b, t
  <2>2. b \o v \in Seq(Character)
    BY <1>0, <1>1, ConcatProperties
  <2> QED BY <1>2, <2>1, <2>2, ConcatEmptySeq
<1>4. n \in 0..Len(v) /\ o \in 0..Len(v) /\ Len(b) + n = e /\ Len(b) + o = room
  <2> HIDE DEF b
  <2> QED BY <1>0, <1>1
<1> HIDE DEF b, t, n, o
<1>5. Upto(all, e) = b \o x /\ From(all, room) = y
  <2>1. Upto(b \o v, Len(b) + n) = b \o Upto(v, n)
    BY <1>0, <1>1, <1>4, CutSecond, ZenonT(60)
  <2>2. From(b \o v, Len(b) + o) = From(v, o)
    BY <1>0, <1>1, <1>4, CutSecond
  <2> QED BY <1>3, <1>4, <2>1, <2>2
<1>6. Plainly(x) /\ Plainly(y) /\ Len(x) = n
  BY <1>0, <1>4, PlainlyCut, Cuts
<1>7. g.data = b \o x /\ g.rest = y \o r /\ g.met = m \cup {"cut"} /\ g = Buffer(g.data, g.rest, g.met)
  BY <1>5 DEF Buffer
<1> HIDE DEF x, y, g
<1>8. x \in Seq(Character) /\ y \in Seq(Character)
  BY <1>6 DEF Plainly
<1>9. b \o x \in Seq(Character) /\ Len(b \o x) = Len(b) + Len(x) /\ y \o r \in Seq(Character)
  BY <1>0, <1>1, <1>8, ConcatProperties
<1>10. Text(g) = Placed(b, x \o y, t \o r)
  <2>1. b \in Seq(Character) /\ x \in Seq(Character) /\ y \in Seq(Character) /\ r \in Seq(Character) /\ y \o r \in Seq(Character)
    BY <1>0, <1>1, <1>8, <1>9
  <2>2. (b \o x) \o (y \o r) = b \o ((x \o y) \o r)
    <3>1. Associate(b, x, y, r)
      BY ONLY <2>1, FourJoined
    <3> QED BY <3>1 DEF Associate
  <2>4. t \o r = r
    BY <1>0, <1>2, ConcatEmptySeq
  <2> QED BY <1>7, <2>2, <2>4 DEF Text, Placed
<1>11. Plainly(x \o y)
  BY <1>6, PlainlyJoined
<1>12. Len(g.data) = e
  BY <1>4, <1>6, <1>7, <1>9
<1>13. IsBuffer(g, room)
  <2>1. m \cup {"cut"} \subseteq Spoilt
    BY DEF Spoilt
  <2>2. Len(g.data) <= room
    BY <1>0, <1>12
  <2> QED BY <1>7, <1>9, <2>1, <2>2 DEF IsBuffer
<1>14. m \subseteq g.met /\ i <= Len(g.data) + 1 /\ g.met # {}
  BY <1>0, <1>7, <1>12
<1>15. IsReplaced(g, d, r, m, i, e, v, room)
  BY <1>10, <1>11, <1>13, <1>14 DEF IsReplaced, b, t
<1> QED BY <1>15 DEF g

\* Replace puts the value into the placeholder's place.
LEMMA ReplaceIs ==
  ASSUME NEW d, NEW r, NEW m \in SUBSET Spoilt, NEW i, NEW e, NEW room, Holds(d, r, i, e, room),
         NEW v, Plainly(v)
  PROVE  IsReplaced(Replace(Buffer(d, r, m), i, e, v, room), d, r, m, i, e, v, room)
<1> DEFINE all == Upto(d, i - 1) \o v \o From(d, e)
           cut == Cutting(d, i, e, v, room)
           k == Least(room, Len(all))
<1>1. Replace(Buffer(d, r, m), i, e, v, room) =
        IF cut THEN Buffer(Upto(all, e), From(all, room) \o r, m \cup {"cut"})
        ELSE IF Len(v) < e - i + 1 THEN ReadMore(Buffer(all, r, m), room - Len(all))
        ELSE Buffer(Upto(all, k), From(all, k) \o r, m)
  BY DEF Replace, Buffer, Cutting
<1>0. Joins(all, d, i, v, e) /\ IsLeast(k, room, Len(all))
  BY DEF Joins, IsLeast
<1> HIDE DEF all, k
<1>2. CASE cut
  BY <1>0, <1>1, <1>2, ReplaceCut
<1>3. CASE ~cut /\ Len(v) < e - i + 1
  BY <1>0, <1>1, <1>3, ReplaceShort
<1>4. CASE ~cut /\ ~(Len(v) < e - i + 1)
  BY <1>0, <1>1, <1>4, ReplaceLong
<1> QED BY <1>2, <1>3, <1>4

-----------------------------------------------------------------------------
(* A turn of the loop *)

\* A turn goes from where the loop looks at p to q.
Goes(b, p, g, q, room) ==
  /\ IsBuffer(g, room) /\ q \in Nat \ {0} /\ q <= Len(g.data) + 1 /\ b.met \subseteq g.met
  /\ Count(Text(g), q) < Count(Text(b), p)
  /\ (g.met = {} /\ Filled(b, room)) => Filled(g, room)
  /\ g.met = {} => Shown(Text(g), q) = Shown(Text(b), p)

\* The loop looks from p on and finds a percent sign at i.
Looks(b, p, i, room) ==
  /\ IsBuffer(b, room) /\ room \in Nat /\ p \in Nat \ {0}
  /\ Marks(b.data, p) # {} /\ i = FirstOf(Marks(b.data, p))

\* The first percent sign of a buffer is the first of the text.
LEMMA FirstOfBoth ==
  ASSUME NEW d \in Seq(Character), NEW r \in Seq(Character), NEW p \in Nat \ {0}
  PROVE  /\ \A j \in 1..Len(d) : (d \o r)[j] = d[j]
         /\ Marks(d, p) # {} => /\ FirstOf(Marks(d \o r, p)) = FirstOf(Marks(d, p))
                                /\ Marks(d \o r, p) # {}
         /\ Marks(d, p) = {} => \A j \in Marks(d \o r, p) : j > Len(d)
<1> DEFINE u == d \o r
<1>0. Len(d) \in Nat /\ Len(r) \in Nat /\ p \in Nat /\ 1 <= p
  BY LenProperties
<1>1. /\ u \in Seq(Character) /\ Len(u) = Len(d) + Len(r)
      /\ \A j \in 1..(Len(d) + Len(r)) : u[j] = IF j <= Len(d) THEN d[j] ELSE r[j - Len(d)]
  BY ConcatProperties
<1> HIDE DEF u
<1>2. \A j \in 1..Len(d) : u[j] = d[j]
  <2>1. \A j \in 1..Len(d) : j \in 1..(Len(d) + Len(r)) /\ j <= Len(d)
    BY <1>0
  <2> QED BY <1>1, <2>1
<1>3. ASSUME NEW j \in Nat, p <= j, j <= Len(d) PROVE j \in Marks(d, p) <=> j \in Marks(u, p)
  <2>1. j \in 1..Len(d) /\ j <= Len(u)
    BY <1>0, <1>1, <1>3
  <2> QED BY <1>0, <1>1, <1>2, <1>3, <2>1, MarksAre
<1>4. Marks(d, p) \in SUBSET Nat /\ Marks(u, p) \in SUBSET Nat
  BY <1>0, <1>1, MarksAre
<1>5. ASSUME Marks(d, p) # {} PROVE FirstOf(Marks(u, p)) = FirstOf(Marks(d, p)) /\ Marks(u, p) # {}
  <2> DEFINE i == FirstOf(Marks(d, p))
  <2>1. i \in Marks(d, p) /\ \A j \in Marks(d, p) : i <= j
    BY <1>4, <1>5, FirstIs
  <2> HIDE DEF i
  <2>2. i \in Nat /\ p <= i /\ i <= Len(d)
    BY <1>0, <2>1, MarksAre
  <2>3. i \in Marks(u, p)
    BY <1>3, <2>1, <2>2
  <2>4. ASSUME NEW j \in Marks(u, p) PROVE i <= j
    <3>1. j \in Nat /\ p <= j
      BY <1>0, <1>1, MarksAre
    <3>2. CASE j <= Len(d)
      BY <1>3, <2>1, <3>1, <3>2
    <3>3. CASE ~(j <= Len(d))
      BY <1>0, <2>2, <3>1, <3>3
    <3> QED BY <3>2, <3>3
  <2>5. FirstOf(Marks(u, p)) = i
    BY <1>4, <2>3, <2>4, FirstIsLeast
  <2> QED BY <2>3, <2>5 DEF i
<1>6. ASSUME Marks(d, p) = {}, NEW j \in Marks(u, p) PROVE j > Len(d)
  <2>1. j \in Nat /\ p <= j
    BY <1>0, <1>1, MarksAre
  <2>2. ~(j <= Len(d))
    BY <1>3, <1>6, <2>1
  <2> QED BY <1>0, <2>1, <2>2
<1> QED BY <1>2, <1>5, <1>6 DEF u

\* What it sees.
IsSeen(b, p, i) ==
  /\ b.data \in Seq(Character) /\ b.rest \in Seq(Character) /\ Text(b) \in Seq(Character)
  /\ Len(b.data) \in Nat /\ Len(b.rest) \in Nat /\ Len(Text(b)) = Len(b.data) + Len(b.rest)
  /\ i \in Nat \ {0} /\ p <= i /\ i <= Len(b.data) /\ i - 1 \in 0..Len(b.data) /\ i \in 0..Len(b.data)
  /\ Text(b)[i] = Mark /\ i \in Marks(Text(b), p) /\ Marks(Text(b), p) # {} /\ i = FirstOf(Marks(Text(b), p))
  /\ \A k \in 0..Len(b.data) : Upto(Text(b), k) = Upto(b.data, k) /\ From(Text(b), k) = From(b.data, k) \o b.rest

\* The first percent sign of the buffer is the first of the text.
LEMMA Seen ==
  ASSUME NEW b, NEW p, NEW i, NEW room, Looks(b, p, i, room)
  PROVE  IsSeen(b, p, i)
<1> DEFINE d == b.data
           r == b.rest
           u == d \o r
<1>0. /\ d \in Seq(Character) /\ r \in Seq(Character) /\ p \in Nat \ {0} /\ p \in Nat /\ Marks(d, p) # {}
      /\ i = FirstOf(Marks(d, p)) /\ u = Text(b)
  BY DEF Looks, IsBuffer, Text
<1> HIDE DEF d, r
<1>1. Len(d) \in Nat /\ Len(r) \in Nat /\ u \in Seq(Character) /\ Len(u) = Len(d) + Len(r)
  BY <1>0, ConcatProperties, LenProperties
<1>2. i \in Nat \ {0} /\ p <= i /\ i <= Len(d) /\ i - 1 \in 0..Len(d) /\ i \in 0..Len(d)
  BY <1>0, FirstMarks
<1>3. FirstOf(Marks(u, p)) = i /\ Marks(u, p) # {}
  BY <1>0, FirstOfBoth
<1> HIDE DEF u
<1>4. i \in Marks(u, p) /\ u[i] = Mark
  BY <1>0, <1>1, <1>3, FirstMarks, MarksAre
<1>5. \A k \in 0..Len(d) : Upto(u, k) = Upto(d, k) /\ From(u, k) = From(d, k) \o r
  BY <1>0, CutFirst DEF u
<1> QED BY <1>0, <1>1, <1>2, <1>3, <1>4, <1>5 DEF IsSeen, d, r

\* A percent sign that begins no placeholder.
LEMMA LoneGoes ==
  ASSUME NEW b, NEW p, NEW i, NEW room, Looks(b, p, i, room), Lone(Text(b), i)
  PROVE  Goes(b, p, b, i + 1, room)
<1> DEFINE u == Text(b)
<1>0. IsSeen(b, p, i) /\ IsBuffer(b, room) /\ p \in Nat \ {0}
  BY Seen DEF Looks
<1>1. /\ u \in Seq(Character) /\ i \in Marks(u, p) /\ i = FirstOf(Marks(u, p)) /\ Lone(u, i)
      /\ i \in Nat /\ i <= Len(b.data) /\ Len(b.data) \in Nat
  BY <1>0 DEF IsSeen
<1> HIDE DEF u
<1>2. Count(u, i + 1) < Count(u, p)
  BY <1>0, <1>1, CountNext
<1>3. Shown(u, p) = Shown(u, i + 1)
  BY <1>0, <1>1, ShownLone
<1>4. i + 1 \in Nat \ {0} /\ i + 1 <= Len(b.data) + 1
  BY <1>1
<1> QED BY <1>0, <1>2, <1>3, <1>4 DEF Goes, u

\* A placeholder becomes its value.
Closes(b, i, e, d, r, x, room) ==
  /\ Marks(Text(b), i + 1) # {} /\ e = FirstOf(Marks(Text(b), i + 1))
  /\ d = b.data /\ From(d, x) \o r = From(Text(b), e)
  /\ Filled(b, room) => Len(d) = room \/ r = <<>>

\* The value v is what the placeholder means, unless something is met.
Means(b, i, e, m, v) ==
  b.met \subseteq m /\ (m = {} => ~Lone(Text(b), i) /\ v = Meant(Text(b), i, e))

\* A turn that replaces a placeholder leaves fewer percent signs, and what the text
\* is to become.
LEMMA PairGoes ==
  ASSUME NEW b, NEW p, NEW i, NEW room, Looks(b, p, i, room),
         NEW e, NEW d, NEW r, NEW x, Closes(b, i, e, d, r, x, room), NEW m, NEW v, Means(b, i, e, m, v),
         NEW g, IsReplaced(g, d, r, m, i, x, v, room)
  PROVE  Goes(b, p, g, i, room)
<1> DEFINE u == Text(b)
           k == i - 1
<1>0. IsSeen(b, p, i) /\ p \in Nat \ {0}
  BY Seen DEF Looks
<1>1. /\ u \in Seq(Character) /\ Len(u) \in Nat /\ i \in Marks(u, p) /\ Marks(u, p) # {} /\ i = FirstOf(Marks(u, p))
      /\ i \in Nat \ {0} /\ p <= i /\ k \in 0..Len(u) /\ Len(Upto(u, k)) = k /\ Upto(u, k) \in Seq(Character)
      /\ Upto(u, k) = Upto(d, k)
  <2>1. /\ u \in Seq(Character) /\ i \in Marks(u, p) /\ Marks(u, p) # {} /\ i = FirstOf(Marks(u, p))
        /\ i \in Nat \ {0} /\ p <= i /\ Len(u) \in Nat /\ k \in 0..Len(u)
        /\ Upto(u, k) = Upto(d, k)
    <3>1. /\ u \in Seq(Character) /\ i \in Marks(u, p) /\ Marks(u, p) # {} /\ i = FirstOf(Marks(u, p))
          /\ i \in Nat \ {0} /\ p <= i
      BY <1>0 DEF IsSeen
    <3>2. k \in 0..Len(b.data) /\ Len(u) = Len(b.data) + Len(b.rest) /\ Len(b.data) \in Nat /\ Len(b.rest) \in Nat
      BY <1>0 DEF IsSeen
    <3>3. Upto(u, k) = Upto(b.data, k)
      BY <1>0 DEF IsSeen
    <3>4. d = b.data
      BY DEF Closes
    <3> HIDE DEF u, k
    <3>5. k \in 0..Len(u) /\ Len(u) \in Nat
      <4> DEFINE l == Len(u)
                 n == Len(b.data)
                 o == Len(b.rest)
      <4>1. k \in 0..n /\ l = n + o /\ n \in Nat /\ o \in Nat
        BY <3>2
      <4> HIDE DEF l, n, o
      <4>2. k \in 0..l /\ l \in Nat
        BY <4>1
      <4> QED BY <4>2 DEF l
    <3> QED BY <3>1, <3>3, <3>4, <3>5
  <2> HIDE DEF u, k
  <2>2. Len(Upto(u, k)) = k /\ Upto(u, k) \in Seq(Character)
    <3>1. u \in Seq(Character) /\ k \in 0..Len(u)
      BY <2>1
    <3> QED BY ONLY <3>1, Cuts
  <2> QED BY <2>1, <2>2
<1>2. /\ Marks(u, i + 1) # {} /\ e = FirstOf(Marks(u, i + 1)) /\ From(d, x) \o r = From(u, e)
      /\ Filled(b, room) => Len(d) = room \/ r = <<>>
  BY DEF Closes
<1> HIDE DEF u
<1>3. e \in Nat /\ i < e /\ e <= Len(u) /\ From(u, e) \in Seq(Character)
  <2>1. e \in Nat /\ i < e /\ e <= Len(u)
    BY <1>0, <1>1, <1>2, FirstMarks
  <2>2. e \in 0..Len(u)
    BY <1>1, <2>1
  <2> QED BY <1>1, <2>1, <2>2, Cuts
<1>4. PICK w : /\ Plainly(w) /\ Text(g) = Placed(Upto(u, k), w, From(u, e))
               /\ g.met = {} => w = v
  BY <1>1, <1>2 DEF IsReplaced
<1>5. w \in Seq(Character) /\ Marks(w, 1) = {}
  BY <1>4 DEF Plainly
<1>6. Count(Text(g), i) < Count(u, p)
  <2>1. e \in k..Len(u) /\ p <= i /\ p <= e /\ k < i /\ i <= e /\ p \in Nat /\ i \in Nat \ {0}
    BY <1>0, <1>1, <1>3
  <2> HIDE DEF k
  <2>2. Count(Placed(Upto(u, k), w, From(u, e)), i) < Count(u, p)
    BY <1>1, <1>5, <2>1, CountPlaced
  <2> QED BY <1>4, <2>2
<1>7. ASSUME g.met = {} PROVE Shown(Text(g), i) = Shown(u, p)
  <2>1. m = {} /\ w = v
    BY <1>4, <1>7 DEF IsReplaced
  <2>2. ~Lone(u, i) /\ v = Meant(u, i, e)
    BY <2>1 DEF Means, u
  <2>3. Shown(u, p) = Replaced(u, i, e)
    BY <1>0, <1>1, <1>2, <2>2, ShownPair
  <2> DEFINE a == Upto(u, k)
             t == From(u, e)
  <2>4. Shown(Placed(a, w, t), Len(a) + 1) = a \o (w \o Expanded[t])
    <3>1. a \in Seq(Character) /\ t \in Seq(Character)
      BY <1>1, <1>3
    <3> HIDE DEF a, t
    <3> QED BY <1>5, <3>1, ShownPlaced
  <2>5. Len(a) + 1 = i
    BY <1>1
  <2>6. Replaced(u, i, e) = a \o (w \o Expanded[t])
    BY <2>1, <2>2 DEF Replaced
  <2> HIDE DEF a, t
  <2>7. Text(g) = Placed(a, w, t)
    BY <1>4 DEF a, t
  <2> QED BY <2>3, <2>4, <2>5, <2>6, <2>7
<1>8. b.met \subseteq g.met
  BY DEF Means, IsReplaced
<1>9. IsBuffer(g, room) /\ i <= Len(g.data) + 1
  BY DEF IsReplaced
<1>10. (g.met = {} /\ Filled(b, room)) => Filled(g, room)
  BY <1>2 DEF IsReplaced
<1> QED BY <1>1, <1>6, <1>7, <1>8, <1>9, <1>10 DEF Goes, u

\* Between two places of a sequence is the end of what comes before the second.
LEMMA BetweenCut ==
  ASSUME NEW S, NEW s \in Seq(S), NEW i, NEW e, Lies(i, e, Len(s))
  PROVE  Between(s, i, e) = From(Upto(s, e - 1), i)
<1> DEFINE a == Upto(s, e - 1)
           f == From(a, i)
           t == Between(s, i, e)
<1>0. Len(s) \in Nat /\ i \in Nat /\ e \in Nat /\ i < e /\ e <= Len(s) + 1 /\ e - 1 \in 0..Len(s) /\ i \in 0..(e - 1)
  BY LenProperties DEF Lies
<1>1. a \in Seq(S) /\ Len(a) = e - 1 /\ \A j \in 1..(e - 1) : a[j] = s[j]
  BY <1>0, Cuts, ZenonT(60)
<1> HIDE DEF a
<1>2. f \in Seq(S) /\ Len(f) = Len(a) - i /\ \A j \in 1..(Len(a) - i) : f[j] = a[i + j]
  <2>1. i \in 0..Len(a)
    BY <1>0, <1>1
  <2> QED BY <1>1, <2>1, Cuts, ZenonT(60)
<1>3. t \in Seq(S) /\ Len(t) = e - i - 1 /\ \A j \in 1..(e - i - 1) : t[j] = s[i + j]
  <2>1. IsBetween(t, S, s, i, e)
    BY BetweenIs
  <2> HIDE DEF t
  <2> QED BY <2>1 DEF IsBetween
<1> HIDE DEF f, t
<1>4. Len(t) = Len(f)
  BY <1>0, <1>1, <1>2, <1>3
<1>5. ASSUME NEW j \in 1..Len(t) PROVE t[j] = f[j]
  <2>1. j \in 1..(e - i - 1) /\ j \in 1..(Len(a) - i) /\ i + j \in 1..(e - 1)
    BY <1>0, <1>1, <1>3
  <2> QED BY <1>1, <1>2, <1>3, <2>1
<1>6. t = f
  BY <1>2, <1>3, <1>4, <1>5, SeqEqual
<1> QED BY <1>6 DEF t, f, a

\* Both percent signs of a placeholder are in the buffer.
LEMMA InBuffer ==
  ASSUME NEW b, NEW p, NEW i, NEW room, Looks(b, p, i, room), Marks(b.data, i + 1) # {},
         NEW e, e = FirstOf(Marks(b.data, i + 1))
  PROVE  /\ e \in Nat /\ i < e /\ e <= Len(b.data) /\ e \in 0..Len(b.data)
         /\ Marks(Text(b), i + 1) # {} /\ e = FirstOf(Marks(Text(b), i + 1))
         /\ Between(Text(b), i, e) = Between(b.data, i, e)
<1> DEFINE d == b.data
           r == b.rest
           u == Text(b)
<1>0. IsSeen(b, p, i)
  BY Seen
<1>1. /\ d \in Seq(Character) /\ r \in Seq(Character) /\ p \in Nat \ {0} /\ Marks(d, p) # {}
      /\ i = FirstOf(Marks(d, p)) /\ u = d \o r /\ Marks(d, i + 1) # {} /\ e = FirstOf(Marks(d, i + 1))
  BY DEF Looks, IsBuffer, Text
<1>2. /\ Len(u) = Len(d) + Len(r) /\ u \in Seq(Character) /\ Len(d) \in Nat /\ Len(r) \in Nat
      /\ i \in Nat /\ \A k \in 0..Len(d) : Upto(u, k) = Upto(d, k)
  BY <1>0 DEF IsSeen
<1> HIDE DEF d, r, u
<1>3. e \in Nat /\ i < e /\ e <= Len(d) /\ e \in 0..Len(d) /\ Lies(i, e, Len(d))
  BY <1>1, FirstMarks
<1>4. Marks(u, i + 1) # {} /\ e = FirstOf(Marks(u, i + 1))
  <2>1. i + 1 \in Nat \ {0}
    BY <1>2
  <2>2. /\ FirstOf(Marks(d \o r, i + 1)) = FirstOf(Marks(d, i + 1))
        /\ Marks(d \o r, i + 1) # {}
    BY <1>1, <2>1, FirstOfBoth
  <2> QED BY <1>1, <2>2
<1>5. Between(d, i, e) = Between(u, i, e)
  <2>1. Lies(i, e, Len(u)) /\ e - 1 \in 0..Len(d)
    BY <1>2, <1>3 DEF Lies
  <2>2. Between(u, i, e) = From(Upto(u, e - 1), i)
    BY <1>2, <2>1, BetweenCut
  <2>3. Between(d, i, e) = From(Upto(d, e - 1), i)
    BY <1>1, <1>3, BetweenCut
  <2>4. Upto(u, e - 1) = Upto(d, e - 1)
    BY <1>2, <2>1
  <2> QED BY <2>2, <2>3, <2>4
<1> QED BY <1>3, <1>4, <1>5 DEF d, u

\* Of two percent signs one stays.
Follows(e, i) == e = i + 1

\* So does one that drops the second of two percent signs.
LEMMA DoubledGoes ==
  ASSUME NEW b, NEW p, NEW i, NEW room, Looks(b, p, i, room), Marks(b.data, i + 1) # {},
         NEW e, e = FirstOf(Marks(b.data, i + 1)), Follows(e, i)
  PROVE  Goes(b, p, ReadMore(Buffer(Upto(b.data, i) \o From(b.data, e), b.rest, b.met), 1), i + 1, room)
<1> DEFINE d == b.data
           r == b.rest
           u == Text(b)
           a == Upto(d, i)
           t == From(d, e)
           c == a \o t
           g == ReadMore(Buffer(c, r, b.met), 1)
<1>0. IsSeen(b, p, i) /\ p \in Nat \ {0} /\ p \in Nat /\ IsBuffer(b, room) /\ room \in Nat
  BY Seen DEF Looks
<1>1. /\ d \in Seq(Character) /\ r \in Seq(Character) /\ Len(d) \in Nat /\ Len(r) \in Nat
      /\ u = d \o r /\ u \in Seq(Character) /\ Len(u) = Len(d) + Len(r)
      /\ i \in Nat \ {0} /\ i \in Nat /\ p <= i /\ i \in 0..Len(d) /\ i - 1 \in 0..Len(d) /\ u[i] = Mark
      /\ Marks(u, p) # {} /\ i = FirstOf(Marks(u, p))
      /\ Upto(u, i) = Upto(d, i)
      /\ Len(d) <= room
  BY <1>0 DEF IsSeen, Text, IsBuffer
<1>2. /\ e \in Nat /\ i < e /\ e <= Len(d) /\ e \in 0..Len(d)
      /\ Marks(u, i + 1) # {} /\ e = FirstOf(Marks(u, i + 1))
  BY InBuffer
<1>3. From(u, e) = t \o r
  BY <1>0, <1>2 DEF IsSeen
<1>4. a \in Seq(Character) /\ Len(a) = i /\ t \in Seq(Character) /\ Len(t) = Len(d) - e
  <2>1. d \in Seq(Character) /\ i \in 0..Len(d) /\ e \in 0..Len(d)
    BY <1>1, <1>2
  <2> HIDE DEF d
  <2> QED BY ONLY <2>1, Cuts DEF a, t
<1> HIDE DEF d, r, u, a, t
<1>5. c \in Seq(Character) /\ Len(c) = Len(a) + Len(t)
  BY <1>4, ConcatProperties
<1>6. c \o r = Placed(a, <<>>, t \o r)
  <2>1. a \in Seq(Character) /\ t \in Seq(Character) /\ r \in Seq(Character)
    BY <1>1, <1>4
  <2>2. t \o r \in Seq(Character)
    BY <2>1, ConcatProperties
  <2>3. (a \o t) \o r = a \o (t \o r)
    BY ONLY <2>1, ConcatAssociative, SMTT(40)
  <2>4. <<>> \o (t \o r) = t \o r
    BY <2>2, ConcatEmptySeq
  <2> QED BY <2>3, <2>4 DEF Placed
<1> HIDE DEF c
<1>7. IsMore(g, c, r, b.met, 1)
  BY <1>1, <1>5, ReadMoreIs
<1> HIDE DEF g
<1>8. PICK k \in 0..Len(r) :
        /\ k = 1 \/ (k = Len(r) /\ k <= 1)
        /\ g = Buffer(c \o Upto(r, k), From(r, k), b.met)
        /\ g.data \in Seq(Character) /\ g.rest \in Seq(Character) /\ Len(g.data) = Len(c) + k /\ Len(g.rest) = Len(r) - k
        /\ Text(g) = c \o r
  BY <1>7 DEF IsMore
<1>9. Len(g.data) <= Len(d) /\ i + 1 <= Len(g.data) + 1 /\ (k = 1 => Len(g.data) = Len(d)) /\ Len(g.data) <= room
  <2>1. Len(c) = Len(d) - 1
    <3> DEFINE n == Len(d)
               o == Len(c)
               x == Len(a)
               y == Len(t)
    <3>1. n \in Nat /\ i \in Nat /\ e \in Nat /\ e = i + 1 /\ x = i /\ y = n - e /\ o = x + y
      BY <1>1, <1>2, <1>4, <1>5 DEF Follows
    <3> HIDE DEF n, o, x, y
    <3>2. o = n - 1
      BY <3>1
    <3> QED BY <3>2 DEF n, o
  <2>2. i <= Len(c)
    <3>1. Len(d) \in Nat /\ i \in Nat /\ i < e /\ e <= Len(d) /\ e \in Nat
      BY <1>1, <1>2
    <3> QED BY ONLY <2>1, <3>1
  <2> DEFINE l == Len(g.data)
             n == Len(d)
             o == Len(c)
             x == Len(r)
  <2>3. n \in Nat /\ o = n - 1 /\ i <= o /\ i \in Nat /\ n <= room /\ room \in Nat /\ x \in Nat
    BY <1>0, <1>1, <2>1, <2>2
  <2>4. l = o + k /\ k \in 0..x /\ k <= 1
    BY <1>8
  <2> HIDE DEF l, n, o, x
  <2>5. l <= n /\ i + 1 <= l + 1 /\ (k = 1 => l = n) /\ l <= room
    BY <2>3, <2>4
  <2> QED BY <2>5 DEF l, n
<1>10. g.met = b.met /\ g = Buffer(g.data, g.rest, g.met)
  BY <1>8 DEF Buffer
<1>11. IsBuffer(g, room)
  BY <1>0, <1>8, <1>9, <1>10 DEF IsBuffer
<1>12. ASSUME Filled(b, room) PROVE Filled(g, room)
  <2>1. CASE k = Len(r)
    <3>1. Len(g.rest) = 0
      BY <1>1, <1>8, <2>1
    <3>2. g.rest = <<>>
      BY <1>8, <3>1, EmptySeq
    <3> QED BY <3>2 DEF Filled
  <2>2. CASE k = 1 /\ k # Len(r)
    <3>1. r # <<>>
      BY <1>1, <1>8, <2>2, EmptySeq
    <3>2. Len(d) = room
      BY <1>12, <3>1 DEF Filled, d, r
    <3> QED BY <1>9, <2>2, <3>2 DEF Filled
  <2> QED BY <1>8, <2>1, <2>2
<1>13. Text(g) = Placed(Upto(u, i), <<>>, From(u, e))
  BY <1>1, <1>3, <1>6, <1>8 DEF a
<1>14. Marks(<<>>, 1) = {} /\ <<>> \in Seq(Character)
  <2>1. Len(<<>>) = 0
    OBVIOUS
  <2> QED BY <2>1, MarkIsCharacter DEF Marks
<1>15. Count(Text(g), i + 1) < Count(u, p)
  <2>1. e \in Marks(u, i + 1)
    <3>1. u \in Seq(Character) /\ i + 1 \in Nat
      BY <1>1
    <3>2. Marks(u, i + 1) \in SUBSET Nat
      BY ONLY <3>1, MarksAre
    <3> DEFINE I == Marks(u, i + 1)
    <3>3. I \in SUBSET Nat /\ I # {}
      BY <1>2, <3>2
    <3> HIDE DEF I
    <3>4. FirstOf(I) \in I
      BY ONLY <3>3, FirstIs
    <3> QED BY <1>2, <3>4 DEF I
  <2>2. e \in Nat /\ e <= Len(u) /\ u[e] = Mark
    <3>1. u \in Seq(Character) /\ i + 1 \in Nat
      BY <1>1
    <3> QED BY ONLY <2>1, <3>1, MarksAre
  <2>3. e \in Marks(u, p)
    <3>1. p <= e
      BY <1>0, <1>1, <1>2
    <3> QED BY <1>0, <1>1, <2>2, <3>1, MarksAre
  <2>4. /\ i \in 0..Len(u) /\ e \in i..Len(u) /\ p <= e /\ i < e /\ e <= e /\ e \in Nat \ {0}
    BY <1>0, <1>1, <1>2, SMTT(40)
  <2>5. Count(Placed(Upto(u, i), <<>>, From(u, e)), e) < Count(u, p)
    BY <1>0, <1>1, <1>14, <2>3, <2>4, CountPlaced
  <2>6. e = i + 1
    BY DEF Follows
  <2> QED BY <1>13, <2>5, <2>6
<1>16. Shown(Text(g), i + 1) = Shown(u, p)
  <2> DEFINE f == From(u, e)
             h == Upto(u, i - 1)
             y == Expanded[f]
  <2>1. i - 1 \in 0..Len(u) /\ e \in 0..Len(u) /\ i \in 0..Len(u)
    BY <1>1, <1>2
  <2>2. f \in Seq(Character) /\ h \in Seq(Character) /\ y \in Seq(Character) /\ Len(h) = i - 1
    <3>1. f \in Seq(Character) /\ h \in Seq(Character) /\ Len(h) = i - 1
      <4>1. u \in Seq(Character)
        BY <1>1
      <4> QED BY ONLY <2>1, <4>1, Cuts, SMTT(40)
    <3> HIDE DEF f
    <3> QED BY <3>1, ExpandedIs
  <2>3. ~Lone(u, i) /\ Meant(u, i, e) = <<Mark>>
    <3>1. e - i - 1 = 0 /\ ~(0 > NameMax)
      BY <1>1, TemplateAssumption DEF Follows
    <3>2. FirstOf(Marks(u, i + 1)) - i - 1 = 0
      BY <1>2, <3>1
    <3>3. ~Lone(u, i)
      BY <1>2, <3>1, <3>2 DEF Lone
    <3>4. Meant(u, i, e) = <<Mark>>
      BY DEF Meant, Follows
    <3> QED BY <3>3, <3>4
  <2>4. Shown(u, p) = Replaced(u, i, e)
    <3>1. /\ u \in Seq(Character) /\ p \in Nat \ {0} /\ Marks(u, p) # {} /\ i = FirstOf(Marks(u, p))
          /\ e = FirstOf(Marks(u, i + 1)) /\ ~Lone(u, i)
      BY <1>0, <1>1, <1>2, <2>3
    <3> QED BY ONLY <3>1, ShownPair
  <2>5. Replaced(u, i, e) = h \o (<<Mark>> \o y)
    BY <2>3 DEF Replaced
  <2>6. Shown(Placed(a, <<>>, f), Len(a) + 1) = a \o (<<>> \o y)
    <3>1. a \in Seq(Character) /\ f \in Seq(Character)
      BY <1>4, <2>2
    <3> HIDE DEF f
    <3> QED BY ONLY <1>14, <3>1, ShownPlaced DEF y
  <2>7. <<>> \o y = y
    <3> HIDE DEF y
    <3> QED BY <2>2, ConcatEmptySeq
  <2>8. h \o <<Mark>> = a
    <3>1. SubSeq(u, 1, i) = SubSeq(u, 1, i - 1) \o <<u[i]>>
      <4>1. u \in Seq(Character) /\ 1 \in 1..Len(u) /\ i \in 1..Len(u)
        BY <1>1, <1>2
      <4> QED BY <4>1, SubSeqRecursiveSecond
    <3>2. a = SubSeq(u, 1, i)
      BY <1>1 DEF a, Upto
    <3> QED BY <1>1, <3>1, <3>2 DEF Upto
  <2>9. (h \o <<Mark>>) \o y = h \o (<<Mark>> \o y)
    <3>1. <<Mark>> \in Seq(Character)
      BY MarkIsCharacter
    <3> HIDE DEF h, y, f
    <3>2. h \in Seq(Character) /\ y \in Seq(Character)
      BY <2>2
    <3> QED BY ONLY <3>1, <3>2, ConcatAssociative
  <2>10. Shown(Text(g), i + 1) = a \o y
    BY <1>1, <1>4, <1>13, <2>6, <2>7 DEF a
  <2> QED BY <2>4, <2>5, <2>8, <2>9, <2>10
<1>17. Goes(b, p, g, i + 1, room)
  <2>1. i + 1 \in Nat \ {0}
    BY <1>1
  <2> QED BY <1>9, <1>10, <1>11, <1>12, <1>15, <1>16, <2>1 DEF Goes, u
<1> QED BY <1>17 DEF g, c, a, t, d, r

\* How far the bytes read ahead reach, and where their first percent sign is.
AheadIs(b, i, k) ==
  /\ k \in 0..Len(b.rest) /\ Ahead(b, i) = Upto(b.rest, k)
  /\ k = Len(b.rest) \/ k = NameMax + 1 - (Len(b.data) - i)
  /\ k <= NameMax + 1 - (Len(b.data) - i)

\* As much is read ahead as a name may need.
LEMMA AheadReaches ==
  ASSUME NEW b, NEW p, NEW i, IsSeen(b, p, i), Len(b.data) - i <= NameMax
  PROVE  \E k : AheadIs(b, i, k)
<1> DEFINE n == Len(b.data)
           o == Len(b.rest)
           k == Least(NameMax + 1 - (n - i), o)
<1>1. n \in Nat /\ o \in Nat /\ i \in Nat /\ NameMax \in Nat /\ n - i <= NameMax
  BY TemplateAssumption DEF IsSeen
<1>2. Ahead(b, i) = Upto(b.rest, k)
  BY DEF Ahead
<1> HIDE DEF n, o
<1>3. /\ k \in 0..o /\ (k = o \/ k = NameMax + 1 - (n - i))
      /\ k <= NameMax + 1 - (n - i)
  BY <1>1 DEF Least
<1> HIDE DEF k
<1>4. AheadIs(b, i, k)
  BY <1>2, <1>3 DEF AheadIs, n, o
<1> QED BY <1>4

\* A percent sign with no other in reach begins no placeholder.
LEMMA AheadLone ==
  ASSUME NEW b, NEW p, NEW i, NEW room, Looks(b, p, i, room), Marks(b.data, i + 1) = {},
         Len(b.data) - i > NameMax \/ Marks(Ahead(b, i), 1) = {}
  PROVE  Lone(Text(b), i)
<1> DEFINE d == b.data
           r == b.rest
           u == Text(b)
           e == FirstOf(Marks(u, i + 1))
           n == Len(d)
           o == Len(r)
<1>0. IsSeen(b, p, i)
  BY Seen
<1>1. /\ d \in Seq(Character) /\ r \in Seq(Character) /\ u \in Seq(Character) /\ u = d \o r
      /\ n \in Nat /\ o \in Nat /\ Len(u) = n + o /\ i \in Nat /\ i <= n /\ NameMax \in Nat
  BY <1>0, TemplateAssumption DEF IsSeen, Text
<1> HIDE DEF d, r, u, e, n, o
<1>2. CASE Marks(u, i + 1) = {}
  BY <1>2 DEF Lone, u
<1>3. CASE Marks(u, i + 1) # {}
  <2>0. u \in Seq(Character) /\ i + 1 \in Nat /\ i + 1 \in Nat \ {0}
    BY <1>1
  <2>1. e \in Marks(u, i + 1)
    <3>1. Marks(u, i + 1) \in SUBSET Nat
      BY ONLY <2>0, MarksAre
    <3> DEFINE I == Marks(u, i + 1)
    <3>2. I \in SUBSET Nat /\ I # {} /\ e = FirstOf(I)
      BY <1>3, <3>1 DEF e
    <3> HIDE DEF I
    <3>3. e \in I
      BY ONLY <3>2, FirstIs
    <3> QED BY <3>3 DEF I
  <2>2. e \in Nat /\ e <= Len(u) /\ u[e] = Mark
    BY ONLY <2>0, <2>1, MarksAre
  <2>3. e > Len(d)
    <3>1. Marks(d, i + 1) = {} /\ e \in Marks(d \o r, i + 1)
      BY <1>1, <2>1 DEF d
    <3>2. d \in Seq(Character) /\ r \in Seq(Character)
      BY <1>1
    <3> QED BY ONLY <2>0, <3>1, <3>2, FirstOfBoth
  <2>4. e > n /\ e <= n + o
    BY <1>1, <2>2, <2>3 DEF n
  <2>5. CASE n - i > NameMax
    <3>1. e - i - 1 > NameMax
      BY <1>1, <2>2, <2>4, <2>5
    <3> QED BY <3>1 DEF Lone, e, u
  <2>6. CASE ~(n - i > NameMax) /\ ~(e - i - 1 > NameMax)
    <3>0. Len(b.data) - i <= NameMax
      <4>1. n - i <= NameMax
        BY <1>1, <2>6
      <4> QED BY <4>1 DEF n, d
    <3>1. PICK k : AheadIs(b, i, k)
      BY <1>0, <3>0, AheadReaches
    <3>2. /\ k \in 0..o /\ Ahead(b, i) = Upto(r, k)
          /\ k = o \/ k = NameMax + 1 - (n - i)
      BY <3>1 DEF AheadIs, o, n, r, d
    <3> DEFINE j == e - n
    <3>3. j \in 1..k /\ j \in Nat /\ 1 <= j /\ j <= k /\ n + j = e /\ j \in 1..o /\ k \in 0..o
      BY <1>1, <2>2, <2>4, <2>6, <3>2
    <3> HIDE DEF j
    <3>4. u[e] = r[j]
      <4>1. \A m \in 1..(Len(d) + Len(r)) : (d \o r)[m] = IF m <= Len(d) THEN d[m] ELSE r[m - Len(d)]
        BY <1>1, ConcatProperties
      <4>2. e \in 1..(n + o) /\ ~(e <= n) /\ e - n = j
        BY <1>1, <2>2, <2>4 DEF j
      <4> QED BY <1>1, <4>1, <4>2 DEF n, o
    <3>5. Upto(r, k) \in Seq(Character) /\ Len(Upto(r, k)) = k /\ Upto(r, k)[j] = r[j]
      <4>1. r \in Seq(Character) /\ k \in 0..Len(r) /\ j \in 1..k
        BY <1>1, <3>3 DEF o
      <4> QED BY ONLY <4>1, Cuts
    <3>6. 1 \in Nat
      OBVIOUS
    <3>7. j \in Marks(Upto(r, k), 1)
      BY <2>2, <3>3, <3>4, <3>5, <3>6, MarksAre
    <3>8. Marks(Ahead(b, i), 1) # {}
      BY <3>2, <3>7
    <3>9. ~(Len(b.data) - i > NameMax)
      BY <2>6 DEF n, d
    <3> QED BY <3>8, <3>9
  <2>7. CASE e - i - 1 > NameMax
    BY <2>7 DEF Lone, e, u
  <2> QED BY <2>5, <2>6, <2>7
<1> QED BY <1>2, <1>3

\* A name that goes on behind the buffer.
LEMMA AheadPair ==
  ASSUME NEW b, NEW p, NEW i, NEW room, Looks(b, p, i, room), Marks(b.data, i + 1) = {},
         ~(Len(b.data) - i > NameMax), Marks(Ahead(b, i), 1) # {},
         NEW end, end = FirstOf(Marks(Ahead(b, i), 1))
  PROVE  LET e == Len(b.data) + end IN
         /\ end \in Nat /\ e \in Nat /\ i < e /\ e <= Len(Text(b)) /\ end \in 0..Len(b.rest) /\ end # 0
         /\ Marks(Text(b), i + 1) # {} /\ e = FirstOf(Marks(Text(b), i + 1)) /\ ~Lone(Text(b), i)
         /\ From(Text(b), e) = From(b.rest, end)
         /\ Between(Text(b), i, e) = From(b.data, i) \o Upto(Ahead(b, i), end - 1)
         /\ Len(Between(Text(b), i, e)) = e - i - 1
<1> DEFINE d == b.data
           r == b.rest
           u == Text(b)
           a == Ahead(b, i)
           n == Len(d)
           o == Len(r)
           e == n + end
<1>0. IsSeen(b, p, i)
  BY Seen
<1>1. /\ d \in Seq(Character) /\ r \in Seq(Character) /\ u \in Seq(Character) /\ u = d \o r
      /\ n \in Nat /\ o \in Nat /\ Len(u) = n + o /\ i \in Nat /\ i <= n /\ NameMax \in Nat /\ i \in 0..n
  BY <1>0, TemplateAssumption DEF IsSeen, Text
<1>2. ~(n - i > NameMax) /\ Marks(d, i + 1) = {} /\ Marks(a, 1) # {} /\ end = FirstOf(Marks(a, 1))
  OBVIOUS
<1>3. PICK k : AheadIs(b, i, k)
  <2>1. Len(b.data) - i <= NameMax
    <3> HIDE DEF d
    <3>1. n - i <= NameMax
      <4> HIDE DEF n
      <4> QED BY <1>1, <1>2
    <3> QED BY <3>1 DEF n, d
  <2> QED BY <1>0, <2>1, AheadReaches
<1>4. k \in 0..o /\ a = Upto(r, k) /\ k <= NameMax + 1 - (n - i)
  BY <1>3 DEF AheadIs
<1> HIDE DEF d, r, u, a
<1>5. a \in Seq(Character) /\ Len(a) = k /\ From(r, k) \in Seq(Character) /\ a \o From(r, k) = r
  <2>1. r \in Seq(Character) /\ k \in 0..Len(r)
    BY <1>1, <1>4
  <2>2. Upto(r, k) \in Seq(Character) /\ Len(Upto(r, k)) = k /\ From(r, k) \in Seq(Character)
    BY ONLY <2>1, Cuts
  <2>3. Upto(r, k) \o From(r, k) = r
    BY ONLY <2>1, Joined
  <2> QED BY <1>4, <2>2, <2>3
<1>6. end \in Nat \ {0} /\ end <= k
  <2>1. a \in Seq(Character) /\ 1 \in Nat \ {0} /\ Marks(a, 1) # {} /\ end = FirstOf(Marks(a, 1))
    BY <1>2, <1>5
  <2>2. end \in Nat \ {0} /\ end <= Len(a)
    BY ONLY <2>1, FirstMarks
  <2> QED BY <1>5, <2>2
<1>7. Marks(r, 1) # {} /\ FirstOf(Marks(r, 1)) = end
  <2> DEFINE f == From(r, k)
  <2>1. a \in Seq(Character) /\ f \in Seq(Character) /\ 1 \in Nat \ {0} /\ Marks(a, 1) # {}
    BY <1>2, <1>5
  <2> HIDE DEF f
  <2>2. FirstOf(Marks(a \o f, 1)) = FirstOf(Marks(a, 1)) /\ Marks(a \o f, 1) # {}
    BY ONLY <2>1, FirstOfBoth
  <2> QED BY <1>2, <1>5, <2>2 DEF f
<1>8. From(u, n) = r /\ n \in 0..Len(u)
  <2>1. d \in Seq(Character) /\ r \in Seq(Character) /\ 0 \in 0..Len(r) /\ n \in Nat
    BY <1>1
  <2>2. From(d \o r, Len(d) + 0) = From(r, 0)
    BY ONLY <2>1, CutSecond
  <2>3. From(r, 0) = r
    BY <2>1, Ends
  <2>4. Len(d) + 0 = n
    BY <2>1
  <2>5. n \in 0..Len(u)
    <3> HIDE DEF n, o
    <3> QED BY <1>1
  <2> QED BY <1>1, <2>2, <2>3, <2>4, <2>5
<1> HIDE DEF n, o
<1>9. Marks(u, n + 1) # {} /\ FirstOf(Marks(u, n + 1)) = e
  <2>1. u \in Seq(Character) /\ n \in 0..Len(u) /\ 1 \in Nat \ {0}
    BY <1>1, <1>8
  <2>2. /\ Marks(From(u, n), 1) = {} <=> Marks(u, n + 1) = {}
        /\ Marks(u, n + 1) # {} => FirstOf(Marks(u, n + 1)) = n + FirstOf(Marks(From(u, n), 1))
    BY ONLY <2>1, MarksBehind
  <2> QED BY <1>7, <1>8, <2>2
<1>10. Marks(u, i + 1) = Marks(u, n + 1)
  <2>1. u \in Seq(Character) /\ i + 1 \in Nat /\ i + 1 \in Nat \ {0} /\ n + 1 \in Nat
    BY <1>1
  <2>2. \A j \in Marks(u, i + 1) : j > n
    <3>1. d \in Seq(Character) /\ r \in Seq(Character) /\ Marks(d, i + 1) = {} /\ u = d \o r
      BY <1>1, <1>2
    <3>2. \A j \in Marks(d \o r, i + 1) : j > Len(d)
      BY ONLY <2>1, <3>1, FirstOfBoth
    <3> QED BY <3>1, <3>2 DEF n
  <2>3. ASSUME NEW j PROVE j \in Marks(u, i + 1) <=> j \in Marks(u, n + 1)
    <3>1. j \in Marks(u, i + 1) <=> j \in Nat /\ i + 1 <= j /\ j <= Len(u) /\ u[j] = Mark
      BY ONLY <2>1, MarksAre
    <3>2. j \in Marks(u, n + 1) <=> j \in Nat /\ n + 1 <= j /\ j <= Len(u) /\ u[j] = Mark
      BY ONLY <2>1, MarksAre
    <3>3. j \in Nat => (n + 1 <= j <=> j > n) /\ (n + 1 <= j => i + 1 <= j)
      BY <1>1
    <3> QED BY <2>2, <3>1, <3>2, <3>3
  <2> QED BY <2>3
<1>11. Marks(u, i + 1) # {} /\ e = FirstOf(Marks(u, i + 1))
  BY <1>9, <1>10
<1>12. e \in Nat /\ i < e /\ e <= Len(u) /\ end \in 0..o /\ end - 1 \in 0..o /\ e - 1 = n + (end - 1) /\ end - 1 \in 0..k
  <2> DEFINE l == Len(u)
  <2>1. l = n + o /\ n \in Nat /\ o \in Nat /\ i \in Nat /\ i <= n
    BY <1>1
  <2> HIDE DEF l
  <2>2. end \in Nat /\ end # 0 /\ end <= k /\ k \in 0..o
    BY <1>4, <1>6
  <2>3. e \in Nat /\ i < e /\ e <= l /\ end \in 0..o /\ end - 1 \in 0..o /\ e - 1 = n + (end - 1) /\ end - 1 \in 0..k
    BY ONLY <2>1, <2>2
  <2> QED BY <2>3 DEF l
<1>13. ~Lone(u, i)
  <2>1. ~(e - i - 1 > NameMax)
    <3>1. n \in Nat /\ i \in Nat /\ NameMax \in Nat
      BY <1>1
    <3>2. end \in Nat /\ end <= k /\ k <= NameMax + 1 - (n - i) /\ k \in Int
      BY <1>4, <1>6
    <3> QED BY ONLY <3>1, <3>2
  <2> QED BY <1>11, <2>1 DEF Lone
<1>14. From(u, e) = From(r, end) /\ Upto(u, n + (end - 1)) = d \o Upto(r, end - 1)
  <2> DEFINE y == end - 1
  <2>1. d \in Seq(Character) /\ r \in Seq(Character) /\ end \in 0..Len(r) /\ y \in 0..Len(r)
    BY <1>1, <1>12 DEF o
  <2> HIDE DEF y
  <2>2. From(d \o r, Len(d) + end) = From(r, end) /\ Upto(d \o r, Len(d) + y) = d \o Upto(r, y)
    BY ONLY <2>1, CutSecond
  <2> QED BY <1>1, <2>2 DEF y, n
<1>15. Lies(i, e, Len(u))
  <2> DEFINE l == Len(u)
  <2>1. l \in Nat /\ i \in Nat /\ e \in Nat /\ i < e /\ e <= l
    BY <1>1, <1>12
  <2> HIDE DEF l, e
  <2>2. Lies(i, e, l)
    BY <2>1 DEF Lies
  <2> QED BY <2>2 DEF l
<1>16. Between(u, i, e) = From(d, i) \o Upto(a, end - 1)
  <2> DEFINE y == end - 1
             v == Upto(r, y)
  <2>1. Between(u, i, e) = From(Upto(u, e - 1), i)
    <3>1. u \in Seq(Character)
      BY <1>1
    <3> HIDE DEF e
    <3> QED BY ONLY <1>15, <3>1, BetweenCut
  <2>2. Upto(u, e - 1) = d \o v
    BY <1>12, <1>14
  <2>3. v \in Seq(Character) /\ Upto(a, y) = v
    <3>1. r \in Seq(Character) /\ y \in 0..Len(r) /\ k \in 0..Len(r) /\ y \in 0..k
      BY <1>1, <1>4, <1>12 DEF o
    <3> HIDE DEF y
    <3>2. Upto(r, y) \in Seq(Character)
      BY ONLY <3>1, Cuts
    <3>3. Upto(Upto(r, k), y) = Upto(r, y)
      BY ONLY <3>1, CutTwice
    <3> QED BY <1>4, <3>2, <3>3
  <2> HIDE DEF v
  <2>4. From(d \o v, i) = From(d, i) \o v
    <3>1. d \in Seq(Character) /\ v \in Seq(Character) /\ i \in 0..Len(d)
      BY <1>1, <2>3 DEF n
    <3> QED BY ONLY <3>1, CutFirst
  <2> QED BY <2>1, <2>2, <2>3, <2>4
<1>17. Len(Between(u, i, e)) = e - i - 1
  <2>1. u \in Seq(Character)
    BY <1>1
  <2> HIDE DEF e
  <2>2. IsBetween(Between(u, i, e), Character, u, i, e)
    BY ONLY <1>15, <2>1, BetweenIs
  <2> QED BY <2>2 DEF IsBetween
<1> QED BY <1>6, <1>11, <1>12, <1>13, <1>14, <1>16, <1>17 DEF d, r, u, a, n, o, e

\* The parts of where the loop is.
LEMMA AtIs ==
  ASSUME NEW g, NEW q
  PROVE  At(g, q).buffer = g /\ At(g, q).at = q
BY DEF At

\* A turn, by its result.
TurnsTo(b, p, z, room) == z = At(z.buffer, z.at) /\ Goes(b, p, z.buffer, z.at, room)

\* What is shown of a turn that goes to a buffer and a place, in the terms of the
\* loop.
LEMMA TurnsToAt ==
  ASSUME NEW b, NEW p, NEW g, NEW q, NEW room, Goes(b, p, g, q, room)
  PROVE  TurnsTo(b, p, At(g, q), room)
BY AtIs DEF TurnsTo

\* Both signs in the buffer.
LEMMA TurnInBuffer ==
  ASSUME NEW b, NEW p, NEW i, NEW room, Looks(b, p, i, room), Marks(b.data, i + 1) # {}
  PROVE  TurnsTo(b, p, Turn(b, i, room), room)
<1> DEFINE e == FirstOf(Marks(b.data, i + 1))
           m == IF e - i - 1 > NameMax THEN b.met \cup {"long"} ELSE b.met
           v == ValueOf(SubSeq(b.data, i + 1, Least(e - 1, i + NameMax)))
           c == ReadMore(Buffer(Upto(b.data, i) \o From(b.data, e), b.rest, b.met), 1)
           g == Replace(Buffer(b.data, b.rest, m), i, e, v, room)
<1>1. Turn(b, i, room) = IF e = i + 1 THEN At(c, i + 1) ELSE At(g, i)
  BY DEF Turn
<1>2. /\ e \in Nat /\ i < e /\ e <= Len(b.data) /\ e \in 0..Len(b.data)
      /\ Marks(Text(b), i + 1) # {} /\ e = FirstOf(Marks(Text(b), i + 1))
      /\ Between(Text(b), i, e) = Between(b.data, i, e)
  BY InBuffer
<1>3. CASE e = i + 1
  <2>1. Follows(e, i)
    BY <1>3 DEF Follows
  <2>2. Goes(b, p, c, i + 1, room)
    BY <2>1, DoubledGoes
  <2> HIDE DEF e, c, g
  <2>3. TurnsTo(b, p, At(c, i + 1), room)
    BY <2>2, TurnsToAt
  <2> QED BY <1>1, <1>3, <2>3
<1>4. CASE e # i + 1
  <2> DEFINE d == b.data
             r == b.rest
  <2>0. /\ IsSeen(b, p, i) /\ NameMax \in Nat /\ room \in Nat /\ IsBuffer(b, room) /\ b.met \in SUBSET Spoilt
        /\ "long" \in Spoilt
    BY Seen, TemplateAssumption DEF Looks, IsBuffer, Spoilt
  <2>1. d \in Seq(Character) /\ r \in Seq(Character) /\ i \in Nat \ {0} /\ i <= Len(d) /\ Len(d) \in Nat /\ Len(d) <= room
    BY <2>0 DEF IsSeen, IsBuffer
  <2>2. Holds(d, r, i, e, room)
    <3>1. i <= e
      BY <1>2, <2>1
    <3> HIDE DEF d, r, e
    <3> QED BY <1>2, <2>0, <2>1, <3>1 DEF Holds, d
  <2>3. Plainly(v)
    BY ValueIsText DEF Plainly
  <2>4. m \in SUBSET Spoilt /\ b.met \subseteq m
    BY <2>0
  <2>5. IsReplaced(g, d, r, m, i, e, v, room)
    <3> HIDE DEF d, r, e, m, v
    <3>1. IsReplaced(Replace(Buffer(d, r, m), i, e, v, room), d, r, m, i, e, v, room)
      BY <2>2, <2>3, <2>4, ReplaceIs
    <3> QED BY <3>1 DEF d, r
  <2>6. Closes(b, i, e, d, r, e, room)
    <3>1. From(d, e) \o r = From(Text(b), e)
      BY <1>2, <2>0 DEF IsSeen
    <3>2. Filled(b, room) => Len(d) = room \/ r = <<>>
      BY DEF Filled
    <3> QED BY <1>2, <3>1, <3>2 DEF Closes
  <2>7. Means(b, i, e, m, v)
    <3>1. ASSUME m = {} PROVE ~Lone(Text(b), i) /\ v = Meant(Text(b), i, e)
      <4>1. ~(e - i - 1 > NameMax)
        BY <3>1
      <4>2. ~Lone(Text(b), i)
        BY <1>2, <4>1 DEF Lone
      <4>3. Least(e - 1, i + NameMax) = e - 1
        <5> HIDE DEF e
        <5> QED BY <1>2, <2>0, <2>1, <4>1, SMTT(40) DEF Least
      <4>4. v = ValueOf(Between(b.data, i, e))
        BY <4>3 DEF Between
      <4>5. v = ValueOf(Between(Text(b), i, e))
        BY <1>2, <4>4
      <4> QED BY <1>4, <4>2, <4>5 DEF Meant
    <3> QED BY <2>4, <3>1 DEF Means
  <2>8. Goes(b, p, g, i, room)
    <3> HIDE DEF e, m, v, g, d, r
    <3> QED BY <2>5, <2>6, <2>7, PairGoes
  <2>9. TurnsTo(b, p, At(g, i), room)
    <3> HIDE DEF g
    <3> QED BY <2>8, TurnsToAt
  <2> HIDE DEF e, c, g
  <2> QED BY <1>1, <1>4, <2>9
<1> QED BY <1>3, <1>4

\* The second is looked for behind the buffer.
LEMMA TurnAhead ==
  ASSUME NEW b, NEW p, NEW i, NEW room, Looks(b, p, i, room), Marks(b.data, i + 1) = {}
  PROVE  TurnsTo(b, p, Turn(b, i, room), room)
<1> DEFINE d == b.data
           r == b.rest
           u == Text(b)
           known == From(d, i)
           a == Ahead(b, i)
           end == FirstOf(Marks(a, 1))
           name == known \o Upto(a, end - 1)
           behind == From(r, end)
           e == Len(d) + end
           c == Buffer(d, behind, b.met \cup {"doubled"})
           g == Replace(Buffer(d, behind, b.met), i, Len(d), ValueOf(name), room)
<1>0. /\ IsSeen(b, p, i) /\ room \in Nat /\ p \in Nat \ {0} /\ IsBuffer(b, room) /\ b.met \in SUBSET Spoilt
      /\ "doubled" \in Spoilt
  BY Seen DEF Looks, IsBuffer, Spoilt
<1>1. /\ d \in Seq(Character) /\ r \in Seq(Character) /\ u \in Seq(Character) /\ Len(d) \in Nat
      /\ i \in Nat \ {0} /\ i <= Len(d) /\ i \in 0..Len(d) /\ Len(d) <= room /\ p <= i
  BY <1>0 DEF IsSeen, IsBuffer
<1>2. Turn(b, i, room) =
        IF Len(known) > NameMax \/ Marks(a, 1) = {} THEN At(b, i + 1)
        ELSE IF name = <<>> THEN At(c, i) ELSE At(g, i)
  BY DEF Turn
<1>3. Len(known) = Len(d) - i /\ known \in Seq(Character)
  <2> HIDE DEF d
  <2>1. d \in Seq(Character) /\ i \in 0..Len(d)
    BY <1>1
  <2> QED BY ONLY <2>1, Cuts
<1>4. CASE Len(known) > NameMax \/ Marks(a, 1) = {}
  <2>1. Len(b.data) - i > NameMax \/ Marks(Ahead(b, i), 1) = {}
    BY <1>3, <1>4
  <2>2. Lone(Text(b), i)
    BY <2>1, AheadLone
  <2>3. Goes(b, p, b, i + 1, room)
    BY <2>2, LoneGoes
  <2>4. TurnsTo(b, p, At(b, i + 1), room)
    BY <2>3, TurnsToAt
  <2> QED BY <1>2, <1>4, <2>4
<1>5. CASE ~(Len(known) > NameMax) /\ Marks(a, 1) # {}
  <2>1. ~(Len(b.data) - i > NameMax) /\ Marks(Ahead(b, i), 1) # {}
    BY <1>3, <1>5
  <2>2. /\ end \in Nat /\ e \in Nat /\ i < e /\ e <= Len(u) /\ end \in 0..Len(r) /\ end # 0
        /\ Marks(u, i + 1) # {} /\ e = FirstOf(Marks(u, i + 1)) /\ ~Lone(u, i)
        /\ From(u, e) = behind
        /\ Between(u, i, e) = name
        /\ Len(Between(u, i, e)) = e - i - 1
    BY <2>1, AheadPair
  <2> HIDE DEF d, r, u, known, a, end, name, behind, e
  <2>3. behind \in Seq(Character)
    <3>1. r \in Seq(Character) /\ end \in 0..Len(r)
      BY <1>1, <2>2
    <3> QED BY ONLY <3>1, Cuts DEF behind
  <2>4. CASE name = <<>>
    <3>1. e = i + 1 /\ i = Len(d)
      <4> DEFINE n == Len(d)
      <4>1. Len(name) = 0
        BY <2>4
      <4>2. e - i - 1 = 0 /\ n \in Nat /\ i <= n /\ i \in Nat /\ e = n + end /\ end \in Nat /\ end # 0
        BY <1>1, <2>2, <4>1 DEF e
      <4> HIDE DEF n
      <4>3. e = i + 1 /\ i = n
        BY ONLY <4>2
      <4> QED BY <4>3 DEF n
    <3>2. c.data = d /\ c.rest = behind /\ c.met = b.met \cup {"doubled"} /\ c = Buffer(c.data, c.rest, c.met)
      BY DEF Buffer
    <3> HIDE DEF c
    <3>3. IsBuffer(c, room)
      BY <1>0, <1>1, <2>3, <3>2 DEF IsBuffer
    <3>4. Text(c) = Placed(Upto(u, i), <<>>, From(u, e))
      <4>1. Upto(u, i) = Upto(d, i)
        BY <1>0, <1>1 DEF IsSeen, u, d
      <4>2. Upto(d, Len(d)) = d
        BY <1>1, Ends
      <4>3. <<>> \o behind = behind
        BY <2>3, ConcatEmptySeq
      <4> QED BY <2>2, <3>1, <3>2, <4>1, <4>2, <4>3 DEF Text, Placed
    <3>5. Marks(<<>>, 1) = {} /\ <<>> \in Seq(Character)
      <4>1. Len(<<>>) = 0
        OBVIOUS
      <4> QED BY <4>1, MarkIsCharacter DEF Marks
    <3>6. e \in Marks(u, p)
      <4>1. u \in Seq(Character) /\ i + 1 \in Nat
        BY <1>1
      <4>2. Marks(u, i + 1) \in SUBSET Nat
        BY ONLY <4>1, MarksAre
      <4> DEFINE I == Marks(u, i + 1)
      <4>3. I \in SUBSET Nat /\ I # {} /\ e = FirstOf(I)
        BY <2>2, <4>2
      <4> HIDE DEF I
      <4>4. e \in I
        BY ONLY <4>3, FirstIs
      <4>5. e \in Marks(u, i + 1)
        BY <4>4 DEF I
      <4>6. e \in Nat /\ e <= Len(u) /\ u[e] = Mark
        BY ONLY <4>1, <4>5, MarksAre
      <4>7. p <= e /\ p \in Nat
        BY <1>0, <1>1, <2>2
      <4> QED BY ONLY <4>1, <4>6, <4>7, MarksAre
    <3>7. Count(Text(c), i) < Count(u, p)
      <4> DEFINE l == Len(u)
      <4>1. l \in Nat
        BY <1>1, LenProperties
      <4>2. i \in Nat /\ e \in Nat /\ i < e /\ e <= l /\ p <= i /\ p \in Nat \ {0} /\ i # 0
        BY <1>0, <1>1, <2>2
      <4> HIDE DEF l
      <4>3. i \in 0..l /\ e \in i..l /\ p <= e /\ i < e /\ e <= e /\ i \in Nat \ {0} /\ p <= i /\ p \in Nat
        BY ONLY <4>1, <4>2
      <4>4. i \in 0..Len(u) /\ e \in i..Len(u) /\ u \in Seq(Character)
        BY <1>1, <4>3 DEF l
      <4>5. Count(Placed(Upto(u, i), <<>>, From(u, e)), i) < Count(u, p)
        BY ONLY <3>5, <3>6, <4>3, <4>4, CountPlaced
      <4> QED BY <3>4, <4>5
    <3>8. Goes(b, p, c, i, room)
      <4>1. i <= Len(c.data) + 1 /\ c.met # {} /\ b.met \subseteq c.met
        BY <1>1, <3>2
      <4> QED BY <1>1, <3>3, <3>7, <4>1 DEF Goes, u
    <3>9. TurnsTo(b, p, At(c, i), room)
      BY <3>8, TurnsToAt
    <3> HIDE DEF g
    <3> QED BY <1>2, <1>5, <2>4, <3>9
  <2>5. CASE name # <<>>
    <3> DEFINE v == ValueOf(name)
               n == Len(d)
               m == b.met
    <3>1. Plainly(v)
      BY ValueIsText DEF Plainly
    <3>2. Holds(d, behind, i, n, room)
      <4> HIDE DEF v
      <4> QED BY <1>0, <1>1, <2>3 DEF Holds
    <3>3. IsReplaced(g, d, behind, m, i, n, v, room)
      <4>1. m \in SUBSET Spoilt
        BY <1>0
      <4> HIDE DEF v, n, m
      <4>2. IsReplaced(Replace(Buffer(d, behind, m), i, n, v, room), d, behind, m, i, n, v, room)
        BY ONLY <3>1, <3>2, <4>1, ReplaceIs
      <4> QED BY <4>2 DEF v, n, m
    <3>4. Closes(b, i, e, d, behind, n, room)
      <4>1. From(d, n) \o behind = behind
        <5>1. From(d, n) = <<>>
          BY <1>1, Ends
        <5> QED BY <2>3, <5>1, ConcatEmptySeq
      <4>2. Filled(b, room) => Len(d) = room
        <5>1. ASSUME r = <<>> PROVE FALSE
          <6>1. Len(r) = 0
            BY <5>1
          <6> QED BY <2>2, <6>1
        <5> QED BY <5>1 DEF Filled, d, r
      <4> QED BY <2>2, <4>1, <4>2 DEF Closes, d, u
    <3>5. Means(b, i, e, m, v)
      <4>1. e # i + 1
        <5>1. name \in Seq(Character)
          <6>1. Lies(i, e, Len(u)) /\ u \in Seq(Character)
            <7> DEFINE l == Len(u)
            <7>1. l \in Nat /\ i \in Nat /\ e \in Nat /\ i < e /\ e <= l
              BY <1>1, <2>2, LenProperties
            <7> HIDE DEF l
            <7>2. Lies(i, e, l)
              BY ONLY <7>1 DEF Lies
            <7> QED BY <1>1, <7>2 DEF l
          <6>2. IsBetween(Between(u, i, e), Character, u, i, e)
            BY ONLY <6>1, BetweenIs
          <6> QED BY <2>2, <6>2 DEF IsBetween
        <5>2. Len(name) # 0
          BY <2>5, <5>1, EmptySeq
        <5>3. Len(name) = e - i - 1 /\ i \in Nat
          BY <1>1, <2>2
        <5> QED BY ONLY <5>2, <5>3
      <4> QED BY <2>2, <4>1 DEF Means, Meant, u
    <3>6. Goes(b, p, g, i, room)
      <4> HIDE DEF g, v, n, m
      <4> QED BY <3>3, <3>4, <3>5, PairGoes
    <3>7. TurnsTo(b, p, At(g, i), room)
      <4> HIDE DEF g
      <4> QED BY <3>6, TurnsToAt
    <3> HIDE DEF g, c
    <3> QED BY <1>2, <1>5, <2>5, <3>7
  <2> QED BY <2>4, <2>5
<1> QED BY <1>4, <1>5

\* A turn of the loop goes on from where the loop looks.
LEMMA TurnGoes ==
  ASSUME NEW b, NEW p, NEW i, NEW room, Looks(b, p, i, room)
  PROVE  TurnsTo(b, p, Turn(b, i, room), room)
<1>1. CASE Marks(b.data, i + 1) # {}
  BY <1>1, TurnInBuffer
<1>2. CASE Marks(b.data, i + 1) = {}
  BY <1>2, TurnAhead
<1> QED BY <1>1, <1>2

\* What the loop has done at its end with what it began with.
Stays(y) == Marks(y.buffer.data, y.at) = {}
Turned(y, room) == Turn(y.buffer, FirstOf(Marks(y.buffer.data, y.at)), room)

IsProcessed(g, b, p, room) ==
  /\ IsBuffer(g, room) /\ b.met \subseteq g.met
  /\ (g.met = {} /\ Filled(b, room)) => Filled(g, room)
  /\ (g.met = {} /\ p <= Len(b.data) + 1) => g.data \o Expanded[g.rest] = Shown(Text(b), p)

\* A turn stays among the states of the loop and leaves fewer percent signs to look at.
LEMMA TurnedIs ==
  ASSUME NEW room \in Nat, NEW y \in Scans(room), ~Stays(y)
  PROVE  /\ Turned(y, room) \in Scans(room)
         /\ Goes(y.buffer, y.at, Turned(y, room).buffer, Turned(y, room).at, room)
<1> DEFINE z == Turned(y, room)
<1>1. y.buffer \in Buffers(room) /\ y.at \in Nat \ {0} /\ Marks(y.buffer.data, y.at) # {}
  BY DEF Scans, Stays
<1>2. IsBuffer(y.buffer, room)
  BY <1>1, BufferIs
<1>3. Looks(y.buffer, y.at, FirstOf(Marks(y.buffer.data, y.at)), room)
  BY <1>1, <1>2 DEF Looks
<1>4. TurnsTo(y.buffer, y.at, z, room)
  BY <1>3, TurnGoes DEF Turned
<1> HIDE DEF z
<1>5. z = At(z.buffer, z.at) /\ Goes(y.buffer, y.at, z.buffer, z.at, room)
  BY <1>4 DEF TurnsTo
<1>6. z.buffer \in Buffers(room) /\ z.at \in Nat \ {0}
  BY <1>5, BufferIs DEF Goes
<1>7. At(z.buffer, z.at) \in Scans(room)
  BY <1>6 DEF At, Scans
<1> QED BY <1>5, <1>7 DEF z

\* Buffer and what is to come are one text.
LEMMA TextOf ==
  ASSUME NEW b, NEW room, IsBuffer(b, room)
  PROVE  Text(b) \in Seq(Character) /\ Len(b.data) \in Nat /\ Len(b.rest) \in Nat /\ Len(Text(b)) = Len(b.data) + Len(b.rest)
BY ConcatProperties, LenProperties DEF IsBuffer, Text

\* f does what the loop of Processed does.
LoopEq(f, room) == f = [y \in Scans(room) |-> IF Stays(y) THEN y.buffer ELSE f[Turned(y, room)]]

\* The loop ends.
LEMMA LoopExists ==
  ASSUME NEW room \in Nat
  PROVE  \E f : LoopEq(f, room)
<1> DEFINE S == Scans(room)
           R == Buffers(room)
           stop == {y \in S : Stays(y)}
           measure == [y \in S |-> Count(Text(y.buffer), y.at)]
           base == [y \in S |-> y.buffer]
           next == [y \in S |-> IF y \in stop THEN y ELSE Turned(y, room)]
           step == [w \in S \X R |-> w[2]]
<1>0. ASSUME NEW y \in S PROVE y.buffer \in R /\ y.at \in Nat \ {0} /\ IsBuffer(y.buffer, room) /\ Text(y.buffer) \in Seq(Character)
  BY BufferIs, TextOf DEF Scans
<1>1. measure \in [S -> Nat]
  <2>1. ASSUME NEW y \in S PROVE Count(Text(y.buffer), y.at) \in Nat
    BY <1>0, CountIs
  <2> HIDE DEF S
  <2> QED BY <2>1
<1>2. base \in [S -> R] /\ step \in [S \X R -> R]
  <2> HIDE DEF S, R
  <2> QED BY <1>0
<1>3. next \in [S -> S]
  <2>1. ASSUME NEW y \in S, y \notin stop PROVE Turned(y, room) \in S
    BY <2>1, TurnedIs
  <2> HIDE DEF S, stop
  <2> QED BY <2>1
<1>4. ASSUME NEW y \in S, y \notin stop PROVE measure[next[y]] < measure[y]
  <2> DEFINE z == Turned(y, room)
  <2>1. z \in S /\ Count(Text(z.buffer), z.at) < Count(Text(y.buffer), y.at)
    BY <1>4, TurnedIs DEF Goes
  <2> HIDE DEF z, S
  <2>2. next[y] = z
    BY <1>4 DEF z
  <2>3. measure[z] = Count(Text(z.buffer), z.at) /\ measure[y] = Count(Text(y.buffer), y.at)
    BY <2>1
  <2> QED BY <2>1, <2>2, <2>3
<1>5. IsSystem(S, R, measure, stop, base, next, step)
  <2> HIDE DEF S, R, measure, stop, base, next, step
  <2> QED BY <1>1, <1>2, <1>3, <1>4 DEF IsSystem
<1>6. PICK h : IsRecursive(h, S, R, stop, base, next, step)
  <2> HIDE DEF S, R, measure, stop, base, next, step
  <2> QED BY <1>5, Recursion
<1>7. h \in [S -> R]
  <2> HIDE DEF S, R, measure, stop, base, next, step
  <2> QED BY <1>6 DEF IsRecursive
<1> DEFINE V(y) == IF Stays(y) THEN y.buffer ELSE h[Turned(y, room)]
<1>8. ASSUME NEW y \in S PROVE h[y] = V(y)
  <2>1. h[y] = IF y \in stop THEN base[y] ELSE step[<<y, h[next[y]]>>]
    <3> HIDE DEF S, R, measure, stop, base, next, step
    <3> QED BY <1>6, <1>8 DEF IsRecursive
  <2>2. CASE y \in stop
    <3>1. base[y] = y.buffer /\ Stays(y)
      BY <2>2
    <3> HIDE DEF S, R, measure, stop, base, next, step
    <3> QED BY <2>1, <2>2, <3>1
  <2>3. CASE y \notin stop
    <3> DEFINE z == Turned(y, room)
               x == h[z]
    <3>1. z \in S /\ ~Stays(y)
      BY <2>3, TurnedIs
    <3> HIDE DEF z, S, R, stop
    <3>2. next[y] = z
      BY <2>3 DEF z
    <3>3. x \in R
      BY <1>7, <3>1
    <3> HIDE DEF x
    <3>4. <<y, x>> \in S \X R /\ <<y, x>>[2] = x
      BY <3>3
    <3>5. step[<<y, x>>] = x
      BY <3>4
    <3>6. h[y] = step[<<y, x>>]
      <4> HIDE DEF base, next, step
      <4> QED BY <2>1, <2>3, <3>2 DEF x
    <3> QED BY <3>1, <3>5, <3>6 DEF x, z
  <2> QED BY <2>2, <2>3
<1>9. LoopEq(h, room)
  <2> HIDE DEF V, R
  <2>1. h = [y \in S |-> V(y)]
    <3> HIDE DEF S
    <3> QED BY <1>7, <1>8
  <2> QED BY <2>1 DEF V, LoopEq
<1> QED BY <1>9

\* What the loop does.
LEMMA LoopIs ==
  ASSUME NEW room \in Nat, NEW f, LoopEq(f, room), NEW x \in Scans(room)
  PROVE  IsProcessed(f[x], x.buffer, x.at, room)
<1> DEFINE S == Scans(room)
           measure == [y \in S |-> Count(Text(y.buffer), y.at)]
           Good(y) == IsProcessed(f[y], y.buffer, y.at, room)
           T == {y \in S : ~Good(y)}
           V(y) == IF Stays(y) THEN y.buffer ELSE f[Turned(y, room)]
<1>0. ASSUME NEW y \in S PROVE y.buffer \in Buffers(room) /\ y.at \in Nat \ {0} /\ IsBuffer(y.buffer, room) /\ Text(y.buffer) \in Seq(Character)
  BY BufferIs, TextOf DEF Scans
<1>1. measure \in [S -> Nat]
  <2>1. ASSUME NEW y \in S PROVE Count(Text(y.buffer), y.at) \in Nat
    BY <1>0, CountIs
  <2> HIDE DEF S
  <2> QED BY <2>1
<1>2. ASSUME NEW y \in S PROVE f[y] = V(y)
  <2>1. f = [u \in S |-> V(u)]
    BY DEF LoopEq
  <2> HIDE DEF S, V
  <2> QED BY <2>1
<1>3. ASSUME NEW y \in S, Stays(y) PROVE Good(y)
  <2> DEFINE b == y.buffer
             p == y.at
             u == Text(b)
             l == Len(b.data)
  <2>1. f[y] = b
    BY <1>2, <1>3
  <2>2. /\ IsBuffer(b, room) /\ p \in Nat \ {0} /\ u \in Seq(Character) /\ Marks(b.data, p) = {}
        /\ b.data \in Seq(Character) /\ b.rest \in Seq(Character)
    BY <1>0, <1>3 DEF IsBuffer, Stays
  <2>3. ASSUME p <= l + 1 PROVE b.data \o Expanded[b.rest] = Shown(u, p)
    <3>1. l \in Nat /\ l \in 0..Len(b.data) /\ Len(b.data) \in 0..Len(b.data) /\ Len(u) = l + Len(b.rest) /\ Len(b.rest) \in Nat
      <4>1. l \in Nat /\ Len(b.rest) \in Nat /\ Len(u) = l + Len(b.rest)
        <5> HIDE DEF b
        <5> QED BY <2>2, TextOf
      <4>2. l \in 0..l
        <5> HIDE DEF l
        <5> QED BY <4>1
      <4> QED BY <4>1, <4>2
    <3>2. \A j \in Marks(u, p) : j > l
      BY <2>2, FirstOfBoth DEF Text
    <3>3. \A j \in p..((l + 1) - 1) : u[j] # Mark
      <4> HIDE DEF p, u, l
      <4>1. ASSUME NEW j \in p..((l + 1) - 1), u[j] = Mark PROVE FALSE
        <5>1. j \in Nat /\ p <= j /\ j <= Len(u) /\ p \in Nat /\ j <= l
          BY <2>2, <3>1, <4>1
        <5>2. j \in Marks(u, p)
          BY <2>2, <4>1, <5>1, MarksAre
        <5> QED BY <3>1, <3>2, <5>1, <5>2
      <4> QED BY <4>1
    <3>4. Shown(u, p) = Shown(u, l + 1)
      <4>1. l + 1 \in Nat \ {0} /\ l + 1 <= Len(u) + 1
        <5> HIDE DEF l, u, b
        <5> QED BY <3>1
      <4> HIDE DEF u, l, p, b
      <4> QED BY <2>2, <2>3, <3>3, <4>1, ShownSkip
    <3>5. Upto(u, l) = b.data /\ From(u, l) = b.rest
      <4> DEFINE d == b.data
                 r == b.rest
      <4>0. d \in Seq(Character) /\ r \in Seq(Character) /\ Len(d) \in 0..Len(d)
        BY <2>2, <3>1
      <4> HIDE DEF d, r
      <4>1. Upto(d \o r, Len(d)) = Upto(d, Len(d)) /\ From(d \o r, Len(d)) = From(d, Len(d)) \o r
        BY ONLY <4>0, CutFirst
      <4>2. Upto(d, Len(d)) = d /\ From(d, Len(d)) = <<>>
        BY ONLY <4>0, Ends
      <4>3. <<>> \o r = r
        BY ONLY <4>0, ConcatEmptySeq
      <4> QED BY <4>1, <4>2, <4>3 DEF d, r, Text
    <3>6. (l + 1) - 1 = l
      <4> HIDE DEF l
      <4> QED BY <3>1
    <3>7. Shown(u, l + 1) = Upto(u, l) \o Expanded[From(u, l)]
      <4> HIDE DEF l, u
      <4> QED BY <3>6 DEF Shown
    <3> QED BY <3>4, <3>5, <3>7
  <2> HIDE DEF b, p, u, l
  <2>4. IsProcessed(b, b, p, room)
    BY <2>2, <2>3 DEF IsProcessed, u, l
  <2> QED BY <2>1, <2>4 DEF b, p
<1>4. ASSUME NEW y \in S, ~Stays(y), Good(Turned(y, room)) PROVE Good(y)
  <2> DEFINE z == Turned(y, room)
             g == f[y]
             b == y.buffer
             p == y.at
             c == z.buffer
             q == z.at
  <2>1. f[y] = f[z]
    BY <1>2, <1>4
  <2>2. z \in S /\ Goes(b, p, c, q, room)
    BY <1>4, TurnedIs
  <2>3. IsProcessed(g, c, q, room)
    <3>1. IsProcessed(f[z], z.buffer, z.at, room)
      BY <1>4
    <3> QED BY <2>1, <3>1
  <2> HIDE DEF z, g, b, p, c, q
  <2>4. b.met \subseteq c.met /\ c.met \subseteq g.met /\ IsBuffer(g, room) /\ q <= Len(c.data) + 1
    BY <2>2, <2>3 DEF Goes, IsProcessed
  <2>5. g.met = {} => c.met = {}
    BY <2>4
  <2>6. (g.met = {} /\ Filled(b, room)) => Filled(g, room)
    BY <2>2, <2>3, <2>5 DEF Goes, IsProcessed
  <2>7. g.met = {} => g.data \o Expanded[g.rest] = Shown(Text(b), p)
    BY <2>2, <2>3, <2>4, <2>5 DEF Goes, IsProcessed
  <2>8. IsProcessed(g, b, p, room)
    BY <2>4, <2>6, <2>7 DEF IsProcessed
  <2> QED BY <2>8 DEF g, b, p
<1>5. CASE T # {}
  <2>1. T \in SUBSET S
    OBVIOUS
  <2>2. PICK y \in T : \A w \in T : ~(measure[w] < measure[y])
    <3> HIDE DEF T, S, measure
    <3> QED BY <1>1, <1>5, <2>1, Smallest
  <2>3. y \in S /\ ~Good(y)
    OBVIOUS
  <2>4. ~Stays(y)
    <3> HIDE DEF S, Good
    <3> QED BY <1>3, <2>3
  <2> DEFINE z == Turned(y, room)
  <2>5. z \in S /\ Count(Text(z.buffer), z.at) < Count(Text(y.buffer), y.at)
    BY <2>3, <2>4, TurnedIs DEF Goes
  <2>6. measure[z] = Count(Text(z.buffer), z.at) /\ measure[y] = Count(Text(y.buffer), y.at)
    <3> HIDE DEF S, z
    <3> QED BY <2>3, <2>5
  <2>7. z \notin T
    <3> HIDE DEF T, S, measure, z
    <3> QED BY <2>2, <2>5, <2>6
  <2>8. Good(z)
    <3> HIDE DEF S, Good, z
    <3> QED BY <2>5, <2>7
  <2> HIDE DEF S, Good
  <2> QED BY <1>4, <2>3, <2>4, <2>8
<1>6. CASE T = {}
  <2> HIDE DEF Good
  <2>1. Good(x)
    BY <1>6
  <2> QED BY <2>1 DEF Good
<1> QED BY <1>5, <1>6

\* _fillBufferAndProcessTemplates' loop.
LEMMA ProcessedIs ==
  ASSUME NEW room \in Nat, NEW x \in Scans(room)
  PROVE  IsProcessed(Processed(x, room), x.buffer, x.at, room)
<1> DEFINE Eq(f) == LoopEq(f, room)
           loop == CHOOSE f : Eq(f)
<1>1. \E f : Eq(f)
  BY LoopExists
<1>2. Eq(loop)
  <2> HIDE DEF Eq
  <2> QED BY <1>1
<1>3. Processed(x, room) = loop[x]
  BY DEF Processed, LoopEq, Stays, Turned
<1> HIDE DEF loop
<1>4. IsProcessed(loop[x], x.buffer, x.at, room)
  BY <1>2, LoopIs
<1> QED BY <1>3, <1>4

\* What has been read of a text into an empty buffer.
Unread(b, text, room) ==
  /\ IsBuffer(b, room) /\ Text(b) = text /\ Filled(b, room) /\ b.met = {} /\ Len(b.data) \in Nat

\* The buffer with which the loop begins.
LEMMA FirstRead ==
  ASSUME NEW text \in Seq(Character), NEW n \in Nat
  PROVE  Unread(ReadMore(Buffer(<<>>, text, {}), n), text, n)
<1> DEFINE g == ReadMore(Buffer(<<>>, text, {}), n)
<1>1. <<>> \in Seq(Character) /\ Len(<<>>) = 0 /\ <<>> \o text = text
  BY ConcatEmptySeq
<1>2. IsMore(g, <<>>, text, {}, n)
  BY <1>1, ReadMoreIs
<1> HIDE DEF g
<1>3. PICK k \in 0..Len(text) :
        /\ k = n \/ (k = Len(text) /\ k <= n)
        /\ g = Buffer(<<>> \o Upto(text, k), From(text, k), {})
        /\ g.data \in Seq(Character) /\ g.rest \in Seq(Character)
        /\ Len(g.data) = Len(<<>>) + k /\ Len(g.rest) = Len(text) - k
        /\ Text(g) = <<>> \o text
  BY <1>2 DEF IsMore
<1>4. Len(g.data) = k /\ k \in Nat /\ k <= n
  <2>1. Len(text) \in Nat
    BY LenProperties
  <2>2. Len(g.data) = 0 + k
    BY <1>1, <1>3
  <2>3. k = n \/ (k = Len(text) /\ k <= n)
    BY <1>3
  <2> QED BY <2>1, <2>2, <2>3
<1>5. g.met = {} /\ g = Buffer(g.data, g.rest, g.met)
  <2>1. g = Buffer(<<>> \o Upto(text, k), From(text, k), {})
    BY <1>3
  <2> QED BY <2>1 DEF Buffer
<1>6. Filled(g, n)
  <2>1. CASE k = n
    BY <1>4, <2>1 DEF Filled
  <2>2. CASE k = Len(text)
    <3>1. Len(text) - k = 0
      BY <2>2, LenProperties
    <3>2. Len(g.rest) = 0 /\ g.rest \in Seq(Character)
      <4>1. Len(g.rest) = Len(text) - k /\ g.rest \in Seq(Character)
        BY <1>3
      <4> QED BY <3>1, <4>1
    <3>3. g.rest = <<>>
      BY <3>2, EmptySeq
    <3> QED BY <3>3 DEF Filled
  <2>3. k = n \/ k = Len(text)
    BY <1>3
  <2> QED BY <2>1, <2>2, <2>3
<1>7. IsBuffer(g, n)
  <2>1. g.data \in Seq(Character) /\ g.rest \in Seq(Character)
    BY <1>3
  <2> QED BY <1>4, <1>5, <2>1 DEF IsBuffer
<1>8. Text(g) = text
  <2>1. Text(g) = <<>> \o text
    BY <1>3
  <2> QED BY <1>1, <2>1
<1>9. Unread(g, text, n)
  BY <1>4, <1>5, <1>6, <1>7, <1>8 DEF Unread
<1> QED BY <1>9 DEF g

\* FillTemplates gives as much of what the text is meant to become as there is
\* room for, unless something spoils it, and nothing only when there is nothing more.
IsFilled(g, text, n) ==
  /\ IsBuffer(g, n)
  /\ g.met = {} => Expanded[text] = g.data \o Expanded[g.rest]
  /\ (g.met = {} /\ g.data = <<>> /\ n # 0) => g.rest = <<>>

\* AsyncAbstractResponse replaces templates whole: whatever the text, and however much
\* room the buffer has, what it is filled with and what becomes of the rest are what the
\* text is meant to become, unless something spoils it; and when it is filled with
\* nothing there is nothing to come.  This is of _fillBufferAndProcessTemplates.
THEOREM TemplatesReplaced ==
  ASSUME NEW text \in Seq(Character), NEW n \in Nat
  PROVE  IsFilled(FillTemplates(text, n), text, n)
<1> DEFINE b == ReadMore(Buffer(<<>>, text, {}), n)
           g == FillTemplates(text, n)
<1>1. Unread(b, text, n)
  BY FirstRead
<1>2. g = Processed(At(b, 1), n)
  BY DEF FillTemplates
<1> HIDE DEF b
<1>3. At(b, 1).buffer = b /\ At(b, 1).at = 1
  BY AtIs
<1>4. At(b, 1) \in Scans(n)
  <2>1. b \in Buffers(n) /\ 1 \in Nat \ {0}
    BY <1>1, BufferIs DEF Unread
  <2> QED BY <2>1 DEF At, Scans
<1>5. IsProcessed(g, b, 1, n)
  <2> DEFINE x == At(b, 1)
  <2>1. x.buffer = b /\ x.at = 1 /\ x \in Scans(n) /\ g = Processed(x, n)
    BY <1>2, <1>3, <1>4
  <2> HIDE DEF x, g
  <2>2. IsProcessed(Processed(x, n), x.buffer, x.at, n)
    BY <2>1, ProcessedIs
  <2> QED BY <2>1, <2>2
<1> HIDE DEF g
<1>6. IsBuffer(g, n)
  BY <1>5 DEF IsProcessed
<1>7. ASSUME g.met = {} PROVE Expanded[text] = g.data \o Expanded[g.rest]
  <2>1. 1 <= Len(b.data) + 1
    BY <1>1 DEF Unread
  <2>2. g.data \o Expanded[g.rest] = Shown(text, 1)
    BY <1>1, <1>5, <1>7, <2>1 DEF IsProcessed, Unread
  <2>3. Upto(text, 0) = <<>> /\ From(text, 0) = text
    BY Ends
  <2>4. <<>> \o Expanded[text] = Expanded[text]
    <3> DEFINE x == Expanded[text]
    <3>1. x \in Seq(Character)
      BY ExpandedIs
    <3> HIDE DEF x
    <3>2. <<>> \o x = x
      BY <3>1, ConcatEmptySeq
    <3> QED BY <3>2 DEF x
  <2>5. 1 - 1 = 0
    OBVIOUS
  <2>6. Shown(text, 1) = Expanded[text]
    BY <2>3, <2>4, <2>5 DEF Shown
  <2> QED BY <2>2, <2>6
<1>8. ASSUME g.met = {}, g.data = <<>>, n # 0 PROVE g.rest = <<>>
  <2>1. Filled(g, n)
    BY <1>1, <1>5, <1>8 DEF IsProcessed, Unread
  <2>2. Len(g.data) = 0
    BY <1>8
  <2> QED BY <1>8, <2>1, <2>2 DEF Filled
<1>9. IsFilled(g, text, n)
  BY <1>6, <1>7, <1>8 DEF IsFilled
<1> QED BY <1>9 DEF g

-----------------------------------------------------------------------------
(* What the browser puts together *)

\* A chunk's framing.
Framing(byte) == byte[1] = "chunk"

\* f does the recursion of Plain.
PlainEq(f, s) ==
  f = [n \in 0..Len(s) |-> IF n = 0 THEN <<>> ELSE IF Framing(s[n]) THEN f[n - 1] ELSE Append(f[n - 1], s[n])]

\* Its values.
IsPlain(f, s) ==
  /\ f[0] = <<>>
  /\ \A n \in 1..Len(s) : f[n] = IF Framing(s[n]) THEN f[n - 1] ELSE Append(f[n - 1], s[n])
  /\ \A n \in 0..Len(s) : f[n] \in Seq(Byte)

\* The recursion of Plain has a function.
LEMMA PlainExists ==
  ASSUME NEW s \in Seq(Byte)
  PROVE  \E f : PlainEq(f, s)
<1> DEFINE S == 0..Len(s)
           R == Seq(Byte)
           stop == {0}
           measure == [n \in S |-> n]
           base == [n \in S |-> <<>>]
           next == [n \in S |-> IF n \in stop THEN n ELSE n - 1]
           step == [w \in S \X R |-> IF w[1] = 0 THEN <<>> ELSE IF Framing(s[w[1]]) THEN w[2] ELSE Append(w[2], s[w[1]])]
<1>0. Len(s) \in Nat /\ \A n \in S : n # 0 => n - 1 \in S /\ s[n] \in Byte
  <2>1. Len(s) \in Nat
    BY LenProperties
  <2>2. ASSUME NEW n \in S, n # 0 PROVE n - 1 \in S /\ s[n] \in Byte
    <3>1. n \in 1..Len(s) /\ n - 1 \in S
      BY <2>1, <2>2
    <3> QED BY <3>1, ElementOfSeq
  <2> QED BY <2>1, <2>2
<1>1. measure \in [S -> Nat] /\ base \in [S -> R] /\ next \in [S -> S]
  <2>1. S \subseteq Nat /\ <<>> \in R
    OBVIOUS
  <2> HIDE DEF S, R
  <2> QED BY <1>0, <2>1
<1>2. step \in [S \X R -> R]
  <2>1. ASSUME NEW n \in S, NEW x \in R PROVE (IF n = 0 THEN <<>> ELSE IF Framing(s[n]) THEN x ELSE Append(x, s[n])) \in R
    <3>1. <<>> \in R
      OBVIOUS
    <3>2. n # 0 => Append(x, s[n]) \in R
      BY <1>0, AppendProperties
    <3> HIDE DEF R
    <3> QED BY <3>1, <3>2
  <2> HIDE DEF S, R
  <2> QED BY <2>1
<1>3. ASSUME NEW n \in S, n \notin stop PROVE measure[next[n]] < measure[n]
  <2>1. next[n] = n - 1 /\ n - 1 \in S /\ n \in Nat
    BY <1>0, <1>3
  <2>2. measure[n - 1] = n - 1 /\ measure[n] = n
    BY <2>1
  <2> HIDE DEF measure, next
  <2> QED BY <2>1, <2>2
<1>4. IsSystem(S, R, measure, stop, base, next, step)
  <2> HIDE DEF S, R, measure, stop, base, next, step
  <2> QED BY <1>1, <1>2, <1>3 DEF IsSystem
<1>5. PICK h : IsRecursive(h, S, R, stop, base, next, step)
  <2> HIDE DEF S, R, measure, stop, base, next, step
  <2> QED BY <1>4, Recursion
<1>6. h \in [S -> R]
  <2> HIDE DEF S, R, measure, stop, base, next, step
  <2> QED BY <1>5 DEF IsRecursive
<1> DEFINE V(n) == IF n = 0 THEN <<>> ELSE IF Framing(s[n]) THEN h[n - 1] ELSE Append(h[n - 1], s[n])
<1>7. ASSUME NEW n \in S PROVE h[n] = V(n)
  <2>1. h[n] = IF n \in stop THEN base[n] ELSE step[<<n, h[next[n]]>>]
    <3> HIDE DEF S, R, measure, stop, base, next, step
    <3> QED BY <1>5, <1>7 DEF IsRecursive
  <2>2. CASE n = 0
    <3>1. base[n] = <<>> /\ n \in stop
      BY <2>2
    <3> HIDE DEF S, R, base, stop, step, next
    <3> QED BY <2>1, <2>2, <3>1
  <2>3. CASE n # 0
    <3> DEFINE x == h[n - 1]
    <3>1. n - 1 \in S /\ n \notin stop
      BY <1>0, <2>3
    <3>2. next[n] = n - 1
      <4> HIDE DEF S, stop
      <4> QED BY <3>1
    <3>3. x \in R
      <4> HIDE DEF S, R
      <4> QED BY <1>6, <3>1
    <3> HIDE DEF x, S, R
    <3>4. <<n, x>> \in S \X R /\ <<n, x>>[1] = n /\ <<n, x>>[2] = x
      BY <3>3
    <3>5. step[<<n, x>>] = IF n = 0 THEN <<>> ELSE IF Framing(s[n]) THEN x ELSE Append(x, s[n])
      BY <3>4
    <3>6. h[n] = step[<<n, x>>]
      <4> HIDE DEF base, next, step, stop
      <4> QED BY <2>1, <3>1, <3>2 DEF x
    <3> QED BY <3>5, <3>6 DEF x
  <2> QED BY <2>2, <2>3
<1>8. PlainEq(h, s)
  <2> HIDE DEF V, R
  <2>1. h = [n \in S |-> V(n)]
    <3> HIDE DEF S
    <3> QED BY <1>6, <1>7
  <2> QED BY <2>1 DEF V, PlainEq
<1> QED BY <1>8

\* Its values, byte by byte.
LEMMA PlainSteps ==
  ASSUME NEW s \in Seq(Byte), NEW f, PlainEq(f, s)
  PROVE  IsPlain(f, s)
<1> DEFINE V(n) == IF n = 0 THEN <<>> ELSE IF Framing(s[n]) THEN f[n - 1] ELSE Append(f[n - 1], s[n])
           S == 0..Len(s)
           T == {n \in S : f[n] \notin Seq(Byte)}
           id == [n \in S |-> n]
<1>0. Len(s) \in Nat /\ S \subseteq Nat /\ 0 \in S /\ \A n \in 1..Len(s) : n \in S /\ n - 1 \in S /\ n # 0 /\ s[n] \in Byte
  <2>1. Len(s) \in Nat
    BY LenProperties
  <2>2. \A n \in 1..Len(s) : s[n] \in Byte
    BY ElementOfSeq
  <2> QED BY <2>1, <2>2
<1>1. ASSUME NEW n \in S PROVE f[n] = V(n)
  <2>1. f = [u \in S |-> V(u)]
    BY DEF PlainEq
  <2> HIDE DEF S, V
  <2> QED BY <2>1
<1>2. f[0] = <<>>
  BY <1>0, <1>1
<1>3. \A n \in 1..Len(s) : f[n] = IF Framing(s[n]) THEN f[n - 1] ELSE Append(f[n - 1], s[n])
  BY <1>0, <1>1
<1>4. CASE T # {}
  <2>1. T \in SUBSET S /\ id \in [S -> Nat]
    BY <1>0
  <2>2. PICK n \in T : \A m \in T : ~(id[m] < id[n])
    <3> HIDE DEF T, S, id
    <3> QED BY <1>4, <2>1, Smallest
  <2>3. n \in S /\ f[n] \notin Seq(Byte) /\ <<>> \in Seq(Byte)
    OBVIOUS
  <2>4. n \in 1..Len(s) /\ n - 1 \in S /\ n \in Nat /\ s[n] \in Byte
    <3>1. n # 0
      <4> HIDE DEF T, S
      <4> QED BY <1>2, <2>3
    <3>2. n \in 1..Len(s)
      BY <1>0, <2>3, <3>1
    <3> QED BY <1>0, <3>2
  <2>5. n - 1 \notin T
    <3>1. id[n - 1] = n - 1 /\ id[n] = n
      BY <2>3, <2>4
    <3> HIDE DEF T, id, S
    <3> QED BY <2>2, <2>4, <3>1
  <2>6. f[n - 1] \in Seq(Byte)
    BY <2>4, <2>5
  <2>7. Append(f[n - 1], s[n]) \in Seq(Byte)
    BY <2>4, <2>6, AppendProperties
  <2> QED BY <1>3, <2>3, <2>4, <2>6, <2>7
<1>5. CASE T = {}
  BY <1>2, <1>3, <1>5 DEF IsPlain
<1> QED BY <1>4, <1>5

\* Plain is one of its values.
LEMMA PlainOf ==
  ASSUME NEW s \in Seq(Byte)
  PROVE  \E f : IsPlain(f, s) /\ Plain(s) = f[Len(s)]
<1> DEFINE Eq(f) == PlainEq(f, s)
           f == CHOOSE g : Eq(g)
<1>1. \E g : Eq(g)
  BY PlainExists
<1>2. Eq(f)
  <2> HIDE DEF Eq
  <2> QED BY <1>1
<1>3. Plain(s) = f[Len(s)]
  BY DEF Plain, PlainEq, Framing
<1> HIDE DEF f
<1>4. IsPlain(f, s)
  BY <1>2, PlainSteps
<1> QED BY <1>3, <1>4

\* A byte more.
PlainNext(s, x) == IF Framing(x) THEN Plain(s) ELSE Append(Plain(s), x)

\* One byte more.
LEMMA PlainAppend ==
  ASSUME NEW s \in Seq(Byte), NEW x \in Byte
  PROVE  Plain(s) \in Seq(Byte) /\ Plain(Append(s, x)) = PlainNext(s, x)
<1> DEFINE t == Append(s, x)
           l == Len(s)
<1>0. /\ t \in Seq(Byte) /\ Len(t) = l + 1 /\ l \in Nat /\ t[l + 1] = x
      /\ \A i \in 1..l : t[i] = s[i]
  BY AppendProperties, LenProperties
<1> HIDE DEF t
<1>1. PICK f : IsPlain(f, s) /\ Plain(s) = f[Len(s)]
  BY PlainOf
<1>2. PICK g : IsPlain(g, t) /\ Plain(t) = g[Len(t)]
  BY <1>0, PlainOf
<1> HIDE DEF l
<1>f. /\ f[0] = <<>> /\ f[l] \in Seq(Byte) /\ Plain(s) = f[l]
      /\ \A n \in 1..l : f[n] = IF Framing(s[n]) THEN f[n - 1] ELSE Append(f[n - 1], s[n])
  <2>1. l \in 0..l
    BY <1>0
  <2> QED BY <1>1, <2>1 DEF IsPlain, l
<1>g. /\ g[0] = <<>> /\ Plain(t) = g[l + 1]
      /\ \A n \in 1..(l + 1) : g[n] = IF Framing(t[n]) THEN g[n - 1] ELSE Append(g[n - 1], t[n])
  BY <1>0, <1>2 DEF IsPlain
<1> DEFINE T == {n \in 0..l : f[n] # g[n]}
           id == [n \in 0..l |-> n]
<1>3. CASE T # {}
  <2>1. T \in SUBSET (0..l) /\ id \in [0..l -> Nat]
    BY <1>0
  <2>2. PICK n \in T : \A m \in T : ~(id[m] < id[n])
    <3> HIDE DEF T, id
    <3> QED BY <1>3, <2>1, Smallest
  <2>3. n \in 0..l /\ f[n] # g[n]
    OBVIOUS
  <2>4. n \in 1..l /\ n \in 1..(l + 1) /\ n - 1 \in 0..l /\ n \in Nat
    BY <1>0, <1>f, <1>g, <2>3
  <2>5. n - 1 \notin T
    <3>1. id[n - 1] = n - 1 /\ id[n] = n
      BY <2>3, <2>4
    <3> HIDE DEF T, id
    <3> QED BY <2>2, <2>4, <3>1
  <2>6. f[n - 1] = g[n - 1]
    BY <2>4, <2>5
  <2>7. t[n] = s[n]
    BY <1>0, <2>4
  <2> QED BY <1>f, <1>g, <2>3, <2>4, <2>6, <2>7
<1>4. CASE T = {}
  <2>1. l \in 0..l /\ l + 1 \in 1..(l + 1) /\ (l + 1) - 1 = l
    BY <1>0
  <2>2. f[l] = g[l]
    BY <1>4, <2>1
  <2>3. g[l + 1] = IF Framing(t[l + 1]) THEN g[(l + 1) - 1] ELSE Append(g[(l + 1) - 1], t[l + 1])
    BY <1>g, <2>1
  <2>4. g[l + 1] = IF Framing(x) THEN g[l] ELSE Append(g[l], x)
    BY <1>0, <2>1, <2>3
  <2> QED BY <1>f, <1>g, <2>2, <2>4 DEF PlainNext, t
<1> QED BY <1>3, <1>4

\* Nothing sent is nothing told.
LEMMA PlainEmpty == Plain(<<>>) = <<>>
<1> DEFINE e == <<>>
<1>1. e \in Seq(Byte) /\ Len(e) = 0
  OBVIOUS
<1>2. Plain(e) = <<>>
  <2> HIDE DEF e
  <2>1. PICK f : IsPlain(f, e) /\ Plain(e) = f[Len(e)]
    BY <1>1, PlainOf
  <2> QED BY <1>1, <2>1 DEF IsPlain
<1> QED BY <1>2

\* Bytes that are none of the framing stay.
Unframed(t) == t \in Seq(Byte) /\ \A i \in 1..Len(t) : ~Framing(t[i])

\* Bytes that are none of the framing are told as they are.
LEMMA PlainJoined ==
  ASSUME NEW s \in Seq(Byte), NEW t, Unframed(t)
  PROVE  Plain(s \o t) = Plain(s) \o t
<1> DEFINE N == 0..Len(t)
           P(k) == Plain(s \o Upto(t, k)) = Plain(s) \o Upto(t, k)
           T == {k \in N : ~P(k)}
           id == [k \in N |-> k]
<1>0. t \in Seq(Byte) /\ Len(t) \in Nat /\ N \subseteq Nat /\ Len(t) \in N
  <2>1. t \in Seq(Byte) /\ Len(t) \in Nat
    BY LenProperties DEF Unframed
  <2> QED BY <2>1
<1>1. CASE T # {}
  <2>1. T \in SUBSET N /\ id \in [N -> Nat]
    BY <1>0
  <2>2. PICK k \in T : \A m \in T : ~(id[m] < id[k])
    <3> HIDE DEF T, N, id
    <3> QED BY <1>1, <2>1, Smallest
  <2>3. k \in N /\ ~P(k)
    OBVIOUS
  <2> HIDE DEF P
  <2>4. k # 0
    <3>1. P(0)
      <4>1. Upto(t, 0) = <<>>
        BY <1>0, Ends
      <4>2. s \o <<>> = s
        BY ConcatEmptySeq
      <4>3. Plain(s) \in Seq(Byte)
        <5>1. PICK f : IsPlain(f, s) /\ Plain(s) = f[Len(s)]
          BY PlainOf
        <5>2. Len(s) \in 0..Len(s)
          BY LenProperties
        <5> QED BY <5>1, <5>2 DEF IsPlain
      <4>4. Plain(s) \o <<>> = Plain(s)
        BY <4>3, ConcatEmptySeq
      <4> QED BY <4>1, <4>2, <4>4 DEF P
    <3> QED BY <2>3, <3>1
  <2>5. k \in 1..Len(t) /\ k \in Nat /\ k - 1 \in N /\ k - 1 \in 0..Len(t)
    BY <1>0, <2>3, <2>4
  <2>6. k - 1 \notin T
    <3>1. id[k - 1] = k - 1 /\ id[k] = k
      BY <2>3, <2>5
    <3> HIDE DEF T, id, N
    <3> QED BY <2>2, <2>5, <3>1
  <2>7. P(k - 1)
    BY <2>5, <2>6
  <2> DEFINE u == Upto(t, k - 1)
             x == t[k]
  <2>8. u \in Seq(Byte) /\ x \in Byte /\ ~Framing(x)
    <3>1. u \in Seq(Byte)
      BY <1>0, <2>5, Cuts
    <3>2. x \in Byte
      BY <1>0, <2>5, ElementOfSeq
    <3> QED BY <2>5, <3>1, <3>2 DEF Unframed
  <2>9. Upto(t, k) = Append(u, x)
    <3>1. 1 \in 1..Len(t) /\ k \in 1..Len(t)
      BY <1>0, <2>5
    <3>2. SubSeq(t, 1, k) = Append(SubSeq(t, 1, k - 1), t[k])
      <4>1. t \in Seq(Byte) /\ 1 \in 1..Len(t) /\ k \in 1..Len(t) 
        BY <1>0, <3>1
      <4>2. \A i \in 1..k : t[i] \in Byte
        <5>1. \A i \in 1..k : i \in 1..Len(t)
          BY <1>0, <2>5
        <5> QED BY <1>0, <5>1, ElementOfSeq
      <4>3. k - 1 + 1 = k /\ 1 \in Int /\ k \in Int /\ 1 <= k
        BY <2>5
      <4> QED BY <4>1, <4>2, <4>3, SubSeqRecursiveSecond
    <3> QED BY <3>2 DEF Upto
  <2> HIDE DEF u, x
  <2>10. s \o Append(u, x) = Append(s \o u, x) /\ s \o u \in Seq(Byte)
    <3>1. <<x>> \in Seq(Byte) /\ Append(u, x) = u \o <<x>>
      BY <2>8, AppendIsConcat
    <3>2. s \o u \in Seq(Byte)
      BY <2>8, ConcatProperties
    <3>3. Append(s \o u, x) = (s \o u) \o <<x>>
      BY <2>8, <3>2, AppendIsConcat
    <3>4. (s \o u) \o <<x>> = s \o (u \o <<x>>)
      BY <2>8, <3>1, ConcatAssociative, SMTT(40)
    <3> QED BY <3>1, <3>2, <3>3, <3>4
  <2>11. Plain(Append(s \o u, x)) = Append(Plain(s \o u), x)
    <3>1. Plain(Append(s \o u, x)) = PlainNext(s \o u, x)
      BY <2>8, <2>10, PlainAppend
    <3> QED BY <2>8, <3>1 DEF PlainNext
  <2>12. Plain(s) \o Append(u, x) = Append(Plain(s) \o u, x)
    <3> DEFINE p == Plain(s)
    <3>0. p \in Seq(Byte)
      BY <2>8, PlainAppend
    <3> HIDE DEF p
    <3>1. <<x>> \in Seq(Byte) /\ Append(u, x) = u \o <<x>>
      BY <2>8, AppendIsConcat
    <3>2. p \o u \in Seq(Byte)
      BY <2>8, <3>0, ConcatProperties
    <3>3. Append(p \o u, x) = (p \o u) \o <<x>>
      BY <2>8, <3>2, AppendIsConcat
    <3>4. (p \o u) \o <<x>> = p \o (u \o <<x>>)
      BY <2>8, <3>0, <3>1, ConcatAssociative, SMTT(40)
    <3> QED BY <3>1, <3>3, <3>4 DEF p
  <2>13. Plain(s \o u) = Plain(s) \o u
    BY <2>7 DEF P, u
  <2>14. P(k)
    BY <2>9, <2>10, <2>11, <2>12, <2>13 DEF P
  <2> QED BY <2>3, <2>14
<1>2. CASE T = {}
  <2>1. P(Len(t))
    <3> HIDE DEF P
    <3> QED BY <1>0, <1>2
  <2>2. Upto(t, Len(t)) = t
    BY <1>0, Ends
  <2> QED BY <2>1, <2>2
<1> QED BY <1>1, <1>2

\* A byte of the framing is left out.
LEMMA PlainFrame ==
  ASSUME NEW s \in Seq(Byte), NEW n \in Nat
  PROVE  Plain(s \o << <<"chunk", n>> >>) = Plain(s)
<1> DEFINE x == <<"chunk", n>>
<1>1. x \in Byte /\ Framing(x)
  BY DEF Byte, Framing
<1> HIDE DEF x
<1>2. Append(s, x) = s \o <<x>>
  BY <1>1, AppendIsConcat
<1>3. Plain(Append(s, x)) = PlainNext(s, x)
  BY <1>1, PlainAppend
<1>4. Plain(s \o <<x>>) = Plain(s)
  BY <1>1, <1>2, <1>3 DEF PlainNext
<1> QED BY <1>4 DEF x

\* What is told are bytes.
LEMMA PlainIsBytes ==
  ASSUME NEW s \in Seq(Byte)
  PROVE  Plain(s) \in Seq(Byte)
<1>1. PICK f : IsPlain(f, s) /\ Plain(s) = f[Len(s)]
  BY PlainOf
<1>2. Len(s) \in 0..Len(s)
  BY LenProperties
<1> QED BY <1>1, <1>2 DEF IsPlain

\* What a write puts behind the bytes sent.
IsFrame(f) == f = <<>> \/ \E n \in Nat : f = << <<"chunk", n>> >>

IsSent(w, h, f, d) ==
  /\ Plain(w \o ((h \o f) \o d)) = (Plain(w) \o h) \o d
  /\ (h \o f) \o d \in Seq(Byte) /\ f \in Seq(Byte) /\ Len((h \o f) \o d) = Len(h) + Len(f) + Len(d)

\* A write of the rest of the head, a chunk's framing and content tells head and
\* content.
LEMMA PlainSent ==
  ASSUME NEW w \in Seq(Byte), NEW h, Unframed(h), NEW f, IsFrame(f), NEW d, Unframed(d)
  PROVE  IsSent(w, h, f, d)
<1>0. h \in Seq(Byte) /\ d \in Seq(Byte)
  BY DEF Unframed
<1>1. f \in Seq(Byte)
  <2>1. ASSUME NEW n \in Nat PROVE << <<"chunk", n>> >> \in Seq(Byte)
    <3>1. <<"chunk", n>> \in Byte
      BY DEF Byte
    <3> QED BY <3>1
  <2>2. <<>> \in Seq(Byte)
    OBVIOUS
  <2> QED BY <2>1, <2>2 DEF IsFrame
<1>2. /\ w \o h \in Seq(Byte) /\ h \o f \in Seq(Byte) /\ (w \o h) \o f \in Seq(Byte) /\ (h \o f) \o d \in Seq(Byte)
      /\ Len(h \o f) = Len(h) + Len(f) /\ Len((h \o f) \o d) = Len(h \o f) + Len(d)
  <2>1. w \o h \in Seq(Byte) /\ h \o f \in Seq(Byte) /\ Len(h \o f) = Len(h) + Len(f)
    BY <1>0, <1>1, ConcatProperties
  <2> QED BY <1>0, <1>1, <2>1, ConcatProperties
<1>3. w \o ((h \o f) \o d) = ((w \o h) \o f) \o d
  <2>1. w \o ((h \o f) \o d) = (w \o (h \o f)) \o d
    <3> DEFINE g == h \o f
    <3>1. w \in Seq(Byte) /\ g \in Seq(Byte) /\ d \in Seq(Byte)
      BY <1>0, <1>2
    <3> HIDE DEF g
    <3>2. w \o (g \o d) = (w \o g) \o d
      BY ONLY <3>1, ConcatAssociative, SMTT(40)
    <3> QED BY <3>2 DEF g
  <2>2. w \o (h \o f) = (w \o h) \o f
    <3>1. w \in Seq(Byte) /\ h \in Seq(Byte) /\ f \in Seq(Byte)
      BY <1>0, <1>1
    <3> QED BY ONLY <3>1, ConcatAssociative, SMTT(40)
  <2> QED BY <2>1, <2>2
<1>4. Plain(((w \o h) \o f) \o d) = Plain((w \o h) \o f) \o d
  <2> DEFINE s == (w \o h) \o f
  <2>1. s \in Seq(Byte) /\ Unframed(d)
    BY <1>2
  <2> HIDE DEF s
  <2>2. Plain(s \o d) = Plain(s) \o d
    BY ONLY <2>1, PlainJoined
  <2> QED BY <2>2 DEF s
<1>5. Plain((w \o h) \o f) = Plain(w \o h)
  <2> DEFINE s == w \o h
  <2>1. s \in Seq(Byte)
    BY <1>2
  <2> HIDE DEF s
  <2>2. ASSUME f = <<>> PROVE Plain(s \o f) = Plain(s)
    <3>1. s \o <<>> = s
      BY <2>1, ConcatEmptySeq
    <3> QED BY <2>2, <3>1
  <2>3. ASSUME NEW n \in Nat, f = << <<"chunk", n>> >> PROVE Plain(s \o f) = Plain(s)
    BY <2>1, <2>3, PlainFrame
  <2>4. Plain(s \o f) = Plain(s)
    BY <2>2, <2>3 DEF IsFrame
  <2> QED BY <2>4 DEF s
<1>6. Plain(w \o h) = Plain(w) \o h
  BY PlainJoined
<1> QED BY <1>1, <1>2, <1>3, <1>4, <1>5, <1>6 DEF IsSent

\* A part of the head.
LEMMA PlainCut ==
  ASSUME NEW w \in Seq(Byte), NEW h, Unframed(h), NEW k \in 0..Len(h)
  PROVE  /\ Plain(w \o Upto(h, k)) \o From(h, k) = Plain(w) \o h
         /\ Unframed(Upto(h, k)) /\ Unframed(From(h, k))
<1> DEFINE u == Upto(h, k)
           f == From(h, k)
<1>0. h \in Seq(Byte) /\ Len(h) \in Nat /\ k \in Nat /\ k <= Len(h)
  BY LenProperties DEF Unframed
<1>1. /\ u \in Seq(Byte) /\ Len(u) = k /\ f \in Seq(Byte) /\ Len(f) = Len(h) - k
      /\ \A i \in 1..k : u[i] = h[i]
      /\ \A i \in 1..(Len(h) - k) : f[i] = h[k + i]
  BY <1>0, Cuts
<1>2. u \o f = h
  BY <1>0, Joined
<1> HIDE DEF u, f
<1>3. Unframed(u)
  <2>1. \A i \in 1..k : i \in 1..Len(h)
    BY <1>0
  <2> QED BY <1>1, <2>1 DEF Unframed
<1>4. Unframed(f)
  <2>1. \A i \in 1..(Len(h) - k) : k + i \in 1..Len(h)
    BY <1>0
  <2> QED BY <1>1, <2>1 DEF Unframed
<1>5. Plain(w \o u) = Plain(w) \o u
  BY <1>3, PlainJoined
<1>6. (Plain(w) \o u) \o f = Plain(w) \o (u \o f)
  <2> DEFINE p == Plain(w)
  <2>1. p \in Seq(Byte) /\ u \in Seq(Byte) /\ f \in Seq(Byte)
    BY <1>1, PlainIsBytes
  <2> HIDE DEF p
  <2>2. (p \o u) \o f = p \o (u \o f)
    BY ONLY <2>1, ConcatAssociative, SMTT(40)
  <2> QED BY <2>2 DEF p
<1> QED BY <1>2, <1>3, <1>4, <1>5, <1>6 DEF u, f

-----------------------------------------------------------------------------
(* The chunks *)

\* The chunks of w begin behind the head, of which h is yet to come, and each is whole.
ChunksOf(w, h) ==
  /\ \A i \in 1..Len(w) : Framing(w[i]) => i > HeadLen
  /\ IF h = <<>> THEN Len(w) >= HeadLen ELSE Len(w) + Len(h) = HeadLen
  /\ Len(w) > HeadLen => Framing(w[HeadLen + 1])
  /\ \A i \in 1..Len(w) : Framing(w[i]) =>
       /\ i + w[i][2] + 1 <= Len(w) + 1
       /\ \A j \in (i + 1)..((i + w[i][2] + 1) - 1) : w[j][1] = "body"
       /\ i + w[i][2] + 1 <= Len(w) => Framing(w[i + w[i][2] + 1])

\* A part of the head does not disturb the chunks.
LEMMA HeadSent ==
  ASSUME NEW w \in Seq(Byte), NEW h, Unframed(h), ChunksOf(w, h), NEW k \in 0..Len(h)
  PROVE  ChunksOf(w \o Upto(h, k), From(h, k))
<1> DEFINE u == Upto(h, k)
           f == From(h, k)
           x == w \o u
<1>0. /\ h \in Seq(Byte) /\ Len(h) \in Nat /\ Len(w) \in Nat /\ k \in Nat /\ k <= Len(h)
      /\ HeadLen \in Nat
  BY LenProperties, BoundAssumption DEF Unframed
<1>1. CASE h = <<>>
  <2>1. Len(h) = 0
    BY <1>1
  <2>2. k = 0
    BY <1>0, <2>1
  <2>3. Upto(h, k) = <<>> /\ From(h, k) = h
    BY <1>0, <2>2, Ends
  <2>4. w \o <<>> = w
    BY ConcatEmptySeq
  <2> QED BY <2>3, <2>4
<1>2. CASE h # <<>>
  <2>1. Len(w) + Len(h) = HeadLen
    BY <1>2 DEF ChunksOf
  <2>2. /\ u \in Seq(Byte) /\ Len(u) = k /\ f \in Seq(Byte) /\ Len(f) = Len(h) - k /\ Unframed(u)
    BY <1>0, Cuts, PlainCut
  <2> HIDE DEF u, f
  <2>3. /\ x \in Seq(Byte) /\ Len(x) = Len(w) + Len(u)
        /\ \A i \in 1..(Len(w) + Len(u)) : x[i] = IF i <= Len(w) THEN w[i] ELSE u[i - Len(w)]
    BY <2>2, ConcatProperties
  <2> HIDE DEF x
  <2>4. ASSUME NEW i \in 1..Len(x) PROVE ~Framing(x[i])
    <3>0. i \in 1..(Len(w) + k) /\ Len(x) = Len(w) + k
      BY <2>2, <2>3
    <3>1. CASE i <= Len(w)
      <4>1. i \in 1..Len(w) /\ ~(i > HeadLen)
        BY <1>0, <2>1, <3>0, <3>1
      <4>2. x[i] = w[i]
        BY <2>2, <2>3, <3>0, <3>1
      <4> QED BY <4>1, <4>2 DEF ChunksOf
    <3>2. CASE ~(i <= Len(w))
      <4>1. i - Len(w) \in 1..Len(u)
        BY <1>0, <2>2, <3>0, <3>2
      <4>2. x[i] = u[i - Len(w)]
        BY <2>2, <2>3, <3>0, <3>2
      <4> QED BY <2>2, <4>1, <4>2 DEF Unframed
    <3> QED BY <3>1, <3>2
  <2>5. IF f = <<>> THEN Len(x) >= HeadLen ELSE Len(x) + Len(f) = HeadLen
    <3>1. Len(x) = Len(w) + k
      BY <2>2, <2>3
    <3>2. f = <<>> => Len(f) = 0
      OBVIOUS
    <3>3. Len(x) + Len(f) = HeadLen
      <4> DEFINE a == Len(w)
                 l == Len(h)
                 m == Len(x)
                 n == Len(f)
      <4>1. a \in Nat /\ l \in Nat /\ k \in Nat /\ a + l = HeadLen /\ m = a + k /\ n = l - k
        BY <1>0, <2>1, <2>2, <3>1
      <4> HIDE DEF a, l, m, n
      <4>2. m + n = HeadLen
        BY ONLY <4>1
      <4> QED BY <4>2 DEF m, n
    <3>4. f = <<>> => Len(x) >= HeadLen
      <4>1. Len(x) \in Nat
        BY <2>3, LenProperties
      <4> HIDE DEF f, x
      <4> QED BY <1>0, <3>2, <3>3, <4>1
    <3> QED BY <3>3, <3>4
  <2>6. ~(Len(x) > HeadLen)
    <3>1. Len(x) = Len(w) + k
      BY <2>2, <2>3
    <3> QED BY <1>0, <2>1, <3>1
  <2>7. ChunksOf(x, f)
    BY <2>4, <2>5, <2>6 DEF ChunksOf
  <2> QED BY <2>7 DEF x, u, f
<1> QED BY <1>1, <1>2

\* A chunk behind the chunks: it is followed by what it announces.
LEMMA ChunkSent ==
  ASSUME NEW b \in Seq(Byte), ChunksOf(b, <<>>), NEW d \in Seq(Character)
  PROVE  ChunksOf(Placed(b, << <<"chunk", Len(d)>> >>, d), <<>>)
<1> DEFINE n == Len(d)
           c == << <<"chunk", n>> >>
           x == Placed(b, c, d)
           l == Len(b)
<1>0. n \in Nat /\ l \in Nat /\ HeadLen \in Nat /\ l >= HeadLen
  BY LenProperties, BoundAssumption DEF ChunksOf
<1>1. d \in Seq(Byte) /\ \A j \in 1..n : d[j][1] = "body"
  <2>1. Character \subseteq Byte
    BY DEF Character, Byte
  <2>2. \A j \in 1..n : d[j] \in Character
    BY ElementOfSeq
  <2>3. \A y \in Character : y[1] = "body"
    BY DEF Character
  <2>4. d \in Seq(Byte)
    BY <2>1
  <2> QED BY <2>2, <2>3, <2>4
<1>2. c \in Seq(Byte) /\ Len(c) = 1 /\ c[1] = <<"chunk", n>>
  <2>1. <<"chunk", n>> \in Byte
    BY <1>0 DEF Byte
  <2> QED BY <2>1
<1>3. IsPlaced(x, Byte, b, c, d)
  <2> HIDE DEF c
  <2> QED BY <1>1, <1>2, PlacedIs
<1> HIDE DEF x, c
<1>4. /\ x \in Seq(Byte) /\ Len(x) = l + (1 + n)
      /\ \A i \in 1..l : x[i] = b[i]
      /\ x[l + 1] = <<"chunk", n>>
      /\ \A i \in 1..n : x[l + (1 + i)] = d[i]
  <2>1. 1 \in 1..1
    OBVIOUS
  <2> QED BY <1>2, <1>3, <2>1 DEF IsPlaced
<1>5. Framing(x[l + 1]) /\ x[l + 1][2] = n
  BY <1>4 DEF Framing
<1> HIDE DEF n, l
<1>6. ASSUME NEW i \in 1..n PROVE x[l + (1 + i)][1] = "body" /\ ~Framing(x[l + (1 + i)])
  <2>1. x[l + (1 + i)] = d[i]
    BY <1>4
  <2>2. x[l + (1 + i)][1] = "body"
    BY <1>1, <2>1
  <2> QED BY <2>2 DEF Framing
<1>7. ASSUME NEW i \in 1..Len(x) PROVE i \in 1..l \/ i = l + 1 \/ \E j \in 1..n : i = l + (1 + j)
  <2>1. i \in Nat /\ 1 <= i /\ i <= l + (1 + n)
    BY <1>0, <1>4
  <2>2. ASSUME ~(i <= l + 1) PROVE i - l - 1 \in 1..n /\ i = l + (1 + (i - l - 1))
    BY <1>0, <2>1, <2>2
  <2> QED BY <1>0, <2>1, <2>2
<1>8. ASSUME NEW i \in 1..Len(x), Framing(x[i]) PROVE (i \in 1..l /\ x[i] = b[i] /\ Framing(b[i])) \/ i = l + 1
  BY <1>4, <1>6, <1>7, <1>8
<1>b. /\ \A i \in 1..l : Framing(b[i]) => i > HeadLen
      /\ l > HeadLen => Framing(b[HeadLen + 1])
      /\ \A i \in 1..l : Framing(b[i]) =>
           /\ i + b[i][2] + 1 <= l + 1
           /\ \A j \in (i + 1)..((i + b[i][2] + 1) - 1) : b[j][1] = "body"
           /\ i + b[i][2] + 1 <= l => Framing(b[i + b[i][2] + 1])
  BY DEF ChunksOf, l
<1>9. ASSUME NEW i \in 1..Len(x), Framing(x[i]) PROVE i > HeadLen
  <2>1. CASE i \in 1..l /\ Framing(b[i])
    BY <1>b, <2>1
  <2>2. CASE i = l + 1
    BY <1>0, <2>2
  <2> QED BY <1>8, <1>9, <2>1, <2>2
<1>10. Len(x) >= HeadLen
  BY <1>0, <1>4
<1>11. Framing(x[HeadLen + 1])
  <2>1. CASE l = HeadLen
    BY <1>5, <2>1
  <2>2. CASE l # HeadLen
    <3>1. l > HeadLen /\ HeadLen + 1 \in 1..l
      BY <1>0, <2>2
    <3> QED BY <1>4, <1>b, <3>1
  <2> QED BY <2>1, <2>2
<1>12. ASSUME NEW i \in 1..l, Framing(b[i]), x[i] = b[i]
       PROVE  /\ i + x[i][2] + 1 <= Len(x) + 1
              /\ \A j \in (i + 1)..((i + x[i][2] + 1) - 1) : x[j][1] = "body"
              /\ i + x[i][2] + 1 <= Len(x) => Framing(x[i + x[i][2] + 1])
  <2> DEFINE m == b[i][2]
             e == i + m + 1
  <2>0. x[i][2] = m /\ m \in Nat /\ i \in Nat /\ 1 <= i
    <3>1. b[i] \in Byte
      BY <1>0, ElementOfSeq DEF l
    <3>2. m \in Nat
      BY <3>1 DEF Byte
    <3> QED BY <1>0, <1>12, <3>2
  <2>1. e <= l + 1 /\ (\A j \in (i + 1)..(e - 1) : b[j][1] = "body") /\ (e <= l => Framing(b[e]))
    BY <1>b, <1>12
  <2>2. e \in Nat /\ 1 <= e
    BY <2>0
  <2> HIDE DEF e, m
  <2>3. e <= Len(x) + 1
    BY <1>0, <1>4, <2>1, <2>2, SMTT(40)
  <2>4. \A j \in (i + 1)..(e - 1) : x[j][1] = "body"
    <3>1. \A j \in (i + 1)..(e - 1) : j \in 1..l
      BY <1>0, <2>0, <2>1, <2>2
    <3> QED BY <1>4, <2>1, <3>1
  <2>5. Framing(x[e])
    <3>1. CASE e <= l
      <4>1. e \in 1..l
        BY <1>0, <2>2, <3>1
      <4> QED BY <1>4, <2>1, <3>1, <4>1
    <3>2. CASE ~(e <= l)
      <4>1. e = l + 1
        BY <1>0, <2>1, <2>2, <3>2
      <4> QED BY <1>5, <4>1
    <3> QED BY <3>1, <3>2
  <2> QED BY <2>0, <2>3, <2>4, <2>5 DEF e
<1>13. ASSUME NEW i, i = l + 1
       PROVE  /\ i + x[i][2] + 1 <= Len(x) + 1
              /\ \A j \in (i + 1)..((i + x[i][2] + 1) - 1) : x[j][1] = "body"
              /\ ~(i + x[i][2] + 1 <= Len(x))
  <2>1. x[i][2] = n
    BY <1>5, <1>13
  <2>2. i + n + 1 = Len(x) + 1 /\ Len(x) = l + (1 + n)
    BY <1>0, <1>4, <1>13
  <2>3. ASSUME NEW j \in (i + 1)..((i + n + 1) - 1) PROVE x[j][1] = "body"
    <3>1. j - l - 1 \in 1..n /\ j = l + (1 + (j - l - 1))
      BY <1>0, <1>13
    <3> QED BY <1>6, <3>1
  <2> QED BY <1>0, <2>1, <2>2, <2>3
<1>14. \A i \in 1..Len(x) : Framing(x[i]) =>
         /\ i + x[i][2] + 1 <= Len(x) + 1
         /\ \A j \in (i + 1)..((i + x[i][2] + 1) - 1) : x[j][1] = "body"
         /\ i + x[i][2] + 1 <= Len(x) => Framing(x[i + x[i][2] + 1])
  BY <1>8, <1>12, <1>13
<1>15. ChunksOf(x, <<>>)
  BY <1>9, <1>10, <1>11, <1>14 DEF ChunksOf
<1> QED BY <1>15 DEF x, c, n

-----------------------------------------------------------------------------
(* The inductive invariant *)

\* Nothing spoilt the response: StreamIntact's premise.
Clean == met \subseteq (IF kind = "unknown" THEN {} ELSE {"full"})
\* All was sent.
Waiting == state \in {"wait_ack", "end", "deleted"}

\* What the browser is yet to be told.
Rest == IF kind = "template" THEN Expanded[content] ELSE content

\* After the connection went.
Gone ==
  /\ ~up /\ state = "setup" /\ head = <<>> /\ content = <<>> /\ ready = 0
  /\ contentLength = 0 /\ sentLength = 0 /\ ackedLength = 0 /\ writtenLength = 0
  /\ unacked = 0 /\ wire = <<>> /\ events = <<>> /\ met = {}

\* Before _respond.
Unbegun ==
  state = "setup" => head = FullHead /\ wire = <<>> /\ content = Body /\ sentLength = 0 /\ met = {}

\* AsyncBasicResponse: what is left of head and content.
BasicKept ==
  kind = "basic" =>
    /\ head = FullHead /\ ready = 0 /\ state # "headers"
    /\ state = "setup" => contentLength = size
    /\ state = "content" => contentLength = sentLength + Len(content) /\ (Clean => wire \o content = FullHead \o Body)
    /\ (Waiting /\ Clean) => wire = FullHead \o Body

\* What a source has not given yet is the end of the content, whatever became of the rest.
SourceKept ==
  kind \notin {"basic", "template"} =>
    /\ contentLength = IF SendContentLength THEN size ELSE 0
    /\ sentLength \in 0..size /\ content = From(Body, sentLength)
    /\ kind \in {"progmem", "printed", "json"} => ready = Len(content)

\* A file of templates has no length.
TextKept == kind = "template" => content \in Seq(Character) /\ contentLength = 0 /\ ready = 0

\* The rest of the head has no framing.
HeadKept == Unframed(head)

\* What reached the browser, the rest of the head and what is to come make the whole.
ToldKept ==
  (kind # "basic" /\ Clean) =>
    /\ (Plain(wire) \o head) \o Rest = FullHead \o Told
    /\ state \in {"content", "wait_ack", "end", "deleted"} => head = <<>>
    /\ Waiting => Rest = <<>>

\* The chunks sent are whole.
ChunksKept == (Chunked /\ Clean) => ChunksOf(wire, head)

\* The invariant of a response whose connection stands.
Kept == Unbegun /\ BasicKept /\ SourceKept /\ TextKept /\ HeadKept /\ ToldKept /\ ChunksKept

\* The inductive invariant.
IInv == TypeOK /\ (Gone \/ Kept)

-----------------------------------------------------------------------------
(* Head and content *)

\* Characters are bytes that are none of the framing.
LEMMA CharacterIsByte ==
  ASSUME NEW s \in Seq(Character)
  PROVE  s \in Seq(Byte) /\ Unframed(s)
<1>1. Character \subseteq Byte /\ \A y \in Character : y[1] = "body"
  BY DEF Character, Byte
<1>2. s \in Seq(Byte)
  BY <1>1
<1>3. \A i \in 1..Len(s) : s[i] \in Character
  BY ElementOfSeq
<1> QED BY <1>1, <1>2, <1>3 DEF Unframed, Framing

\* The head of the response.
LEMMA FullHeadIs == Unframed(FullHead) /\ FullHead \in Seq(Byte) /\ Len(FullHead) = HeadLen /\ FullHead # <<>> /\ HeadLen \in Nat \ {0}
<1>0. HeadLen \in Nat \ {0}
  BY BoundAssumption
<1>1. \A i \in 1..HeadLen : <<"head", i>> \in Byte /\ ~Framing(<<"head", i>>)
  BY <1>0 DEF Byte, Framing
<1>2. FullHead \in Seq(Byte) /\ Len(FullHead) = HeadLen /\ \A i \in 1..HeadLen : FullHead[i] = <<"head", i>>
  BY <1>0, <1>1 DEF FullHead
<1>3. FullHead # <<>>
  <2>1. ASSUME FullHead = <<>> PROVE FALSE
    <3>1. Len(FullHead) = 0
      BY <2>1
    <3> QED BY <1>0, <1>2, <3>1
  <2> QED BY <2>1
<1> QED BY <1>0, <1>1, <1>2, <1>3 DEF Unframed

\* The content of a response that is no file of templates has the length size.
Numbered(n) == [i \in 1..n |-> <<"body", i>>]

\* The content of a response that is no file.
LEMMA NumberedIs ==
  ASSUME NEW n \in Nat
  PROVE  Numbered(n) \in Seq(Character) /\ Len(Numbered(n)) = n /\ \A i \in 1..n : Numbered(n)[i] = <<"body", i>>
<1>1. \A i \in 1..n : <<"body", i>> \in Character
  BY DEF Character
<1> QED BY <1>1 DEF Numbered

\* What the response is to tell.
LEMMA BodyIs ==
  ASSUME kind \in Kind, size \in Sizes(kind)
  PROVE  /\ Body \in Seq(Character) /\ Told \in Seq(Character)
         /\ kind # "template" => Body = Numbered(size) /\ Len(Body) = size /\ size \in Nat /\ size <= MaxContent
<1>1. CASE kind = "template"
  <2>1. size \in DOMAIN Texts
    BY <1>1 DEF Sizes
  <2>2. Body \in Seq(Character)
    BY <1>1, <2>1, TextAssumption DEF Body
  <2>3. Told \in Seq(Character)
    BY <1>1, <2>2, ExpandedIs DEF Told
  <2> QED BY <1>1, <2>2, <2>3
<1>2. CASE kind # "template"
  <2>1. size \in 1..MaxContent \/ size \in 0..MaxContent
    BY <1>2 DEF Sizes
  <2>2. size \in Nat /\ size <= MaxContent
    BY <2>1, BoundAssumption
  <2>3. Body = Numbered(size) /\ Told = Body
    BY <1>2 DEF Body, Told, Numbered
  <2> QED BY <2>2, <2>3, NumberedIs
<1> QED BY <1>1, <1>2

\* Initially the head and all of the content are to come.
LEMMA Begins ==
  ASSUME kind \in Kind, size \in Sizes(kind)
  PROVE  /\ (Plain(<<>>) \o FullHead) \o Told = FullHead \o Told
         /\ ChunksOf(<<>>, FullHead)
         /\ FullHead \o Body \in Seq(Byte) /\ Body \in Seq(Byte)
<1>1. FullHead \in Seq(Byte) /\ Len(FullHead) = HeadLen /\ FullHead # <<>> /\ HeadLen \in Nat \ {0}
  BY FullHeadIs
<1>2. Plain(<<>>) \o FullHead = FullHead
  BY <1>1, PlainEmpty, ConcatEmptySeq
<1>3. Len(<<>>) = 0
  OBVIOUS
<1> DEFINE e == <<>>
<1>4. ChunksOf(e, FullHead)
  <2>1. e \in Seq(Byte) /\ Len(e) = 0
    OBVIOUS
  <2> HIDE DEF e
  <2>2. ~(\E i : i \in 1..Len(e)) /\ ~(Len(e) > HeadLen) /\ Len(e) + Len(FullHead) = HeadLen
    BY <1>1, <2>1
  <2> QED BY <1>1, <2>2 DEF ChunksOf
<1>5. Body \in Seq(Byte)
  BY BodyIs, CharacterIsByte
<1>6. FullHead \o Body \in Seq(Byte)
  BY <1>1, <1>5, ConcatProperties
<1> QED BY <1>2, <1>4, <1>5, <1>6

\* Init has the inductive invariant.
LEMMA InitKept == Init => IInv
<1> SUFFICES ASSUME Init PROVE IInv
  OBVIOUS
<1>1. kind \in Kind /\ size \in Sizes(kind)
  <2>1. CASE kind = "printed"
    <3>1. size = 0 /\ MaxContent \in Nat
      BY <2>1, BoundAssumption DEF Init
    <3>2. Sizes(kind) = 0..MaxContent
      BY <2>1 DEF Sizes
    <3> QED BY <3>1, <3>2 DEF Init
  <2>2. CASE kind # "printed"
    BY <2>2 DEF Init
  <2> QED BY <2>1, <2>2
<1>2. /\ Body \in Seq(Character) /\ Told \in Seq(Character) /\ Body \in Seq(Byte) /\ Len(Body) \in Nat
      /\ kind # "template" => Body = Numbered(size) /\ Len(Body) = size /\ size \in Nat /\ size <= MaxContent
  BY <1>1, BodyIs, Begins, LenProperties
<1>3. Unframed(FullHead) /\ FullHead \in Seq(Byte) /\ HeadLen \in Nat \ {0} /\ MaxContent \in Nat /\ MaxEvents \in Nat
  BY FullHeadIs, BoundAssumption
<1>4. /\ state = "setup" /\ head = FullHead /\ content = Body /\ sentLength = 0 /\ wire = <<>> /\ met = {}
      /\ contentLength = IF SendContentLength THEN size ELSE 0
  BY DEF Init
<1>5. /\ ready \in 0..Len(content)
      /\ kind \in {"basic", "template"} => ready = 0
      /\ kind \in {"progmem", "printed", "json"} => ready = Len(content)
  <2>1. CASE kind \in {"basic", "template", "printed"}
    <3>1. ready = 0
      BY <2>1 DEF Init
    <3>2. kind = "printed" => size = 0
      BY DEF Init
    <3>3. kind = "printed" => Len(content) = 0
      BY <1>2, <1>4, <3>2
    <3> QED BY <1>2, <1>4, <2>1, <3>1, <3>3
  <2>2. CASE kind \in {"progmem", "json"}
    <3>1. ready = size
      BY <2>2 DEF Init
    <3> QED BY <1>2, <1>4, <2>2, <3>1
  <2>3. CASE kind \notin {"basic", "template", "printed", "progmem", "json"}
    <3>1. ready \in 0..size
      BY <2>3 DEF Init
    <3> QED BY <1>2, <1>4, <2>3, <3>1
  <2> QED BY <2>1, <2>2, <2>3
<1>6. TypeOK
  <2>1. contentLength \in 0..(HeadLen + MaxContent)
    <3>1. SendContentLength => kind # "template"
      BY DEF SendContentLength, Chunked, Templated
    <3>2. CASE SendContentLength
      <4>1. contentLength = size
        BY <1>4, <3>2
      <4> QED BY <1>2, <1>3, <3>1, <3>2, <4>1
    <3>3. CASE ~SendContentLength
      <4>1. contentLength = 0
        BY <1>4, <3>3
      <4> QED BY <1>3, <4>1
    <3> QED BY <3>2, <3>3
  <2>2. sentLength \in IF kind = "template" THEN Nat ELSE 0..MaxContent + HeadLen
    BY <1>3, <1>4
  <2>3. window \in Windows(kind) /\ unacked \in 0..window /\ up \in BOOLEAN /\ ackedLength \in Nat /\ events = <<>> /\ writtenLength = 0
    BY DEF Init
  <2>4. writtenLength \in 0..Len(wire) /\ wire \in Seq(Byte)
    <3>1. Len(<<>>) = 0
      OBVIOUS
    <3> QED BY <1>4, <2>3, <3>1
  <2>5. events \in Seq(1..window) /\ Len(events) <= MaxEvents
    <3>1. Len(<<>>) = 0
      OBVIOUS
    <3>2. <<>> \in Seq(1..window)
      OBVIOUS
    <3> QED BY <1>3, <2>3, <3>1, <3>2
  <2> QED BY <1>1, <1>2, <1>3, <1>4, <1>5, <2>1, <2>2, <2>3, <2>4, <2>5 DEF TypeOK
<1>7. Unbegun /\ HeadKept
  BY <1>3, <1>4 DEF Unbegun, HeadKept
<1>8. BasicKept
  <2>1. kind = "basic" => contentLength = size
    BY <1>4 DEF SendContentLength, Chunked, Templated
  <2> QED BY <1>4, <1>5, <2>1 DEF BasicKept, Waiting
<1>9. SourceKept
  <2>1. kind # "template" => From(Body, 0) = Body /\ 0 \in 0..size
    BY <1>2, Ends
  <2> QED BY <1>4, <1>5, <2>1 DEF SourceKept
<1>10. TextKept
  <2>1. kind = "template" => contentLength = 0
    BY <1>4 DEF SendContentLength, Chunked, Templated
  <2> QED BY <1>2, <1>4, <1>5, <2>1 DEF TextKept
<1>11. ToldKept
  <2>1. Rest = Told
    BY <1>4 DEF Rest, Told
  <2>2. (Plain(wire) \o head) \o Rest = FullHead \o Told
    <3>1. (Plain(<<>>) \o FullHead) \o Told = FullHead \o Told
      BY <1>1, Begins
    <3> QED BY <1>4, <2>1, <3>1
  <2> QED BY <1>4, <2>2 DEF ToldKept, Waiting
<1>12. ChunksKept
  BY <1>1, <1>4, Begins DEF ChunksKept
<1> QED BY <1>6, <1>7, <1>8, <1>9, <1>10, <1>11, <1>12 DEF IInv, Kept

-----------------------------------------------------------------------------
(* Steps *)

\* The numbers of the connection.
LEMMA TypeFacts ==
  ASSUME TypeOK
  PROVE  /\ window \in Nat /\ unacked \in Nat /\ unacked <= window /\ Space \in Nat /\ Space = window - unacked
         /\ HeadLen \in Nat /\ MaxContent \in Nat /\ MaxEvents \in Nat
         /\ Len(wire) \in Nat /\ Len(head) \in Nat /\ Len(content) \in Nat
<1>1. window \in Nat
  <2>1. CASE kind = "template"
    <3>1. window \in TextWindows
      BY <2>1 DEF TypeOK, Windows
    <3> QED BY <3>1, BoundAssumption
  <2>2. CASE kind # "template"
    <3>1. window \in 2..MaxWindow
      BY <2>2 DEF TypeOK, Windows
    <3> QED BY <3>1, BoundAssumption
  <2> QED BY <2>1, <2>2
<1>2. Len(wire) \in Nat /\ Len(head) \in Nat /\ Len(content) \in Nat
  BY LenProperties DEF TypeOK
<1>3. unacked \in 0..window
  BY DEF TypeOK
<1> QED BY <1>1, <1>2, <1>3, BoundAssumption DEF Space

\* What a write does, whatever becomes of it.
IsWritten(bytes, more) ==
  /\ wire' \in Seq(Byte) /\ unacked' \in 0..window /\ writtenLength' \in 0..Len(wire')
  /\ met \cup more \subseteq met' /\ met' \subseteq Met
  /\ (Len(bytes) <= Space /\ "refused" \notin met') => wire' = wire \o bytes

\* A write takes all, a part or nothing; all of it when it fits and is not refused.
LEMMA WriteIs ==
  ASSUME TypeOK, NEW bytes \in Seq(Byte), NEW more \in SUBSET Met, Write(bytes, more)
  PROVE  IsWritten(bytes, more)
<1> DEFINE n == Least(Space, Len(bytes))
           u == Upto(bytes, n)
           w == wire \o u
<1>0. /\ window \in Nat /\ unacked \in 0..window /\ Space \in Nat /\ Space = window - unacked /\ Len(bytes) \in Nat
      /\ wire \in Seq(Byte) /\ Len(wire) \in Nat /\ writtenLength \in 0..Len(wire) /\ met \subseteq Met
  BY TypeFacts, LenProperties DEF TypeOK
<1>1. n \in 0..Len(bytes) /\ n <= Space /\ (Len(bytes) <= Space => n = Len(bytes))
  <2> DEFINE s == Space
             l == Len(bytes)
  <2>1. s \in Nat /\ l \in Nat
    BY <1>0
  <2> HIDE DEF s, l
  <2>2. Least(s, l) \in 0..l /\ Least(s, l) <= s /\ (l <= s => Least(s, l) = l)
    BY <2>1 DEF Least
  <2> QED BY <2>2 DEF s, l
<1> HIDE DEF n
<1>2. u \in Seq(Byte) /\ Len(u) = n /\ (n = Len(bytes) => u = bytes)
  BY <1>1, Cuts, Ends
<1> HIDE DEF u
<1>3. w \in Seq(Byte) /\ Len(w) = Len(wire) + n
  BY <1>0, <1>2, ConcatProperties
<1>4. Len(bytes) <= Space => w = wire \o bytes
  BY <1>1, <1>2
<1> HIDE DEF w
<1>5. unacked + n \in 0..window
  BY <1>0, <1>1
<1>6. \/ wire' = w /\ unacked' = unacked + n /\ writtenLength' = writtenLength + n /\ met' = met \cup more
      \/ wire' = w /\ unacked' = unacked + n /\ met' = met \cup more /\ writtenLength' = writtenLength
      \/ met' = met \cup more \cup {"refused"} /\ wire' = wire /\ unacked' = unacked /\ writtenLength' = writtenLength
  BY DEF Write, n, u, w
<1>7. met \cup more \subseteq met' /\ met' \subseteq Met
  <2>1. "refused" \in Met
    BY DEF Met
  <2> QED BY <1>0, <1>6, <2>1
<1>8. CASE wire' = w /\ unacked' = unacked + n /\ (writtenLength' = writtenLength + n \/ writtenLength' = writtenLength)
  <2>1. writtenLength' \in 0..Len(wire')
    <3>1. writtenLength + n \in 0..(Len(wire) + n) /\ writtenLength \in 0..(Len(wire) + n)
      BY <1>0, <1>1
    <3> QED BY <1>3, <1>8, <3>1
  <2> QED BY <1>3, <1>4, <1>5, <1>7, <1>8, <2>1 DEF IsWritten
<1>9. CASE met' = met \cup more \cup {"refused"} /\ wire' = wire /\ unacked' = unacked /\ writtenLength' = writtenLength
  BY <1>0, <1>7, <1>9 DEF IsWritten
<1> QED BY <1>6, <1>8, <1>9

\* A step that leaves the response the one it is.
LEMMA SameResponse ==
  ASSUME kind' = kind, size' = size
  PROVE  /\ Body' = Body /\ Told' = Told /\ Chunked' = Chunked /\ SendContentLength' = SendContentLength
         /\ Sizes(kind)' = Sizes(kind) /\ Windows(kind)' = Windows(kind)
         /\ met \subseteq met' => (Clean' => Clean)
BY DEF Body, Told, Chunked, SendContentLength, Templated, Sizes, Windows, Clean

\* A step that changes none of it.
LEMMA SameKept ==
  ASSUME Kept, UNCHANGED <<kind, size, state, head, content, ready, contentLength, sentLength, wire, met>>
  PROVE  Kept'
<1>1. /\ Body' = Body /\ Told' = Told /\ Chunked' = Chunked /\ SendContentLength' = SendContentLength
      /\ Clean' = Clean /\ Waiting' = Waiting /\ Rest' = Rest
  BY SameResponse DEF Clean, Waiting, Rest
<1>2. Unbegun'
  BY <1>1 DEF Kept, Unbegun
<1>3. BasicKept'
  BY <1>1 DEF Kept, BasicKept
<1>4. SourceKept'
  BY <1>1 DEF Kept, SourceKept
<1>5. TextKept' /\ HeadKept'
  BY <1>1 DEF Kept, TextKept, HeadKept
<1>6. ToldKept'
  BY <1>1 DEF Kept, ToldKept
<1>7. ChunksKept'
  BY <1>1 DEF Kept, ChunksKept
<1> QED BY <1>2, <1>3, <1>4, <1>5, <1>6, <1>7 DEF Kept

\* An acknowledgement changes nothing of the response.
LEMMA AcknowledgeKept ==
  ASSUME TypeOK, Kept, Acknowledge
  PROVE  TypeOK' /\ Kept'
<1>0. window \in Nat
  BY TypeFacts
<1>1. UNCHANGED <<responseVars, window, wire, up, met>> /\ unacked > 0 /\ Len(events) < MaxEvents
  BY DEF Acknowledge
<1>2. PICK n \in Acknowledged : unacked' = unacked - n /\ events' = Append(events, n)
  BY DEF Acknowledge
<1>3. unacked \in 0..window /\ events \in Seq(1..window)
  BY DEF TypeOK
<1>4. n \in 1..unacked
  BY <1>0, <1>1, <1>2, <1>3 DEF Acknowledged
<1>5. unacked' \in 0..window /\ n \in 1..window
  BY <1>0, <1>2, <1>3, <1>4
<1>6. events' \in Seq(1..window) /\ Len(events') <= MaxEvents
  <2>1. events' \in Seq(1..window) /\ Len(events') = Len(events) + 1 /\ Len(events) \in Nat
    BY <1>2, <1>3, <1>5, AppendProperties, LenProperties
  <2> QED BY <1>1, <2>1, BoundAssumption
<1>7. UNCHANGED <<kind, size, state, head, content, ready, contentLength, sentLength, ackedLength, writtenLength>>
  BY <1>1 DEF responseVars
<1>8. TypeOK'
  <2>1. Sizes(kind)' = Sizes(kind) /\ Windows(kind)' = Windows(kind)
    BY <1>7, SameResponse
  <2> QED BY <1>1, <1>5, <1>6, <1>7, <2>1 DEF TypeOK
<1> QED BY <1>1, <1>7, <1>8, SameKept

\* When the connection goes nothing is left of the response.
LEMMA DisconnectGone ==
  ASSUME TypeOK, Disconnect
  PROVE  TypeOK' /\ Gone'
<1>0. window \in Nat /\ HeadLen \in Nat /\ MaxContent \in Nat /\ MaxEvents \in Nat
  BY TypeFacts
<1>1. UNCHANGED <<kind, size, window>>
  BY DEF Disconnect
<1>2. Gone'
  BY DEF Disconnect, Gone
<1>3. Len(<<>>) = 0 /\ <<>> \in Seq(Byte) /\ <<>> \in Seq(1..window)
  OBVIOUS
<1>4. /\ kind' \in Kind /\ size' \in Sizes(kind)' /\ window' \in Windows(kind)'
  <2>1. Sizes(kind)' = Sizes(kind) /\ Windows(kind)' = Windows(kind) 
    BY <1>1, SameResponse
  <2> QED BY <1>1, <2>1 DEF TypeOK
<1>5. /\ state' = "setup" /\ head' = <<>> /\ content' = <<>> /\ ready' = 0 /\ contentLength' = 0 /\ sentLength' = 0
      /\ ackedLength' = 0 /\ writtenLength' = 0 /\ unacked' = 0 /\ wire' = <<>> /\ events' = <<>> /\ met' = {} /\ up' = FALSE
  BY DEF Disconnect
<1>6. /\ head' \in Seq(Byte) /\ content' \in Seq(Byte) /\ ready' \in 0..Len(content')
      /\ wire' \in Seq(Byte) /\ writtenLength' \in 0..Len(wire')
      /\ events' \in Seq(1..window') /\ Len(events') <= MaxEvents
  <2>1. Len(content') = 0 /\ Len(wire') = 0 /\ Len(events') = 0
    BY <1>3, <1>5
  <2> QED BY <1>0, <1>1, <1>3, <1>5, <2>1
<1>7. /\ contentLength' \in 0..(HeadLen + MaxContent) /\ 0 \in Nat /\ 0 \in 0..MaxContent + HeadLen /\ unacked' \in 0..window'
  BY <1>0, <1>1, <1>5
<1>8. TypeOK'
  BY <1>4, <1>5, <1>6, <1>7 DEF TypeOK
<1> QED BY <1>2, <1>8

\* What a source gets at hand changes nothing of what it has.
LEMMA SupplyKept ==
  ASSUME TypeOK, Kept, Supply
  PROVE  TypeOK' /\ Kept'
<1>1. /\ UNCHANGED <<kind, size, state, head, content, contentLength, sentLength, ackedLength,
                     writtenLength, window, unacked, wire, events, up, met>>
      /\ kind \in {"stream", "callback", "unknown", "chunked"} /\ ready < Len(content) /\ ready' = ready + 1
  BY DEF Supply
<1>2. ready' \in 0..Len(content')
  <2>1. Len(content) \in Nat /\ ready \in 0..Len(content)
    BY LenProperties DEF TypeOK
  <2> QED BY <1>1, <2>1
<1>3. TypeOK'
  BY <1>1, <1>2, SameResponse DEF TypeOK
<1>4. /\ Body' = Body /\ Told' = Told /\ Chunked' = Chunked /\ SendContentLength' = SendContentLength
      /\ Clean' = Clean /\ Waiting' = Waiting /\ Rest' = Rest
  BY <1>1, SameResponse DEF Clean, Waiting, Rest
<1>5. Unbegun'
  BY <1>1, <1>4 DEF Kept, Unbegun
<1>6. BasicKept' /\ TextKept'
  BY <1>1 DEF BasicKept, TextKept
<1>7. SourceKept'
  BY <1>1, <1>4 DEF Kept, SourceKept
<1>8. HeadKept'
  BY <1>1 DEF Kept, HeadKept
<1>9. ToldKept'
  BY <1>1, <1>4 DEF Kept, ToldKept
<1>10. ChunksKept'
  BY <1>1, <1>4 DEF Kept, ChunksKept
<1> QED BY <1>3, <1>5, <1>6, <1>7, <1>8, <1>9, <1>10 DEF Kept

\* What the sketch prints before the response is under way is content.
LEMMA PrintToKept ==
  ASSUME TypeOK, Kept, NEW n \in 1..MaxContent, PrintTo(n)
  PROVE  TypeOK' /\ Kept'
<1> DEFINE more == [i \in 1..n |-> <<"body", size + i>>]
<1>1. /\ UNCHANGED <<kind, state, head, sentLength, ackedLength, writtenLength,
                     window, unacked, wire, events, up, met>>
      /\ kind = "printed" /\ state = "setup" /\ size + n <= MaxContent
      /\ size' = size + n /\ contentLength' = contentLength + n
      /\ content' = content \o more /\ ready' = ready + n
  BY DEF PrintTo
<1>2. /\ Body = Numbered(size) /\ size \in Nat /\ n \in Nat /\ MaxContent \in Nat /\ HeadLen \in Nat
      /\ head = FullHead /\ wire = <<>> /\ content = Body /\ sentLength = 0 /\ met = {}
      /\ contentLength = size /\ ready = Len(content)
  <2>1. kind \in Kind /\ size \in Sizes(kind)
    BY DEF TypeOK
  <2>2. SendContentLength
    BY <1>1 DEF SendContentLength, Chunked, Templated
  <2>3. Body = Numbered(size) /\ size \in Nat
    BY <1>1, <2>1, BodyIs
  <2>4. head = FullHead /\ wire = <<>> /\ content = Body /\ sentLength = 0 /\ met = {}
    BY <1>1 DEF Kept, Unbegun
  <2>5. contentLength = size /\ ready = Len(content)
    BY <1>1, <2>2 DEF Kept, SourceKept
  <2> QED BY <2>3, <2>4, <2>5, BoundAssumption
<1>3. size' \in Sizes(kind)' /\ size' \in Nat
  BY <1>1, <1>2 DEF Sizes
<1>4. content' = Numbered(size') /\ Body' = content' /\ Len(content') = size'
  <2>1. more \in Seq(Character) /\ Len(more) = n /\ \A i \in 1..n : more[i] = <<"body", size + i>>
    <3>1. \A i \in 1..n : <<"body", size + i>> \in Character
      BY <1>2 DEF Character
    <3> QED BY <1>2, <3>1, SMTT(40)
  <2>2. /\ Numbered(size) \in Seq(Character) /\ Len(Numbered(size)) = size
        /\ \A i \in 1..size : Numbered(size)[i] = <<"body", i>>
    BY <1>2, NumberedIs
  <2>3. /\ Numbered(size + n) \in Seq(Character) /\ Len(Numbered(size + n)) = size + n
        /\ \A i \in 1..(size + n) : Numbered(size + n)[i] = <<"body", i>>
    <3>1. size + n \in Nat
      BY <1>2
    <3> QED BY <3>1, NumberedIs
  <2> HIDE DEF more
  <2> DEFINE s == Numbered(size)
             t == Numbered(size + n)
             x == s \o more
  <2> HIDE DEF s
  <2>4. /\ x \in Seq(Character) /\ Len(x) = Len(s) + Len(more)
        /\ \A i \in 1..(Len(s) + Len(more)) : x[i] = IF i <= Len(s) THEN s[i] ELSE more[i - Len(s)]
    BY <2>1, <2>2, ConcatProperties DEF s
  <2> HIDE DEF x, t
  <2>5. Len(x) = Len(t)
    BY <2>1, <2>2, <2>3, <2>4 DEF s, t
  <2>6. \A i \in 1..Len(x) : x[i] = t[i]
    <3>1. /\ Len(x) = size + n
          /\ \A i \in 1..(size + n) : x[i] = IF i <= size THEN s[i] ELSE more[i - size]
          /\ \A i \in 1..size : s[i] = <<"body", i>>
          /\ \A i \in 1..(size + n) : t[i] = <<"body", i>>
      BY <2>1, <2>2, <2>3, <2>4 DEF s, t
    <3>2. ASSUME NEW i \in 1..(size + n) PROVE x[i] = t[i]
      <4>1. CASE i <= size
        <5>1. i \in 1..size
          BY <1>2, <4>1
        <5> QED BY <3>1, <4>1, <5>1
      <4>2. CASE ~(i <= size)
        <5>1. i - size \in 1..n /\ size + (i - size) = i
          BY <1>2, <4>2
        <5>2. more[i - size] = <<"body", i>>
          <6>1. more[i - size] = <<"body", size + (i - size)>>
            BY <2>1, <5>1
          <6> QED BY <5>1, <6>1
        <5> QED BY <3>1, <4>2, <5>2
      <4> QED BY <4>1, <4>2
    <3> QED BY <3>1, <3>2
  <2>7. x = t
    BY <2>3, <2>4, <2>5, <2>6, SeqEqual DEF t
  <2>8. content' = Numbered(size')
    BY <1>1, <1>2, <2>7 DEF x, s, t
  <2>9. Body' = Numbered(size')
    BY <1>1 DEF Body, Numbered
  <2>10. Len(content') = size'
    BY <1>1, <2>3, <2>8
  <2> QED BY <2>8, <2>9, <2>10
<1>5. content' \in Seq(Character) /\ content' \in Seq(Byte)
  <2>1. content' \in Seq(Character)
    BY <1>3, <1>4, NumberedIs
  <2>2. Numbered(size') \in Seq(Byte)
    BY <1>3, NumberedIs, CharacterIsByte
  <2> QED BY <1>4, <2>1, <2>2
<1>6. ready' = Len(content') /\ contentLength' = size' /\ contentLength' \in 0..(HeadLen + MaxContent) /\ ready' \in 0..Len(content')
  <2>1. Len(content) = size
    BY <1>2, NumberedIs
  <2>2. ready' = size' /\ contentLength' = size'
    BY <1>1, <1>2, <2>1
  <2> QED BY <1>1, <1>2, <1>3, <1>4, <2>2
<1>7. TypeOK'
  <2>1. window' \in Windows(kind)'
    BY <1>1 DEF TypeOK, Windows
  <2> QED BY <1>1, <1>3, <1>5, <1>6, <2>1 DEF TypeOK
<1>8. kind' = "printed" /\ ~Chunked' /\ SendContentLength' /\ Told' = content' /\ Rest' = content'
  BY <1>1, <1>4 DEF Chunked, Templated, SendContentLength, Told, Rest
<1>9. Unbegun' /\ HeadKept'
  BY <1>1, <1>2, <1>4 DEF Kept, Unbegun, HeadKept
<1>10. BasicKept' /\ TextKept'
  BY <1>8 DEF BasicKept, TextKept
<1>11. SourceKept'
  <2>1. sentLength' = 0 /\ 0 \in 0..size'
    BY <1>1, <1>2, <1>3
  <2>2. From(Body', 0) = Body'
    <3> DEFINE s == Body'
    <3>1. s \in Seq(Character)
      BY <1>4, <1>5
    <3> HIDE DEF s
    <3>2. From(s, 0) = s
      BY <3>1, Ends
    <3> QED BY <3>2 DEF s
  <2> QED BY <1>4, <1>6, <1>8, <2>1, <2>2 DEF SourceKept
<1>12. ToldKept'
  <2>1. (Plain(<<>>) \o FullHead) \o content' = FullHead \o content'
    <3>1. Plain(<<>>) \o FullHead = FullHead
      BY FullHeadIs, PlainEmpty, ConcatEmptySeq
    <3> QED BY <3>1
  <2>2. wire' = <<>> /\ head' = FullHead /\ state' = "setup"
    BY <1>1, <1>2
  <2> QED BY <1>8, <2>1, <2>2 DEF ToldKept, Waiting
<1>13. ChunksKept'
  BY <1>8 DEF ChunksKept
<1> QED BY <1>7, <1>9, <1>10, <1>11, <1>12, <1>13 DEF Kept

\* A response that ended has told all.
LEMMA OnAckFinishedKept ==
  ASSUME TypeOK, Kept, OnAckFinished
  PROVE  TypeOK' /\ Kept'
<1>1. /\ UNCHANGED <<kind, size, head, content, ready, contentLength, sentLength, ackedLength,
                     writtenLength, window, unacked, wire, up, met>>
      /\ state' = "deleted" /\ events' = Tail(events) /\ events # <<>> /\ Waiting
  BY DEF OnAckFinished, Finished, Waiting
<1>2. events' \in Seq(1..window) /\ Len(events') <= MaxEvents
  <2>1. events \in Seq(1..window) /\ Len(events) <= MaxEvents
    BY DEF TypeOK
  <2>2. Tail(events) \in Seq(1..window) /\ Len(Tail(events)) = Len(events) - 1 /\ Len(events) \in Nat
    BY <1>1, <2>1, LenProperties
  <2> QED BY <1>1, <2>1, <2>2, BoundAssumption
<1>3. TypeOK'
  BY <1>1, <1>2, SameResponse DEF TypeOK
<1>4. /\ Body' = Body /\ Told' = Told /\ Chunked' = Chunked /\ SendContentLength' = SendContentLength
      /\ Clean' = Clean /\ Rest' = Rest
  BY <1>1, SameResponse DEF Clean, Rest
<1>5. Unbegun' /\ HeadKept' /\ TextKept'
  BY <1>1 DEF Kept, Unbegun, HeadKept, TextKept
<1>6. BasicKept'
  BY <1>1, <1>4 DEF Kept, BasicKept
<1>7. SourceKept'
  BY <1>1, <1>4 DEF Kept, SourceKept
<1>8. ToldKept'
  BY <1>1, <1>4 DEF Kept, ToldKept, Waiting
<1>9. ChunksKept'
  BY <1>1, <1>4 DEF Kept, ChunksKept
<1> QED BY <1>3, <1>5, <1>6, <1>7, <1>8, <1>9 DEF Kept

-----------------------------------------------------------------------------
(* AsyncBasicResponse *)

\* What such a step writes has its types.
Typed ==
  /\ contentLength' \in 0..(HeadLen + MaxContent) /\ content' \in Seq(Byte)
  /\ wire' \in Seq(Byte) /\ unacked' \in 0..window /\ writtenLength' \in 0..Len(wire') /\ met' \subseteq Met

\* What _respond and _ack of AsyncBasicResponse do.
IsBasicStep ==
  /\ state' \in {"content", "wait_ack", "end"} /\ sentLength' \in 0..MaxContent + HeadLen /\ Typed
  /\ state' = "content" => contentLength' = sentLength' + Len(content')
  /\ Clean' => IF state' = "content" THEN wire' \o content' = FullHead \o Body ELSE wire' = FullHead \o Body

\* What the task learns with it.
Heard == ackedLength' \in Nat /\ events' \in Seq(1..window) /\ Len(events') <= MaxEvents

\* What IsBasicStep says of a step keeps the invariant.
LEMMA BasicStepKept ==
  ASSUME TypeOK, Kept, kind = "basic", UNCHANGED <<kind, size, head, ready, window, up>>, Heard, IsBasicStep
  PROVE  TypeOK' /\ Kept'
<1>1. head = FullHead /\ ready = 0
  BY DEF Kept, BasicKept
<1>2. Sizes(kind)' = Sizes(kind) /\ Windows(kind)' = Windows(kind) /\ Body' = Body
  BY SameResponse
<1>3. TypeOK'
  <2>1. ready' \in 0..Len(content')
    <3>1. Len(content') \in Nat
      BY LenProperties DEF IsBasicStep, Typed
    <3> QED BY <1>1, <3>1
  <2>2. kind' \in Kind /\ size' \in Sizes(kind)' /\ window' \in Windows(kind)' /\ head' \in Seq(Byte) /\ up' \in BOOLEAN
    BY <1>2 DEF TypeOK
  <2>3. state' \in {"setup", "headers", "content", "wait_ack", "end", "deleted"}
    BY DEF IsBasicStep
  <2> QED BY <2>1, <2>2, <2>3 DEF IsBasicStep, Typed, Heard, TypeOK
<1>4. BasicKept'
  BY <1>1, <1>2 DEF IsBasicStep, BasicKept, Waiting
<1>5. HeadKept' /\ Unbegun'
  BY DEF Kept, HeadKept, IsBasicStep, Unbegun
<1>6. SourceKept' /\ TextKept' /\ ToldKept' /\ ChunksKept'
  BY DEF SourceKept, TextKept, ToldKept, ChunksKept, Chunked, Templated
<1> QED BY <1>3, <1>4, <1>5, <1>6 DEF Kept

\* _respond: in each of its four cases the bytes written and the content left are
\* head and content.
LEMMA RespondBasicIs ==
  ASSUME TypeOK, Kept, kind = "basic", UNCHANGED <<kind, size>>, state = "setup", RespondBasic
  PROVE  IsBasicStep
<1> DEFINE all == FullHead \o content
           shift == Space - HeadLen
<1>0. /\ wire = <<>> /\ content = Body /\ sentLength = 0 /\ met = {} /\ contentLength = size
      /\ Space \in Nat /\ HeadLen \in Nat \ {0} /\ MaxContent \in Nat
  BY TypeFacts, BoundAssumption DEF Kept, Unbegun, BasicKept
<1>1. Body \in Seq(Byte) /\ Len(Body) = size /\ size \in Nat /\ size <= MaxContent
  <2>1. kind \in Kind /\ size \in Sizes(kind)
    BY DEF TypeOK
  <2> QED BY <2>1, BodyIs, Begins
<1>2. FullHead \in Seq(Byte) /\ Len(FullHead) = HeadLen
  BY FullHeadIs
<1>3. all \in Seq(Byte) /\ Len(all) = HeadLen + size
  BY <1>0, <1>1, <1>2, ConcatProperties
<1>4. all = FullHead \o Body
  BY <1>0
<1> HIDE DEF all
<1>5. ASSUME NEW s \in Seq(Byte), Write(s, {}), Len(s) <= Space
      PROVE  /\ wire' \in Seq(Byte) /\ unacked' \in 0..window /\ writtenLength' \in 0..Len(wire') /\ met' \subseteq Met
             /\ Clean' => wire' = s
  <2>1. IsWritten(s, {})
    BY <1>5, WriteIs
  <2>2. Clean' => "refused" \notin met'
    BY DEF Clean
  <2>3. <<>> \o s = s
    BY ConcatEmptySeq
  <2> QED BY <1>0, <1>5, <2>1, <2>2, <2>3 DEF IsWritten
<1>6. CASE /\ Space >= HeadLen + contentLength /\ Write(all, {}) /\ state' = "wait_ack"
           /\ UNCHANGED <<content, contentLength, sentLength>>
  <2>1. Len(all) <= Space
    BY <1>0, <1>1, <1>3, <1>6
  <2>2. /\ wire' \in Seq(Byte) /\ unacked' \in 0..window /\ writtenLength' \in 0..Len(wire') /\ met' \subseteq Met
        /\ Clean' => wire' = all
    BY <1>3, <1>5, <1>6, <2>1
  <2>3. contentLength' \in 0..(HeadLen + MaxContent) /\ content' \in Seq(Byte) /\ sentLength' \in 0..MaxContent + HeadLen
    BY <1>0, <1>1, <1>6
  <2> QED BY <1>4, <1>6, <2>2, <2>3 DEF IsBasicStep, Typed
<1>7. CASE /\ Space \in 1..(HeadLen - 1) /\ Write(Upto(all, Space), {}) /\ state' = "content"
           /\ content' = From(all, Space) /\ contentLength' = contentLength + HeadLen - Space
           /\ UNCHANGED sentLength
  <2> DEFINE n == Space
             u == Upto(all, n)
             f == From(all, n)
  <2>1. n \in 0..Len(all) /\ n \in Nat
    BY <1>0, <1>1, <1>3, <1>7
  <2>2. u \in Seq(Byte) /\ Len(u) = n /\ f \in Seq(Byte) /\ Len(f) = Len(all) - n /\ u \o f = all
    <3> HIDE DEF n
    <3> QED BY <1>3, <2>1, Cuts, Joined, ZenonT(60)
  <2>3. /\ wire' \in Seq(Byte) /\ unacked' \in 0..window /\ writtenLength' \in 0..Len(wire') /\ met' \subseteq Met
        /\ Clean' => wire' = u
    <3>1. Len(u) <= Space
      BY <1>0, <2>2
    <3>2. Write(u, {})
      BY <1>7
    <3> HIDE DEF u
    <3> QED BY <1>5, <2>2, <3>1, <3>2
  <2>4. contentLength' \in 0..(HeadLen + MaxContent) /\ content' \in Seq(Byte) /\ sentLength' = 0
        /\ contentLength' = sentLength' + Len(content') /\ 0 \in 0..MaxContent + HeadLen
    <3>1. contentLength' = size + HeadLen - n /\ n \in 1..(HeadLen - 1) /\ sentLength' = 0 /\ content' = f
      BY <1>0, <1>7
    <3> HIDE DEF n, f
    <3>2. Len(content') = (HeadLen + size) - n /\ content' \in Seq(Byte)
      BY <1>3, <2>2, <3>1
    <3>3. contentLength' \in 0..(HeadLen + MaxContent) /\ contentLength' = 0 + Len(content') /\ 0 \in 0..MaxContent + HeadLen
      BY <1>0, <1>1, <3>1, <3>2
    <3> QED BY <3>1, <3>2, <3>3
  <2> QED BY <1>4, <1>7, <2>2, <2>3, <2>4 DEF IsBasicStep, Typed
<1>8. CASE /\ Space \in (HeadLen + 1)..(HeadLen + contentLength - 1)
           /\ Write(Upto(all, Space), {}) /\ state' = "content"
           /\ content' = From(content, shift) /\ sentLength' = sentLength + shift
           /\ UNCHANGED contentLength
  <2> DEFINE n == Space
             m == shift
             u == Upto(all, n)
             f == From(all, n)
  <2>1. n \in 0..Len(all) /\ n \in Nat /\ m \in 0..Len(Body) /\ n = HeadLen + m /\ m \in Nat /\ m <= size
    BY <1>0, <1>1, <1>3, <1>8
  <2>2. u \in Seq(Byte) /\ Len(u) = n /\ f \in Seq(Byte) /\ Len(f) = Len(all) - n /\ u \o f = all
    <3> HIDE DEF n
    <3> QED BY <1>3, <2>1, Cuts, Joined, ZenonT(60)
  <2>3. content' = f
    <3>1. From(FullHead \o Body, Len(FullHead) + m) = From(Body, m)
      <4> HIDE DEF m
      <4> QED BY <1>1, <1>2, <2>1, CutSecond
    <3>2. f = From(FullHead \o Body, Len(FullHead) + m)
      BY <1>2, <1>4, <2>1
    <3>3. content' = From(Body, m)
      BY <1>0, <1>8
    <3> QED BY <3>1, <3>2, <3>3
  <2>4. /\ wire' \in Seq(Byte) /\ unacked' \in 0..window /\ writtenLength' \in 0..Len(wire') /\ met' \subseteq Met
        /\ Clean' => wire' = u
    <3>1. Len(u) <= Space
      BY <1>0, <2>2
    <3>2. Write(u, {})
      BY <1>8
    <3> HIDE DEF u
    <3> QED BY <1>5, <2>2, <3>1, <3>2
  <2>5. contentLength' \in 0..(HeadLen + MaxContent) /\ content' \in Seq(Byte) /\ sentLength' \in 0..MaxContent + HeadLen
        /\ contentLength' = sentLength' + Len(content')
    <3>0. contentLength' = size /\ sentLength' = 0 + m
      BY <1>0, <1>8
    <3> HIDE DEF n, m, f
    <3>1. Len(content') = (HeadLen + size) - n
      BY <1>3, <2>2, <2>3
    <3>2. contentLength' \in 0..(HeadLen + MaxContent) /\ contentLength' = sentLength' + Len(content') /\ sentLength' \in 0..MaxContent + HeadLen
      BY <1>0, <1>1, <2>1, <3>0, <3>1
    <3> QED BY <2>2, <2>3, <3>2
  <2> QED BY <1>4, <1>8, <2>2, <2>3, <2>4, <2>5 DEF IsBasicStep, Typed
<1>9. CASE /\ Space \in {0, HeadLen} /\ Space < HeadLen + contentLength
           /\ state' = "content" /\ content' = all /\ contentLength' = contentLength + HeadLen
           /\ UNCHANGED <<sentLength, writtenLength, unacked, wire, met>>
  <2>1. wire' \in Seq(Byte) /\ unacked' \in 0..window /\ writtenLength' \in 0..Len(wire') /\ met' \subseteq Met
    BY <1>9 DEF TypeOK
  <2>2. contentLength' \in 0..(HeadLen + MaxContent) /\ content' \in Seq(Byte) /\ sentLength' \in 0..MaxContent + HeadLen
        /\ contentLength' = sentLength' + Len(content')
    <3>1. contentLength' = size + HeadLen /\ Len(content') = HeadLen + size /\ sentLength' = 0
      BY <1>0, <1>3, <1>9
    <3>2. contentLength' \in 0..(HeadLen + MaxContent) /\ contentLength' = sentLength' + Len(content') /\ sentLength' \in 0..MaxContent + HeadLen
      BY <1>0, <1>1, <3>1
    <3> QED BY <1>3, <1>9, <3>2
  <2>3. wire' \o content' = FullHead \o Body
    <3>1. <<>> \o all = all
      BY <1>3, ConcatEmptySeq
    <3> QED BY <1>0, <1>4, <1>9, <3>1
  <2> QED BY <1>9, <2>1, <2>2, <2>3 DEF IsBasicStep, Typed
<1> QED BY <1>6, <1>7, <1>8, <1>9 DEF RespondBasic, all

\* _ack: what fits is written, the rest stays the content.
LEMMA AckBasicIs ==
  ASSUME TypeOK, Kept, kind = "basic", UNCHANGED <<kind, size, contentLength>>,
         state # "setup", ~Finished, AckBasic
  PROVE  IsBasicStep
<1>0. /\ state \in {"content", "wait_ack"} /\ contentLength \in 0..(HeadLen + MaxContent) /\ content \in Seq(Byte)
      /\ sentLength \in 0..MaxContent + HeadLen /\ wire \in Seq(Byte)
      /\ Space \in Nat /\ HeadLen \in Nat /\ MaxContent \in Nat /\ Len(content) \in Nat
      /\ state = "content" => contentLength = sentLength + Len(content) /\ (Clean => wire \o content = FullHead \o Body)
      /\ state = "wait_ack" => (Clean => wire = FullHead \o Body)
  <2>1. state \in {"content", "wait_ack"}
    BY DEF TypeOK, Finished, Kept, BasicKept
  <2>2. contentLength \in 0..(HeadLen + MaxContent) /\ content \in Seq(Byte) /\ wire \in Seq(Byte) /\ sentLength \in 0..MaxContent + HeadLen
    BY DEF TypeOK
  <2> QED BY <2>1, <2>2, TypeFacts DEF Kept, BasicKept, Waiting
<1>1. ASSUME NEW s \in Seq(Byte), Write(s, {}), Len(s) <= Space
      PROVE  /\ wire' \in Seq(Byte) /\ unacked' \in 0..window /\ writtenLength' \in 0..Len(wire') /\ met' \subseteq Met
             /\ Clean' => wire' = wire \o s /\ Clean
  <2>1. IsWritten(s, {})
    BY <1>1, WriteIs
  <2>2. Clean' => "refused" \notin met' /\ Clean
    BY <2>1 DEF Clean, IsWritten
  <2> QED BY <1>0, <1>1, <2>1, <2>2 DEF IsWritten
<1>2. CASE state = "content" /\ Space > contentLength - sentLength
  <2>1. contentLength - sentLength = Len(content)
    BY <1>0, <1>2
  <2>2. Upto(content, Len(content)) = content
    BY <1>0, Ends
  <2>3. Write(content, {}) /\ content' = <<>> /\ state' = "wait_ack" /\ UNCHANGED sentLength
    BY <1>2, <2>1, <2>2 DEF AckBasic, SendRest
  <2>4. Len(content) <= Space
    BY <1>0, <1>2, <2>1
  <2>5. /\ wire' \in Seq(Byte) /\ unacked' \in 0..window /\ writtenLength' \in 0..Len(wire') /\ met' \subseteq Met
        /\ Clean' => wire' = wire \o content /\ Clean
    BY <1>0, <1>1, <2>3, <2>4
  <2>6. <<>> \in Seq(Byte)
    OBVIOUS
  <2> QED BY <1>0, <1>2, <2>3, <2>5, <2>6 DEF IsBasicStep, Typed
<1>3. CASE state = "content" /\ ~(Space > contentLength - sentLength)
  <2> DEFINE n == Space
             u == Upto(content, n)
             f == From(content, n)
             l == Len(content)
  <2>1. n \in 0..Len(content) /\ n \in Nat /\ l \in Nat /\ contentLength = sentLength + l /\ n <= l
    BY <1>0, <1>3
  <2>2. Write(u, {}) /\ content' = f /\ sentLength' = sentLength + n /\ state' = state
    BY <1>3 DEF AckBasic, FillWindow
  <2>3. u \in Seq(Byte) /\ Len(u) = n /\ f \in Seq(Byte) /\ Len(f) = l - n /\ u \o f = content
    <3> HIDE DEF n
    <3> QED BY <1>0, <2>1, Cuts, Joined, ZenonT(60)
  <2>4. /\ wire' \in Seq(Byte) /\ unacked' \in 0..window /\ writtenLength' \in 0..Len(wire') /\ met' \subseteq Met
        /\ Clean' => wire' = wire \o u /\ Clean
    <3>1. Len(u) <= Space
      BY <1>0, <2>3
    <3> HIDE DEF u
    <3> QED BY <1>1, <2>2, <2>3, <3>1
  <2>5. contentLength' = sentLength' + Len(content') /\ sentLength' \in 0..MaxContent + HeadLen
    <3>1. Len(content') = l - n /\ contentLength' = contentLength
      BY <2>2, <2>3
    <3> HIDE DEF n, l, u, f
    <3> QED BY <1>0, <2>1, <2>2, <3>1
  <2>6. ASSUME Clean' PROVE wire' \o content' = FullHead \o Body
    <3>1. wire' = wire \o u /\ content' = f /\ wire \o content = FullHead \o Body
      BY <1>0, <1>3, <2>2, <2>4, <2>6
    <3> HIDE DEF u, f
    <3>2. (wire \o u) \o f = wire \o (u \o f)
      <4>1. wire \in Seq(Byte) /\ u \in Seq(Byte) /\ f \in Seq(Byte)
        BY <1>0, <2>3
      <4> QED BY ONLY <4>1, ConcatAssociative
    <3>3. u \o f = content
      BY <2>3
    <3> QED BY <3>1, <3>2, <3>3
  <2>7. content' \in Seq(Byte) /\ contentLength' \in 0..(HeadLen + MaxContent) /\ state' = "content"
    BY <1>0, <1>3, <2>2, <2>3
  <2> QED BY <2>4, <2>5, <2>6, <2>7 DEF IsBasicStep, Typed
<1>4. CASE state = "wait_ack"
  <2>1. state' \in {"end", "wait_ack"} /\ UNCHANGED <<content, sentLength, writtenLength, unacked, wire, met>>
    BY <1>4 DEF AckBasic
  <2>2. wire' \in Seq(Byte) /\ unacked' \in 0..window /\ writtenLength' \in 0..Len(wire') /\ met' \subseteq Met
    BY <2>1 DEF TypeOK
  <2>3. Clean' => Clean
    BY <2>1 DEF Clean
  <2> QED BY <1>0, <1>4, <2>1, <2>2, <2>3 DEF IsBasicStep, Typed
<1> QED BY <1>0, <1>2, <1>3, <1>4

-----------------------------------------------------------------------------
(* AsyncAbstractResponse *)

\* The phase _ack is in: _respond sets it to RESPONSE_HEADERS.
In(phase) ==
  \/ state = "setup" /\ phase = "headers"
  \/ state = phase /\ phase \in {"headers", "content", "wait_ack"}

\* What a step of AsyncAbstractResponse writes has its types.
Sent ==
  /\ state' \in {"headers", "content", "wait_ack", "end"} /\ up' \in BOOLEAN
  /\ content' \in Seq(Byte) /\ ready' \in 0..Len(content')
  /\ sentLength' \in IF kind = "template" THEN Nat ELSE 0..MaxContent + HeadLen
  /\ wire' \in Seq(Byte) /\ unacked' \in 0..window /\ writtenLength' \in 0..Len(wire') /\ met' \subseteq Met

\* What is left to show of a step of AsyncAbstractResponse.
LEMMA AbstractKept ==
  ASSUME TypeOK, kind # "basic", UNCHANGED <<kind, size, contentLength, window>>, Heard, Sent,
         HeadKept', SourceKept', TextKept', ToldKept', ChunksKept'
  PROVE  TypeOK' /\ Kept'
<1>1. Sizes(kind)' = Sizes(kind) /\ Windows(kind)' = Windows(kind)
  BY SameResponse
<1>2. TypeOK'
  <2>1. kind' \in Kind /\ size' \in Sizes(kind)' /\ window' \in Windows(kind)' /\ contentLength' \in 0..(HeadLen + MaxContent)
    BY <1>1 DEF TypeOK
  <2>2. head' \in Seq(Byte)
    BY DEF HeadKept, Unframed
  <2>3. state' \in {"setup", "headers", "content", "wait_ack", "end", "deleted"}
    BY DEF Sent
  <2>4. sentLength' \in IF kind' = "template" THEN Nat ELSE 0..MaxContent + HeadLen
    BY DEF Sent
  <2> QED BY <2>1, <2>2, <2>3, <2>4 DEF Sent, Heard, TypeOK
<1>3. Unbegun'
  BY DEF Unbegun, Sent
<1>4. BasicKept'
  BY DEF BasicKept
<1> QED BY <1>2, <1>3, <1>4 DEF Kept

\* A head that does not fit is sent in parts.
LEMMA HeadPartKept ==
  ASSUME TypeOK, Kept, kind # "basic", UNCHANGED <<kind, size, contentLength, window>>, Heard,
         Space < Len(head), HeadPart
  PROVE  TypeOK' /\ Kept'
<1> DEFINE k == Space
           u == Upto(head, k)
           f == From(head, k)
<1>1. /\ k \in 0..Len(head) /\ k \in Nat /\ wire \in Seq(Byte) /\ Unframed(head)
      /\ ready \in 0..Len(content) /\ content \in Seq(Byte) /\ up \in BOOLEAN
  BY TypeFacts, SMTT(40) DEF TypeOK, Kept, HeadKept
<1>2. Write(u, {}) /\ head' = f /\ state' = "headers" /\ UNCHANGED <<content, ready, sentLength, up>>
  BY DEF HeadPart
<1>3. /\ Plain(wire \o u) \o f = Plain(wire) \o head
      /\ Unframed(u) /\ Unframed(f) /\ u \in Seq(Byte) /\ Len(u) = k
  <2> HIDE DEF k
  <2>1. head \in Seq(Byte)
    BY <1>1 DEF Unframed
  <2> QED BY <1>1, <2>1, PlainCut, Cuts
<1>4. IsWritten(u, {})
  <2> HIDE DEF u
  <2> QED BY <1>2, <1>3, WriteIs
<1>5. ASSUME Clean' PROVE wire' = wire \o u /\ Clean
  <2>1. "refused" \notin met' /\ met \subseteq met' /\ Len(u) <= Space
    BY <1>1, <1>3, <1>4, <1>5 DEF Clean, IsWritten
  <2> QED BY <1>4, <1>5, <2>1, SameResponse DEF IsWritten
<1>6. Sent
  BY <1>1, <1>2, <1>4 DEF Sent, IsWritten, TypeOK
<1>7. HeadKept'
  BY <1>2, <1>3 DEF HeadKept
<1>8. Body' = Body /\ Told' = Told /\ Chunked' = Chunked /\ SendContentLength' = SendContentLength
  BY SameResponse
<1>9. SourceKept'
  BY <1>2, <1>8 DEF Kept, SourceKept
<1>10. TextKept'
  BY <1>2 DEF Kept, TextKept
<1>11. ToldKept'
  <2> HIDE DEF u, f
  <2>1. Rest' = Rest
    BY <1>2 DEF Rest
  <2> QED BY <1>2, <1>3, <1>5, <1>8, <2>1 DEF Kept, ToldKept, Waiting
<1>12. ChunksKept'
  <2>1. ASSUME Chunked', Clean' PROVE ChunksOf(wire \o u, f)
    <3>1. ChunksOf(wire, head)
      BY <1>5, <1>8, <2>1 DEF Kept, ChunksKept
    <3> HIDE DEF k
    <3> QED BY <1>1, <3>1, HeadSent
  <2> HIDE DEF u, f
  <2> QED BY <1>2, <1>5, <2>1 DEF ChunksKept
<1> QED BY <1>6, <1>7, <1>9, <1>10, <1>11, <1>12, AbstractKept

\* A response that is put off tells nothing; a head that is held back by it is the
\* "held" of met.
LEMMA PutOffKept ==
  ASSUME TypeOK, Kept, kind # "basic", UNCHANGED <<kind, size, contentLength, window>>, Heard,
         NEW phase, In(phase), phase # "wait_ack", PutOff
  PROVE  TypeOK' /\ Kept'
<1>1. /\ state' = "content" /\ met' = (IF head # <<>> THEN met \cup {"held"} ELSE met)
      /\ UNCHANGED <<head, content, ready, sentLength, writtenLength, unacked, wire, up>>
  BY DEF PutOff
<1>2. met' \subseteq Met /\ met \subseteq met'
  <2>1. "held" \in Met
    BY DEF Met
  <2> QED BY <1>1, <2>1 DEF TypeOK
<1>3. Sent
  BY <1>1, <1>2 DEF TypeOK, Sent
<1>4. Body' = Body /\ Told' = Told /\ Chunked' = Chunked /\ SendContentLength' = SendContentLength /\ Rest' = Rest
  BY <1>1, SameResponse DEF Rest
<1>5. ASSUME Clean' PROVE Clean /\ head = <<>>
  <2>1. "held" \notin met'
    BY <1>5 DEF Clean
  <2> QED BY <1>1, <1>2, <1>5, <2>1, SameResponse
<1>6. HeadKept' /\ TextKept'
  BY <1>1 DEF Kept, HeadKept, TextKept
<1>7. SourceKept'
  BY <1>1, <1>4 DEF Kept, SourceKept
<1>8. ToldKept'
  BY <1>1, <1>4, <1>5 DEF Kept, ToldKept, Waiting
<1>9. ChunksKept'
  BY <1>1, <1>4, <1>5 DEF Kept, ChunksKept
<1> QED BY <1>3, <1>6, <1>7, <1>8, <1>9, AbstractKept

\* Waiting for the last acknowledgement tells nothing more.
LEMMA AwaitAckKept ==
  ASSUME TypeOK, Kept, kind # "basic", UNCHANGED <<kind, size, contentLength, window>>, Heard,
         state = "wait_ack", AwaitAck
  PROVE  TypeOK' /\ Kept'
<1>1. /\ state' \in {"wait_ack", "end"} /\ up' \in BOOLEAN
      /\ UNCHANGED <<head, content, ready, sentLength, writtenLength, unacked, wire, met>>
  BY DEF AwaitAck
<1>2. Sent
  BY <1>1 DEF TypeOK, Sent
<1>3. Body' = Body /\ Told' = Told /\ Chunked' = Chunked /\ SendContentLength' = SendContentLength /\ Rest' = Rest /\ Clean' = Clean
  BY <1>1, SameResponse DEF Rest, Clean
<1>4. HeadKept' /\ TextKept'
  BY <1>1 DEF Kept, HeadKept, TextKept
<1>5. SourceKept'
  BY <1>1, <1>3 DEF Kept, SourceKept
<1>6. ToldKept'
  BY <1>1, <1>3 DEF Kept, ToldKept, Waiting
<1>7. ChunksKept'
  BY <1>1, <1>3 DEF Kept, ChunksKept
<1> QED BY <1>2, <1>4, <1>5, <1>6, <1>7, AbstractKept

\* What a source is asked for.
IsAsked(m, room) ==
  /\ m \in Nat /\ m <= room
  /\ Chunked => m + 1 = room /\ m # 0
  /\ kind = "unknown" => m = room
  /\ SendContentLength => m <= Len(content)

\* The content of a response that is no file of templates.
LEMMA SourceIs ==
  ASSUME TypeOK, Kept, kind \notin {"basic", "template"}
  PROVE  /\ Body \in Seq(Character) /\ Len(Body) = size /\ size \in Nat /\ size <= MaxContent
         /\ sentLength \in 0..size /\ sentLength \in Nat /\ content = From(Body, sentLength)
         /\ content \in Seq(Character) /\ Len(content) = size - sentLength
         /\ contentLength = IF SendContentLength THEN size ELSE 0
         /\ kind \in {"progmem", "printed", "json"} => ready = Len(content)
<1>1. Body \in Seq(Character) /\ Len(Body) = size /\ size \in Nat /\ size <= MaxContent
  <2>1. kind \in Kind /\ size \in Sizes(kind)
    BY DEF TypeOK
  <2> QED BY <2>1, BodyIs
<1>2. /\ sentLength \in 0..size /\ content = From(Body, sentLength)
      /\ contentLength = IF SendContentLength THEN size ELSE 0
      /\ kind \in {"progmem", "printed", "json"} => ready = Len(content)
  BY DEF Kept, SourceKept
<1>3. From(Body, sentLength) \in Seq(Character) /\ Len(From(Body, sentLength)) = Len(Body) - sentLength
  <2>1. Body \in Seq(Character) /\ sentLength \in 0..Len(Body)
    BY <1>1, <1>2
  <2> QED BY <2>1, Cuts
<1> QED BY <1>1, <1>2, <1>3

\* The source is asked for no more than there is room for.
LEMMA AskedIs ==
  ASSUME TypeOK, Kept, kind # "basic", NEW phase, Room(phase) \in Nat, ~(Chunked /\ Room(phase) <= 1)
  PROVE  IsAsked(Asked(phase), Room(phase))
<1> DEFINE r == Room(phase)
<1>0. r \in Nat /\ ~(Chunked /\ r <= 1)
  OBVIOUS
<1>1. /\ Asked(phase) = CASE Chunked -> r - 1
                          [] kind = "unknown" -> r
                          [] SendContentLength -> Least(contentLength - sentLength, r)
  BY DEF Asked
<1> HIDE DEF r
<1>2. CASE Chunked
  <2>1. ~SendContentLength /\ kind # "unknown"
    BY <1>2 DEF SendContentLength, Chunked, Templated
  <2>2. Asked(phase) = r - 1
    BY <1>1, <1>2, <2>1
  <2>3. r - 1 \in Nat /\ r - 1 <= r /\ (r - 1) + 1 = r /\ r - 1 # 0
    BY <1>0, <1>2
  <2>4. IsAsked(r - 1, r)
    BY <2>1, <2>3 DEF IsAsked
  <2> QED BY <2>2, <2>4 DEF r
<1>3. CASE kind = "unknown"
  <2>1. ~SendContentLength /\ ~Chunked
    BY <1>3 DEF SendContentLength, Chunked, Templated
  <2>2. Asked(phase) = r
    BY <1>1, <1>3, <2>1
  <2>3. IsAsked(r, r)
    BY <1>0, <2>1 DEF IsAsked
  <2> QED BY <2>2, <2>3 DEF r
<1>4. CASE ~Chunked /\ kind # "unknown"
  <2>1. SendContentLength
    BY <1>4 DEF SendContentLength
  <2>2. Asked(phase) = Least(contentLength - sentLength, r)
    BY <1>1, <1>4, <2>1
  <2>3. contentLength - sentLength = Len(content) /\ Len(content) \in Nat
    <3>1. kind \notin {"basic", "template"}
      BY <1>4 DEF Chunked, Templated
    <3>2. contentLength = size /\ Len(content) = size - sentLength
      BY <2>1, <3>1, SourceIs
    <3> QED BY <3>2, TypeFacts
  <2> DEFINE l == Len(content)
             m == Least(l, r)
  <2>4. m \in Nat /\ m <= r /\ m <= l
    <3>1. l \in Nat
      BY <2>3
    <3> HIDE DEF l
    <3> QED BY <1>0, <3>1 DEF Least
  <2> HIDE DEF m
  <2>5. IsAsked(m, r)
    BY <1>4, <2>4 DEF IsAsked
  <2> QED BY <2>2, <2>3, <2>5 DEF r, m
<1> QED BY <1>2, <1>3, <1>4

\* What it gives: nothing is left out, and nothing given only when there is nothing.
IsGiven(g, m) ==
  /\ g.data \in Seq(Character) /\ g.rest \in Seq(Character) /\ Len(g.data) <= m /\ g.met \subseteq Spoilt
  /\ g.met = {} => g.data \o (IF kind = "template" THEN Expanded[g.rest] ELSE g.rest) = Rest
  /\ kind # "template" => /\ g.met = {} /\ Len(g.data) <= ready /\ Len(g.data) <= Len(content)
                          /\ g.rest = From(content, Len(g.data)) /\ Len(g.rest) = Len(content) - Len(g.data)
                          /\ (g.data = <<>> /\ m # 0) => ready = 0
  /\ (kind = "template" /\ g.met = {} /\ g.data = <<>> /\ m # 0) => g.rest = <<>>

\* Of a source that is no file of templates: a part.
LEMMA PartGiven ==
  ASSUME TypeOK, Kept, kind \notin {"basic", "template"}, NEW m \in Nat,
         NEW k \in 0..Len(content), k <= ready, k <= m, k = 0 => m = 0 \/ ready = 0
  PROVE  IsGiven(Buffer(Upto(content, k), From(content, k), {}), m)
<1> DEFINE g == Buffer(Upto(content, k), From(content, k), {})
           u == Upto(content, k)
           f == From(content, k)
<1>1. content \in Seq(Character)
  BY SourceIs
<1>2. u \in Seq(Character) /\ Len(u) = k /\ f \in Seq(Character) /\ Len(f) = Len(content) - k /\ u \o f = content
  BY <1>1, Cuts, Joined
<1>3. g.data = u /\ g.rest = f /\ g.met = {}
  BY DEF Buffer
<1> HIDE DEF u, f, g
<1>4. Rest = content
  BY DEF Rest
<1>5. u = <<>> => k = 0
  BY <1>2
<1>6. k \in Nat /\ k <= Len(content)
  BY TypeFacts
<1>7. g.rest = From(content, Len(g.data))
  BY <1>2, <1>3 DEF f
<1>8. IsGiven(g, m)
  BY <1>2, <1>3, <1>4, <1>5, <1>6, <1>7 DEF IsGiven
<1> QED BY <1>8 DEF g

\* Every source gives what is next of its content, and templates by
\* TemplatesReplaced.
LEMMA GivenIs ==
  ASSUME TypeOK, Kept, kind # "basic", NEW m, NEW room, IsAsked(m, room)
  PROVE  IsGiven(Given(m), m)
<1>0. m \in Nat /\ ready \in Nat /\ ready <= Len(content) /\ Len(content) \in Nat
  <2>1. ready \in 0..Len(content)
    BY DEF TypeOK
  <2> QED BY <2>1, TypeFacts DEF IsAsked
<1>1. CASE kind = "template"
  <2> DEFINE g == FillTemplates(content, m)
  <2>1. Given(m) = g /\ content \in Seq(Character)
    BY <1>1 DEF Given, Kept, TextKept
  <2>2. IsFilled(g, content, m)
    BY <1>0, <2>1, TemplatesReplaced
  <2> HIDE DEF g
  <2>3. Rest = Expanded[content]
    BY <1>1 DEF Rest
  <2>4. IsGiven(g, m)
    BY <1>1, <2>2, <2>3 DEF IsFilled, IsBuffer, IsGiven
  <2> QED BY <2>1, <2>4
<1>2. CASE kind \in {"progmem", "printed"}
  <2>0. Given(m) = GivenByMemory(m) /\ ready = Len(content) /\ content \in Seq(Character) /\ kind \notin {"basic", "template"}
    BY <1>2, SourceIs DEF Given
  <2>1. CASE Len(content) > m
    <3>1. Given(m) = Buffer(Upto(content, m), From(content, m), {})
      BY <2>0, <2>1 DEF GivenByMemory
    <3>2. m \in 0..Len(content) /\ m <= ready /\ m <= m
      BY <1>0, <2>0, <2>1
    <3> QED BY <1>0, <2>0, <3>1, <3>2, PartGiven
  <2>2. CASE ~(Len(content) > m)
    <3> DEFINE l == Len(content)
    <3>1. Given(m) = Buffer(Upto(content, l), From(content, l), {})
      <4>1. Upto(content, l) = content /\ From(content, l) = <<>>
        BY <2>0, Ends
      <4> QED BY <2>0, <2>2, <4>1 DEF GivenByMemory
    <3>2. l \in 0..Len(content) /\ l <= ready /\ l <= m /\ (l = 0 => m = 0 \/ ready = 0)
      BY <1>0, <2>0, <2>2
    <3> HIDE DEF l
    <3> QED BY <1>0, <2>0, <3>1, <3>2, PartGiven
  <2> QED BY <2>1, <2>2
<1>3. CASE kind = "json"
  <2>0. /\ Given(m) = GivenByJson(m) /\ ready = Len(content) /\ content \in Seq(Character) /\ kind \notin {"basic", "template"}
        /\ Body \in Seq(Character) /\ Len(Body) = size /\ size \in Nat /\ sentLength \in Nat /\ sentLength \in 0..size
        /\ content = From(Body, sentLength) /\ Len(content) = size - sentLength
    BY <1>3, SourceIs DEF Given
  <2>1. m <= Len(content)
    <3>1. SendContentLength
      BY <1>3 DEF SendContentLength, Chunked, Templated
    <3> QED BY <3>1 DEF IsAsked
  <2> DEFINE c == WriteChunk(Body, sentLength, m)
             u == Upto(content, m)
  <2>2. c = u
    <3>1. m \in 0..Len(content)
      BY <1>0, <2>1
    <3>2. u \in Seq(Character) /\ Len(u) = m /\ \A i \in 1..m : u[i] = content[i]
      BY <2>0, <3>1, Cuts
    <3>3. \A i \in 1..m : content[i] = Body[sentLength + i] /\ Body[sentLength + i] \in Character
      <4>1. \A i \in 1..(Len(Body) - sentLength) : From(Body, sentLength)[i] = Body[sentLength + i]
        BY <2>0, Cuts
      <4>2. ASSUME NEW i \in 1..m PROVE i \in 1..(Len(Body) - sentLength) /\ sentLength + i \in 1..Len(Body)
        BY <1>0, <2>0, <2>1
      <4>3. \A i \in 1..Len(Body) : Body[i] \in Character
        BY <2>0, ElementOfSeq
      <4> QED BY <2>0, <4>1, <4>2, <4>3
    <3>4. Least(m, Len(Body) - sentLength) = m
      <4>1. m <= Len(Body) - sentLength /\ Len(Body) - sentLength \in Int
        BY <2>0, <2>1
      <4> QED BY <1>0, <4>1 DEF Least
    <3>5. c = [i \in 1..m |-> Body[sentLength + i]]
      BY <3>4 DEF WriteChunk
    <3> HIDE DEF c, u
    <3>6. c \in Seq(Character) /\ Len(c) = m /\ \A i \in 1..m : c[i] = Body[sentLength + i]
      BY <1>0, <3>3, <3>5
    <3>7. \A i \in 1..Len(c) : c[i] = u[i]
      BY <3>2, <3>3, <3>6
    <3> QED BY <3>2, <3>6, <3>7, SeqEqual
  <2>3. Given(m) = Buffer(Upto(content, m), From(content, m), {})
    BY <2>0, <2>2 DEF GivenByJson
  <2>4. m \in 0..Len(content) /\ m <= ready /\ m <= m
    BY <1>0, <2>0, <2>1
  <2> QED BY <1>0, <2>0, <2>3, <2>4, PartGiven
<1>4. CASE kind \notin {"template", "progmem", "printed", "json"}
  <2> DEFINE k == Least(m, ready)
  <2>1. Given(m) = Buffer(Upto(content, k), From(content, k), {})
    BY <1>4 DEF Given, GivenByStream
  <2>2. k \in Nat /\ k <= m /\ k <= ready /\ (k = 0 => m = 0 \/ ready = 0)
    BY <1>0 DEF Least
  <2> HIDE DEF k
  <2>3. k \in 0..Len(content)
    BY <1>0, <2>2
  <2> QED BY <1>0, <1>4, <2>1, <2>2, <2>3, PartGiven
<1> QED BY <1>1, <1>2, <1>3, <1>4

\* What Fill makes of what is given.
FrameOf(g) == IF Chunked THEN << <<"chunk", Len(g.data)>> >> ELSE <<>>
OutOf(g) == (head \o FrameOf(g)) \o g.data
FillsLast(g) ==
  \/ Chunked /\ Len(g.data) = 0
  \/ ~SendContentLength /\ OutOf(g) = <<>>
  \/ ~Chunked /\ sentLength + Len(g.data) = contentLength

IsFill(g, room) ==
  /\ head' = <<>> /\ content' = g.rest /\ ready' = (IF kind = "template" THEN 0 ELSE ready - Len(g.data))
  /\ sentLength' = sentLength + Len(g.data)
  /\ state' = (IF FillsLast(g) THEN "wait_ack" ELSE "content")
  /\ IsWritten(OutOf(g), (IF room = 0 THEN {"full"} ELSE {}) \cup g.met)
  /\ UNCHANGED up

\* The parts of what is written.
IsOut(g) ==
  /\ Unframed(head) /\ IsFrame(FrameOf(g)) /\ Unframed(g.data) /\ g.data \in Seq(Character)
  /\ Len(g.data) \in Nat /\ Len(FrameOf(g)) = (IF Chunked THEN 1 ELSE 0)
  /\ OutOf(g) \in Seq(Byte) /\ Len(OutOf(g)) = Len(head) + Len(FrameOf(g)) + Len(g.data)
  /\ Plain(wire \o OutOf(g)) = (Plain(wire) \o head) \o g.data

\* What Fill writes tells the rest of the head and what was given.
LEMMA OutIs ==
  ASSUME TypeOK, Kept, NEW g, g.data \in Seq(Character)
  PROVE  IsOut(g)
<1> DEFINE f == FrameOf(g)
           d == g.data
           h == head
<1>1. Unframed(h) /\ wire \in Seq(Byte) /\ Unframed(d) /\ Len(d) \in Nat
  BY CharacterIsByte, LenProperties DEF Kept, HeadKept, TypeOK
<1>2. IsFrame(f) /\ Len(f) = (IF Chunked THEN 1 ELSE 0)
  <2>1. CASE Chunked
    BY <1>1, <2>1 DEF IsFrame, FrameOf
  <2>2. CASE ~Chunked
    BY <2>2 DEF IsFrame, FrameOf
  <2> QED BY <2>1, <2>2
<1> HIDE DEF f, d, h
<1>3. /\ Plain(wire \o ((h \o f) \o d)) = (Plain(wire) \o h) \o d
      /\ (h \o f) \o d \in Seq(Byte) /\ Len((h \o f) \o d) = Len(h) + Len(f) + Len(d)
  <2>1. wire \in Seq(Byte) /\ Unframed(h) /\ IsFrame(f) /\ Unframed(d)
    BY <1>1, <1>2
  <2>2. IsSent(wire, h, f, d)
    BY ONLY <2>1, PlainSent
  <2> QED BY <2>2 DEF IsSent
<1>4. OutOf(g) = (h \o f) \o d
  BY DEF OutOf, f, d, h
<1>5. d \in Seq(Character)
  BY DEF d
<1> QED BY <1>1, <1>2, <1>3, <1>4, <1>5 DEF IsOut, f, d, h

\* Fill, with what the source gave.
LEMMA FillIs ==
  ASSUME TypeOK, Kept, kind # "basic", NEW phase, Room(phase) \in Nat, ~(Chunked /\ Room(phase) <= 1), Fill(phase)
  PROVE  \E g : IsGiven(g, Asked(phase)) /\ IsAsked(Asked(phase), Room(phase)) /\ IsFill(g, Room(phase)) /\ IsOut(g)
<1> DEFINE g == Given(Asked(phase))
           m == Asked(phase)
           more == (IF Room(phase) = 0 THEN {"full"} ELSE {}) \cup g.met
<1>1. IsAsked(m, Room(phase))
  BY AskedIs
<1>2. IsGiven(g, m)
  <2> HIDE DEF m
  <2>1. IsGiven(Given(m), m)
    BY <1>1, GivenIs
  <2> QED BY <2>1 DEF m
<1>3. IsOut(g)
  <2> HIDE DEF g, m
  <2> QED BY <1>2, OutIs DEF IsGiven
<1>4. /\ head' = <<>> /\ content' = g.rest /\ ready' = (IF kind = "template" THEN 0 ELSE ready - Len(g.data))
      /\ sentLength' = sentLength + Len(g.data)
      /\ state' = (IF FillsLast(g) THEN "wait_ack" ELSE "content")
      /\ Write(OutOf(g), more)
      /\ UNCHANGED up
  BY DEF Fill, FillsLast, OutOf, FrameOf
<1> HIDE DEF g, m
<1>5. more \in SUBSET Met
  <2>1. g.met \subseteq Met
    BY <1>2 DEF IsGiven, Met
  <2>2. "full" \in Met
    BY DEF Met
  <2> QED BY <2>1, <2>2
<1>6. IsWritten(OutOf(g), more)
  <2> HIDE DEF more
  <2> QED BY <1>3, <1>4, <1>5, WriteIs DEF IsOut
<1>7. IsFill(g, Room(phase))
  BY <1>4, <1>6 DEF IsFill
<1> QED BY <1>1, <1>2, <1>3, <1>7 DEF m

\* What the source has left after it is the end of its content.
LEMMA FillSource ==
  ASSUME TypeOK, Kept, kind # "basic", UNCHANGED <<kind, size, contentLength>>,
         NEW g, NEW m, NEW room, IsGiven(g, m), IsFill(g, room)
  PROVE  /\ SourceKept' /\ TextKept'
         /\ content' \in Seq(Byte) /\ ready' \in 0..Len(content')
         /\ sentLength' \in IF kind = "template" THEN Nat ELSE 0..MaxContent + HeadLen
<1> DEFINE n == Len(g.data)
<1>0. n \in Nat /\ MaxContent \in Nat /\ HeadLen \in Nat /\ content' = g.rest /\ g.rest \in Seq(Character)
      /\ sentLength' = sentLength + n
  BY LenProperties, TypeFacts DEF IsGiven, IsFill
<1>1. Body' = Body /\ SendContentLength' = SendContentLength
  BY SameResponse
<1>2. content' \in Seq(Byte) /\ Len(content') \in Nat
  BY <1>0, CharacterIsByte, LenProperties
<1>3. CASE kind = "template"
  <2>1. ready' = 0 /\ sentLength \in Nat /\ contentLength = 0
    BY <1>3 DEF IsFill, TypeOK, Kept, TextKept
  <2>2. TextKept' /\ SourceKept'
    BY <1>0, <1>3, <2>1 DEF TextKept, SourceKept
  <2>3. sentLength' \in Nat /\ ready' \in 0..Len(content')
    BY <1>0, <1>2, <2>1
  <2> QED BY <1>2, <1>3, <2>2, <2>3
<1>4. CASE kind # "template"
  <2>1. /\ Body \in Seq(Character) /\ Len(Body) = size /\ size \in Nat /\ size <= MaxContent
        /\ sentLength \in 0..size /\ content = From(Body, sentLength) /\ Len(content) = size - sentLength
        /\ contentLength = (IF SendContentLength THEN size ELSE 0)
        /\ kind \in {"progmem", "printed", "json"} => ready = Len(content)
    BY <1>4, SourceIs
  <2>2. /\ n <= ready /\ n <= Len(content) /\ g.rest = From(content, n) /\ Len(g.rest) = Len(content) - n
        /\ ready' = ready - n
    BY <1>4 DEF IsGiven, IsFill
  <2>3. ready \in Nat /\ ready <= Len(content)
    <3>1. ready \in 0..Len(content)
      BY DEF TypeOK
    <3> QED BY <3>1
  <2> HIDE DEF n
  <2>4. sentLength + n \in 0..size /\ n \in 0..(Len(Body) - sentLength) /\ sentLength \in 0..Len(Body) /\ sentLength \in Nat
    BY <1>0, <2>1, <2>2
  <2>5. From(From(Body, sentLength), n) = From(Body, sentLength + n)
    BY <2>1, <2>4, CutTwice
  <2>6. content' = From(Body, sentLength')
    BY <1>0, <2>1, <2>2, <2>5
  <2>7. Len(content') = Len(content) - n
    BY <1>0, <2>2
  <2>8. ready' \in 0..Len(content') /\ (ready = Len(content) => ready' = Len(content'))
    BY <1>0, <2>2, <2>3, <2>7
  <2>9. sentLength' \in 0..size' /\ sentLength' \in 0..MaxContent + HeadLen
    BY <1>0, <2>1, <2>4
  <2>10. SourceKept'
    BY <1>1, <2>1, <2>6, <2>8, <2>9 DEF SourceKept
  <2>11. TextKept'
    BY <1>4 DEF TextKept
  <2> QED BY <1>2, <1>4, <2>8, <2>9, <2>10, <2>11
<1> QED BY <1>3, <1>4

\* Nothing is to come when the source is found to have nothing more.
LEMMA FillLast ==
  ASSUME TypeOK, Kept, kind # "basic", NEW g, NEW m, NEW room, IsGiven(g, m), IsAsked(m, room), IsOut(g),
         FillsLast(g), g.met = {}, room = 0 => kind # "unknown", ~TryAgain
  PROVE  g.rest = <<>>
<1> DEFINE n == Len(g.data)
<1>0. n \in Nat /\ g.data \in Seq(Character) /\ g.rest \in Seq(Character) /\ (n = 0 => g.data = <<>>)
  BY LenProperties, EmptySeq DEF IsGiven
<1>1. CASE Chunked /\ n = 0
  <2>1. g.data = <<>> /\ m # 0
    BY <1>0, <1>1 DEF IsAsked
  <2>2. CASE kind = "template"
    BY <2>1, <2>2 DEF IsGiven
  <2>3. CASE kind # "template"
    <3>1. kind = "chunked"
      BY <1>1, <2>3 DEF Chunked, Templated
    <3>2. ready = 0 /\ Len(g.rest) = Len(content) - Len(g.data)
      BY <2>1, <2>3 DEF IsGiven
    <3>3. content = <<>>
      BY <3>1, <3>2 DEF TryAgain
    <3>4. Len(content) = 0
      BY <3>3
    <3>5. Len(g.rest) = 0
      BY <1>1, <3>2, <3>4
    <3> QED BY <1>0, <3>5, EmptySeq
  <2> QED BY <2>2, <2>3
<1>2. ASSUME kind = "unknown", n = 0 PROVE g.rest = <<>>
  <2>1. g.data = <<>> /\ m = room /\ m # 0
    BY <1>0, <1>2 DEF IsAsked
  <2>2. ready = 0 /\ Len(g.rest) = Len(content) - Len(g.data)
    BY <1>2, <2>1 DEF IsGiven
  <2>3. content = <<>>
    BY <1>2, <2>2 DEF TryAgain
  <2>4. Len(content) = 0
    BY <2>3
  <2>5. Len(g.rest) = 0
    BY <1>2, <2>2, <2>4
  <2> QED BY <1>0, <2>5, EmptySeq
<1>3. CASE ~SendContentLength /\ OutOf(g) = <<>>
  <2>1. Len(OutOf(g)) = 0
    BY <1>3
  <2>2. Len(OutOf(g)) = Len(head) + Len(FrameOf(g)) + n /\ Len(FrameOf(g)) = (IF Chunked THEN 1 ELSE 0)
    BY DEF IsOut
  <2>3. Len(head) \in Nat
    BY TypeFacts
  <2>4. ~Chunked /\ n = 0
    <3> DEFINE h == Len(head)
               f == Len(FrameOf(g))
    <3>1. 0 = h + f + n /\ h \in Nat /\ n \in Nat /\ f = (IF Chunked THEN 1 ELSE 0)
      BY <1>0, <2>1, <2>2, <2>3
    <3> HIDE DEF n, h, f
    <3>2. ~Chunked
      <4>1. ASSUME Chunked PROVE FALSE
        <5>1. f = 1
          BY <3>1, <4>1
        <5> QED BY ONLY <3>1, <5>1
      <4> QED BY <4>1
    <3>3. f = 0
      BY <3>1, <3>2
    <3>4. n = 0
      BY ONLY <3>1, <3>3
    <3> QED BY <3>2, <3>4
  <2>5. kind = "unknown"
    BY <1>3, <2>4 DEF SendContentLength
  <2> QED BY <1>2, <2>4, <2>5
<1>4. CASE ~Chunked /\ sentLength + n = contentLength
  <2>1. kind \notin {"basic", "template"}
    BY <1>4 DEF Chunked, Templated
  <2>2. /\ sentLength \in Nat /\ Len(content) = size - sentLength /\ size \in Nat
        /\ contentLength = (IF SendContentLength THEN size ELSE 0)
    BY <2>1, SourceIs
  <2>3. CASE SendContentLength
    <3>1. Len(g.rest) = Len(content) - n
      BY <2>1 DEF IsGiven
    <3>2. Len(g.rest) = 0
      <4>1. contentLength = size
        BY <2>2, <2>3
      <4> HIDE DEF n
      <4> QED BY <1>0, <1>4, <2>2, <3>1, <4>1
    <3> QED BY <1>0, <3>2, EmptySeq
  <2>4. CASE ~SendContentLength
    <3>1. kind = "unknown"
      BY <1>4, <2>4 DEF SendContentLength
    <3>2. n = 0
      <4>1. contentLength = 0
        BY <2>2, <2>4
      <4> HIDE DEF n
      <4> QED BY <1>0, <1>4, <2>2, <4>1
    <3> QED BY <1>2, <3>1, <3>2
  <2> QED BY <2>3, <2>4
<1> QED BY <1>1, <1>3, <1>4 DEF FillsLast

\* A response that nothing spoiled has room for what it writes.
LEMMA FillWritten ==
  ASSUME TypeOK, Kept, kind # "basic", kind' = kind, NEW phase, In(phase), Room(phase) \in Nat,
         NEW g, NEW m, IsGiven(g, m), IsAsked(m, Room(phase)), IsOut(g), IsFill(g, Room(phase)), Clean'
  PROVE  /\ Clean /\ g.met = {} /\ (Room(phase) = 0 => kind # "unknown")
         /\ wire' = wire \o OutOf(g)
<1>1. /\ (met \cup ((IF Room(phase) = 0 THEN {"full"} ELSE {}) \cup g.met)) \subseteq met'
      /\ (Len(OutOf(g)) <= Space /\ "refused" \notin met') => wire' = wire \o OutOf(g)
  BY DEF IsFill, IsWritten
<1>2. Clean
  BY <1>1 DEF Clean
<1>3. g.met = {}
  <2>1. g.met \subseteq {"full"} /\ g.met \subseteq Spoilt
    BY <1>1 DEF Clean, IsGiven
  <2> QED BY <2>1 DEF Spoilt
<1>4. Room(phase) = 0 => kind # "unknown"
  <2>1. ASSUME Room(phase) = 0, kind = "unknown" PROVE FALSE
    <3>1. "full" \in met'
      BY <1>1, <2>1
    <3> QED BY <2>1, <3>1 DEF Clean
  <2> QED BY <2>1
<1>5. phase # "headers" => head = <<>>
  BY <1>2 DEF In, Kept, ToldKept
<1> DEFINE r == Room(phase)
           h == Len(head)
           s == Space
           n == Len(g.data)
           f == Len(FrameOf(g))
<1>6. r + h = s /\ h \in Nat /\ s \in Nat /\ r \in Nat
  <2>1. h \in Nat /\ s \in Nat
    BY TypeFacts
  <2>2. CASE phase = "headers"
    <3>1. r = s - h
      BY <2>2 DEF Room
    <3> HIDE DEF r, s, h
    <3>2. r + h = s
      BY <2>1, <3>1
    <3> QED BY <2>1, <3>2 DEF r
  <2>3. CASE phase # "headers"
    <3>1. r = s /\ head = <<>>
      BY <1>5, <2>3 DEF Room
    <3>2. h = 0
      BY <3>1
    <3>3. r + h = s
      <4> HIDE DEF r, s, h
      <4> QED BY <2>1, <3>1, <3>2
    <3> QED BY <2>1, <3>3
  <2> QED BY <2>2, <2>3
<1>7. n + f <= r /\ n \in Nat /\ f \in Nat
  <2>1. n <= m /\ m \in Nat /\ m <= r /\ (Chunked => m + 1 = r) /\ n \in Nat /\ f = (IF Chunked THEN 1 ELSE 0)
    BY DEF IsGiven, IsAsked, IsOut
  <2> HIDE DEF r, n, f
  <2>2. CASE Chunked
    <3>1. f = 1 /\ n <= m /\ m \in Nat /\ m + 1 = r /\ n \in Nat
      BY <2>1, <2>2
    <3> QED BY ONLY <3>1
  <2>3. CASE ~Chunked
    <3>1. f = 0 /\ n <= m /\ m \in Nat /\ m <= r /\ n \in Nat /\ r \in Nat
      BY <1>6, <2>1, <2>3
    <3> QED BY ONLY <3>1
  <2> QED BY <2>2, <2>3
<1>8. Len(OutOf(g)) <= Space
  <2>1. Len(OutOf(g)) = h + f + n
    BY DEF IsOut
  <2> HIDE DEF h, f, n, r
  <2>2. h + f + n <= s
    <3> HIDE DEF s
    <3> QED BY <1>6, <1>7
  <2> QED BY <2>1, <2>2
<1>9. "refused" \notin met'
  BY DEF Clean
<1> QED BY <1>1, <1>2, <1>3, <1>4, <1>8, <1>9

\* Nothing becomes nothing.
LEMMA ExpandedEmpty == Expanded[<<>>] = <<>>
<1> DEFINE e == <<>>
<1>1. e \in Seq(Character) /\ Len(e) = 0
  OBVIOUS
<1> HIDE DEF e
<1>2. Marks(e, 1) = {}
  BY <1>1 DEF Marks
<1>3. Expanded[e] = e
  BY <1>1, <1>2, ExpandedIs
<1> QED BY <1>3 DEF e

\* Fill keeps the invariant: it waits for the last acknowledgement when there is
\* nothing more.
LEMMA FillKept ==
  ASSUME TypeOK, Kept, kind # "basic", UNCHANGED <<kind, size, contentLength, window>>, Heard,
         NEW phase, In(phase), Room(phase) \in Nat, ~(Chunked /\ Room(phase) <= 1), ~TryAgain, Fill(phase)
  PROVE  TypeOK' /\ Kept'
<1> DEFINE room == Room(phase)
           m == Asked(phase)
<1>1. PICK g : IsGiven(g, m) /\ IsAsked(m, room) /\ IsFill(g, room) /\ IsOut(g)
  BY FillIs
<1> HIDE DEF m
<1>2. /\ SourceKept' /\ TextKept'
      /\ content' \in Seq(Byte) /\ ready' \in 0..Len(content')
      /\ sentLength' \in IF kind = "template" THEN Nat ELSE 0..MaxContent + HeadLen
  <2> HIDE DEF room
  <2> QED BY <1>1, FillSource
<1>3. /\ head' = <<>> /\ content' = g.rest /\ state' = (IF FillsLast(g) THEN "wait_ack" ELSE "content") /\ up' = up
      /\ wire' \in Seq(Byte) /\ unacked' \in 0..window /\ writtenLength' \in 0..Len(wire') /\ met' \subseteq Met
  BY <1>1 DEF IsFill, IsWritten
<1>4. Sent
  <2>1. up' \in BOOLEAN
    BY <1>3 DEF TypeOK
  <2> QED BY <1>2, <1>3, <2>1 DEF Sent
<1>5. HeadKept'
  <2>1. Len(<<>>) = 0 /\ <<>> \in Seq(Byte)
    OBVIOUS
  <2>2. Unframed(<<>>)
    BY <2>1 DEF Unframed
  <2> QED BY <1>3, <2>2 DEF HeadKept
<1>6. Body' = Body /\ Told' = Told /\ Chunked' = Chunked
  BY SameResponse
<1>7. ASSUME Clean' PROVE /\ Clean /\ g.met = {} /\ (room = 0 => kind # "unknown") /\ wire' = wire \o OutOf(g)
  BY <1>1, <1>7, FillWritten
<1> HIDE DEF room
<1>8. ToldKept'
  <2>1. ASSUME Clean' PROVE (Plain(wire') \o <<>>) \o Rest' = FullHead \o Told'
    <3> DEFINE p == Plain(wire) \o head
               d == g.data
               r == Rest'
    <3>1. Plain(wire') = p \o d
      BY <1>1, <1>7, <2>1 DEF IsOut
    <3>2. p \o Rest = FullHead \o Told
      BY <1>7, <2>1 DEF Kept, ToldKept
    <3>3. d \o r = Rest
      <4>1. r = IF kind = "template" THEN Expanded[g.rest] ELSE g.rest
        BY <1>3 DEF Rest
      <4> QED BY <1>1, <1>7, <2>1, <4>1 DEF IsGiven
    <3>4. p \in Seq(Byte) /\ d \in Seq(Byte) /\ r \in Seq(Byte)
      <4>1. Plain(wire) \in Seq(Byte) /\ head \in Seq(Byte)
        BY PlainIsBytes DEF TypeOK
      <4>2. p \in Seq(Byte)
        BY <4>1, ConcatProperties
      <4>3. g.data \in Seq(Character) /\ g.rest \in Seq(Character)
        BY <1>1 DEF IsGiven
      <4>4. Expanded[g.rest] \in Seq(Character)
        BY <4>3, ExpandedIs
      <4>5. d \in Seq(Byte) /\ g.rest \in Seq(Byte)
        BY <4>3, CharacterIsByte
      <4>6. r \in Seq(Byte)
        <5>1. r = IF kind = "template" THEN Expanded[g.rest] ELSE g.rest
          BY <1>3 DEF Rest
        <5> DEFINE x == Expanded[g.rest]
        <5>2. x \in Seq(Byte)
          <6>1. x \in Seq(Character)
            BY <4>4
          <6> HIDE DEF x
          <6> QED BY <6>1, CharacterIsByte
        <5> QED BY <4>5, <5>1, <5>2
      <4> QED BY <4>2, <4>5, <4>6
    <3> HIDE DEF p, d, r
    <3>5. p \o d \in Seq(Byte)
      BY <3>4, ConcatProperties
    <3>6. (p \o d) \o <<>> = p \o d
      BY <3>5, ConcatEmptySeq
    <3>7. (p \o d) \o r = p \o (d \o r)
      BY ONLY <3>4, ConcatAssociative
    <3>8. (Plain(wire') \o <<>>) \o r = FullHead \o Told
      BY <3>1, <3>2, <3>3, <3>6, <3>7
    <3> QED BY <1>6, <3>8 DEF r
  <2>2. ASSUME Clean', FillsLast(g) PROVE Rest' = <<>>
    <3>1. g.met = {} /\ (room = 0 => kind # "unknown")
      BY <1>7, <2>2
    <3>2. g.rest = <<>>
      BY <1>1, <2>2, <3>1, FillLast
    <3> QED BY <1>3, <3>2, ExpandedEmpty DEF Rest
  <2>3. Waiting' => FillsLast(g)
    BY <1>3 DEF Waiting
  <2> QED BY <1>3, <2>1, <2>2, <2>3 DEF ToldKept
<1>9. ChunksKept'
  <2>1. ASSUME Chunked, Clean' PROVE ChunksOf(wire', <<>>)
    <3> DEFINE n == Len(g.data)
               c == << <<"chunk", n>> >>
               d == g.data
               b == wire \o head
    <3>1. ChunksOf(wire, head) /\ Unframed(head) /\ wire \in Seq(Byte) /\ head \in Seq(Byte)
      BY <1>7, <2>1 DEF Kept, ChunksKept, HeadKept, TypeOK
    <3>2. Upto(head, Len(head)) = head /\ From(head, Len(head)) = <<>> /\ Len(head) \in 0..Len(head)
      BY <3>1, Ends, LenProperties
    <3>3. ChunksOf(b, <<>>)
      <4>1. ChunksOf(wire \o Upto(head, Len(head)), From(head, Len(head)))
        BY <3>1, <3>2, HeadSent
      <4> QED BY <3>2, <4>1
    <3>4. b \in Seq(Byte) /\ d \in Seq(Character) /\ d \in Seq(Byte) /\ n \in Nat
      <4>1. d \in Seq(Character)
        BY <1>1 DEF IsGiven
      <4> QED BY <3>1, <4>1, ConcatProperties, CharacterIsByte, LenProperties
    <3>5. c \in Seq(Byte)
      <4>1. <<"chunk", n>> \in Byte
        BY <3>4 DEF Byte
      <4> QED BY <4>1
    <3>6. ChunksOf(Placed(b, c, d), <<>>)
      <4> HIDE DEF b
      <4> QED BY <3>3, <3>4, ChunkSent
    <3>7. wire' = wire \o ((head \o c) \o d)
      BY <1>7, <2>1 DEF OutOf, FrameOf
    <3> HIDE DEF n, c, d
    <3>8. wire \o ((head \o c) \o d) = b \o (c \o d)
      <4>1. wire \in Seq(Byte) /\ head \in Seq(Byte) /\ c \in Seq(Byte) /\ d \in Seq(Byte)
        BY <3>1, <3>4, <3>5
      <4>2. (head \o c) \o d = head \o (c \o d)
        <5>1. head \in Seq(Byte) /\ c \in Seq(Byte) /\ d \in Seq(Byte)
          BY <4>1
        <5> QED BY ONLY <5>1, ConcatAssociative
      <4> DEFINE x == c \o d
      <4>3. x \in Seq(Byte)
        BY <4>1, ConcatProperties
      <4> HIDE DEF x
      <4>4. (wire \o head) \o x = wire \o (head \o x)
        <5>1. wire \in Seq(Byte) /\ head \in Seq(Byte) /\ x \in Seq(Byte)
          BY <4>1, <4>3
        <5> QED BY ONLY <5>1, ConcatAssociative, SMTT(40)
      <4> QED BY <4>2, <4>4 DEF x
    <3> HIDE DEF b
    <3> QED BY <3>6, <3>7, <3>8 DEF Placed
  <2> QED BY <1>3, <1>6, <2>1 DEF ChunksKept
<1> QED BY <1>2, <1>4, <1>5, <1>8, <1>9, AbstractKept

\* _ack of AsyncAbstractResponse.
LEMMA AckAbstractKept ==
  ASSUME TypeOK, Kept, kind # "basic", UNCHANGED <<kind, size, contentLength, window>>, Heard,
         NEW phase, In(phase), AckAbstract(phase)
  PROVE  TypeOK' /\ Kept'
<1>1. CASE phase = "wait_ack"
  <2>1. state = "wait_ack" /\ AwaitAck
    BY <1>1 DEF In, AckAbstract
  <2> QED BY <2>1, AwaitAckKept
<1>2. CASE phase # "wait_ack" /\ phase = "headers" /\ Space < Len(head)
  <2>1. HeadPart
    BY <1>2 DEF AckAbstract
  <2> QED BY <1>2, <2>1, HeadPartKept
<1>3. CASE phase # "wait_ack" /\ ~(phase = "headers" /\ Space < Len(head))
  <2>1. CASE (Chunked /\ Room(phase) <= 1) \/ TryAgain
    <3>1. PutOff
      BY <1>3, <2>1 DEF AckAbstract
    <3> QED BY <1>3, <3>1, PutOffKept
  <2>2. CASE ~((Chunked /\ Room(phase) <= 1) \/ TryAgain)
    <3>1. Fill(phase)
      BY <1>3, <2>2 DEF AckAbstract
    <3>2. Room(phase) \in Nat
      <4>1. Space \in Nat /\ Len(head) \in Nat
        BY TypeFacts
      <4>2. CASE phase = "headers"
        <5>1. ~(Space < Len(head)) /\ Room(phase) = Space - Len(head)
          BY <1>3, <4>2 DEF Room
        <5> QED BY <4>1, <5>1
      <4>3. CASE phase # "headers"
        BY <4>1, <4>3 DEF Room
      <4> QED BY <4>2, <4>3
    <3> QED BY <2>2, <3>1, <3>2, FillKept
  <2> QED BY <2>1, <2>2
<1> QED BY <1>1, <1>2, <1>3

-----------------------------------------------------------------------------
(* Every step *)

\* send: the response begins.
LEMMA RespondKept ==
  ASSUME TypeOK, Kept, Respond
  PROVE  TypeOK' /\ Kept'
<1>1. state = "setup" /\ UNCHANGED <<kind, size, ackedLength, window, events>>
  BY DEF Respond
<1>2. Heard
  BY <1>1 DEF TypeOK, Heard
<1>3. CASE kind = "basic"
  <2>1. RespondBasic /\ UNCHANGED <<head, ready, up>>
    BY <1>3 DEF Respond
  <2>2. IsBasicStep
    BY <1>1, <1>3, <2>1, RespondBasicIs
  <2> QED BY <1>1, <1>2, <1>3, <2>1, <2>2, BasicStepKept
<1>4. CASE kind # "basic"
  <2>1. AckAbstract("headers") /\ UNCHANGED contentLength
    BY <1>4 DEF Respond
  <2>2. In("headers")
    BY <1>1 DEF In
  <2> QED BY <1>1, <1>2, <1>4, <2>1, <2>2, AckAbstractKept
<1> QED BY <1>3, <1>4

\* _ack of either class, of any length.
LEMMA AckKept ==
  ASSUME TypeOK, Kept, NEW len, Ack(len), Heard, state # "setup", ~Finished
  PROVE  TypeOK' /\ Kept'
<1>1. UNCHANGED <<kind, size, contentLength, window>>
  BY DEF Ack
<1>2. CASE kind = "basic"
  <2>1. AckBasic /\ UNCHANGED <<head, ready, up>>
    BY <1>2 DEF Ack
  <2>2. IsBasicStep
    BY <1>1, <1>2, <2>1, AckBasicIs
  <2> QED BY <1>1, <1>2, <2>1, <2>2, BasicStepKept
<1>3. CASE kind # "basic"
  <2>1. AckAbstract(state)
    BY <1>3 DEF Ack
  <2>2. In(state)
    BY DEF TypeOK, Finished, In
  <2> QED BY <1>1, <1>3, <2>1, <2>2, AckAbstractKept
<1> QED BY <1>2, <1>3

\* An acknowledgement reaches the response.
LEMMA OnAckKept ==
  ASSUME TypeOK, Kept, OnAck
  PROVE  TypeOK' /\ Kept'
<1>1. events # <<>> /\ state # "setup" /\ ~Finished /\ Ack(Head(events)) /\ events' = Tail(events)
  BY DEF OnAck
<1>2. events \in Seq(1..window) /\ Len(events) <= MaxEvents /\ MaxEvents \in Nat /\ window \in Nat /\ ackedLength \in Nat
  BY TypeFacts DEF TypeOK
<1>3. Head(events) \in 1..window /\ Tail(events) \in Seq(1..window) /\ Len(Tail(events)) = Len(events) - 1 /\ Len(events) \in Nat
  BY <1>1, <1>2, LenProperties
<1>4. ackedLength' \in Nat
  <2>1. ackedLength' = ackedLength + Head(events)
    BY <1>1 DEF Ack
  <2> QED BY <1>2, <1>3, <2>1
<1>5. events' \in Seq(1..window) /\ Len(events') <= MaxEvents
  BY <1>1, <1>2, <1>3
<1>6. Heard
  BY <1>4, <1>5 DEF Heard
<1> QED BY <1>1, <1>6, AckKept

\* The response is polled.
LEMMA OnPollKept ==
  ASSUME TypeOK, Kept, OnPoll
  PROVE  TypeOK' /\ Kept'
<1>1. state # "setup" /\ ~Finished /\ Ack(0) /\ UNCHANGED events
  BY DEF OnPoll
<1>2. ackedLength' \in Nat
  <2>1. ackedLength' = ackedLength + 0 /\ ackedLength \in Nat
    BY <1>1 DEF Ack, TypeOK
  <2> QED BY <2>1
<1>3. Heard
  BY <1>1, <1>2 DEF Heard, TypeOK
<1> QED BY <1>1, <1>3, AckKept

\* Every step of a response keeps the inductive invariant.
LEMMA StepKept == IInv /\ [Next]_vars => IInv'
<1> SUFFICES ASSUME IInv, [Next]_vars PROVE IInv'
  OBVIOUS
<1>1. TypeOK
  BY DEF IInv
<1>2. ASSUME up, Next PROVE TypeOK' /\ (Gone' \/ Kept')
  <2>1. Kept
    BY <1>2 DEF IInv, Gone
  <2>2. CASE Acknowledge
    BY <1>1, <2>1, <2>2, AcknowledgeKept
  <2>3. CASE Disconnect
    BY <1>1, <2>3, DisconnectGone
  <2>4. CASE Supply
    BY <1>1, <2>1, <2>4, SupplyKept
  <2>5. ASSUME NEW n \in 1..MaxContent, PrintTo(n) PROVE TypeOK' /\ Kept'
    BY <1>1, <2>1, <2>5, PrintToKept
  <2>6. CASE Respond
    BY <1>1, <2>1, <2>6, RespondKept
  <2>7. CASE OnAck
    BY <1>1, <2>1, <2>7, OnAckKept
  <2>8. CASE OnAckFinished
    BY <1>1, <2>1, <2>8, OnAckFinishedKept
  <2>9. CASE OnPoll
    BY <1>1, <2>1, <2>9, OnPollKept
  <2> QED BY <1>2, <2>2, <2>3, <2>4, <2>5, <2>6, <2>7, <2>8, <2>9 DEF Next
<1>3. Next => up
  BY DEF Next, Acknowledge, Disconnect, Supply, PrintTo, Respond, OnAck, OnAckFinished, OnPoll
<1>4. CASE UNCHANGED vars
  <2>1. UNCHANGED <<kind, size, state, head, content, ready, contentLength, sentLength, ackedLength, writtenLength,
                    window, unacked, wire, events, up, met>>
    BY <1>4 DEF vars, responseVars
  <2>2. TypeOK'
    <3>1. Sizes(kind)' = Sizes(kind) /\ Windows(kind)' = Windows(kind)
      BY <2>1, SameResponse
    <3> QED BY <1>1, <2>1, <3>1 DEF TypeOK
  <2>3. CASE Gone
    <3>1. Gone'
      BY <2>1, <2>3 DEF Gone
    <3> QED BY <2>2, <3>1 DEF IInv
  <2>4. CASE Kept
    <3>1. Kept'
      BY <2>1, <2>4, SameKept
    <3> QED BY <2>2, <3>1 DEF IInv
  <2> QED BY <2>3, <2>4 DEF IInv
<1>5. CASE Next
  BY <1>2, <1>3, <1>5 DEF IInv
<1> QED BY <1>4, <1>5

\* A part that something more makes the whole is how the whole begins.
LEMMA PrefixOf ==
  ASSUME NEW S, NEW s \in Seq(S), NEW t \in Seq(S)
  PROVE  IsPrefix(s, s \o t)
<1> DEFINE x == s \o t
           l == Len(s)
           m == Len(t)
<1>1. /\ x \in Seq(S) /\ Len(x) = l + m /\ l \in Nat /\ m \in Nat
      /\ \A i \in 1..(l + m) : x[i] = IF i <= l THEN s[i] ELSE t[i - l]
  BY ConcatProperties, LenProperties
<1> HIDE DEF x, l, m
<1>2. l <= Len(x) /\ l \in 0..Len(x)
  BY <1>1
<1> DEFINE u == Upto(x, l)
<1>3. u \in Seq(S) /\ Len(u) = l /\ \A i \in 1..l : u[i] = x[i]
  BY <1>1, <1>2, Cuts
<1> HIDE DEF u
<1>4. \A i \in 1..l : u[i] = s[i]
  <2>1. \A i \in 1..l : i \in 1..(l + m) /\ i <= l
    BY <1>1
  <2> QED BY <1>1, <1>3, <2>1
<1>5. u = s
  BY <1>3, <1>4, SeqEqual DEF l
<1>6. SubSeq(x, 1, l) = s
  BY <1>5 DEF u, Upto
<1> QED BY <1>2, <1>6 DEF IsPrefix, x, l

\* What is unframed is plain.
LEMMA PlainUnframed ==
  ASSUME NEW t, Unframed(t)
  PROVE  Plain(t) = t
<1>1. t \in Seq(Byte)
  BY DEF Unframed
<1> DEFINE e == <<>>
<1>2. e \in Seq(Byte)
  OBVIOUS
<1>3. Plain(e) = e /\ e \o t = t
  BY <1>1, PlainEmpty, ConcatEmptySeq
<1> HIDE DEF e
<1>4. Plain(e \o t) = Plain(e) \o t
  BY <1>2, PlainJoined
<1> QED BY <1>3, <1>4

\* Chunks that are whole are framed.
LEMMA ChunksFramed ==
  ASSUME TypeOK, NEW h, ChunksOf(wire, h)
  PROVE  Framed
<1>1. DOMAIN wire = 1..Len(wire)
  BY LenProperties DEF TypeOK
<1> QED BY <1>1 DEF ChunksOf, Framing, Framed

\* What the inductive invariant says of a basic response: the wire begins the whole.
LEMMA BasicIntact ==
  ASSUME TypeOK, Kept, kind = "basic", Clean
  PROVE  IsPrefix(Plain(wire), FullHead \o Told) /\ (Waiting => Plain(wire) = FullHead \o Told)
<1> DEFINE all == FullHead \o Body
<1>1. Unframed(all) /\ all \in Seq(Byte) /\ Told = Body
  <2>1. Body \in Seq(Character) /\ Told = Body
    <3>1. kind \in Kind /\ size \in Sizes(kind)
      BY DEF TypeOK
    <3> QED BY <3>1, BodyIs DEF Told
  <2>2. Unframed(FullHead) /\ Unframed(Body) /\ FullHead \in Seq(Byte) /\ Body \in Seq(Byte)
    BY <2>1, FullHeadIs, CharacterIsByte
  <2>3. all \in Seq(Byte)
    BY <2>2, ConcatProperties
  <2>4. Plain(all) = all
    <3>1. Plain(FullHead) = FullHead
      BY <2>2, PlainUnframed
    <3>2. Plain(FullHead \o Body) = Plain(FullHead) \o Body
      BY <2>2, PlainJoined
    <3> QED BY <3>1, <3>2
  <2>5. Unframed(all)
    <3> DEFINE f == FullHead
               b == Body
               x == all
    <3>1. /\ f \in Seq(Byte) /\ b \in Seq(Byte) /\ Len(f) \in Nat /\ Len(b) \in Nat
          /\ \A i \in 1..Len(f) : ~Framing(f[i])
          /\ \A i \in 1..Len(b) : ~Framing(b[i])
      BY <2>2, LenProperties DEF Unframed
    <3> HIDE DEF f, b
    <3>2. Len(x) = Len(f) + Len(b) /\ \A i \in 1..(Len(f) + Len(b)) : x[i] = IF i <= Len(f) THEN f[i] ELSE b[i - Len(f)]
      BY <3>1, ConcatProperties DEF f, b
    <3> HIDE DEF x
    <3>3. ASSUME NEW i \in 1..Len(x) PROVE ~Framing(x[i])
      <4>1. CASE i <= Len(f)
        <5>1. i \in 1..Len(f) /\ x[i] = f[i]
          BY <3>1, <3>2, <4>1
        <5> QED BY <3>1, <5>1
      <4>2. CASE ~(i <= Len(f))
        <5>1. i - Len(f) \in 1..Len(b) /\ x[i] = b[i - Len(f)]
          BY <3>1, <3>2, <4>2
        <5> QED BY <3>1, <5>1
      <4> QED BY <4>1, <4>2
    <3> QED BY <2>3, <3>3 DEF Unframed, x
  <2> QED BY <2>1, <2>3, <2>5
<1>2. wire \in Seq(Byte) /\ content \in Seq(Byte)
  BY DEF TypeOK
<1>3. state \in {"setup", "content"} \/ Waiting
  BY DEF TypeOK, Kept, BasicKept, Waiting
<1>4. CASE Waiting
  <2>1. wire = all
    BY <1>4 DEF Kept, BasicKept
  <2> HIDE DEF all
  <2>2. Plain(wire) = all
    BY <1>1, <2>1, PlainUnframed
  <2>3. all \o <<>> = all /\ <<>> \in Seq(Byte)
    BY <1>1, ConcatEmptySeq
  <2>4. IsPrefix(all, all \o <<>>)
    BY <1>1, <2>3, PrefixOf
  <2> QED BY <1>1, <2>2, <2>3, <2>4 DEF all
<1>5. ASSUME NEW rest \in Seq(Byte), wire \o rest = all PROVE IsPrefix(Plain(wire), all)
  <2>1. IsPrefix(wire, all)
    <3>1. IsPrefix(wire, wire \o rest)
      BY <1>2, PrefixOf
    <3> QED BY <1>5, <3>1
  <2>2. Unframed(wire)
    <3> HIDE DEF all
    <3>1. /\ Len(all) = Len(wire) + Len(rest) /\ Len(wire) \in Nat /\ Len(rest) \in Nat
          /\ \A i \in 1..(Len(wire) + Len(rest)) : all[i] = IF i <= Len(wire) THEN wire[i] ELSE rest[i - Len(wire)]
      BY <1>2, <1>5, ConcatProperties, LenProperties
    <3>2. ASSUME NEW i \in 1..Len(wire) PROVE ~Framing(wire[i])
      <4>1. i \in 1..Len(all) /\ all[i] = wire[i]
        BY <3>1
      <4> QED BY <1>1, <4>1 DEF Unframed
    <3> QED BY <1>2, <3>2 DEF Unframed
  <2>3. Plain(wire) = wire
    BY <2>2, PlainUnframed
  <2> QED BY <2>1, <2>3
<1>6. CASE state = "content"
  <2>1. wire \o content = all
    BY <1>6 DEF Kept, BasicKept
  <2>2. IsPrefix(Plain(wire), all)
    <3> HIDE DEF all
    <3> QED BY <1>2, <1>5, <2>1
  <2>3. ~Waiting
    BY <1>6 DEF Waiting
  <2> QED BY <1>1, <2>2, <2>3
<1>7. CASE state = "setup"
  <2>1. wire = <<>>
    BY <1>7 DEF Kept, Unbegun
  <2> HIDE DEF all
  <2>2. wire \o all = all
    BY <1>1, <2>1, ConcatEmptySeq
  <2>3. IsPrefix(Plain(wire), all)
    BY <1>1, <1>5, <2>2
  <2>4. ~Waiting
    BY <1>7 DEF Waiting
  <2> QED BY <1>1, <2>3, <2>4 DEF all
<1> QED BY <1>3, <1>4, <1>6, <1>7

\* What it says of a response that reads from a source.
LEMMA AbstractIntact ==
  ASSUME TypeOK, Kept, kind # "basic", Clean
  PROVE  IsPrefix(Plain(wire), FullHead \o Told) /\ (Waiting => Plain(wire) = FullHead \o Told)
<1> DEFINE p == Plain(wire)
           r == Rest
           h == head
           all == FullHead \o Told
<1>1. (p \o h) \o r = all /\ (Waiting => h = <<>> /\ r = <<>>)
  BY DEF Kept, ToldKept, Waiting
<1>2. p \in Seq(Byte) /\ h \in Seq(Byte) /\ r \in Seq(Byte)
  <2>1. p \in Seq(Byte) /\ h \in Seq(Byte)
    BY PlainIsBytes DEF TypeOK
  <2>2. CASE kind = "template"
    <3> DEFINE x == Expanded[content]
    <3>1. r = x
      BY <2>2 DEF Rest
    <3>2. x \in Seq(Character)
      BY <2>2, ExpandedIs DEF Kept, TextKept
    <3> HIDE DEF x, r
    <3> QED BY <2>1, <3>1, <3>2, CharacterIsByte
  <2>3. CASE kind # "template"
    BY <2>1, <2>3 DEF Rest, TypeOK
  <2> QED BY <2>2, <2>3
<1> HIDE DEF p, h, r, all
<1>3. (p \o h) \o r = p \o (h \o r) /\ h \o r \in Seq(Byte)
  <2>1. (p \o h) \o r = p \o (h \o r)
    BY ONLY <1>2, ConcatAssociative
  <2> QED BY <1>2, <2>1, ConcatProperties
<1>4. IsPrefix(p, all)
  <2> DEFINE t == h \o r
  <2>1. t \in Seq(Byte) /\ p \o t = all
    BY <1>1, <1>3
  <2> HIDE DEF t
  <2>2. IsPrefix(p, p \o t)
    BY <1>2, <2>1, PrefixOf
  <2> QED BY <2>1, <2>2
<1>5. Waiting => p = all
  <2>1. p \o <<>> = p
    BY <1>2, ConcatEmptySeq
  <2> QED BY <1>1, <2>1
<1> QED BY <1>4, <1>5 DEF p, all

\* The inductive invariant has the response reach the browser intact.
LEMMA IInvIntact == IInv => StreamIntact
<1> SUFFICES ASSUME IInv, Clean
             PROVE  /\ IsPrefix(Plain(wire), FullHead \o Told)
                    /\ Chunked => Framed
                    /\ Waiting => Plain(wire) = FullHead \o Told
  BY DEF StreamIntact, Clean, Waiting
<1>1. TypeOK
  BY DEF IInv
<1>2. CASE Gone
  <2>1. wire = <<>> /\ ~Waiting /\ HeadLen \in Nat
    BY <1>2, BoundAssumption DEF Gone, Waiting
  <2>2. FullHead \o Told \in Seq(Byte)
    <3>1. Told \in Seq(Byte)
      <4>1. kind \in Kind /\ size \in Sizes(kind)
        BY <1>1 DEF TypeOK
      <4>2. Told \in Seq(Character)
        BY <4>1, BodyIs
      <4> DEFINE t == Told
      <4> HIDE DEF t
      <4>3. t \in Seq(Byte)
        BY <4>2, CharacterIsByte DEF t
      <4> QED BY <4>3 DEF t
    <3> QED BY <3>1, FullHeadIs, ConcatProperties
  <2>3. IsPrefix(Plain(wire), FullHead \o Told)
    <3> DEFINE t == FullHead \o Told
               e == <<>>
    <3>1. t \in Seq(Byte) /\ e \in Seq(Byte) /\ e \o t = t
      BY <2>2, ConcatEmptySeq
    <3> HIDE DEF t, e
    <3>2. IsPrefix(e, e \o t)
      BY <3>1, PrefixOf
    <3>3. Plain(wire) = e
      BY <2>1, PlainEmpty DEF e
    <3> QED BY <3>1, <3>2, <3>3 DEF t
  <2>4. Framed
    <3>1. Len(wire) = 0 /\ DOMAIN wire = {}
      BY <2>1
    <3> QED BY <2>1, <3>1 DEF Framed
  <2> QED BY <2>1, <2>3, <2>4
<1>3. CASE Kept
  <2>1. IsPrefix(Plain(wire), FullHead \o Told) /\ (Waiting => Plain(wire) = FullHead \o Told)
    BY <1>1, <1>3, BasicIntact, AbstractIntact
  <2>2. ASSUME Chunked PROVE Framed
    BY <1>1, <1>3, <2>2, ChunksFramed DEF Kept, ChunksKept
  <2> QED BY <2>1, <2>2
<1> QED BY <1>2, <1>3 DEF IInv

-----------------------------------------------------------------------------
(* The theorems *)

\* The variables of a response keep their types.
THEOREM TypeCorrect == Spec => []TypeOK
<1>1. IInv => TypeOK
  BY DEF IInv
<1> QED BY <1>1, InitKept, StepKept, PTL DEF Spec

\* Whatever the kind of response, the head, the content, the window, the files
\* of templates and the values of their names, head and content reach the
\* browser in order, each byte once, and all of them before the response waits
\* for its last acknowledgement, unless one of the things that StreamIntact
\* names happens.
THEOREM StreamStaysIntact == Spec => []StreamIntact
<1> QED BY InitKept, StepKept, IInvIntact, PTL DEF Spec
=============================================================================
