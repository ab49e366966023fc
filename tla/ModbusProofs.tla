------------------------------ MODULE ModbusProofs ------------------------------
(*****************************************************************************)
(* Proofs about modbus-esp: ModbusRegisters, for any registers, values,      *)
(* callbacks and requests, and ModbusRTUNode, for any slaves and any         *)
(* requests. The two share no variable; they are proved side by side.        *)
(*                                                                           *)
(* What the callbacks make of a value, the table after a multiple write      *)
(* and the list without some callbacks are recursive functions of a          *)
(* position. Recursion says that such a function exists, from the least      *)
(* position where it would not; each of the three is then known by its       *)
(* equation, and facts about it are proved by Induction on the position.     *)
(*                                                                           *)
(* On the bus a frame is taken whole or not at all, and every one has a      *)
(* single head: so the heads that can still become a callback are counted,   *)
(* of the requests a slave has yet to take and of the responses the master   *)
(* has yet to. While nothing was refused, unawaited or timed out there is    *)
(* at most one, and it is of the request that is pending.                    *)
(*****************************************************************************)
EXTENDS ModbusRegisters, ModbusRTUNode, SequenceTheorems, NaturalsInduction, WellFoundedInduction, TLAPS

(* Induction and recursion over 0..N *)

LEMMA Induction ==
  ASSUME NEW N \in Nat, NEW S, 0 \in S, \A k \in 1..N : k - 1 \in S => k \in S
  PROVE  \A k \in 0..N : k \in S
<1> DEFINE R == OpToRel(<, Nat)
           T == {k \in 0..N : k \notin S}
<1>1. IsWellFoundedOn(R, Nat)
  BY NatLessThanWellFounded
<1>2. \A x, y \in Nat : <<x, y>> \in R <=> x < y
  BY DEF OpToRel
<1>3. T \subseteq Nat
  BY DEF T
<1> HIDE DEF R, T
<1>4. CASE T # {}
  <2>1. PICK x \in T : \A y \in T : <<y, x>> \notin R
    BY <1>1, <1>3, <1>4, WFMin
  <2>2. x \in 1..N /\ x - 1 \in 0..N /\ x \notin S
    BY DEF T
  <2>3. x - 1 \in T
    BY <2>2 DEF T
  <2>4. x \in Nat /\ x - 1 \in Nat /\ x - 1 < x
    BY <2>2
  <2>5. <<x - 1, x>> \in R
    BY <1>2, <2>4
  <2> QED BY <2>1, <2>3, <2>5
<1> QED BY <1>4 DEF T

IsStep(step, N, V) == step \in [(1..N) \X V -> V]
IsIteration(h, N, V, base, step) ==
  h \in [0..N -> V] /\ h[0] = base /\ \A k \in 1..N : h[k] = step[<<k, h[k - 1]>>]

LEMMA Recursion ==
  ASSUME NEW V, NEW N \in Nat, NEW base \in V, NEW step, IsStep(step, N, V)
  PROVE  \E h : IsIteration(h, N, V, base, step)
<1>0. step \in [(1..N) \X V -> V]
  BY DEF IsStep
<1> DEFINE S == {n \in Nat : \E h \in [0..n -> V] :
                   h[0] = base /\ \A k \in 1..n : h[k] = step[<<k, h[k - 1]>>]}
<1>1. 0 \in S
  <2> DEFINE g == [k \in 0..0 |-> base]
  <2>1. g \in [0..0 -> V] /\ g[0] = base /\ \A k \in 1..0 : g[k] = step[<<k, g[k - 1]>>]
    OBVIOUS
  <2> QED BY <2>1
<1>2. ASSUME NEW k \in 1..N, k - 1 \in S PROVE k \in S
  <2>1. PICK h \in [0..(k - 1) -> V] :
          h[0] = base /\ \A j \in 1..(k - 1) : h[j] = step[<<j, h[j - 1]>>]
    BY <1>2
  <2> DEFINE g == [j \in 0..k |-> IF j = k THEN step[<<k, h[k - 1]>>] ELSE h[j]]
  <2>2. step[<<k, h[k - 1]>>] \in V
    <3>1. h[k - 1] \in V
      OBVIOUS
    <3> QED BY <1>0, <3>1
  <2>3. g \in [0..k -> V]
    BY <2>2
  <2>4. g[0] = base /\ g[k] = step[<<k, g[k - 1]>>]
    <3>1. g[0] = h[0] /\ g[k - 1] = h[k - 1] /\ g[k] = step[<<k, h[k - 1]>>]
      OBVIOUS
    <3> QED BY <2>1, <3>1
  <2>5. ASSUME NEW j \in 1..k, j # k PROVE g[j] = step[<<j, g[j - 1]>>]
    <3>1. j \in 1..(k - 1) /\ j \in 0..k /\ j - 1 \in 0..k /\ j - 1 # k
      BY <2>5
    <3>2. g[j] = h[j] /\ g[j - 1] = h[j - 1]
      BY <3>1
    <3> QED BY <2>1, <3>1, <3>2
  <2> HIDE DEF g
  <2>6. \A j \in 1..k : g[j] = step[<<j, g[j - 1]>>]
    BY <2>4, <2>5
  <2>7. \E f \in [0..k -> V] : f[0] = base /\ \A j \in 1..k : f[j] = step[<<j, f[j - 1]>>]
    BY <2>3, <2>4, <2>6
  <2> QED BY <2>7
<1> HIDE DEF S
<1>3. \A k \in 0..N : k \in S
  BY <1>1, <1>2, Induction
<1>4. N \in S
  BY <1>3
<1> QED BY <1>4 DEF S, IsIteration
-----------------------------------------------------------------------------
(* The recursive functions of the model *)

LEMMA CalledValue ==
  ASSUME callbacks \in Seq(TCallback), NEW event, NEW a, NEW old \in Val, NEW value \in Val
  PROVE  /\ Called(event, a, old, value) \in Val
         /\ ~Observed(a) => Called(event, a, old, value) = value
<1> DEFINE N == Len(callbacks)
           acts == {k \in 1..N : callbacks[k].type = event /\ callbacks[k].address = a}
           app == [k \in 1..N |-> callbacks[k].cb]
           step == [x \in (1..N) \X Val |-> IF x[1] \in acts THEN app[x[1]][<<old, x[2]>>] ELSE x[2]]
           Eq(f) == f = [k \in 0..N |->
                      IF k = 0 THEN value
                      ELSE IF callbacks[k].type = event /\ callbacks[k].address = a
                           THEN callbacks[k].cb[<<old, f[k - 1]>>]
                      ELSE f[k - 1]]
           after == CHOOSE f : Eq(f)
<1>1. N \in Nat
  OBVIOUS
<1>2. \A k \in 1..N : app[k] \in [Val \X Val -> Val]
  <2>1. \A k \in 1..N : callbacks[k] \in TCallback
    OBVIOUS
  <2> QED BY <2>1, CbAssumption DEF TCallback
<1>3. step \in [(1..N) \X Val -> Val]
  <2>1. ASSUME NEW x \in (1..N) \X Val
        PROVE  (IF x[1] \in acts THEN app[x[1]][<<old, x[2]>>] ELSE x[2]) \in Val
    <3>1. x[1] \in 1..N /\ x[2] \in Val
      OBVIOUS
    <3>2. app[x[1]] \in [Val \X Val -> Val]
      BY <1>2, <3>1
    <3> HIDE DEF app, acts
    <3> QED BY <3>1, <3>2
  <2> HIDE DEF app, acts
  <2> QED BY <2>1
<1>4. \A k \in 1..N, v \in Val : step[<<k, v>>] = IF k \in acts THEN app[k][<<old, v>>] ELSE v
  <2> HIDE DEF app, acts
  <2> QED OBVIOUS
<1>5. /\ cbEnabled => Called(event, a, old, value) = after[N]
      /\ ~cbEnabled => Called(event, a, old, value) = value
  BY DEF Called
<1>6. \A k \in 1..N : /\ app[k] = callbacks[k].cb
                      /\ k \in acts <=> callbacks[k].type = event /\ callbacks[k].address = a
  OBVIOUS
<1>7. ~Observed(a) /\ cbEnabled => acts = {}
  BY DEF Observed
<1> HIDE DEF N, step, acts, app, after
<1>8. PICK h : IsIteration(h, N, Val, value, step)
  BY <1>1, <1>3, Recursion DEF IsStep
<1>9. h \in [0..N -> Val] /\ h[0] = value
  BY <1>8 DEF IsIteration
<1>10. ASSUME NEW k \in 1..N
       PROVE  h[k] = IF k \in acts THEN app[k][<<old, h[k - 1]>>] ELSE h[k - 1]
  <2>1. k - 1 \in 0..N /\ h[k] = step[<<k, h[k - 1]>>]
    BY <1>1, <1>8 DEF IsIteration
  <2> QED BY <1>4, <1>9, <2>1
<1>11. Eq(h)
  <2>1. ASSUME NEW k \in 0..N
        PROVE  h[k] = IF k = 0 THEN value
                      ELSE IF callbacks[k].type = event /\ callbacks[k].address = a
                           THEN callbacks[k].cb[<<old, h[k - 1]>>]
                      ELSE h[k - 1]
    <3>1. CASE k = 0
      BY <1>9, <3>1
    <3>2. CASE k # 0
      <4>1. k \in 1..N
        BY <1>1, <3>2
      <4> QED BY <1>6, <1>10, <3>2, <4>1
    <3> QED BY <3>1, <3>2
  <2> QED BY <1>9, <2>1
<1>12. Eq(after)
  <2> HIDE DEF Eq
  <2> QED BY <1>11 DEF after
<1>13. after[0] = value
  BY <1>1, <1>12
<1>14. ASSUME NEW k \in 1..N
       PROVE  after[k] = IF k \in acts THEN app[k][<<old, after[k - 1]>>] ELSE after[k - 1]
  <2>1. k \in 0..N /\ k # 0
    BY <1>1
  <2>2. after[k] = IF callbacks[k].type = event /\ callbacks[k].address = a
                   THEN callbacks[k].cb[<<old, after[k - 1]>>] ELSE after[k - 1]
    BY <1>12, <2>1
  <2> QED BY <1>6, <2>2
<1> HIDE DEF Eq
<1>15. after[N] \in Val
  <2> DEFINE S == {k \in 0..N : after[k] \in Val}
  <2>1. 0 \in S
    BY <1>1, <1>13
  <2>2. ASSUME NEW k \in 1..N, k - 1 \in S PROVE k \in S
    <3>1. after[k - 1] \in Val /\ k \in 0..N
      BY <1>1, <2>2
    <3>2. app[k] \in [Val \X Val -> Val]
      BY <1>2
    <3>3. after[k] \in Val
      BY <1>14, <3>1, <3>2
    <3> QED BY <3>1, <3>3
  <2> HIDE DEF S
  <2>3. \A k \in 0..N : k \in S
    BY <1>1, <2>1, <2>2, Induction
  <2> QED BY <1>1, <2>3 DEF S
<1>16. ASSUME ~Observed(a), cbEnabled PROVE after[N] = value
  <2> DEFINE S == {k \in 0..N : after[k] = value}
  <2>1. 0 \in S
    BY <1>1, <1>13
  <2>2. ASSUME NEW k \in 1..N, k - 1 \in S PROVE k \in S
    <3>1. after[k - 1] = value /\ k \in 0..N
      BY <1>1, <2>2
    <3>2. k \notin acts
      BY <1>7, <1>16
    <3>3. after[k] = value
      BY <1>14, <3>1, <3>2
    <3> QED BY <3>1, <3>3
  <2> HIDE DEF S
  <2>3. \A k \in 0..N : k \in S
    BY <1>1, <2>1, <2>2, Induction
  <2> QED BY <1>1, <2>3 DEF S
<1> QED BY <1>5, <1>15, <1>16

\* What is left of the callbacks are callbacks of the list that are not in gone.
LEMMA CallbacksLeft ==
  ASSUME callbacks \in Seq(TCallback), NEW gone, NEW left, left = CallbacksWithout(gone)
  PROVE  /\ left \in Seq(TCallback)
         /\ \A i \in DOMAIN left : left[i] \notin gone /\ \E j \in DOMAIN callbacks : left[i] = callbacks[j]
<1> DEFINE N == Len(callbacks)
           Stay == {e \in TCallback : e \notin gone /\ \E j \in 1..N : e = callbacks[j]}
           step == [x \in (1..N) \X Seq(Stay) |->
                      IF callbacks[x[1]] \in gone THEN x[2] ELSE Append(x[2], callbacks[x[1]])]
           Eq(f) == f = [k \in 0..N |->
                      IF k = 0 THEN <<>>
                      ELSE IF callbacks[k] \in gone THEN f[k - 1]
                      ELSE Append(f[k - 1], callbacks[k])]
           kept == CHOOSE f : Eq(f)
<1>1. N \in Nat /\ DOMAIN callbacks = 1..N
  OBVIOUS
<1>2. \A k \in 1..N : callbacks[k] \notin gone => callbacks[k] \in Stay
  OBVIOUS
<1>3. left = kept[N]
  BY DEF CallbacksWithout
<1>4. \A e \in Stay : e \in TCallback /\ e \notin gone /\ \E j \in 1..N : e = callbacks[j]
  OBVIOUS
<1> HIDE DEF N, Stay, kept
<1>5. \A k \in 1..N, s \in Seq(Stay) :
        /\ step[<<k, s>>] = IF callbacks[k] \in gone THEN s ELSE Append(s, callbacks[k])
        /\ step[<<k, s>>] \in Seq(Stay)
  BY <1>2
<1>6. IsStep(step, N, Seq(Stay))
  <2>1. ASSUME NEW x \in (1..N) \X Seq(Stay)
        PROVE  (IF callbacks[x[1]] \in gone THEN x[2] ELSE Append(x[2], callbacks[x[1]])) \in Seq(Stay)
    <3>1. x[1] \in 1..N /\ x[2] \in Seq(Stay)
      OBVIOUS
    <3> QED BY <1>2, <3>1
  <2> QED BY <2>1 DEF IsStep
<1> HIDE DEF step
<1>7. <<>> \in Seq(Stay)
  OBVIOUS
<1>8. PICK h : IsIteration(h, N, Seq(Stay), <<>>, step)
  BY <1>1, <1>6, <1>7, Recursion
<1>9. h \in [0..N -> Seq(Stay)] /\ h[0] = <<>>
  BY <1>8 DEF IsIteration
<1>10. ASSUME NEW k \in 1..N
       PROVE  h[k] = IF callbacks[k] \in gone THEN h[k - 1] ELSE Append(h[k - 1], callbacks[k])
  <2>1. k - 1 \in 0..N /\ h[k] = step[<<k, h[k - 1]>>]
    BY <1>1, <1>8 DEF IsIteration
  <2>2. h[k - 1] \in Seq(Stay)
    BY <1>9, <2>1
  <2> QED BY <1>5, <2>1, <2>2
<1>11. Eq(h)
  <2>1. ASSUME NEW k \in 0..N
        PROVE  h[k] = IF k = 0 THEN <<>>
                      ELSE IF callbacks[k] \in gone THEN h[k - 1]
                      ELSE Append(h[k - 1], callbacks[k])
    <3>1. CASE k = 0
      BY <1>9, <3>1
    <3>2. CASE k # 0
      <4>1. k \in 1..N
        BY <1>1, <3>2
      <4> QED BY <1>10, <3>2, <4>1
    <3> QED BY <3>1, <3>2
  <2> QED BY <1>9, <2>1
<1>12. Eq(kept)
  <2> HIDE DEF Eq
  <2> QED BY <1>11 DEF kept
<1>13. kept[0] = <<>>
  BY <1>1, <1>12
<1>14. ASSUME NEW k \in 1..N
       PROVE  kept[k] = IF callbacks[k] \in gone THEN kept[k - 1] ELSE Append(kept[k - 1], callbacks[k])
  <2>1. k \in 0..N /\ k # 0
    BY <1>1
  <2> QED BY <1>12, <2>1
<1> HIDE DEF Eq
<1>15. kept[N] \in Seq(Stay)
  <2> DEFINE S == {k \in 0..N : kept[k] \in Seq(Stay)}
  <2>1. 0 \in S
    <3>1. kept[0] \in Seq(Stay)
      BY <1>7, <1>13
    <3> QED BY <1>1, <3>1
  <2>2. ASSUME NEW k \in 1..N, k - 1 \in S PROVE k \in S
    <3>1. kept[k - 1] \in Seq(Stay) /\ k \in 0..N
      BY <1>1, <2>2
    <3>2. kept[k] \in Seq(Stay)
      <4> DEFINE s == kept[k - 1]
      <4>1. s \in Seq(Stay) /\ kept[k] = IF callbacks[k] \in gone THEN s ELSE Append(s, callbacks[k])
        BY <1>14, <3>1
      <4> HIDE DEF s
      <4>2. CASE callbacks[k] \in gone
        BY <4>1, <4>2
      <4>3. CASE callbacks[k] \notin gone
        BY <1>2, <4>1, <4>3
      <4> QED BY <4>2, <4>3
    <3> QED BY <3>1, <3>2
  <2> HIDE DEF S
  <2>3. \A k \in 0..N : k \in S
    BY <1>1, <2>1, <2>2, Induction
  <2> QED BY <1>1, <2>3 DEF S
<1> QED BY <1>1, <1>3, <1>4, <1>15

-----------------------------------------------------------------------------
(* Addresses and tables *)

Table == [Address -> Val \cup {Absent}]
SameRegisters(t, u) == \A b \in Address : u[b] = Absent <=> t[b] = Absent

LEMMA BitValue == \A v \in Val : AsBit(v) \in Val
BY ValAssumption DEF AsBit

LEMMA PlusAddress ==
  ASSUME NEW a \in Address, NEW k \in Nat
  PROVE  Plus(a, k) \in Address /\ Plus(a, k).address = (a.address + k) % Space
BY SpaceAssumption DEF Plus, Address

\* One lap of the address space meets no address twice.
LEMMA Lap ==
  ASSUME NEW x \in 0..(Space - 1), NEW k \in 0..(Space - 1)
  PROVE  (x + k) % Space = IF x + k < Space THEN x + k ELSE x + k - Space
BY SpaceAssumption

LEMMA PlusDistinct ==
  ASSUME NEW a \in Address, NEW j \in 0..(Space - 1), NEW k \in 0..(Space - 1), j # k
  PROVE  Plus(a, j) # Plus(a, k)
<1>1. a.address \in 0..(Space - 1) /\ j \in Nat /\ k \in Nat
  BY SpaceAssumption DEF Address
<1>2. (a.address + j) % Space # (a.address + k) % Space
  <2> DEFINE x == a.address
  <2>1. x \in 0..(Space - 1)
    BY <1>1
  <2> HIDE DEF x
  <2>2. (x + j) % Space = IF x + j < Space THEN x + j ELSE x + j - Space
    BY <2>1, Lap
  <2>3. (x + k) % Space = IF x + k < Space THEN x + k ELSE x + k - Space
    BY <2>1, Lap
  <2>4. (x + j) % Space # (x + k) % Space
    <3> DEFINE m == (x + j) % Space
               n == (x + k) % Space
    <3>1. m = IF x + j < Space THEN x + j ELSE x + j - Space
      BY <2>2
    <3>2. n = IF x + k < Space THEN x + k ELSE x + k - Space
      BY <2>3
    <3> HIDE DEF m, n
    <3>3. m # n
      BY <2>1, <3>1, <3>2, SpaceAssumption
    <3> QED BY <3>3 DEF m, n
  <2> QED BY <2>4 DEF x
<1> QED BY <1>1, <1>2, PlusAddress

\* Writing a register adds and removes none, and leaves the others alone.
LEMMA StoredTable ==
  ASSUME callbacks \in Seq(TCallback), NEW t \in Table, NEW b \in Address, NEW v \in Val,
         NEW u, u = Stored(t, b, v)
  PROVE  /\ u \in Table /\ SameRegisters(t, u)
         /\ \A c \in Address : c # b => u[c] = t[c]
         /\ t[b] # Absent /\ ~Observed(b) => u[b] = v
<1>1. CASE t[b] = Absent
  BY <1>1 DEF Stored, SameRegisters
<1>2. CASE t[b] # Absent
  <2> DEFINE w == Called("ON_SET", b, t[b], v)
  <2>1. t[b] \in Val
    BY <1>2 DEF Table
  <2>2. w \in Val /\ (~Observed(b) => w = v)
    BY <2>1, CalledValue
  <2>3. u = [t EXCEPT ![b] = w]
    BY <1>2 DEF Stored
  <2> HIDE DEF w
  <2> QED BY <1>2, <2>2, <2>3, AbsentAssumption DEF Table, SameRegisters
<1> QED BY <1>1, <1>2

\* A multiple write of a range that is there: every register of it has the value
\* it was given at the end, when no callback is on it and none is written twice.
LEMMA StoredRange ==
  ASSUME callbacks \in Seq(TCallback), regs \in Table, NEW a \in Address, NEW data \in Seq(Val),
         \A b \in Span(a, Len(data)) : regs[b] # Absent,
         NEW t, t = StoredAll(a, data)
  PROVE  /\ t \in Table /\ SameRegisters(regs, t)
         /\ Len(data) <= Space =>
              \A k \in 1..Len(data) :
                \/ Observed(Plus(a, k - 1))
                \/ t[Plus(a, k - 1)] = IF IsBit(a) THEN AsBit(data[k]) ELSE data[k]
<1> DEFINE N == Len(data)
           v == [k \in 1..N |-> IF IsBit(a) THEN AsBit(data[k]) ELSE data[k]]
           at == [k \in 1..N |-> Plus(a, k - 1)]
           V == {u \in Table : SameRegisters(regs, u)}
           step == [x \in (1..N) \X V |-> Stored(x[2], at[x[1]], v[x[1]])]
           Eq(f) == f = [k \in 0..N |->
                      IF k = 0 THEN regs
                      ELSE Stored(f[k - 1], Plus(a, k - 1),
                                  IF IsBit(a) THEN AsBit(data[k]) ELSE data[k])]
           table == CHOOSE f : Eq(f)
<1>1. N \in Nat
  OBVIOUS
<1>2. \A k \in 1..N : v[k] \in Val /\ at[k] \in Address /\ regs[at[k]] # Absent
  <2>1. ASSUME NEW k \in 1..N PROVE v[k] \in Val /\ at[k] \in Address /\ regs[at[k]] # Absent
    <3>1. data[k] \in Val /\ k - 1 \in 0..(N - 1) /\ k - 1 \in Nat
      OBVIOUS
    <3>2. Plus(a, k - 1) \in Address /\ Plus(a, k - 1) \in Span(a, Len(data))
      BY <3>1, PlusAddress DEF Span
    <3> QED BY <3>1, <3>2, BitValue
  <2> QED BY <2>1
<1>3. t = table[N]
  BY DEF StoredAll
<1>4. \A k \in 1..N : /\ v[k] = IF IsBit(a) THEN AsBit(data[k]) ELSE data[k]
                      /\ at[k] = Plus(a, k - 1)
  OBVIOUS
<1>5. N <= Space => \A j, k \in 1..N : j # k => at[j] # at[k]
  <2>1. ASSUME N <= Space, NEW j \in 1..N, NEW k \in 1..N, j # k PROVE at[j] # at[k]
    <3>1. j - 1 \in 0..(Space - 1) /\ k - 1 \in 0..(Space - 1) /\ j - 1 # k - 1
      BY <2>1, SpaceAssumption
    <3> QED BY <3>1, PlusDistinct
  <2> QED BY <2>1
<1> HIDE DEF N, v, at, table
<1>6. regs \in V
  BY DEF SameRegisters
<1>7. ASSUME NEW k \in 1..N, NEW u \in V PROVE Stored(u, at[k], v[k]) \in V
  BY <1>2, StoredTable DEF SameRegisters
<1>8. \A u \in V : u \in Table /\ \A k \in 1..N : u[at[k]] # Absent
  BY <1>2 DEF SameRegisters
<1>9. t \in V => t \in Table /\ SameRegisters(regs, t)
  OBVIOUS
<1> HIDE DEF V
<1>10. IsStep(step, N, V)
  BY <1>7 DEF IsStep
<1>11. \A k \in 1..N, u \in V : step[<<k, u>>] = Stored(u, at[k], v[k])
  OBVIOUS
<1> HIDE DEF step
<1>12. PICK h : IsIteration(h, N, V, regs, step)
  BY <1>1, <1>6, <1>10, Recursion
<1>13. h \in [0..N -> V] /\ h[0] = regs
  BY <1>12 DEF IsIteration
<1>14. ASSUME NEW k \in 1..N PROVE h[k] = Stored(h[k - 1], at[k], v[k])
  <2>1. k - 1 \in 0..N /\ h[k] = step[<<k, h[k - 1]>>]
    BY <1>1, <1>12 DEF IsIteration
  <2>2. h[k - 1] \in V
    BY <1>13, <2>1
  <2> QED BY <1>11, <2>1, <2>2
<1>15. Eq(h)
  <2>1. ASSUME NEW k \in 0..N
        PROVE  h[k] = IF k = 0 THEN regs
                      ELSE Stored(h[k - 1], Plus(a, k - 1),
                                  IF IsBit(a) THEN AsBit(data[k]) ELSE data[k])
    <3>1. CASE k = 0
      BY <1>13, <3>1
    <3>2. CASE k # 0
      <4>1. k \in 1..N
        BY <1>1, <3>2
      <4> QED BY <1>4, <1>14, <3>2, <4>1
    <3> QED BY <3>1, <3>2
  <2> QED BY <1>13, <2>1
<1>16. Eq(table)
  <2> HIDE DEF Eq
  <2> QED BY <1>15 DEF table
<1>17. table[0] = regs
  BY <1>1, <1>16
<1>18. ASSUME NEW k \in 1..N PROVE table[k] = Stored(table[k - 1], at[k], v[k])
  <2>1. k \in 0..N /\ k # 0
    BY <1>1
  <2>2. table[k] = Stored(table[k - 1], Plus(a, k - 1),
                          IF IsBit(a) THEN AsBit(data[k]) ELSE data[k])
    BY <1>16, <2>1
  <2> QED BY <1>4, <2>2
<1> HIDE DEF Eq
<1>19. \A k \in 0..N : table[k] \in V
  <2> DEFINE S == {k \in 0..N : table[k] \in V}
  <2>1. 0 \in S
    BY <1>1, <1>6, <1>17
  <2>2. ASSUME NEW k \in 1..N, k - 1 \in S PROVE k \in S
    <3>1. table[k - 1] \in V /\ k \in 0..N
      BY <1>1, <2>2
    <3>2. table[k] \in V
      BY <1>7, <1>18, <3>1
    <3> QED BY <3>1, <3>2
  <2> HIDE DEF S
  <2>3. \A k \in 0..N : k \in S
    BY <1>1, <2>1, <2>2, Induction
  <2> QED BY <2>3 DEF S
<1>20. ASSUME NEW k \in 1..N
       PROVE  /\ table[k - 1] \in Table /\ table[k - 1][at[k]] # Absent
              /\ Observed(at[k]) \/ table[k][at[k]] = v[k]
              /\ \A c \in Address : c # at[k] => table[k][c] = table[k - 1][c]
  <2>1. k - 1 \in 0..N
    BY <1>1
  <2>2. table[k - 1] \in Table /\ table[k - 1][at[k]] # Absent
    BY <1>8, <1>19, <2>1
  <2> QED BY <1>2, <1>18, <2>2, StoredTable
<1>21. ASSUME N <= Space PROVE \A j \in 1..N : Observed(at[j]) \/ table[N][at[j]] = v[j]
  <2> DEFINE S == {k \in 0..N : \A j \in 1..k : Observed(at[j]) \/ table[k][at[j]] = v[j]}
  <2>1. 0 \in S
    BY <1>1
  <2>2. ASSUME NEW k \in 1..N, k - 1 \in S PROVE k \in S
    <3>1. k \in 0..N /\ \A j \in 1..(k - 1) : Observed(at[j]) \/ table[k - 1][at[j]] = v[j]
      BY <1>1, <2>2
    <3>2. ASSUME NEW j \in 1..k PROVE Observed(at[j]) \/ table[k][at[j]] = v[j]
      <4>1. CASE j = k
        BY <1>20, <4>1
      <4>2. CASE j # k
        <5>1. j \in 1..(k - 1) /\ j \in 1..N
          BY <1>1, <4>2
        <5>2. at[j] # at[k] /\ at[j] \in Address
          BY <1>2, <1>5, <1>21, <4>2, <5>1
        <5> QED BY <1>20, <3>1, <5>1, <5>2
      <4> QED BY <4>1, <4>2
    <3> QED BY <3>1, <3>2
  <2> HIDE DEF S
  <2>3. \A k \in 0..N : k \in S
    BY <1>1, <2>1, <2>2, Induction
  <2>4. N \in S
    BY <1>1, <2>3
  <2> QED BY <2>4 DEF S
<1>22. t \in V
  BY <1>1, <1>3, <1>19
<1>23. N <= Space =>
         \A k \in 1..N : \/ Observed(Plus(a, k - 1))
                         \/ t[Plus(a, k - 1)] = IF IsBit(a) THEN AsBit(data[k]) ELSE data[k]
  <2>1. ASSUME N <= Space, NEW k \in 1..N
        PROVE  \/ Observed(Plus(a, k - 1))
               \/ t[Plus(a, k - 1)] = IF IsBit(a) THEN AsBit(data[k]) ELSE data[k]
    BY <1>3, <1>4, <1>21, <2>1
  <2> QED BY <2>1
<1> QED BY <1>9, <1>22, <1>23 DEF N

\* What a register reads as depends on the table, the callbacks and the switch.
LEMMA ReadsAlike ==
  ASSUME UNCHANGED <<callbacks, cbEnabled>>, NEW a
  PROVE  Value(regs, a)' = Value(regs', a)
<1>1. callbacks' = callbacks /\ cbEnabled' = cbEnabled
  OBVIOUS
<1> QED BY <1>1 DEF Value, Called

LEMMA ValueInVal ==
  ASSUME callbacks \in Seq(TCallback), NEW t \in Table, NEW b \in Address
  PROVE  Value(t, b) \in Val
<1>1. CASE t[b] = Absent
  BY <1>1, ValAssumption DEF Value
<1>2. CASE t[b] # Absent
  <2>1. t[b] \in Val
    BY <1>2 DEF Table
  <2> QED BY <1>2, <2>1, CalledValue DEF Value
<1> QED BY <1>1, <1>2

-----------------------------------------------------------------------------
(* The application *)

LEMMA TableInit == RegistersInit => TableOK /\ WritesShow
BY DEF RegistersInit, TableOK, RegistersTypeOK, CallbackHasRegister, WritesShow, EchoReadsBack,
       MultipleWriteStored, Answered

\* What is left to show when the callbacks are as they were.
LEMMA SameCallbacks ==
  ASSUME TableOK, UNCHANGED callbacks, SameRegisters(regs, regs') \/ \A b \in Address : Exists(b) => regs'[b] # Absent
  PROVE  CallbackHasRegister'
<1>1. \A i \in DOMAIN callbacks : callbacks[i].address \in Address
  <2>1. \A i \in DOMAIN callbacks : callbacks[i] \in TCallback
    BY DEF TableOK, RegistersTypeOK
  <2> QED BY <2>1 DEF TCallback
<1> QED BY <1>1 DEF TableOK, CallbackHasRegister, Exists, SameRegisters

LEMMA NoneServed ==
  ASSUME served' = None
  PROVE  WritesShow'
BY DEF WritesShow, EchoReadsBack, MultipleWriteStored, Answered

LEMMA TableApplication == TableOK /\ Application => TableOK' /\ served' = None
<1> SUFFICES ASSUME TableOK, Application PROVE TableOK' /\ served' = None
  OBVIOUS
<1>0. regs \in Table /\ callbacks \in Seq(TCallback) /\ cbEnabled \in BOOLEAN
  BY DEF TableOK, RegistersTypeOK, Table
<1>1. ASSUME NEW a \in Address, NEW v \in Val, NEW n \in 1..2, AddReg(a, v, n)
      PROVE  TableOK' /\ served' = None
  <2>1. regs' \in Table /\ \A b \in Address : Exists(b) => regs'[b] # Absent
    BY <1>0, <1>1 DEF AddReg, Table, Exists
  <2>2. UNCHANGED callbacks /\ served' = None /\ cbEnabled' = cbEnabled
    BY <1>1 DEF AddReg
  <2>3. CallbackHasRegister'
    BY <2>1, <2>2, SameCallbacks
  <2>4. RegistersTypeOK'
    BY <1>0, <2>1, <2>2 DEF RegistersTypeOK, Table
  <2> QED BY <2>2, <2>3, <2>4 DEF TableOK
<1>2. ASSUME NEW a \in Address, NEW n \in 1..2, RemoveReg(a, n)
      PROVE  TableOK' /\ served' = None
  <2> DEFINE gone == {b \in Span(a, n) : Exists(b)}
             out == {e \in TCallback : e.address \in gone}
  <2>1. /\ regs' = [b \in Address |-> IF b \in gone THEN Absent ELSE regs[b]]
        /\ callbacks' = CallbacksWithout(out)
        /\ served' = None /\ cbEnabled' = cbEnabled
    BY <1>2 DEF RemoveReg
  <2>2. /\ callbacks' \in Seq(TCallback)
        /\ \A i \in DOMAIN callbacks' :
             callbacks'[i] \notin out /\ \E j \in DOMAIN callbacks : callbacks'[i] = callbacks[j]
    <3> DEFINE left == callbacks'
    <3> HIDE DEF out
    <3>1. left = CallbacksWithout(out)
      BY <2>1
    <3> HIDE DEF left
    <3>2. /\ left \in Seq(TCallback)
          /\ \A i \in DOMAIN left : left[i] \notin out /\ \E j \in DOMAIN callbacks : left[i] = callbacks[j]
      BY <1>0, <3>1, CallbacksLeft
    <3> QED BY <3>2 DEF left
  <2>3. regs' \in Table
    <3> HIDE DEF gone
    <3> QED BY <1>0, <2>1 DEF Table
  <2>4. ASSUME NEW i \in DOMAIN callbacks' PROVE regs'[callbacks'[i].address] # Absent
    <3>1. callbacks'[i] \in TCallback
      BY <2>2
    <3>2. PICK j \in DOMAIN callbacks : callbacks'[i] = callbacks[j]
      BY <2>2
    <3>3. callbacks[j] \in TCallback /\ callbacks[j] \notin out
      BY <2>2, <3>1, <3>2
    <3>4. regs[callbacks[j].address] # Absent
      BY DEF TableOK, CallbackHasRegister, Exists
    <3>5. callbacks[j].address \in Address /\ callbacks[j].address \notin gone
      BY <3>3 DEF TCallback
    <3> HIDE DEF gone
    <3> QED BY <2>1, <3>2, <3>4, <3>5
  <2>5. CallbackHasRegister'
    BY <2>4 DEF CallbackHasRegister, Exists
  <2>6. RegistersTypeOK'
    BY <1>0, <2>1, <2>2, <2>3 DEF RegistersTypeOK, Table
  <2> QED BY <2>1, <2>5, <2>6 DEF TableOK
<1>3. ASSUME NEW a \in Address, NEW v \in Val, SetReg(a, v)
      PROVE  TableOK' /\ served' = None
  <2>1. regs' \in Table /\ SameRegisters(regs, regs')
    BY <1>0, <1>3, StoredTable DEF SetReg
  <2>2. UNCHANGED callbacks /\ served' = None /\ cbEnabled' = cbEnabled
    BY <1>3 DEF SetReg
  <2>3. CallbackHasRegister'
    BY <2>1, <2>2, SameCallbacks
  <2>4. RegistersTypeOK'
    BY <1>0, <2>1, <2>2 DEF RegistersTypeOK, Table
  <2> QED BY <2>2, <2>3, <2>4 DEF TableOK
<1>4. ASSUME NEW event \in Event, NEW a \in Address, NEW cb \in Cb, Install(event, a, cb)
      PROVE  TableOK' /\ served' = None
  <2> DEFINE e == [type |-> event, address |-> a, cb |-> cb]
  <2>1. /\ regs[a] # Absent /\ callbacks' = Append(callbacks, e)
        /\ served' = None /\ regs' = regs /\ cbEnabled' = cbEnabled
    BY <1>4 DEF Install, Exists
  <2>2. e \in TCallback /\ e.address = a
    BY DEF TCallback
  <2>3. RegistersTypeOK'
    BY <1>0, <2>1, <2>2 DEF RegistersTypeOK, Table
  <2>4. \A i \in DOMAIN callbacks : regs[callbacks[i].address] # Absent
    BY DEF TableOK, CallbackHasRegister, Exists
  <2> HIDE DEF e
  <2>5. ASSUME NEW i \in DOMAIN callbacks' PROVE regs'[callbacks'[i].address] # Absent
    <3>1. callbacks'[i] = e \/ (i \in DOMAIN callbacks /\ callbacks'[i] = callbacks[i])
      BY <1>0, <2>1, <2>2
    <3> QED BY <2>1, <2>2, <2>4, <3>1
  <2>6. CallbackHasRegister'
    BY <2>5 DEF CallbackHasRegister, Exists
  <2> QED BY <2>1, <2>3, <2>6 DEF TableOK
<1>5. ASSUME NEW gone, callbacks' = CallbacksWithout(gone), regs' = regs,
             cbEnabled' = cbEnabled, served' = None
      PROVE  TableOK' /\ served' = None
  <2>1. /\ callbacks' \in Seq(TCallback)
        /\ \A i \in DOMAIN callbacks' : \E j \in DOMAIN callbacks : callbacks'[i] = callbacks[j]
    <3> DEFINE left == callbacks'
    <3>1. left = CallbacksWithout(gone)
      BY <1>5
    <3> HIDE DEF left
    <3>2. /\ left \in Seq(TCallback)
          /\ \A i \in DOMAIN left : \E j \in DOMAIN callbacks : left[i] = callbacks[j]
      BY <1>0, <3>1, CallbacksLeft
    <3> QED BY <3>2 DEF left
  <2>2. CallbackHasRegister'
    BY <1>5, <2>1 DEF TableOK, CallbackHasRegister, Exists
  <2>3. RegistersTypeOK'
    BY <1>0, <1>5, <2>1 DEF RegistersTypeOK, Table
  <2> QED BY <1>5, <2>2, <2>3 DEF TableOK
<1>6. ASSUME NEW event \in Event, NEW a \in Address, Uninstall(event, a)
      PROVE  TableOK' /\ served' = None
  BY <1>5, <1>6 DEF Uninstall
<1>7. ASSUME NEW event \in Event, NEW a \in Address, NEW cb \in Cb, RemoveOne(event, a, cb)
      PROVE  TableOK' /\ served' = None
  BY <1>5, <1>7 DEF RemoveOne
<1>8. ASSUME NEW a \in Address, OnGetNone(a) \/ OnSetNone(a)
      PROVE  TableOK' /\ served' = None
  BY <1>6, <1>8 DEF OnGetNone, OnSetNone, Event
<1>9. ASSUME NEW state \in BOOLEAN, CbEnable(state)
      PROVE  TableOK' /\ served' = None
  <2>1. cbEnabled' \in BOOLEAN
    BY <1>9 DEF CbEnable
  <2>2. served' = None /\ regs' = regs /\ callbacks' = callbacks
    BY <1>9 DEF CbEnable
  <2> QED BY <1>0, <2>1, <2>2 DEF TableOK, RegistersTypeOK, CallbackHasRegister, Exists, Table
<1> QED BY <1>1, <1>2, <1>3, <1>4, <1>6, <1>7, <1>8, <1>9 DEF Application

-----------------------------------------------------------------------------
(* slavePDU *)

Requests == WriteSingle \cup WriteMultiple \cup Read \cup Unknown
Refusals == {ILLEGAL_FUNCTION, ILLEGAL_ADDRESS, ILLEGAL_VALUE}
Refusing == served' # None /\ served'.reply.code \in Refusals => UNCHANGED regs

\* Every branch ends in a response: the table keeps its registers, and what is
\* left to show is what the response says of it.
LEMMA Responds ==
  ASSUME TableOK, NEW r \in Requests, NEW table \in Table, SameRegisters(regs, table),
         NEW kind \in {"echo", "normal", "exception"}, NEW code \in 0..4, NEW data \in Seq(Val),
         Respond(r, table, kind, code, data)
  PROVE  /\ TableOK' /\ regs' = table /\ UNCHANGED <<callbacks, cbEnabled>>
         /\ served'.request = r /\ served'.reply.kind = kind /\ served'.reply.code = code
<1>1. /\ regs' = table /\ callbacks' = callbacks /\ cbEnabled' = cbEnabled
      /\ served' = [request |-> r, reply |-> [kind |-> kind, code |-> code, data |-> data]]
  BY DEF Respond
<1>2. [kind |-> kind, code |-> code, data |-> data] \in Reply
  BY DEF Reply
<1>3. /\ served'.request = r /\ served'.reply \in Reply
      /\ served'.reply.kind = kind /\ served'.reply.code = code
  BY <1>1, <1>2
<1>4. CallbackHasRegister'
  BY <1>1, SameCallbacks
<1>5. RegistersTypeOK'
  BY <1>1, <1>3 DEF TableOK, RegistersTypeOK, Table, Requests
<1> QED BY <1>1, <1>3, <1>4, <1>5 DEF TableOK

LEMMA RespondsPlain ==
  ASSUME TableOK, NEW r \in Requests, NEW table \in Table, SameRegisters(regs, table),
         NEW kind \in {"echo", "normal", "exception"}, NEW code \in 0..4,
         Respond(r, table, kind, code, <<>>)
  PROVE  /\ TableOK' /\ regs' = table /\ UNCHANGED <<callbacks, cbEnabled>>
         /\ served'.request = r /\ served'.reply.kind = kind /\ served'.reply.code = code
<1>1. <<>> \in Seq(Val)
  OBVIOUS
<1> QED BY <1>1, Responds

LEMMA Refused ==
  ASSUME TableOK, NEW r \in Requests, NEW code \in 0..4, Exception(r, regs, code)
  PROVE  TableOK' /\ WritesShow' /\ Refusing
<1>1. regs \in Table /\ SameRegisters(regs, regs) /\ <<>> \in Seq(Val)
  BY DEF TableOK, RegistersTypeOK, Table, SameRegisters
<1>2. /\ TableOK' /\ regs' = regs /\ served'.reply.kind = "exception"
  BY <1>1, Responds DEF Exception
<1>3. WritesShow'
  BY <1>2 DEF WritesShow, EchoReadsBack, MultipleWriteStored, Answered
<1> QED BY <1>2, <1>3 DEF Refusing

LEMMA SingleWrite ==
  ASSUME TableOK, NEW r \in WriteSingle, ServeWrite(r)
  PROVE  TableOK' /\ WritesShow' /\ Refusing
<1> DEFINE after == Stored(regs, r.at, r.value)
           back == Value(after, r.at)
           same == IF IsBit(r.at) THEN AsBit(back) = r.value ELSE back = r.value
<1>1. r.at \in Address /\ r.value \in Val /\ r \in Requests /\ r.op = "write"
  BY DEF WriteSingle, Requests
<1>2. regs \in Table /\ callbacks \in Seq(TCallback)
  BY DEF TableOK, RegistersTypeOK, Table
<1>3. after \in Table /\ SameRegisters(regs, after) /\ <<>> \in Seq(Val)
  BY <1>1, <1>2, StoredTable
<1>4. \/ Exception(r, regs, ILLEGAL_VALUE) \/ Exception(r, regs, ILLEGAL_ADDRESS)
      \/ Exception(r, after, SLAVE_FAILURE)
      \/ same /\ Respond(r, after, "echo", 0, <<>>)
  BY DEF ServeWrite
<1> HIDE DEF after
<1>5. CASE Exception(r, regs, ILLEGAL_VALUE) \/ Exception(r, regs, ILLEGAL_ADDRESS)
  BY <1>1, <1>5, Refused DEF ILLEGAL_VALUE, ILLEGAL_ADDRESS
<1>6. CASE Exception(r, after, SLAVE_FAILURE)
  <2>1. TableOK' /\ served'.reply.kind = "exception" /\ served'.reply.code = 4
    <3>1. Respond(r, after, "exception", 4, <<>>)
      BY <1>6 DEF Exception, SLAVE_FAILURE
    <3> HIDE DEF same
    <3> QED BY <1>1, <1>3, <3>1, RespondsPlain
  <2>2. WritesShow'
    BY <2>1 DEF WritesShow, EchoReadsBack, MultipleWriteStored, Answered
  <2> QED BY <2>1, <2>2 DEF Refusing, Refusals, ILLEGAL_FUNCTION, ILLEGAL_ADDRESS, ILLEGAL_VALUE
<1>7. CASE same /\ Respond(r, after, "echo", 0, <<>>)
  <2>1. /\ TableOK' /\ regs' = after /\ served'.request = r
        /\ served'.reply.kind = "echo" /\ served'.reply.code = 0
        /\ UNCHANGED <<callbacks, cbEnabled>>
    <3> HIDE DEF same
    <3>1. Respond(r, after, "echo", 0, <<>>)
      BY <1>7
    <3> QED BY <1>1, <1>3, <3>1, RespondsPlain
  <2>2. Value(regs, r.at)' = back
    BY <2>1, ReadsAlike
  <2>3. (IF IsBit(r.at) THEN AsBit(back) ELSE back) = r.value
    BY <1>7
  <2> HIDE DEF back
  <2>4. EchoReadsBack'
    BY <2>1, <2>2, <2>3 DEF EchoReadsBack
  <2>5. MultipleWriteStored'
    BY <2>1 DEF MultipleWriteStored, Answered
  <2> QED BY <2>1, <2>4, <2>5 DEF WritesShow, Refusing, Refusals, ILLEGAL_FUNCTION,
                                  ILLEGAL_ADDRESS, ILLEGAL_VALUE
<1> QED BY <1>4, <1>5, <1>6, <1>7

LEMMA MultipleWrite ==
  ASSUME TableOK, NEW r \in WriteMultiple, ServeWriteMultiple(r)
  PROVE  TableOK' /\ WritesShow' /\ Refusing
<1> DEFINE after == StoredAll(r.at, r.data)
<1>1. r.at \in Address /\ r.data \in Seq(Val) /\ r \in Requests /\ r.op = "write_multiple"
  BY DataAssumption DEF WriteMultiple, Requests
<1>2. regs \in Table /\ callbacks \in Seq(TCallback)
  BY DEF TableOK, RegistersTypeOK, Table
<1>3. \/ Exception(r, regs, ILLEGAL_VALUE) \/ Exception(r, regs, ILLEGAL_ADDRESS)
      \/ /\ \A b \in Span(r.at, Len(r.data)) : regs[b] # Absent
         /\ Respond(r, after, "normal", 0, <<>>)
  BY DEF ServeWriteMultiple, Exists
<1>4. CASE Exception(r, regs, ILLEGAL_VALUE) \/ Exception(r, regs, ILLEGAL_ADDRESS)
  BY <1>1, <1>4, Refused DEF ILLEGAL_VALUE, ILLEGAL_ADDRESS
<1>5. CASE /\ \A b \in Span(r.at, Len(r.data)) : regs[b] # Absent
           /\ Respond(r, after, "normal", 0, <<>>)
  <2> HIDE DEF after
  <2>1. /\ after \in Table /\ SameRegisters(regs, after)
        /\ Len(r.data) <= Space =>
             \A k \in 1..Len(r.data) :
               \/ Observed(Plus(r.at, k - 1))
               \/ after[Plus(r.at, k - 1)] = IF IsBit(r.at) THEN AsBit(r.data[k]) ELSE r.data[k]
    <3> DEFINE a == r.at
               data == r.data
    <3>1. /\ a \in Address /\ data \in Seq(Val) /\ after = StoredAll(a, data)
          /\ \A b \in Span(a, Len(data)) : regs[b] # Absent
      BY <1>1, <1>5 DEF after
    <3> HIDE DEF a, data
    <3>2. /\ after \in Table /\ SameRegisters(regs, after)
          /\ Len(data) <= Space =>
               \A k \in 1..Len(data) :
                 \/ Observed(Plus(a, k - 1))
                 \/ after[Plus(a, k - 1)] = IF IsBit(a) THEN AsBit(data[k]) ELSE data[k]
      BY <1>2, <3>1, StoredRange
    <3> QED BY <3>2 DEF a, data
  <2>2. /\ TableOK' /\ regs' = after /\ served'.request = r
        /\ served'.reply.kind = "normal" /\ served'.reply.code = 0
        /\ callbacks' = callbacks /\ cbEnabled' = cbEnabled
    <3>1. Respond(r, after, "normal", 0, <<>>) /\ after \in Table /\ SameRegisters(regs, after)
      BY <1>5, <2>1
    <3>2. /\ TableOK' /\ regs' = after /\ served'.request = r
          /\ served'.reply.kind = "normal" /\ served'.reply.code = 0
          /\ UNCHANGED <<callbacks, cbEnabled>>
      BY <1>1, <3>1, RespondsPlain
    <3> QED BY <3>2
  <2>3. MultipleWriteStored'
    <3>1. ASSUME Len(r.data) <= Space, NEW k \in DOMAIN r.data, ~Observed(Plus(r.at, k - 1))'
          PROVE  regs'[Plus(r.at, k - 1)] = IF IsBit(Plus(r.at, k - 1)) THEN AsBit(r.data[k]) ELSE r.data[k]
      <4>1. k \in 1..Len(r.data) /\ k - 1 \in Nat
        BY <1>1
      <4>2. IsBit(Plus(r.at, k - 1)) <=> IsBit(r.at)
        BY <1>1, <4>1 DEF IsBit, Plus, Address
      <4>3. ~Observed(Plus(r.at, k - 1))
        BY <2>2, <3>1 DEF Observed
      <4> QED BY <2>1, <2>2, <3>1, <4>1, <4>2, <4>3
    <3> QED BY <2>2, <3>1 DEF MultipleWriteStored
  <2>4. EchoReadsBack'
    BY <2>2 DEF EchoReadsBack, Answered
  <2> QED BY <2>2, <2>3, <2>4 DEF WritesShow, Refusing, Refusals, ILLEGAL_FUNCTION,
                                  ILLEGAL_ADDRESS, ILLEGAL_VALUE
<1> QED BY <1>3, <1>4, <1>5

LEMMA Reading ==
  ASSUME TableOK, NEW r \in Read, ServeRead(r)
  PROVE  TableOK' /\ WritesShow' /\ Refusing
<1> DEFINE data == [k \in 1..r.quantity |->
                      LET v == Value(regs, Plus(r.at, k - 1))
                      IN IF IsBit(r.at) THEN AsBit(v) ELSE v]
<1>1. r.at \in Address /\ r.quantity \in Nat /\ r \in Requests
  BY MostAssumption DEF Read, Requests
<1>2. regs \in Table /\ callbacks \in Seq(TCallback) /\ SameRegisters(regs, regs)
  BY DEF TableOK, RegistersTypeOK, Table, SameRegisters
<1>3. ASSUME NEW k \in 1..r.quantity
      PROVE  (LET v == Value(regs, Plus(r.at, k - 1)) IN IF IsBit(r.at) THEN AsBit(v) ELSE v) \in Val
  <2>1. Plus(r.at, k - 1) \in Address
    BY <1>1, PlusAddress
  <2>2. Value(regs, Plus(r.at, k - 1)) \in Val
    BY <1>2, <2>1, ValueInVal
  <2> QED BY <2>2, BitValue
<1>4. data \in Seq(Val)
  BY <1>1, <1>3
<1>5. \/ Exception(r, regs, ILLEGAL_VALUE) \/ Exception(r, regs, ILLEGAL_ADDRESS)
      \/ Respond(r, regs, "normal", 0, data)
  BY DEF ServeRead
<1> HIDE DEF data
<1>6. CASE Exception(r, regs, ILLEGAL_VALUE) \/ Exception(r, regs, ILLEGAL_ADDRESS)
  BY <1>1, <1>6, Refused DEF ILLEGAL_VALUE, ILLEGAL_ADDRESS
<1>7. CASE Respond(r, regs, "normal", 0, data)
  <2>1. TableOK' /\ regs' = regs /\ served'.request = r /\ served'.reply.kind = "normal"
    BY <1>1, <1>2, <1>4, <1>7, Responds
  <2>2. WritesShow'
    BY <2>1 DEF WritesShow, EchoReadsBack, MultipleWriteStored, Answered, Read
  <2> QED BY <2>1, <2>2 DEF Refusing
<1> QED BY <1>5, <1>6, <1>7

LEMMA TableServed == TableOK /\ slavePDU => TableOK' /\ WritesShow' /\ Refusing
<1> SUFFICES ASSUME TableOK, slavePDU PROVE TableOK' /\ WritesShow' /\ Refusing
  OBVIOUS
<1>1. ASSUME NEW r \in Unknown, ServeUnknown(r) PROVE TableOK' /\ WritesShow' /\ Refusing
  BY <1>1, Refused DEF ServeUnknown, ILLEGAL_FUNCTION, Requests
<1> QED BY <1>1, SingleWrite, MultipleWrite, Reading DEF slavePDU

-----------------------------------------------------------------------------
LEMMA TableStep == TableOK /\ WritesShow /\ [RegistersNext]_registerVars => TableOK' /\ WritesShow'
<1>1. TableOK /\ WritesShow /\ UNCHANGED registerVars => TableOK' /\ WritesShow'
  <2> SUFFICES ASSUME TableOK, WritesShow, UNCHANGED registerVars PROVE TableOK' /\ WritesShow'
    OBVIOUS
  <2>1. regs' = regs /\ callbacks' = callbacks /\ cbEnabled' = cbEnabled /\ served' = served
    BY DEF registerVars
  <2>2. TableOK'
    BY <2>1 DEF TableOK, RegistersTypeOK, CallbackHasRegister, Exists
  <2>3. EchoReadsBack'
    <3>1. ASSUME NEW a PROVE Value(regs, a)' = Value(regs, a)
      BY <2>1, ReadsAlike
    <3> QED BY <2>1, <3>1 DEF WritesShow, EchoReadsBack, Answered
  <2>4. MultipleWriteStored'
    BY <2>1 DEF WritesShow, MultipleWriteStored, Answered, Observed
  <2> QED BY <2>2, <2>3, <2>4 DEF WritesShow
<1> QED BY <1>1, TableApplication, TableServed, NoneServed DEF RegistersNext

\* No callback outlives its register, for any registers and callbacks.
THEOREM TableIsOK == RegistersSpec => []TableOK
<1> QED BY TableInit, TableStep, PTL DEF RegistersSpec

\* An echo of a single write reads back, and a multiple write has stored the
\* whole of its range, whatever the callbacks, wherever the range wraps.
THEOREM WritesAreShown == RegistersSpec => []WritesShow
<1> QED BY TableInit, TableStep, PTL DEF RegistersSpec

\* A refused request leaves every register as it was.
THEOREM RefusalsWriteNothing == RegistersSpec => ExceptionWritesNothing
<1>1. TableOK /\ [RegistersNext]_registerVars =>
        [served' # None /\ served'.reply.code \in {ILLEGAL_FUNCTION, ILLEGAL_ADDRESS, ILLEGAL_VALUE}
           => UNCHANGED regs]_registerVars
  BY TableApplication, TableServed DEF RegistersNext, Refusing, Refusals
<1> QED BY <1>1, TableIsOK, PTL DEF RegistersSpec, ExceptionWritesNothing

-----------------------------------------------------------------------------
(* The bus: what is on its way *)

\* A response that is no exception was preceded by its request's execution.
Carried(p, done) == p.frame.from # Master /\ ~p.frame.exc => <<p.frame.n, p.frame.from>> \in done

RepliesCarried ==
  \A i \in Node : /\ \A k \in DOMAIN rx[i] : Carried(rx[i][k], executed)
                  /\ \A k \in DOMAIN air[i] : Carried(air[i][k], executed)

PendingIsLast == Busy => pending.n = sends /\ pending.req.slave # Master

CalledBefore ==
  /\ \A k \in DOMAIN called : called[k].for.n <= sends /\ (Busy => called[k].for.n # pending.n)
  /\ \A j, k \in DOMAIN called : j # k => called[j].for.n # called[k].for.n

CalledWithOwn == clean => \A k \in DOMAIN called : called[k].with.n = called[k].for.n

\* The first piece of a frame a callback can still come of, heard by i.
Telling(i, p) ==
  p.part = "head" /\ (i # Master => p.frame.from = Master /\ p.frame.req.slave = i)
RxHead(i, k) == k \in DOMAIN rx[i] /\ Telling(i, rx[i][k])
AirHead(i, k) == k \in DOMAIN air[i] /\ Telling(i, air[i][k])

OneHead ==
  /\ \A i \in Node, k \in Nat : RxHead(i, k) => Busy /\ rx[i][k].frame.n = pending.n
  /\ \A i \in Node, k \in Nat : AirHead(i, k) => Busy /\ air[i][k].frame.n = pending.n
  /\ \A i, j \in Node, k, l \in Nat : RxHead(i, k) /\ RxHead(j, l) => i = j /\ k = l
  /\ \A i, j \in Node, k, l \in Nat : AirHead(i, k) /\ AirHead(j, l) => i = j /\ k = l
  /\ \A i, j \in Node, k, l \in Nat : ~(RxHead(i, k) /\ AirHead(j, l))

Exchange ==
  /\ RepliesCarried
  /\ PendingIsLast
  /\ CalledBefore
  /\ CalledWithOwn
  /\ SuccessExecuted
  /\ clean => OneHead

IInv == TypeOK /\ SlaveSectionPaired /\ Exchange

-----------------------------------------------------------------------------
(* Queues and frames *)

LEMMA RestElements ==
  ASSUME NEW S, NEW s \in Seq(S), NEW count \in Nat, NEW t, t = SubSeq(s, count + 1, Len(s))
  PROVE  /\ t \in Seq(S)
         /\ \A k \in DOMAIN t : k \in Nat /\ k + count \in DOMAIN s /\ t[k] = s[k + count]
<1>1. Len(s) \in Nat
  OBVIOUS
<1>2. CASE count + 1 <= Len(s)
  <2>1. \A k \in count + 1 .. Len(s) : s[k] \in S
    OBVIOUS
  <2>2. count + 1 \in Int /\ Len(s) \in Int
    BY <1>1
  <2>3. /\ t \in Seq(S) /\ Len(t) = Len(s) - (count + 1) + 1
        /\ \A k \in 1 .. Len(s) - (count + 1) + 1 : t[k] = s[count + 1 + k - 1]
    BY <1>2, <2>1, <2>2, SubSeqProperties
  <2>4. ASSUME NEW k \in DOMAIN t PROVE k \in Nat /\ k + count \in DOMAIN s /\ t[k] = s[k + count]
    <3>1. k \in 1 .. Len(s) - count
      BY <1>1, <2>3
    <3>2. t[k] = s[count + 1 + k - 1] /\ count + 1 + k - 1 = k + count
      BY <1>1, <2>3, <3>1
    <3> QED BY <1>1, <3>1, <3>2
  <2> QED BY <2>3, <2>4
<1>3. CASE count + 1 > Len(s)
  <2>1. t = <<>>
    BY <1>1, <1>3, SubSeqEmpty
  <2> QED BY <2>1
<1> QED BY <1>1, <1>2, <1>3

LEMMA TailElements ==
  ASSUME NEW S, NEW s \in Seq(S), s # <<>>, NEW t, t = Tail(s)
  PROVE  /\ t \in Seq(S) /\ 1 \in DOMAIN s /\ Head(s) = s[1] /\ Head(s) \in S
         /\ \A k \in DOMAIN t : k \in Nat /\ k + 1 \in DOMAIN s /\ t[k] = s[k + 1]
OBVIOUS

LEMMA AppendElements ==
  ASSUME NEW S, NEW s \in Seq(S), NEW x \in S, NEW t, t = Append(s, x)
  PROVE  /\ t \in Seq(S) /\ Len(s) \in Nat /\ Len(t) = Len(s) + 1
         /\ \A k \in DOMAIN t : (k \in DOMAIN s /\ t[k] = s[k]) \/ (k = Len(s) + 1 /\ t[k] = x)
OBVIOUS

LEMMA PiecesOfFrame ==
  ASSUME NEW f \in Frame
  PROVE  /\ Pieces(f) \in Seq(Piece) /\ Len(Pieces(f)) = 2
         /\ Pieces(f)[1].frame = f /\ Pieces(f)[1].part = "head"
         /\ Pieces(f)[2].frame = f /\ Pieces(f)[2].part = "tail"
BY DEF Pieces, Piece

\* What a frame on the air adds to a queue: its head, then its tail.
LEMMA PiecesAdded ==
  ASSUME NEW s \in Seq(Piece), NEW f \in Frame, NEW t, t = s \o Pieces(f)
  PROVE  /\ t \in Seq(Piece) /\ Len(s) \in Nat
         /\ \A k \in DOMAIN t :
              \/ k \in DOMAIN s /\ t[k] = s[k]
              \/ t[k].frame = f /\ (t[k].part = "head" => k = Len(s) + 1)
<1> DEFINE u == Pieces(f)
<1>1. /\ u \in Seq(Piece) /\ Len(u) = 2
      /\ u[1].frame = f /\ u[2].frame = f /\ u[2].part = "tail"
  BY PiecesOfFrame
<1>2. t = s \o u /\ Len(s) \in Nat
  OBVIOUS
<1> HIDE DEF u
<1>0. u \in Seq(Piece)
  BY <1>1
<1>3. /\ t \in Seq(Piece) /\ Len(t) = Len(s) + 2
      /\ \A k \in 1 .. Len(s) + 2 : t[k] = IF k <= Len(s) THEN s[k] ELSE u[k - Len(s)]
  <2>1. /\ t \in Seq(Piece) /\ Len(t) = Len(s) + Len(u)
        /\ \A k \in 1 .. Len(s) + Len(u) : t[k] = IF k <= Len(s) THEN s[k] ELSE u[k - Len(s)]
    BY <1>0, <1>2, ConcatProperties
  <2> QED BY <1>1, <2>1
<1>4. ASSUME NEW k \in DOMAIN t
      PROVE  \/ k \in DOMAIN s /\ t[k] = s[k]
             \/ t[k].frame = f /\ (t[k].part = "head" => k = Len(s) + 1)
  <2>1. k \in 1 .. Len(s) + 2
    BY <1>3
  <2>2. CASE k <= Len(s)
    BY <1>1, <1>2, <1>3, <2>1, <2>2
  <2>3. CASE k = Len(s) + 1
    <3>1. t[k] = u[1]
      BY <1>1, <1>2, <1>3, <2>3
    <3> QED BY <1>1, <2>3, <3>1
  <2>4. CASE k = Len(s) + 2
    <3>1. t[k] = u[2]
      BY <1>1, <1>2, <1>3, <2>4
    <3>2. u[2].part # "head"
      BY <1>1
    <3> QED BY <1>1, <3>1, <3>2
  <2> QED BY <1>2, <2>1, <2>2, <2>3, <2>4
<1> QED BY <1>2, <1>3, <1>4

\* A whole frame is the first two pieces, and all that is taken.
LEMMA WholeTaken ==
  ASSUME TypeOK, NEW i \in Node, NEW f, Whole(Take(i, len[i]), f)
  PROVE  /\ len[i] = 2 /\ f \in FramesIn(rx[i]) /\ f \in Frame
         /\ 1 \in DOMAIN rx[i] /\ rx[i][1].frame = f /\ rx[i][1].part = "head"
<1> DEFINE s == rx[i]
           n == len[i]
<1>1. s \in Seq(Piece) /\ n \in Nat
  BY DEF TypeOK
<1>2. Take(i, len[i]) = IF n > Len(s) THEN <<>> ELSE SubSeq(s, 1, n)
  BY DEF Take
<1> HIDE DEF s, n
<1>3. Pieces(f) # <<>> /\ Len(Pieces(f)) = 2 /\ Pieces(f)[1] = [frame |-> f, part |-> "head"]
  BY DEF Pieces
<1>4. n <= Len(s) /\ SubSeq(s, 1, n) = Pieces(f)
  BY <1>1, <1>2, <1>3 DEF Whole
<1>5. /\ Len(SubSeq(s, 1, n)) = n
      /\ n >= 1 => SubSeq(s, 1, n)[1] = s[1]
  BY <1>1, <1>4
<1>6. n = 2 /\ s[1] = [frame |-> f, part |-> "head"] /\ 1 \in DOMAIN s
  <2>1. n = 2
    BY <1>3, <1>4, <1>5
  <2>2. s[1] = [frame |-> f, part |-> "head"]
    BY <1>3, <1>4, <1>5, <2>1
  <2> QED BY <1>1, <1>4, <2>1, <2>2
<1>7. f \in Frame
  BY <1>1, <1>6 DEF Piece
<1> QED BY <1>6, <1>7 DEF s, n, FramesIn

LEMMA RestOf ==
  ASSUME TypeOK, NEW i \in Node, NEW count \in Nat
  PROVE  /\ Rest(i, count) \in Seq(Piece)
         /\ \A k \in DOMAIN Rest(i, count) :
              k \in Nat /\ k + count \in DOMAIN rx[i] /\ Rest(i, count)[k] = rx[i][k + count]
<1> DEFINE s == rx[i]
           t == Rest(i, count)
<1>1. s \in Seq(Piece)
  BY DEF TypeOK
<1>2. t = SubSeq(s, count + 1, Len(s))
  BY DEF Rest
<1> HIDE DEF s, t
<1>3. /\ t \in Seq(Piece)
      /\ \A k \in DOMAIN t : k \in Nat /\ k + count \in DOMAIN s /\ t[k] = s[k + count]
  BY <1>1, <1>2, RestElements
<1> QED BY <1>3 DEF s, t

LEMMA OnAirOf ==
  ASSUME TypeOK, NEW f \in Frame, NEW i \in Node
  PROVE  /\ OnAir(f) \in [Node -> Seq(Piece)]
         /\ i = f.from => OnAir(f)[i] = air[i]
         /\ Len(air[i]) \in Nat
         /\ \A k \in DOMAIN OnAir(f)[i] :
              \/ k \in DOMAIN air[i] /\ OnAir(f)[i][k] = air[i][k]
              \/ OnAir(f)[i][k].frame = f /\ (OnAir(f)[i][k].part = "head" => k = Len(air[i]) + 1)
<1>1. \A j \in Node : air[j] \in Seq(Piece)
  BY DEF TypeOK
<1>2. \A j \in Node : air[j] \o Pieces(f) \in Seq(Piece)
  BY <1>1, PiecesAdded
<1>3. OnAir(f) \in [Node -> Seq(Piece)]
  BY <1>1, <1>2 DEF OnAir
<1>4. CASE i = f.from
  BY <1>1, <1>3, <1>4 DEF OnAir
<1>5. CASE i # f.from
  <2>1. OnAir(f)[i] = air[i] \o Pieces(f)
    BY <1>5 DEF OnAir
  <2>2. air[i] \in Seq(Piece)
    BY <1>1
  <2>3. /\ Len(air[i]) \in Nat
        /\ \A k \in DOMAIN OnAir(f)[i] :
              \/ k \in DOMAIN air[i] /\ OnAir(f)[i][k] = air[i][k]
              \/ OnAir(f)[i][k].frame = f /\ (OnAir(f)[i][k].part = "head" => k = Len(air[i]) + 1)
    <3> DEFINE s == air[i]
               u == OnAir(f)[i]
    <3>1. s \in Seq(Piece) /\ u = s \o Pieces(f)
      BY <2>1, <2>2
    <3> HIDE DEF s, u
    <3>2. /\ Len(s) \in Nat
          /\ \A k \in DOMAIN u :
                \/ k \in DOMAIN s /\ u[k] = s[k]
                \/ u[k].frame = f /\ (u[k].part = "head" => k = Len(s) + 1)
      BY <3>1, PiecesAdded
    <3> QED BY <3>2 DEF s, u
  <2> QED BY <1>3, <1>5, <2>3
<1> QED BY <1>4, <1>5

Call == [for : Sent, code : Result, with : Frame \cup {NoRequest}]

LEMMA CallbackOf ==
  ASSUME TypeOK, NEW p \in Sent, NEW code \in Result, NEW f \in Frame \cup {NoRequest},
         Callback(p, code, f)
  PROVE  /\ called' \in Seq(Call) /\ Len(called) \in Nat
         /\ \A k \in DOMAIN called' :
              \/ k \in DOMAIN called /\ called'[k] = called[k]
              \/ k = Len(called) + 1 /\ called'[k] = [for |-> p, code |-> code, with |-> f]
<1> DEFINE c == [for |-> p, code |-> code, with |-> f]
<1>1. called \in Seq(Call) /\ c \in Call
  BY DEF TypeOK, Call
<1>2. called' = called \/ called' = Append(called, c)
  BY DEF Callback
<1> SUFFICES /\ called' \in Seq(Call) /\ Len(called) \in Nat
             /\ \A k \in DOMAIN called' :
                  \/ k \in DOMAIN called /\ called'[k] = called[k]
                  \/ k = Len(called) + 1 /\ called'[k] = c
  OBVIOUS
<1> HIDE DEF c
<1>3. Len(called) \in Nat
  BY <1>1
<1>4. CASE called' = called
  BY <1>1, <1>3, <1>4
<1>5. CASE called' = Append(called, c)
  BY <1>1, <1>5, AppendElements
<1> QED BY <1>2, <1>4, <1>5

LEMMA Nodes == Master \in Node /\ Master \notin Slave /\ \A i \in Node : i # Master => i \in Slave
BY SlaveAssumption DEF Master, Node

LEMMA NoRequestIsSent == NoRequest \in Sent
BY BoundAssumption DEF NoRequest, Sent

LEMMA AskedIsFrame ==
  ASSUME TypeOK, NEW r \in Request, sends < MaxSends, NEW i \in Node
  PROVE  /\ sends + 1 \in 0..MaxSends
         /\ [n |-> sends + 1, req |-> r, from |-> i, exc |-> FALSE] \in Frame
         /\ [n |-> sends + 1, req |-> r] \in Sent
BY BoundAssumption DEF TypeOK, Frame, Sent

LEMMA CodeIsResult == \A req, f : MasterPDU(req, f) \in Result
BY DEF MasterPDU, Result

LEMMA DepthKept == \A d \in Depth : Entered(d) \in Depth /\ Left(d) \in Depth
BY DEF Depth, Entered, Left

LEMMA MasterFrameOf ==
  ASSUME TypeOK, MasterFrame(pending, len[Master])
  PROVE  /\ rx' = [rx EXCEPT ![Master] = Rest(Master, len[Master])]
         /\ len' = [len EXCEPT ![Master] = 0]
         /\ \/ pending' = pending /\ called' = called
            \/ \E f \in Frame :
                 /\ Whole(Take(Master, len[Master]), f) /\ ForMaster(pending, f)
                 /\ Callback(pending, MasterPDU(pending.req, f), f)
                 /\ pending' = NoRequest
BY Nodes, WholeTaken DEF MasterFrame

\* What task() reads at a timeout: what it noted, or what a retry left in _len.
LEMMA TimeoutCount ==
  ASSUME TypeOK, MasterTimeout
  PROVE  \E count \in Nat : rx' = [rx EXCEPT ![Master] = Rest(Master, count)]
<1>1. PICK count \in {len[Master]} \cup (IF pending.req.cb THEN Stale ELSE {}) :
        rx' = [rx EXCEPT ![Master] = Rest(Master, count)]
  BY DEF MasterTimeout
<1>2. len[Master] \in Nat
  BY Nodes DEF TypeOK
<1>3. count \in Nat
  BY <1>2 DEF Stale
<1> QED BY <1>1, <1>3

LEMMA TypeStep == TypeOK /\ [Next]_vars => TypeOK'
<1> SUFFICES ASSUME TypeOK, [Next]_vars PROVE TypeOK'
  OBVIOUS
<1>1. ASSUME NEW r \in Request, SendRefused(r) PROVE TypeOK'
  <2>1. len' \in [Node -> Nat]
    <3>1. PICK left \in Stale : len' = [len EXCEPT ![Master] = left]
      BY <1>1 DEF SendRefused
    <3>2. left \in Nat
      BY DEF Stale
    <3> QED BY <3>1, <3>2 DEF TypeOK
  <2>2. UNCHANGED <<crit, rx, air, pending, sends, called, executed, faults>> /\ clean' \in BOOLEAN
    BY <1>1 DEF SendRefused
  <2> QED BY <2>1, <2>2 DEF TypeOK
<1>2. ASSUME NEW r \in Request, Send(r) PROVE TypeOK'
  <2> DEFINE f == [n |-> sends + 1, req |-> r, from |-> Master, exc |-> FALSE]
             p == [n |-> sends + 1, req |-> r]
  <2>0. f \in Frame /\ p \in Sent /\ sends + 1 \in 0..MaxSends
    BY <1>2, AskedIsFrame, Nodes DEF Send
  <2>1. /\ sends' \in 0..MaxSends /\ air' \in [Node -> Seq(Piece)] /\ pending' \in Sent
    <3>1. sends' = sends + 1 /\ air' = OnAir(f) /\ pending' \in {p, NoRequest}
      BY <1>2 DEF Send
    <3> HIDE DEF f, p
    <3> QED BY <2>0, <3>1, OnAirOf, Nodes, NoRequestIsSent
  <2>2. len' \in [Node -> Nat]
    <3>1. PICK left \in IF Waits(r) THEN {0} ELSE Stale : len' = [len EXCEPT ![Master] = left]
      BY <1>2 DEF Send
    <3>2. left \in Nat
      BY DEF Stale
    <3> QED BY <3>1, <3>2 DEF TypeOK
  <2>3. clean' \in BOOLEAN
    BY <1>2 DEF Send
  <2>4. UNCHANGED <<crit, rx, called, executed, faults>>
    BY <1>2 DEF Send
  <2> QED BY <2>1, <2>2, <2>3, <2>4 DEF TypeOK
<1>3. ASSUME NEW i \in Node, TaskNotes(i) PROVE TypeOK'
  <2>1. Len(rx[i]) \in Nat
    BY DEF TypeOK
  <2>2. crit' \in [Node -> Depth]
    BY <1>3, DepthKept DEF TaskNotes, TypeOK
  <2> QED BY <1>3, <2>1, <2>2 DEF TaskNotes, TypeOK
<1>4. ASSUME NEW i \in Node PROVE Leave(i) \in [Node -> Depth]
  BY DepthKept DEF Leave, TypeOK
<1>5. CASE MasterTask
  <2>1. len[Master] \in Nat /\ MasterFrame(pending, len[Master])
    BY <1>5, Nodes DEF MasterTask, TypeOK
  <2>2. rx' \in [Node -> Seq(Piece)] /\ len' \in [Node -> Nat]
    <3>1. Rest(Master, len[Master]) \in Seq(Piece)
      BY <2>1, RestOf, Nodes
    <3> QED BY <2>1, <3>1 DEF MasterFrame, TypeOK
  <2>3. pending' \in Sent /\ called' \in Seq(Call)
    BY <2>1, MasterFrameOf, CallbackOf, CodeIsResult, NoRequestIsSent DEF TypeOK, Call
  <2>4. crit' \in [Node -> Depth]
    BY <1>4, <1>5, Nodes DEF MasterTask
  <2>5. UNCHANGED <<air, sends, executed, faults, clean>>
    BY <1>5 DEF MasterTask
  <2> QED BY <2>2, <2>3, <2>4, <2>5 DEF TypeOK, Call
<1>6. CASE MasterTimeout
  <2>1. PICK count \in Nat : rx' = [rx EXCEPT ![Master] = Rest(Master, count)]
    BY <1>6, TimeoutCount
  <2>2. rx' \in [Node -> Seq(Piece)] /\ len' \in [Node -> Nat]
    BY <1>6, <2>1, RestOf, Nodes DEF MasterTimeout, TypeOK
  <2>3. "EX_TIMEOUT" \in Result
    BY DEF Result
  <2>4. pending' \in Sent /\ called' \in Seq(Call)
    BY <1>6, <2>3, CallbackOf, NoRequestIsSent DEF MasterTimeout, TypeOK
  <2>5. crit' \in [Node -> Depth]
    BY <1>4, <1>6, Nodes DEF MasterTimeout
  <2>6. UNCHANGED <<air, sends, executed, faults>> /\ clean' \in BOOLEAN
    BY <1>6 DEF MasterTimeout
  <2> QED BY <2>2, <2>4, <2>5, <2>6 DEF TypeOK, Call
<1>7. ASSUME NEW i \in Node, SlaveTakes(i)
      PROVE  /\ rx' \in [Node -> Seq(Piece)] /\ len' \in [Node -> Nat] /\ crit' \in [Node -> Depth]
             /\ UNCHANGED <<pending, sends, called, faults, clean>> /\ i \in Slave
  <2>1. len[i] \in Nat
    BY DEF TypeOK
  <2> QED BY <1>4, <1>7, <2>1, RestOf, Nodes DEF SlaveTakes, TypeOK
<1>8. ASSUME NEW i \in Node, SlaveSkips(i) PROVE TypeOK'
  BY <1>7, <1>8 DEF SlaveSkips, TypeOK
<1>9. ASSUME NEW i \in Node, NEW exc \in BOOLEAN, SlaveServes(i, exc) PROVE TypeOK'
  <2>0. SlaveTakes(i)
    BY <1>9 DEF SlaveServes
  <2>1. PICK f \in Frame :
          /\ executed' = IF exc THEN executed ELSE executed \cup {<<f.n, i>>}
          /\ air' = IF f.req.slave = 0 THEN air ELSE OnAir([f EXCEPT !.from = i, !.exc = exc])
    BY <1>9, WholeTaken DEF SlaveServes
  <2>2. [f EXCEPT !.from = i, !.exc = exc] \in Frame /\ f.n \in 1..MaxSends
    BY DEF Frame
  <2>3. air' \in [Node -> Seq(Piece)]
    BY <2>1, <2>2, OnAirOf DEF TypeOK
  <2>4. executed' \subseteq (1..MaxSends) \X Slave
    BY <1>7, <2>0, <2>1, <2>2 DEF TypeOK
  <2> QED BY <1>7, <2>0, <2>3, <2>4 DEF TypeOK
<1>10. ASSUME NEW i \in Node, Arrive(i) PROVE TypeOK'
  <2>1. Tail(air[i]) \in Seq(Piece) /\ Head(air[i]) \in Piece
    BY <1>10, TailElements DEF Arrive, TypeOK
  <2>2. Append(rx[i], Head(air[i])) \in Seq(Piece)
    BY <2>1, AppendElements DEF TypeOK
  <2> QED BY <1>10, <2>1, <2>2 DEF Arrive, TypeOK
<1>11. ASSUME NEW i \in Node, Fault(i) PROVE TypeOK'
  <2>1. air[i] \in Seq(Piece) /\ air[i] # <<>>
    BY <1>11 DEF Fault, TypeOK
  <2>2. Tail(air[i]) \in Seq(Piece)
    BY <2>1, TailElements
  <2>3. [air[i] EXCEPT ![1].part = "noise"] \in Seq(Piece)
    <3> DEFINE x == [air[i][1] EXCEPT !.part = "noise"]
    <3>0. air[i][1] \in Piece
      BY <2>1, TailElements
    <3>1. x \in Piece
      BY <3>0 DEF Piece
    <3>2. [air[i] EXCEPT ![1].part = "noise"] = [air[i] EXCEPT ![1] = x]
      OBVIOUS
    <3> HIDE DEF x
    <3>3. [air[i] EXCEPT ![1] = x] \in Seq(Piece)
      BY <2>1, <3>1
    <3> QED BY <3>2, <3>3
  <2>4. air' \in [Node -> Seq(Piece)]
    BY <1>11, <2>2, <2>3 DEF Fault, TypeOK
  <2>5. faults' \in 0..MaxFaults
    BY <1>11, BoundAssumption DEF Fault, TypeOK
  <2> QED BY <1>11, <2>4, <2>5 DEF Fault, TypeOK
<1>12. CASE UNCHANGED vars
  BY <1>12 DEF vars, TypeOK
<1> QED BY <1>1, <1>2, <1>3, <1>5, <1>6, <1>8, <1>9, <1>10, <1>11, <1>12 DEF Next, Task

LEMMA SectionStep == TypeOK /\ SlaveSectionPaired /\ [Next]_vars => SlaveSectionPaired'
<1> SUFFICES ASSUME TypeOK, SlaveSectionPaired, [Next]_vars, NEW s \in Slave
             PROVE  crit'[s] = IF len'[s] = 0 THEN 0 ELSE 1
  BY DEF SlaveSectionPaired
<1>0. /\ s \in Node /\ s # Master /\ Entered(0) = 1 /\ Left(1) = 0
      /\ crit[s] = IF len[s] = 0 THEN 0 ELSE 1
  BY Nodes DEF Node, Entered, Left, SlaveSectionPaired
<1>1. ASSUME NEW r \in Request, SendRefused(r) \/ Send(r)
      PROVE  crit'[s] = crit[s] /\ len'[s] = len[s]
  BY <1>0, <1>1 DEF SendRefused, Send, TypeOK
<1>2. ASSUME NEW i \in Node, TaskNotes(i)
      PROVE  crit'[s] = IF len'[s] = 0 THEN 0 ELSE 1
  <2>1. CASE i = s
    <3>1. len[s] \in Nat /\ Len(rx[s]) \in Nat /\ Len(rx[s]) > len[s] /\ len'[s] = Len(rx[s])
      BY <1>0, <1>2, <2>1 DEF TaskNotes, TypeOK
    <3>2. crit'[s] = IF len[s] = 0 THEN Entered(crit[s]) ELSE crit[s]
      BY <1>0, <1>2, <2>1 DEF TaskNotes, TypeOK
    <3> QED BY <1>0, <3>1, <3>2
  <2>2. CASE i # s
    BY <1>0, <1>2, <2>2 DEF TaskNotes, TypeOK
  <2> QED BY <2>1, <2>2
<1>3. ASSUME MasterTask \/ MasterTimeout
      PROVE  crit'[s] = crit[s] /\ len'[s] = len[s]
  BY <1>0, <1>3 DEF MasterTask, MasterTimeout, MasterFrame, Leave, TypeOK
<1>4. ASSUME NEW i \in Node, SlaveTakes(i)
      PROVE  crit'[s] = IF len'[s] = 0 THEN 0 ELSE 1
  BY <1>0, <1>4 DEF SlaveTakes, Leave, TypeOK
<1>5. ASSUME NEW i \in Node, Arrive(i) \/ Fault(i) PROVE UNCHANGED <<crit, len>>
  BY <1>5 DEF Arrive, Fault
<1> QED BY <1>0, <1>1, <1>2, <1>3, <1>4, <1>5 DEF Next, Task, SlaveSkips, SlaveServes, vars

-----------------------------------------------------------------------------
(* The exchange, step by step *)

NoHead == \A i \in Node, k \in Nat : ~RxHead(i, k) /\ ~AirHead(i, k)

LEMMA RxShift ==
  ASSUME TypeOK, NEW i \in Node, NEW count \in Nat, rx' = [rx EXCEPT ![i] = Rest(i, count)]
  PROVE  /\ \A k \in DOMAIN rx'[i] :
              k \in Nat /\ k + count \in DOMAIN rx[i] /\ rx'[i][k] = rx[i][k + count]
         /\ \A j \in Node \ {i} : rx'[j] = rx[j]
<1>1. rx'[i] = Rest(i, count) /\ \A j \in Node \ {i} : rx'[j] = rx[j]
  BY DEF TypeOK
<1> QED BY <1>1, RestOf

\* Pieces read from a queue take no head with them that they should leave, and
\* bring none.
LEMMA HeadsShift ==
  ASSUME TypeOK, NEW i \in Node, NEW count \in Nat, rx' = [rx EXCEPT ![i] = Rest(i, count)]
  PROVE  /\ \A k \in Nat : RxHead(i, k)' => RxHead(i, k + count) /\ rx'[i][k] = rx[i][k + count]
         /\ \A j \in Node \ {i}, k \in Nat : RxHead(j, k)' <=> RxHead(j, k)
BY RxShift DEF RxHead

LEMMA CarriedGrows ==
  ASSUME TypeOK, RepliesCarried, \A e \in executed : e \in executed',
         NEW i \in Node, NEW count \in Nat, rx' = [rx EXCEPT ![i] = Rest(i, count)]
  PROVE  \A j \in Node : \A k \in DOMAIN rx'[j] : Carried(rx'[j][k], executed')
<1>1. \A j \in Node : \A k \in DOMAIN rx[j] : Carried(rx[j][k], executed')
  BY DEF RepliesCarried, Carried
<1>2. \A k \in DOMAIN rx'[i] : k + count \in DOMAIN rx[i] /\ rx'[i][k] = rx[i][k + count]
  BY RxShift
<1>3. \A j \in Node \ {i} : rx'[j] = rx[j]
  BY RxShift
<1>4. \A k \in DOMAIN rx'[i] : Carried(rx'[i][k], executed')
  BY <1>1, <1>2
<1> QED BY <1>1, <1>3, <1>4

LEMMA SendRefusedStep ==
  ASSUME IInv, NEW r \in Request, SendRefused(r)
  PROVE  Exchange'
<1> USE DEF IInv, Exchange
<1>1. UNCHANGED <<rx, air, pending, sends, called, executed>> /\ ~clean'
  BY DEF SendRefused
<1>2. RepliesCarried' /\ PendingIsLast'
  BY <1>1 DEF RepliesCarried, PendingIsLast, Busy
<1>3. CalledBefore' /\ CalledWithOwn' /\ SuccessExecuted'
  BY <1>1 DEF CalledBefore, CalledWithOwn, SuccessExecuted, Busy
<1> QED BY <1>1, <1>2, <1>3

\* No step of the master's or a slave's that keeps what the exchange is made of
\* disturbs it.
LEMMA Untouched ==
  ASSUME Exchange, UNCHANGED <<rx, air, pending, sends, called, executed, clean>>
  PROVE  Exchange'
<1> USE DEF Exchange
<1>1. RepliesCarried' /\ PendingIsLast'
  BY DEF RepliesCarried, PendingIsLast, Busy
<1>2. CalledBefore' /\ CalledWithOwn' /\ SuccessExecuted'
  BY DEF CalledBefore, CalledWithOwn, SuccessExecuted, Busy
<1>3. clean' => OneHead'
  BY DEF OneHead, RxHead, AirHead, Busy
<1> QED BY <1>1, <1>2, <1>3

LEMMA SendStep ==
  ASSUME IInv, NEW r \in Request, Send(r)
  PROVE  Exchange'
<1> USE DEF IInv, Exchange
<1> DEFINE f == [n |-> sends + 1, req |-> r, from |-> Master, exc |-> FALSE]
           p == [n |-> sends + 1, req |-> r]
<1>1. f \in Frame /\ f.from = Master /\ f.n = sends + 1 /\ f.req = r
  BY AskedIsFrame, Nodes DEF Send
<1>2. p.n = sends + 1 /\ p.req = r /\ p # NoRequest /\ sends \in Nat
  BY DEF TypeOK, NoRequest
<1>3. /\ ~Busy /\ sends' = sends + 1 /\ air' = OnAir(f)
      /\ UNCHANGED <<rx, called, executed>>
  BY DEF Send
<1>4. pending' = IF Waits(r) /\ r.slave # 0 THEN p ELSE NoRequest
  BY DEF Send
<1>5. clean' => clean /\ Waits(r)
  BY DEF Send
<1>6. \A i \in Node :
        /\ i = Master => air'[i] = air[i]
        /\ \A k \in DOMAIN air'[i] :
             \/ k \in DOMAIN air[i] /\ air'[i][k] = air[i][k]
             \/ air'[i][k].frame = f /\ (air'[i][k].part = "head" => k = Len(air[i]) + 1)
  <2> HIDE DEF f
  <2> SUFFICES ASSUME NEW i \in Node
               PROVE  /\ i = Master => air'[i] = air[i]
                      /\ \A k \in DOMAIN air'[i] :
                           \/ k \in DOMAIN air[i] /\ air'[i][k] = air[i][k]
                           \/ /\ air'[i][k].frame = f
                              /\ air'[i][k].part = "head" => k = Len(air[i]) + 1
    OBVIOUS
  <2>1. air'[i] = OnAir(f)[i]
    BY <1>3
  <2> QED BY <1>1, <2>1, OnAirOf
<1> HIDE DEF f, p
<1>7. RepliesCarried'
  <2>1. \A i \in Node : \A k \in DOMAIN air'[i] : Carried(air'[i][k], executed')
    BY <1>1, <1>3, <1>6 DEF RepliesCarried, Carried
  <2> QED BY <1>3, <2>1 DEF RepliesCarried
<1>8. PendingIsLast'
  BY <1>2, <1>3, <1>4 DEF PendingIsLast, Busy, Master
<1>9. CalledBefore'
  <2>1. \A k \in DOMAIN called : called[k].for.n \in Nat /\ called[k].for.n <= sends
    <3>1. called \in Seq(Call)
      BY DEF TypeOK, Call
    <3>2. \A k \in DOMAIN called : called[k] \in Call
      BY <3>1
    <3>3. \A c \in Call : c.for.n \in Nat
      BY DEF Call, Sent
    <3> QED BY <3>2, <3>3 DEF CalledBefore
  <2>2. \A k \in DOMAIN called : called[k].for.n <= sends + 1 /\ called[k].for.n # sends + 1
    BY <1>2, <2>1
  <2>3. Busy' => pending'.n = sends + 1
    BY <1>2, <1>4 DEF Busy
  <2> QED BY <1>3, <2>2, <2>3 DEF CalledBefore
<1>10. CalledWithOwn' /\ SuccessExecuted'
  BY <1>3, <1>5 DEF CalledWithOwn, SuccessExecuted
<1>11. ASSUME clean' PROVE OneHead'
  <2>1. NoHead
    BY <1>3, <1>5, <1>11 DEF OneHead, NoHead
  <2>2. \A i \in Node, k \in Nat : ~RxHead(i, k)'
    BY <1>3, <2>1 DEF NoHead, RxHead
  <2>3. ASSUME NEW i \in Node, NEW k \in Nat, AirHead(i, k)'
        PROVE  /\ i = r.slave /\ i # Master /\ k = Len(air[i]) + 1
               /\ air'[i][k].frame = f
    <3>1. k \in DOMAIN air'[i] /\ Telling(i, air'[i][k])
      BY <2>3 DEF AirHead
    <3>2. ~(k \in DOMAIN air[i] /\ air'[i][k] = air[i][k])
      BY <2>1, <3>1 DEF NoHead, AirHead
    <3>3. i # Master
      BY <1>6, <3>1, <3>2
    <3> QED BY <1>1, <1>6, <3>1, <3>2, <3>3 DEF Telling
  <2>4. \A i \in Node, k \in Nat : AirHead(i, k)' => Busy' /\ air'[i][k].frame.n = pending'.n
    BY <1>1, <1>2, <1>4, <1>5, <1>11, <2>3 DEF Busy, Master
  <2>5. \A i, j \in Node, k, l \in Nat : AirHead(i, k)' /\ AirHead(j, l)' => i = j /\ k = l
    BY <2>3
  <2> QED BY <2>2, <2>4, <2>5 DEF OneHead
<1> QED BY <1>7, <1>8, <1>9, <1>10, <1>11

\* A response that is not for the master, or no whole frame.
LEMMA NothingTaken ==
  ASSUME IInv, NEW i \in Node, NEW count \in Nat, rx' = [rx EXCEPT ![i] = Rest(i, count)],
         UNCHANGED <<air, pending, sends, called, executed, clean>>
  PROVE  Exchange'
<1> USE DEF IInv, Exchange
<1>1. RepliesCarried'
  <2>1. \A e \in executed : e \in executed'
    OBVIOUS
  <2>2. \A j \in Node : \A k \in DOMAIN rx'[j] : Carried(rx'[j][k], executed')
    BY <2>1, CarriedGrows
  <2> QED BY <2>2 DEF RepliesCarried
<1>2. PendingIsLast' /\ CalledBefore' /\ CalledWithOwn' /\ SuccessExecuted'
  BY DEF PendingIsLast, CalledBefore, CalledWithOwn, SuccessExecuted, Busy
<1>3. ASSUME clean' PROVE OneHead'
  <2>1. OneHead
    BY <1>3
  <2>2. \A k \in Nat : RxHead(i, k)' => RxHead(i, k + count) /\ rx'[i][k] = rx[i][k + count]
    BY HeadsShift
  <2>3. \A j \in Node \ {i}, k \in Nat : RxHead(j, k)' => RxHead(j, k) /\ rx'[j][k] = rx[j][k]
    BY HeadsShift, RxShift
  <2>4. \A j \in Node, k \in Nat :
          RxHead(j, k)' => \E l \in Nat : /\ RxHead(j, l) /\ rx'[j][k] = rx[j][l]
                                          /\ l = IF j = i THEN k + count ELSE k
    BY <2>2, <2>3
  <2>5. \A j \in Node, k \in Nat : AirHead(j, k)' <=> AirHead(j, k)
    BY DEF AirHead
  <2>6. \A j, m \in Node, k, l \in Nat : RxHead(j, k)' /\ RxHead(m, l)' => j = m /\ k = l
    BY <2>1, <2>4 DEF OneHead
  <2>7. \A j \in Node, k \in Nat : RxHead(j, k)' => Busy' /\ rx'[j][k].frame.n = pending'.n
    BY <2>1, <2>4 DEF OneHead, Busy
  <2>8. \A j, m \in Node, k, l \in Nat : ~(RxHead(j, k)' /\ AirHead(m, l)')
    BY <2>1, <2>4, <2>5 DEF OneHead
  <2>9. /\ \A j \in Node, k \in Nat : AirHead(j, k)' => Busy' /\ air'[j][k].frame.n = pending'.n
        /\ \A j, m \in Node, k, l \in Nat : AirHead(j, k)' /\ AirHead(m, l)' => j = m /\ k = l
    BY <2>1, <2>5 DEF OneHead, Busy
  <2> QED BY <2>6, <2>7, <2>8, <2>9 DEF OneHead
<1> QED BY <1>1, <1>2, <1>3

\* The frame at the head of a queue that is for its reader is the only one left.
LEMMA OnlyHead ==
  ASSUME TypeOK, OneHead, NEW i \in Node, RxHead(i, 1),
         rx' = [rx EXCEPT ![i] = Rest(i, 2)]
  PROVE  /\ Busy /\ rx[i][1].frame.n = pending.n
         /\ \A j \in Node, k \in Nat : ~RxHead(j, k)' /\ ~AirHead(j, k)
<1>1. Busy /\ rx[i][1].frame.n = pending.n
  BY DEF OneHead
<1>2. \A k \in Nat : RxHead(i, k)' => RxHead(i, k + 2)
  BY HeadsShift
<1>3. \A j \in Node \ {i}, k \in Nat : RxHead(j, k)' => RxHead(j, k)
  BY HeadsShift
<1>4. \A j \in Node, k \in Nat : RxHead(j, k) => j = i /\ k = 1
  BY DEF OneHead
<1>5. \A k \in Nat : k + 2 # 1 /\ k + 2 \in Nat
  OBVIOUS
<1>6. \A j \in Node, k \in Nat : ~AirHead(j, k)
  BY DEF OneHead
<1> QED BY <1>1, <1>2, <1>3, <1>4, <1>5, <1>6

LEMMA MasterTaskStep ==
  ASSUME IInv, MasterTask
  PROVE  Exchange'
<1> USE DEF IInv, Exchange
<1>1. MasterFrame(pending, len[Master])
  BY DEF MasterTask
<1>2. UNCHANGED <<air, sends, executed, faults, clean>>
  BY DEF MasterTask
<1>3. len[Master] \in Nat /\ Master \in Node
  BY Nodes DEF TypeOK
<1>4. rx' = [rx EXCEPT ![Master] = Rest(Master, len[Master])]
  BY <1>1 DEF MasterFrame
<1>5. CASE pending' = pending /\ called' = called
  BY <1>2, <1>3, <1>4, <1>5, NothingTaken
<1>6. ASSUME NEW f \in Frame, Whole(Take(Master, len[Master]), f), ForMaster(pending, f),
             Callback(pending, MasterPDU(pending.req, f), f), pending' = NoRequest
      PROVE  Exchange'
  <2>1. /\ len[Master] = 2 /\ 1 \in DOMAIN rx[Master]
        /\ rx[Master][1].frame = f /\ rx[Master][1].part = "head"
    BY <1>3, <1>6, WholeTaken
  <2>2. RxHead(Master, 1)
    BY <2>1 DEF RxHead, Telling
  <2>3. Busy /\ ~Busy' /\ f.from = pending.req.slave /\ f.req.fc = pending.req.fc
    BY <1>6 DEF ForMaster, Busy
  <2>4. pending \in Sent /\ MasterPDU(pending.req, f) \in Result
    BY CodeIsResult DEF TypeOK
  <2>5. /\ called' \in Seq(Call) /\ Len(called) \in Nat
        /\ \A k \in DOMAIN called' :
             \/ k \in DOMAIN called /\ called'[k] = called[k]
             \/ /\ k = Len(called) + 1 /\ called'[k].for = pending
                /\ called'[k].code = MasterPDU(pending.req, f) /\ called'[k].with = f
    BY <1>6, <2>4, CallbackOf
  <2>6. RepliesCarried'
    <3>1. \A e \in executed : e \in executed'
      BY <1>2
    <3>2. \A j \in Node : \A k \in DOMAIN rx'[j] : Carried(rx'[j][k], executed')
      BY <1>3, <1>4, <3>1, CarriedGrows
    <3> QED BY <1>2, <3>2 DEF RepliesCarried
  <2>7. PendingIsLast'
    BY <2>3 DEF PendingIsLast
  <2>8. CalledBefore'
    <3>1. pending.n = sends /\ sends \in Nat
      BY <2>3 DEF PendingIsLast, TypeOK
    <3>2. \A k \in DOMAIN called : called[k].for.n <= sends /\ called[k].for.n # pending.n
      BY <2>3 DEF CalledBefore
    <3>3. \A k \in DOMAIN called' : called'[k].for.n <= sends
      BY <2>5, <3>1, <3>2
    <3>4. \A j, k \in DOMAIN called' : j # k => called'[j].for.n # called'[k].for.n
      BY <2>5, <3>2 DEF CalledBefore
    <3> QED BY <1>2, <2>3, <3>3, <3>4 DEF CalledBefore
  <2>9. CalledWithOwn'
    <3> SUFFICES ASSUME clean, NEW k \in DOMAIN called'
                 PROVE  called'[k].with.n = called'[k].for.n
      BY <1>2 DEF CalledWithOwn
    <3>1. f.n = pending.n
      BY <1>3, <1>4, <2>1, <2>2, OnlyHead
    <3> QED BY <2>5, <3>1 DEF CalledWithOwn
  <2>10. SuccessExecuted'
    <3> SUFFICES ASSUME NEW k \in DOMAIN called', called'[k].code = "EX_SUCCESS"
                 PROVE  /\ <<called'[k].with.n, called'[k].for.req.slave>> \in executed
                        /\ called'[k].with.req.fc = called'[k].for.req.fc
      BY <1>2 DEF SuccessExecuted
    <3>1. MasterPDU(pending.req, f) = "EX_SUCCESS" => ~f.exc
      BY DEF MasterPDU
    <3>2. f.from # Master
      BY <2>3 DEF PendingIsLast
    <3>3. ~f.exc => <<f.n, f.from>> \in executed
      BY <1>3, <2>1, <3>2 DEF RepliesCarried, Carried
    <3> QED BY <2>3, <2>5, <3>1, <3>3 DEF SuccessExecuted
  <2>11. ASSUME clean' PROVE OneHead'
    <3>1. \A j \in Node, k \in Nat : ~RxHead(j, k)' /\ ~AirHead(j, k)
      BY <1>2, <1>3, <1>4, <2>1, <2>2, <2>11, OnlyHead
    <3>2. \A j \in Node, k \in Nat : ~AirHead(j, k)'
      BY <1>2, <3>1 DEF AirHead
    <3> QED BY <3>1, <3>2 DEF OneHead
  <2> QED BY <2>6, <2>7, <2>8, <2>9, <2>10, <2>11
<1> QED BY <1>1, <1>5, <1>6, MasterFrameOf

LEMMA MasterTimeoutStep ==
  ASSUME IInv, MasterTimeout
  PROVE  Exchange'
<1> USE DEF IInv, Exchange
<1>1. /\ Busy /\ pending' = NoRequest /\ ~clean'
      /\ Callback(pending, "EX_TIMEOUT", NoRequest)
      /\ UNCHANGED <<air, sends, executed>>
  BY DEF MasterTimeout
<1>2. PICK count \in Nat : rx' = [rx EXCEPT ![Master] = Rest(Master, count)]
  BY TimeoutCount
<1>3. pending \in Sent /\ "EX_TIMEOUT" \in Result
  BY DEF TypeOK, Result
<1>4. /\ called' \in Seq(Call) /\ Len(called) \in Nat
      /\ \A k \in DOMAIN called' :
           \/ k \in DOMAIN called /\ called'[k] = called[k]
           \/ /\ k = Len(called) + 1 /\ called'[k].for = pending
              /\ called'[k].code = "EX_TIMEOUT"
  BY <1>1, <1>3, CallbackOf
<1>5. RepliesCarried'
  <2>1. \A e \in executed : e \in executed'
    BY <1>1
  <2>2. \A j \in Node : \A k \in DOMAIN rx'[j] : Carried(rx'[j][k], executed')
    BY <1>2, <2>1, Nodes, CarriedGrows
  <2> QED BY <1>1, <2>2 DEF RepliesCarried
<1>6. ~Busy'
  BY <1>1 DEF Busy
<1>7. CalledBefore'
  <2>1. pending.n = sends /\ sends \in Nat
    BY <1>1 DEF PendingIsLast, TypeOK
  <2>2. \A k \in DOMAIN called : called[k].for.n <= sends /\ called[k].for.n # pending.n
    BY <1>1 DEF CalledBefore
  <2>3. \A k \in DOMAIN called' : called'[k].for.n <= sends
    BY <1>4, <2>1, <2>2
  <2>4. \A j, k \in DOMAIN called' : j # k => called'[j].for.n # called'[k].for.n
    BY <1>4, <2>2 DEF CalledBefore
  <2> QED BY <1>1, <1>6, <2>3, <2>4 DEF CalledBefore
<1>8. SuccessExecuted'
  BY <1>1, <1>4 DEF SuccessExecuted
<1> QED BY <1>1, <1>5, <1>6, <1>7, <1>8 DEF PendingIsLast, CalledWithOwn

LEMMA SlaveSkipsStep ==
  ASSUME IInv, NEW i \in Node, SlaveSkips(i)
  PROVE  Exchange'
<1>1. /\ rx' = [rx EXCEPT ![i] = Rest(i, len[i])]
      /\ UNCHANGED <<air, pending, sends, called, executed, clean>>
  BY DEF SlaveSkips, SlaveTakes
<1>2. len[i] \in Nat
  BY DEF IInv, TypeOK
<1> QED BY <1>1, <1>2, NothingTaken

\* A request becomes its response, or an executed broadcast.
LEMMA SlaveServesStep ==
  ASSUME IInv, NEW i \in Node, NEW exc \in BOOLEAN, SlaveServes(i, exc)
  PROVE  Exchange'
<1> USE DEF IInv, Exchange
<1>1. /\ rx' = [rx EXCEPT ![i] = Rest(i, len[i])] /\ i # Master
      /\ UNCHANGED <<pending, sends, called, clean>>
  BY DEF SlaveServes, SlaveTakes
<1>2. PICK f \in FramesIn(rx[i]) :
        /\ Whole(Take(i, len[i]), f) /\ Serves(i, f)
        /\ executed' = IF exc THEN executed ELSE executed \cup {<<f.n, i>>}
        /\ air' = IF f.req.slave = 0 THEN air ELSE OnAir([f EXCEPT !.from = i, !.exc = exc])
  BY DEF SlaveServes
<1>3. /\ len[i] = 2 /\ f \in Frame /\ 1 \in DOMAIN rx[i]
      /\ rx[i][1].frame = f /\ rx[i][1].part = "head"
  BY <1>2, WholeTaken
<1>4. /\ \A e \in executed : e \in executed'
      /\ ~exc => <<f.n, i>> \in executed'
      /\ f.from = Master /\ f.req.slave \in {0, i}
  BY <1>2 DEF Serves
<1>5. /\ PendingIsLast' /\ CalledBefore' /\ CalledWithOwn'
  BY <1>1 DEF PendingIsLast, CalledBefore, CalledWithOwn, Busy
<1>6. SuccessExecuted'
  <2>1. \A k \in DOMAIN called : called'[k] = called[k] /\ DOMAIN called' = DOMAIN called
    BY <1>1
  <2> QED BY <1>1, <1>4, <2>1 DEF SuccessExecuted
<1>7. \A j \in Node : \A k \in DOMAIN rx'[j] : Carried(rx'[j][k], executed')
  BY <1>1, <1>3, <1>4, CarriedGrows
<1>8. \A j \in Node : \A k \in DOMAIN air[j] : Carried(air[j][k], executed')
  BY <1>4 DEF RepliesCarried, Carried
<1>9. CASE f.req.slave = 0
  <2>1. air' = air
    BY <1>2, <1>9
  <2>2. RepliesCarried'
    BY <1>7, <1>8, <2>1 DEF RepliesCarried
  <2>3. ASSUME clean' PROVE OneHead'
    <3>1. OneHead
      BY <1>1, <2>3
    <3>2. \A k \in Nat : RxHead(i, k)' => RxHead(i, k + 2) /\ rx'[i][k] = rx[i][k + 2]
      BY <1>1, <1>3, HeadsShift
    <3>3. \A j \in Node \ {i}, k \in Nat : RxHead(j, k)' => RxHead(j, k) /\ rx'[j][k] = rx[j][k]
      BY <1>1, <1>3, HeadsShift, RxShift
    <3>4. \A j \in Node, k \in Nat :
            RxHead(j, k)' => \E l \in Nat : /\ RxHead(j, l) /\ rx'[j][k] = rx[j][l]
                                            /\ l = IF j = i THEN k + 2 ELSE k
      BY <3>2, <3>3
    <3>5. \A j \in Node, k \in Nat : AirHead(j, k)' <=> AirHead(j, k)
      BY <2>1 DEF AirHead
    <3>6. \A j, m \in Node, k, l \in Nat : RxHead(j, k)' /\ RxHead(m, l)' => j = m /\ k = l
      BY <3>1, <3>4 DEF OneHead
    <3>7. \A j \in Node, k \in Nat : RxHead(j, k)' => Busy' /\ rx'[j][k].frame.n = pending'.n
      BY <1>1, <3>1, <3>4 DEF OneHead, Busy
    <3>8. \A j, m \in Node, k, l \in Nat : ~(RxHead(j, k)' /\ AirHead(m, l)')
      BY <3>1, <3>4, <3>5 DEF OneHead
    <3>9. /\ \A j \in Node, k \in Nat : AirHead(j, k)' => Busy' /\ air'[j][k].frame.n = pending'.n
          /\ \A j, m \in Node, k, l \in Nat : AirHead(j, k)' /\ AirHead(m, l)' => j = m /\ k = l
      BY <1>1, <2>1, <3>1, <3>5 DEF OneHead, Busy
    <3> QED BY <3>6, <3>7, <3>8, <3>9 DEF OneHead
  <2> QED BY <1>5, <1>6, <2>2, <2>3
<1>10. CASE f.req.slave # 0
  <2> DEFINE g == [f EXCEPT !.from = i, !.exc = exc]
  <2>1. g \in Frame /\ g.from = i /\ g.n = f.n /\ g.exc = exc
    BY <1>3 DEF Frame
  <2>2. air' = OnAir(g)
    BY <1>2, <1>10
  <2> HIDE DEF g
  <2>3. \A j \in Node : \A k \in DOMAIN air'[j] :
          \/ k \in DOMAIN air[j] /\ air'[j][k] = air[j][k]
          \/ air'[j][k].frame = g /\ (air'[j][k].part = "head" => k = Len(air[j]) + 1)
    BY <2>1, <2>2, OnAirOf
  <2>4. RepliesCarried'
    <3>1. \A p : p.frame = g => Carried(p, executed')
      BY <1>4, <2>1 DEF Carried
    <3>2. \A j \in Node : \A k \in DOMAIN air'[j] : Carried(air'[j][k], executed')
      BY <1>8, <2>3, <3>1
    <3> QED BY <1>7, <3>2 DEF RepliesCarried
  <2>5. ASSUME clean' PROVE OneHead'
    <3>1. RxHead(i, 1)
      BY <1>3, <1>4, <1>10 DEF RxHead, Telling
    <3>2. OneHead
      BY <1>1, <2>5
    <3>3. /\ Busy /\ f.n = pending.n
          /\ \A j \in Node, k \in Nat : ~RxHead(j, k)' /\ ~AirHead(j, k)
      BY <1>1, <1>3, <3>1, <3>2, OnlyHead
    <3>4. ASSUME NEW j \in Node, NEW k \in Nat, AirHead(j, k)'
          PROVE  j = Master /\ k = Len(air[j]) + 1 /\ air'[j][k].frame = g
      <4>1. k \in DOMAIN air'[j] /\ Telling(j, air'[j][k])
        BY <3>4 DEF AirHead
      <4>2. ~(k \in DOMAIN air[j] /\ air'[j][k] = air[j][k])
        BY <3>3, <4>1 DEF AirHead
      <4> QED BY <1>1, <2>1, <2>3, <4>1, <4>2 DEF Telling
    <3>5. \A j \in Node, k \in Nat : AirHead(j, k)' => Busy' /\ air'[j][k].frame.n = pending'.n
      BY <1>1, <2>1, <3>3, <3>4 DEF Busy
    <3>6. \A j, m \in Node, k, l \in Nat : AirHead(j, k)' /\ AirHead(m, l)' => j = m /\ k = l
      BY <3>4
    <3> QED BY <3>3, <3>5, <3>6 DEF OneHead
  <2> QED BY <1>5, <1>6, <2>4, <2>5
<1> QED BY <1>9, <1>10

LEMMA ArriveStep ==
  ASSUME IInv, NEW i \in Node, Arrive(i)
  PROVE  Exchange'
<1> USE DEF IInv, Exchange
<1>1. /\ air[i] # <<>>
      /\ rx' = [rx EXCEPT ![i] = Append(@, Head(air[i]))]
      /\ air' = [air EXCEPT ![i] = Tail(@)]
      /\ UNCHANGED <<pending, sends, called, executed, clean>>
  BY DEF Arrive
<1>2. rx[i] \in Seq(Piece) /\ air[i] \in Seq(Piece)
  BY DEF TypeOK
<1>3. /\ rx'[i] = Append(rx[i], Head(air[i])) /\ air'[i] = Tail(air[i])
      /\ \A j \in Node \ {i} : rx'[j] = rx[j] /\ air'[j] = air[j]
  BY <1>1 DEF TypeOK
<1>4. /\ 1 \in DOMAIN air[i] /\ Head(air[i]) = air[i][1] /\ Head(air[i]) \in Piece
      /\ \A k \in DOMAIN air'[i] :
           k \in Nat /\ k + 1 \in DOMAIN air[i] /\ air'[i][k] = air[i][k + 1]
  <2> DEFINE s == air[i]
             u == air'[i]
  <2>1. s \in Seq(Piece) /\ s # <<>> /\ u = Tail(s)
    BY <1>1, <1>2, <1>3
  <2> HIDE DEF s, u
  <2>2. /\ 1 \in DOMAIN s /\ Head(s) = s[1] /\ Head(s) \in Piece
        /\ \A k \in DOMAIN u : k \in Nat /\ k + 1 \in DOMAIN s /\ u[k] = s[k + 1]
    BY <2>1, TailElements
  <2> QED BY <2>2 DEF s, u
<1>5. \A k \in DOMAIN rx'[i] :
        \/ k \in DOMAIN rx[i] /\ rx'[i][k] = rx[i][k]
        \/ k = Len(rx[i]) + 1 /\ rx'[i][k] = air[i][1]
  BY <1>2, <1>3, <1>4, AppendElements
<1>6. RepliesCarried'
  <2>1. \A k \in DOMAIN rx'[i] : Carried(rx'[i][k], executed)
    BY <1>4, <1>5 DEF RepliesCarried
  <2>2. \A k \in DOMAIN air'[i] : Carried(air'[i][k], executed)
    BY <1>4 DEF RepliesCarried
  <2> QED BY <1>1, <1>3, <2>1, <2>2 DEF RepliesCarried
<1>7. PendingIsLast' /\ CalledBefore' /\ CalledWithOwn' /\ SuccessExecuted'
  BY <1>1 DEF PendingIsLast, CalledBefore, CalledWithOwn, SuccessExecuted, Busy
<1>8. ASSUME clean' PROVE OneHead'
  <2>1. OneHead
    BY <1>1, <1>8
  <2>2. ASSUME NEW j \in Node, NEW k \in Nat, RxHead(j, k)'
        PROVE  \/ RxHead(j, k) /\ rx'[j][k] = rx[j][k]
               \/ /\ j = i /\ k = Len(rx[i]) + 1
                  /\ AirHead(i, 1) /\ rx'[j][k] = air[i][1]
    BY <1>3, <1>4, <1>5, <2>2 DEF RxHead, AirHead
  <2>3. ASSUME NEW j \in Node, NEW k \in Nat, AirHead(j, k)'
        PROVE  \/ j # i /\ AirHead(j, k) /\ air'[j][k] = air[j][k]
               \/ j = i /\ AirHead(i, k + 1) /\ air'[j][k] = air[i][k + 1] /\ k + 1 \in Nat \ {1}
    <3>1. k \in DOMAIN air'[j] /\ Telling(j, air'[j][k])
      BY <2>3 DEF AirHead
    <3>2. CASE j # i
      BY <1>3, <3>1, <3>2 DEF AirHead
    <3>3. CASE j = i
      <4>1. 0 \notin DOMAIN air'[i]
        BY <1>2, <1>3
      <4>2. k + 1 \in Nat \ {1}
        BY <3>1, <3>3, <4>1
      <4> QED BY <1>4, <3>1, <3>3, <4>2 DEF AirHead
    <3> QED BY <3>2, <3>3
  <2>4. \A j \in Node, k \in Nat : RxHead(j, k)' => Busy' /\ rx'[j][k].frame.n = pending'.n
    <3>1. /\ \A j \in Node, k \in Nat : RxHead(j, k) => Busy /\ rx[j][k].frame.n = pending.n
          /\ AirHead(i, 1) => Busy /\ air[i][1].frame.n = pending.n
      BY <2>1 DEF OneHead
    <3>2. pending' = pending /\ (Busy => Busy')
      BY <1>1 DEF Busy
    <3> QED BY <2>2, <3>1, <3>2
  <2>5. \A j \in Node, k \in Nat : AirHead(j, k)' => Busy' /\ air'[j][k].frame.n = pending'.n
    <3>1. \A j \in Node, k \in Nat : AirHead(j, k) => Busy /\ air[j][k].frame.n = pending.n
      BY <2>1 DEF OneHead
    <3>2. pending' = pending /\ (Busy => Busy')
      BY <1>1 DEF Busy
    <3> QED BY <2>3, <3>1, <3>2
  <2>6. \A j, m \in Node, k, l \in Nat : RxHead(j, k)' /\ RxHead(m, l)' => j = m /\ k = l
    BY <2>1, <2>2 DEF OneHead
  <2>7. \A j, m \in Node, k, l \in Nat : AirHead(j, k)' /\ AirHead(m, l)' => j = m /\ k = l
    BY <2>1, <2>3 DEF OneHead
  <2>8. \A j, m \in Node, k, l \in Nat : ~(RxHead(j, k)' /\ AirHead(m, l)')
    <3>1. \A j, m \in Node, k, l \in Nat :
            /\ ~(RxHead(j, k) /\ AirHead(m, l))
            /\ AirHead(i, 1) /\ AirHead(m, l) => m = i /\ l = 1
      BY <2>1 DEF OneHead
    <3> QED BY <2>2, <2>3, <3>1
  <2> QED BY <2>4, <2>5, <2>6, <2>7, <2>8 DEF OneHead
<1> QED BY <1>6, <1>7, <1>8

\* A piece is lost, or its part cannot be told any more.
LEMMA FaultStep ==
  ASSUME IInv, NEW i \in Node, Fault(i)
  PROVE  Exchange'
<1> USE DEF IInv, Exchange
<1>1. /\ air[i] # <<>>
      /\ UNCHANGED <<rx, pending, sends, called, executed, clean>>
      /\ \/ air' = [air EXCEPT ![i] = Tail(@)]
         \/ air' = [air EXCEPT ![i][1].part = "noise"]
  BY DEF Fault
<1>2. air[i] \in Seq(Piece) /\ 1 \in DOMAIN air[i]
  BY <1>1, TailElements DEF TypeOK
<1>3. \A j \in Node \ {i} : air'[j] = air[j]
  BY <1>1 DEF TypeOK
<1>4. PICK count \in {0, 1} : \A k \in DOMAIN air'[i] :
        /\ k \in Nat /\ k + count \in DOMAIN air[i]
        /\ air'[i][k].frame = air[i][k + count].frame
        /\ air'[i][k].part = "head" => air'[i][k] = air[i][k + count]
  <2>1. CASE air' = [air EXCEPT ![i] = Tail(@)]
    <3>1. air'[i] = Tail(air[i])
      BY <2>1 DEF TypeOK
    <3>2. \A k \in DOMAIN air'[i] :
            k \in Nat /\ k + 1 \in DOMAIN air[i] /\ air'[i][k] = air[i][k + 1]
      BY <1>1, <1>2, <3>1, TailElements
    <3> QED BY <3>2
  <2>2. CASE air' = [air EXCEPT ![i][1].part = "noise"]
    <3> DEFINE x == [air[i][1] EXCEPT !.part = "noise"]
    <3>1. x.part = "noise" /\ x.frame = air[i][1].frame
      <4>1. air[i][1] \in Piece
        BY <1>2
      <4> QED BY <4>1 DEF Piece
    <3>2. air'[i] = [air[i] EXCEPT ![1] = x]
      BY <2>2 DEF TypeOK
    <3> HIDE DEF x
    <3>3. DOMAIN air'[i] = DOMAIN air[i] /\ \A k \in DOMAIN air[i] : k \in Nat
      BY <1>2, <3>2
    <3>4. \A k \in DOMAIN air[i] : air'[i][k] = IF k = 1 THEN x ELSE air[i][k]
      BY <1>2, <3>2
    <3>5. \A k \in DOMAIN air[i] : k + 0 = k
      BY <3>3
    <3>6. ASSUME NEW k \in DOMAIN air'[i]
          PROVE  /\ k \in Nat /\ k + 0 \in DOMAIN air[i]
                 /\ air'[i][k].frame = air[i][k + 0].frame
                 /\ air'[i][k].part = "head" => air'[i][k] = air[i][k + 0]
      BY <3>1, <3>3, <3>4, <3>5
    <3> QED BY <3>6
  <2> QED BY <1>1, <2>1, <2>2
<1>5. RepliesCarried'
  <2>1. \A k \in DOMAIN air'[i] : Carried(air'[i][k], executed)
    BY <1>4 DEF RepliesCarried, Carried
  <2> QED BY <1>1, <1>3, <2>1 DEF RepliesCarried
<1>6. PendingIsLast' /\ CalledBefore' /\ CalledWithOwn' /\ SuccessExecuted'
  BY <1>1 DEF PendingIsLast, CalledBefore, CalledWithOwn, SuccessExecuted, Busy
<1>7. ASSUME clean' PROVE OneHead'
  <2>1. OneHead
    BY <1>1, <1>7
  <2>2. \A j \in Node, k \in Nat : RxHead(j, k)' <=> RxHead(j, k)
    BY <1>1 DEF RxHead
  <2>3. ASSUME NEW j \in Node, NEW k \in Nat, AirHead(j, k)'
        PROVE  \/ j # i /\ AirHead(j, k) /\ air'[j][k] = air[j][k]
               \/ j = i /\ AirHead(i, k + count) /\ air'[j][k] = air[i][k + count]
    <3>1. k \in DOMAIN air'[j] /\ Telling(j, air'[j][k]) /\ air'[j][k].part = "head"
      BY <2>3 DEF AirHead, Telling
    <3>2. CASE j # i
      BY <1>3, <3>1, <3>2 DEF AirHead
    <3>3. CASE j = i
      BY <1>4, <3>1, <3>3 DEF AirHead
    <3> QED BY <3>2, <3>3
  <2>4. \A j \in Node, k \in Nat : RxHead(j, k)' => Busy' /\ rx'[j][k].frame.n = pending'.n
    BY <1>1, <2>1, <2>2 DEF OneHead, Busy
  <2>5. \A j \in Node, k \in Nat : AirHead(j, k)' => Busy' /\ air'[j][k].frame.n = pending'.n
    BY <1>1, <2>1, <2>3 DEF OneHead, Busy
  <2>6. \A j, m \in Node, k, l \in Nat : RxHead(j, k)' /\ RxHead(m, l)' => j = m /\ k = l
    BY <2>1, <2>2 DEF OneHead
  <2>7. \A j, m \in Node, k, l \in Nat : AirHead(j, k)' /\ AirHead(m, l)' => j = m /\ k = l
    BY <2>1, <2>3 DEF OneHead
  <2>8. \A j, m \in Node, k, l \in Nat : ~(RxHead(j, k)' /\ AirHead(m, l)')
    BY <2>1, <2>2, <2>3 DEF OneHead
  <2> QED BY <2>4, <2>5, <2>6, <2>7, <2>8 DEF OneHead
<1> QED BY <1>5, <1>6, <1>7

-----------------------------------------------------------------------------
LEMMA Initially == Init => IInv
<1> SUFFICES ASSUME Init PROVE IInv
  OBVIOUS
<1>1. TypeOK
  <2>1. /\ len \in [Node -> Nat] /\ crit \in [Node -> Depth]
        /\ rx \in [Node -> Seq(Piece)] /\ air \in [Node -> Seq(Piece)]
    BY DEF Init, Depth
  <2>2. pending \in Sent
    BY NoRequestIsSent DEF Init
  <2>3. sends \in 0..MaxSends /\ faults \in 0..MaxFaults
    BY BoundAssumption DEF Init
  <2>4. clean \in BOOLEAN
    BY DEF Init
  <2>5. called = <<>> /\ executed = {}
    BY DEF Init
  <2> QED BY <2>1, <2>2, <2>3, <2>4, <2>5 DEF TypeOK
<1>2. SlaveSectionPaired
  BY DEF Init, SlaveSectionPaired, Node
<1>3. \A i \in Node : rx[i] = <<>> /\ air[i] = <<>>
  BY DEF Init
<1>4. RepliesCarried /\ OneHead
  BY <1>3 DEF RepliesCarried, OneHead, RxHead, AirHead
<1>5. PendingIsLast /\ CalledBefore /\ CalledWithOwn /\ SuccessExecuted
  BY DEF Init, PendingIsLast, CalledBefore, CalledWithOwn, SuccessExecuted, Busy
<1> QED BY <1>1, <1>2, <1>4, <1>5 DEF IInv, Exchange

LEMMA Invariance == IInv /\ [Next]_vars => IInv'
<1> SUFFICES ASSUME IInv, [Next]_vars PROVE IInv'
  OBVIOUS
<1>1. TypeOK' /\ SlaveSectionPaired'
  BY TypeStep, SectionStep DEF IInv
<1>2. ASSUME NEW i \in Node, TaskNotes(i) PROVE Exchange'
  <2>1. UNCHANGED <<rx, air, pending, sends, called, executed, clean>>
    BY <1>2 DEF TaskNotes
  <2>2. Exchange
    BY DEF IInv
  <2> QED BY <2>1, <2>2, Untouched
<1>3. ASSUME UNCHANGED vars PROVE Exchange'
  <2>1. UNCHANGED <<rx, air, pending, sends, called, executed, clean>>
    BY <1>3 DEF vars
  <2>2. Exchange
    BY DEF IInv
  <2> QED BY <2>1, <2>2, Untouched
<1>4. Exchange'
  BY <1>2, <1>3, SendRefusedStep, SendStep, MasterTaskStep, MasterTimeoutStep, SlaveSkipsStep,
    SlaveServesStep, ArriveStep, FaultStep DEF Next, Task
<1> QED BY <1>1, <1>4 DEF IInv

LEMMA Invariant == Spec => []IInv
BY Initially, Invariance, PTL DEF Spec

\* NodesOK: every variable of master, slaves and bus keeps its type, and a slave is
\* inside the critical section of its task() exactly while it collects a frame.
THEOREM NodesAreOK == Spec => []NodesOK
BY Invariant, PTL DEF IInv, NodesOK

\* CallbackTrue: no request's callback is made twice, a success stands for a request
\* the slave carried out, and while none was refused, unawaited or timed out the
\* response is the one to that very request.
THEOREM CallbacksAreTrue == Spec => []CallbackTrue
<1>1. IInv => CallbackTrue
  BY DEF IInv, Exchange, CallbackTrue, CalledOnceWithOwn, CalledBefore, CalledWithOwn
<1> QED BY <1>1, Invariant, PTL
=============================================================================
